------------------------------- MODULE MCIde -------------------------------
(***************************************************************************)
(* Two PCI slots with two functions each: no controller, one, two, and one *)
(* behind a missing function 0.  One drive, two on a channel, none, drives *)
(* that IDENTIFY does not find, and empty channels that read 0x7F or 0xFF. *)
(***************************************************************************)
EXTENDS Ide, TLC

SomeFunctions == {0, 1} \X {0, 1}

Pci(a, b, c, d) == (<<0, 0>> :> a @@ <<0, 1>> :> b @@ <<1, 0>> :> c @@ <<1, 1>> :> d)

SomePciConfigs ==
  {Pci("other", "ide", "absent", "absent"),
   Pci("other", "ide", "ide", "absent"),
   Pci("other", "absent", "absent", "ide")}

Kind(a, b, c) ==
  [d \in 0 .. 3 |-> CASE d = 0 -> a [] d = 1 -> b [] d = 2 -> c [] OTHER -> "none"]

SomeKinds ==
  {Kind(a, b, "none") : a \in {"ata", "packet", "none"}, b \in {"ata", "none"}}
  \cup {Kind("none", "none", "ata"), Kind("none", "chs", "none")}
  \cup {Kind(e, e, "ata") : e \in {"pulled", "floating"}}
=============================================================================
