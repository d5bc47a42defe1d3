----------------------------- MODULE MCPrograms -----------------------------
(***************************************************************************)
(* Pages of four bytes and blocks of up to eight pages; 64 for 2^32.  The  *)
(* images have no segment, one, two in every order and overlap, and one    *)
(* too many; tops with a class, without one, one whose double wraps around *)
(* to a class, and one behind the last address; files shorter and longer   *)
(* than what is read.                                                      *)
(***************************************************************************)
EXTENDS Programs

Seg(t, v, m, o, f) == [type |-> t, vaddr |-> v, memsz |-> m, offset |-> o, filesz |-> f]

Segments == {Seg(1, 0, 3, 0, 3), Seg(1, 2, 3, 1, 2), Seg(1, 5, 3, 3, 3), Seg(6, 1, 9, 0, 0)}

Elf(phdrs) == [header |-> "elf32lsb", phdrs |-> phdrs, size |-> 5]

SomeImages ==
  {Elf(<<>>)} \cup {Elf(<<s>>) : s \in Segments}
  \cup {Elf(<<s, t>>) : s \in Segments, t \in Segments}
  \cup {Elf(<<Seg(1, 0, 2, 0, 3)>>), Elf(<<Seg(1, 62, 3, 0, 2)>>),
        Elf(<<Seg(1, 30, 5, 0, 5)>>),
        Elf(<<Seg(1, 0, 1, 0, 1), Seg(1, 1, 1, 1, 1), Seg(1, 2, 1, 2, 1)>>),
        [header |-> "other", phdrs |-> <<>>, size |-> 2],
        [Elf(<<Seg(1, 0, 5, 0, 5)>>) EXCEPT !.size = 3]}
=============================================================================
