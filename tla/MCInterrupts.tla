---------------------------- MODULE MCInterrupts ----------------------------
(***************************************************************************)
(* Lines 0 (timer), 1 (keyboard), 12 (mouse) and 15 (second disk channel). *)
(***************************************************************************)
EXTENDS Interrupts
=============================================================================
