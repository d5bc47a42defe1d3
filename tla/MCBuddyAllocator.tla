-------------------------- MODULE MCBuddyAllocator --------------------------
(***************************************************************************)
(* A machine of 30 blocks.  Pages: heap from 10 on, kernel 20 and 21, tree *)
(* area 22 and 23, stack 24..26, cluster buffer from 28 on.  Frames 0, 1   *)
(* and those behind LastFree are not free.  As on a machine with more than *)
(* 256 MB, some frames have the numbers of heap pages.  A page holds 8     *)
(* bytes, so every relation of a request to find_space's sizes occurs.     *)
(***************************************************************************)
EXTENDS BuddyAllocator

CONSTANT LastFree
MCKernelVm == {20, 21}
MCFreeAtBoot == 2 .. LastFree
=============================================================================
