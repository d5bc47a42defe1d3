-------------------------------- MODULE MCMm --------------------------------
(***************************************************************************)
(* A machine of 8 blocks: frames 0, 1 and 7 are in use at boot, the kernel *)
(* has pages 6 and 7, and 6 pages compete for 5 frames.                    *)
(***************************************************************************)
EXTENDS Mm

MCKernelVm == {6, 7}
MCFreeAtBoot == 2 .. 6
=============================================================================
