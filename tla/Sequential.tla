----------------------------- MODULE Sequential -----------------------------
(***************************************************************************)
(* The parts of the kernel that run without interruption and share no      *)
(* state with one another: the binary tree, the process table, the layout  *)
(* of an ext2 device, formatted output and the frame bitmap built at boot. *)
(* A behaviour exercises one of them while the others stay as they begin,  *)
(* so the specification is their disjoint union.                           *)
(***************************************************************************)
EXTENDS Tree, Proc, Ext2Layout, Sprintf, BootMemory

VARIABLE part  \* the part this behaviour exercises

seqVars == <<part, treeVars, procVars, layoutVars, sprintfVars, bootVars>>

\* A part that is not exercised is given a call it never makes.
NoLayout == LayoutInit(Min(Sizes))
NoFormat == SprintfInit(<<>>, "kaos_vsprintf")
NoMap == BootInit(<<>>, FALSE)

SeqInit ==
  /\ TreeInit /\ ProcInit
  /\ \/ part \in {"tree", "proc"} /\ NoLayout /\ NoFormat /\ NoMap
     \/ /\ part = "layout" /\ NoFormat /\ NoMap
        /\ \E n \in Sizes : LayoutInit(n)
     \/ /\ part = "format" /\ NoLayout /\ NoMap
        /\ \E input \in Inputs, f \in Printers : SprintfInit(input, f)
     \/ /\ part = "boot" /\ NoLayout /\ NoFormat
        /\ \E map \in MemoryMaps, is_given \in BOOLEAN : BootInit(map, is_given)

TreePart ==
  part = "tree" /\ TreeNext /\ UNCHANGED <<procVars, layoutVars, sprintfVars, bootVars>>
ProcPart ==
  part = "proc" /\ ProcNext /\ UNCHANGED <<treeVars, layoutVars, sprintfVars, bootVars>>
LayoutPart ==
  part = "layout" /\ WriteGroup /\ UNCHANGED <<treeVars, procVars, sprintfVars, bootVars>>
FormatPart ==
  part = "format" /\ SprintfNext /\ UNCHANGED <<treeVars, procVars, layoutVars, bootVars>>
BootPart ==
  part = "boot" /\ mm_init /\ UNCHANGED <<treeVars, procVars, layoutVars, sprintfVars>>

\* The function that was called has returned, or has left its memory.
Ended ==
  /\ \/ part = "layout" /\ i \notin DOMAIN desc
     \/ part = "format" /\ state \in {"done", "overrun", "ran off"}
     \/ part = "boot" /\ init_result # "running"
  /\ UNCHANGED seqVars

SeqNext ==
  /\ TreePart \/ ProcPart \/ LayoutPart \/ FormatPart \/ BootPart \/ Ended
  /\ UNCHANGED part

SeqSpec == SeqInit /\ [][SeqNext]_seqVars

\* The scan of get_next_proc_id is a loop of the running kernel.
SeqFairSpec ==
  /\ SeqSpec
  /\ WF_seqVars(/\ part = "proc"
                /\ ScanNext \/ ScanFound
                /\ UNCHANGED <<part, treeVars, layoutVars, sprintfVars, bootVars>>)
=============================================================================
