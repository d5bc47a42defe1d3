-------------------------------- MODULE Heap --------------------------------
(***************************************************************************)
(* What a heap promises its clients: it hands out non-empty sets of pages  *)
(* of its arena, none of which is part of another block still in use.     *)
(***************************************************************************)
CONSTANT Arena
VARIABLE granted

HeapInit == granted = {}

Grant(b) ==
  /\ b # {} /\ b \subseteq Arena
  /\ \A c \in granted : b \cap c = {}
  /\ granted' = granted \cup {b}

Release(b) == b \in granted /\ granted' = granted \ {b}

HeapNext == \E b \in SUBSET Arena : Grant(b) \/ Release(b)

HeapSpec == HeapInit /\ [][HeapNext]_granted
=============================================================================
