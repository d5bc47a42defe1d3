-------------------------------- MODULE Proc --------------------------------
(***************************************************************************)
(* The process table of kernel/proc/proc.c.  proc_create_process fills the *)
(* entry proc__next_proc_id names and then looks for the next free entry;  *)
(* the scan is unfolded into steps.  Nothing removes a process.            *)
(***************************************************************************)
EXTENDS Integers

CONSTANT MAX_PROC
ASSUME MaxProcAssumption == MAX_PROC \in Nat \ {0}

Ids == 0 .. MAX_PROC - 1

VARIABLES
  exists,        \* entries of proc__processes with exists set
  next_proc_id,  \* proc__next_proc_id
  pc,            \* "idle", or "scan" inside get_next_proc_id
  current,       \* get_next_proc_id's parameter
  created        \* history: how often each id has been handed out

procVars == <<exists, next_proc_id, pc, current, created>>

ProcInit ==
  /\ exists = {} /\ next_proc_id = 0
  /\ pc = "idle" /\ current = 0
  /\ created = [i \in Ids |-> 0]

\* Faulty variant: the search stays where it is.
NextId_Same(i) == i
NextId(i) == IF i + 1 = MAX_PROC THEN 0 ELSE i + 1

proc_create_process ==
  /\ pc = "idle"
  /\ created' = [created EXCEPT ![next_proc_id] = @ + 1]
  /\ exists' = exists \cup {next_proc_id}
  /\ pc' = "scan" /\ current' = next_proc_id
  /\ UNCHANGED next_proc_id

ScanNext ==
  /\ pc = "scan" /\ current \in exists
  /\ current' = NextId(current)
  /\ UNCHANGED <<exists, next_proc_id, pc, created>>

\* Faulty variant: the entry found is not stored.
ScanFound_NotStored ==
  /\ pc = "scan" /\ current \notin exists
  /\ pc' = "idle"
  /\ UNCHANGED <<exists, next_proc_id, current, created>>

ScanFound ==
  /\ pc = "scan" /\ current \notin exists
  /\ next_proc_id' = current /\ pc' = "idle"
  /\ UNCHANGED <<exists, current, created>>

ProcNext == proc_create_process \/ ScanNext \/ ScanFound

ProcSpec == ProcInit /\ [][ProcNext]_procVars

\* The scan is a loop of the running kernel.
ProcFairSpec == ProcSpec /\ WF_procVars(ScanNext \/ ScanFound)

-----------------------------------------------------------------------------
(***************************************************************************)
(* get_next_proc_id and proc__next_proc_id never index outside             *)
(* proc__processes.                                                        *)
(***************************************************************************)
TypeOK ==
  /\ exists \subseteq Ids /\ next_proc_id \in Ids /\ current \in Ids
  /\ pc \in {"idle", "scan"}
  /\ created \in [Ids -> Nat]

(***************************************************************************)
(* proc_create_process never hands out the id of a process that exists.    *)
(***************************************************************************)
IdsUnique == \A i \in Ids : created[i] <= 1

(***************************************************************************)
(* The scan of get_next_proc_id finds a free entry whenever there is one,  *)
(* also one before the entry it starts at; with a full table it is the     *)
(* call that fills the table that never returns.                           *)
(***************************************************************************)
ScanEnds == pc = "scan" ~> (pc = "idle" \/ exists = Ids)

(***************************************************************************)
(* The inductive invariant: the entry proc__next_proc_id names is free     *)
(* between calls.                                                          *)
(***************************************************************************)
NextFree ==
  /\ TypeOK
  /\ pc = "idle" => next_proc_id \notin exists
  /\ \A i \in Ids : created[i] = IF i \in exists THEN 1 ELSE 0
=============================================================================
