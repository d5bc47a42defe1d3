------------------------------ MODULE IdeProofs ------------------------------
(***************************************************************************)
(* The IDE driver and its drives, for every set of PCI functions, every    *)
(* arrangement of drives and every number of sectors; and what formatting  *)
(* puts on a disk, for every size of it and every geometry.                *)
(***************************************************************************)
EXTENDS Ide, Ext2Layout, WellFoundedInduction, FiniteSetTheorems, TLAPS

(***************************************************************************)
(* Facts about addresses: drive positions and sectors stay in range, and   *)
(* an address within 28 bits selects the drive and sector it names.        *)
(***************************************************************************)
LEMMA Positions ==
  ASSUME NEW d \in Devices
  PROVE  /\ Channel(d) \in {0, 1}
         /\ d % 2 \in {0, 1}
         /\ 2 * Channel(d) + (d % 2) = d
         /\ \A x \in {0, 1} : 2 * Channel(d) + x \in Devices
<1>1. d \in {0, 1, 2, 3}
  BY DEF Devices
<1> QED BY <1>1 DEF Channel, Devices

LEMMA SectorRange ==
  ASSUME NEW lba \in Nat
  PROVE  /\ lba % Reach \in Sectors
         /\ lba < Reach => lba % Reach = lba /\ lba \div Reach = 0
<1>1. Reach \in Nat \ {0}
  BY IdeAssumption
<1>2. lba % Reach \in 0 .. Reach - 1
  BY <1>1
<1>3. ASSUME lba < Reach PROVE lba % Reach = lba /\ lba \div Reach = 0
  BY <1>1, <1>3
<1> QED BY <1>2, <1>3 DEF Sectors

LEMMA AddressRange ==
  ASSUME NEW d \in Devices, NEW lba \in Nat
  PROVE  /\ Addressed(d, lba) \in [dev : {0, 1}, sector : Sectors]
         /\ lba < Reach => Addressed(d, lba) = [dev |-> d % 2, sector |-> lba]
<1>1. lba % Reach \in Sectors
  BY SectorRange
<1>2. ASSUME lba < Reach PROVE Addressed(d, lba) = [dev |-> d % 2, sector |-> lba]
  <2>1. lba % Reach = lba /\ (lba \div Reach) % 2 = 0
    BY <1>2, SectorRange
  <2>2. d % 2 \in {0, 1}
    BY Positions
  <2> QED BY <2>1, <2>2 DEF Addressed
<1> QED BY <1>1, <1>2 DEF Addressed

LEMMA FirstFound ==
  ASSUME Found # {}
  PROVE  Min(Found) \in Devices
<1>1. PICK x \in Found : \A y \in Found : x <= y
  <2>1. Found \subseteq 0 .. 3
    BY DEF Found, Devices
  <2>2. CASE 0 \in Found BY <2>1, <2>2
  <2>3. CASE 0 \notin Found /\ 1 \in Found BY <2>1, <2>3
  <2>4. CASE 0 \notin Found /\ 1 \notin Found /\ 2 \in Found BY <2>1, <2>4
  <2>5. CASE 0 \notin Found /\ 1 \notin Found /\ 2 \notin Found
    <3>1. \A y \in Found : y = 3
      BY <2>1, <2>5
    <3> QED BY <3>1
  <2> QED BY <2>2, <2>3, <2>4, <2>5
<1>2. Min(Found) \in Found
  BY <1>1 DEF Min
<1> QED BY <1>2 DEF Found

-----------------------------------------------------------------------------
(***************************************************************************)
(* The machine as it is switched on.                                       *)
(***************************************************************************)
LEMMA InitInv == Init => IdeInv
<1> SUFFICES ASSUME Init PROVE IdeInv
  OBVIOUS
<1>1. 0 \in Sectors /\ 0 \in Devices
  BY IdeAssumption DEF Sectors, Devices
<1>2. kind \in [Devices -> {"ata", "chs", "packet", "none", "pulled", "floating"}]
  BY IdeAssumption DEF Init, Devices
<1>3. TypeOK
  BY <1>1, <1>2 DEF Init, TypeOK, Phases, Ops
<1> QED BY <1>3 DEF Init, IdeInv, WorksWhileWaited, InRequest, Waiting

(***************************************************************************)
(* Outside a request no drive is at work.                                  *)
(***************************************************************************)
LEMMA Quiet ==
  ASSUME IdeInv, ~InRequest
  PROVE  \A d \in Devices : phase[d] \in {"idle", "error"}
BY DEF IdeInv, WorksWhileWaited, InRequest

(***************************************************************************)
(* The drive the kernel waits for is one of the four.                      *)
(***************************************************************************)
LEMMA SelectedRange ==
  ASSUME TypeOK
  PROVE  /\ Channel(req.dev) \in {0, 1}
         /\ Selected(Channel(req.dev)) \in Devices
<1>1. req.dev \in Devices
  BY DEF TypeOK
<1>2. reg[Channel(req.dev)].dev \in {0, 1}
  BY <1>1, Positions DEF TypeOK
<1> QED BY <1>1, <1>2, Positions DEF Selected

(***************************************************************************)
(* The steps between requests.                                             *)
(***************************************************************************)
LEMMA BetweenInv ==
  ASSUME IdeInv,
         ide_ctrlinit \/ Identified \/ NoController \/ NoDevice
           \/ fat16_create_context
  PROVE  IdeInv'
<1>1. /\ pc \in {"scan", "identified", "bootread"}
      /\ pc' \in {"probe", "scan", "undefined", "nodevice", "divide", "ready",
                  "nobuffer"}
      /\ UNCHANGED <<kind, platter, reg, phase, cmd, req, fsdev, writes>>
  BY DEF ide_ctrlinit, Identified, NoController, NoDevice, fat16_create_context,
         machine, drive
<1>2. pc' = "probe" => idx' \in Devices
  BY DEF ide_ctrlinit, Identified, NoController, NoDevice, fat16_create_context,
         IdeInv, TypeOK, Devices
<1>3. pc' = "ready" => pc = "bootread"
  BY DEF ide_ctrlinit, Identified, NoController, NoDevice, fat16_create_context
<1>4. TypeOK'
  BY <1>1, <1>2, <1>3 DEF IdeInv, TypeOK
<1>5. ~InRequest /\ ~InRequest'
  BY <1>1 DEF InRequest, Waiting
<1>6. WorksWhileWaited'
  BY <1>1, <1>5, Quiet DEF WorksWhileWaited
<1> QED BY <1>1, <1>4, <1>5, <1>6 DEF IdeInv, Empty

(***************************************************************************)
(* A command that is written while all drives rest is taken by the drive   *)
(* it is for, unless that position is empty.                               *)
(***************************************************************************)
LEMMA CommandTaken ==
  ASSUME IdeInv, ~InRequest, NEW d \in Devices, NEW op \in Ops \ {"store"},
         NEW s \in Sectors, Command(d, op, s)
  PROVE  /\ phase' \in [Devices -> Phases]
         /\ cmd' \in [Devices -> [op : Ops \cup {"none"}, sector : Sectors]]
         /\ \A e \in Devices :
              /\ Empty(e) => phase'[e] = "idle"
              /\ phase'[e] \in {"idle", "error", "taken"}
              /\ phase'[e] \notin {"idle", "error"} =>
                   e = d /\ cmd'[e].op = op /\ cmd'[e].sector = s
<1>1. \A e \in Devices : phase[e] \in {"idle", "error"}
  BY Quiet
<1>2. /\ phase \in [Devices -> Phases]
      /\ cmd \in [Devices -> [op : Ops \cup {"none"}, sector : Sectors]]
      /\ \A e \in Devices : Empty(e) => phase[e] = "idle"
  BY DEF IdeInv, TypeOK
<1>3. CASE Empty(d)
  BY <1>1, <1>2, <1>3 DEF Command
<1>4. CASE ~Empty(d)
  <2>1. phase' = [phase EXCEPT ![d] = "taken"]
    BY <1>1, <1>4 DEF Command, Working
  <2>2. cmd' = [cmd EXCEPT ![d] = [op |-> op, sector |-> s]]
    BY <1>1, <1>4 DEF Command, Working
  <2>3. phase' \in [Devices -> Phases]
    BY <1>2, <2>1 DEF Phases
  <2>4. cmd' \in [Devices -> [op : Ops \cup {"none"}, sector : Sectors]]
    BY <1>2, <2>2
  <2> QED BY <1>1, <1>2, <1>4, <2>1, <2>2, <2>3, <2>4
<1> QED BY <1>3, <1>4

(***************************************************************************)
(* A request for a sector begins.                                          *)
(***************************************************************************)
LEMMA SectorInv ==
  ASSUME IdeInv, ~InRequest, NEW d \in Devices, NEW op \in {"read", "write"},
         NEW lba \in Nat, StartSector(op, d, lba),
         UNCHANGED <<kind, platter>>, writes' \in Nat, fsdev' = d
  PROVE  IdeInv'
<1> DEFINE a == Addressed(d, lba)
           x == 2 * Channel(d) + a.dev
<1>1. /\ a \in [dev : {0, 1}, sector : Sectors]
      /\ Channel(d) \in {0, 1} /\ x \in Devices
  BY AddressRange, Positions
<1>2. /\ reg' = [reg EXCEPT ![Channel(d)] = a]
      /\ Command(x, op, a.sector)
      /\ req' = [op |-> op, dev |-> d, lba |-> lba]
      /\ pc' = "delay"
  BY DEF StartSector
<1>3. op \in Ops \ {"store"} /\ a.sector \in Sectors
  BY <1>1 DEF Ops
<1>4. reg' \in [{0, 1} -> [dev : {0, 1}, sector : Sectors]] /\ reg'[Channel(d)] = a
  BY <1>1, <1>2 DEF IdeInv, TypeOK
<1> HIDE DEF a
<1>5. /\ phase' \in [Devices -> Phases]
      /\ cmd' \in [Devices -> [op : Ops \cup {"none"}, sector : Sectors]]
      /\ \A e \in Devices :
           /\ Empty(e) => phase'[e] = "idle"
           /\ phase'[e] \in {"idle", "error", "taken"}
           /\ phase'[e] \notin {"idle", "error"} =>
                e = x /\ cmd'[e].op = op /\ cmd'[e].sector = a.sector
  BY <1>1, <1>2, <1>3, CommandTaken
<1>6. TypeOK'
  BY <1>2, <1>3, <1>4, <1>5 DEF IdeInv, TypeOK, Ops
<1>7. Selected(Channel(req.dev))' = x
  BY <1>2, <1>4 DEF Selected
<1>8. WorksWhileWaited'
  BY <1>2, <1>5, <1>7 DEF WorksWhileWaited, Waiting
<1>9. InStep'
  BY <1>1, <1>2, <1>3, <1>4, <1>5, <1>7 DEF InStep, a
<1> QED BY <1>5, <1>6, <1>8, <1>9 DEF IdeInv, Empty

(***************************************************************************)
(* The identification of a position begins.                                *)
(***************************************************************************)
LEMMA IdentifyInv ==
  ASSUME IdeInv, ide_identify_drive
  PROVE  IdeInv'
<1>1. /\ idx \in Devices /\ idx' = idx /\ ~InRequest
      /\ UNCHANGED <<kind, platter, fsdev, writes>>
      /\ Command(idx, "identify", 0)
      /\ reg' = [reg EXCEPT ![Channel(idx)] = [dev |-> idx % 2, sector |-> @.sector]]
      /\ req' = [op |-> "identify", dev |-> idx, lba |-> 0]
      /\ pc' = "delay"
  BY DEF ide_identify_drive, IdeInv, TypeOK, machine, InRequest, Waiting
<1>2. /\ Channel(idx) \in {0, 1} /\ idx % 2 \in {0, 1}
      /\ 2 * Channel(idx) + (idx % 2) = idx
  BY <1>1, Positions
<1>3. "identify" \in Ops \ {"store"} /\ 0 \in Sectors
  BY IdeAssumption DEF Ops, Sectors
<1>4. /\ reg' \in [{0, 1} -> [dev : {0, 1}, sector : Sectors]]
      /\ reg'[Channel(idx)].dev = idx % 2
  BY <1>1, <1>2 DEF IdeInv, TypeOK
<1>5. /\ phase' \in [Devices -> Phases]
      /\ cmd' \in [Devices -> [op : Ops \cup {"none"}, sector : Sectors]]
      /\ \A e \in Devices :
           /\ Empty(e) => phase'[e] = "idle"
           /\ phase'[e] \in {"idle", "error", "taken"}
           /\ phase'[e] \notin {"idle", "error"} => e = idx /\ cmd'[e].op = "identify"
  BY <1>1, <1>3, CommandTaken
<1>6. TypeOK'
  BY <1>1, <1>3, <1>4, <1>5 DEF IdeInv, TypeOK
<1>7. Selected(Channel(req.dev))' = idx
  BY <1>1, <1>2, <1>4 DEF Selected
<1>8. WorksWhileWaited'
  BY <1>1, <1>5, <1>7 DEF WorksWhileWaited, Waiting
<1>9. InStep'
  BY <1>1, <1>3, <1>5, <1>7 DEF InStep
<1> QED BY <1>1, <1>5, <1>6, <1>8, <1>9 DEF IdeInv, Empty

(***************************************************************************)
(* The first device found is taken, and read from or refused.              *)
(***************************************************************************)
LEMMA TakeFirstInv ==
  ASSUME IdeInv, TakeFirst
  PROVE  IdeInv'
<1>1. Min(Found) \in Devices /\ ~InRequest
  BY FirstFound DEF TakeFirst, InRequest, Waiting
<1>2. fsdev' = Min(Found) /\ UNCHANGED <<kind, platter, writes>>
  BY DEF TakeFirst, machine
<1>3. CASE StartSector("read", Min(Found), 0)
  <2>1. writes' \in Nat
    BY <1>2 DEF IdeInv, TypeOK
  <2> QED BY <1>1, <1>2, <1>3, <2>1, SectorInv
<1>4. CASE RefuseSector("read", Min(Found), 0)
  <2>1. /\ req' = [op |-> "read", dev |-> Min(Found), lba |-> 0]
        /\ pc' = "bootread" /\ UNCHANGED <<reg, phase, cmd>>
    BY <1>4 DEF RefuseSector
  <2>2. TypeOK'
    BY <1>1, <1>2, <2>1 DEF IdeInv, TypeOK, Ops
  <2>3. WorksWhileWaited'
    BY <1>1, <2>1, Quiet DEF WorksWhileWaited
  <2> QED BY <1>2, <2>1, <2>2, <2>3 DEF IdeInv, Empty, InRequest, Waiting
<1> QED BY <1>3, <1>4 DEF TakeFirst

-----------------------------------------------------------------------------
(***************************************************************************)
(* What the alternate status register says of the drive behind it, once    *)
(* the drive has had the time to take the command.                         *)
(***************************************************************************)
LEMMA StatusTells ==
  ASSUME IdeInv, InRequest, pc # "delay", NEW d, d = Selected(Channel(req.dev)),
         NEW status, status = arch_ide_readaltstatus(Channel(req.dev))
  PROVE  /\ status = {} => phase[d] \in {"idle", "error"}
         /\ "BSY" \notin status /\ "DRQ" \notin status => phase[d] \in {"idle", "error"}
         /\ "BSY" \in status /\ "ERR" \in status => phase[d] \in {"idle", "error"}
         /\ "BSY" \notin status /\ "DRQ" \in status =>
              Empty(d) \/ phase[d] \in {"data", "bad", "want"}
         /\ "BSY" \notin status /\ req.op = "store" => phase[d] \in {"idle", "error"}
<1>1. d \in Devices
  BY SelectedRange DEF IdeInv
<1>2. /\ phase[d] \in Phases /\ phase[d] # "taken"
      /\ kind[d] \in {"none", "pulled", "floating"} => phase[d] = "idle"
      /\ req.op = "store" => phase[d] \notin {"data", "bad", "want"}
  BY <1>1 DEF IdeInv, TypeOK, InStep, InRequest, Waiting, Working, Empty
<1>3. status = CASE kind[d] = "none"     -> {}
                 [] kind[d] = "pulled"   -> {"DRDY", "DRQ", "ERR"}
                 [] kind[d] = "floating" -> {"BSY", "DRDY", "DRQ", "ERR"}
                 [] phase[d] \in {"busy", "hung"} -> {"BSY"}
                 [] phase[d] \in {"data", "want"} -> {"DRDY", "DRQ"}
                 [] phase[d] = "bad"   -> {"DRDY", "DRQ", "ERR"}
                 [] phase[d] = "error" -> {"DRDY", "ERR"}
                 [] OTHER -> {"DRDY"}
  BY DEF arch_ide_readaltstatus
<1>4. CASE kind[d] = "none"
  BY <1>2, <1>3, <1>4
<1>5. CASE kind[d] = "pulled"
  BY <1>2, <1>3, <1>5 DEF Empty
<1>6. CASE kind[d] = "floating"
  BY <1>2, <1>3, <1>6
<1>7. CASE kind[d] \notin {"none", "pulled", "floating"}
  <2>1. CASE phase[d] \in {"busy", "hung"}
    BY <1>3, <1>7, <2>1, SMTT(30), ZenonT(30)
  <2>2. CASE phase[d] \in {"data", "want", "bad"}
    BY <1>2, <1>3, <1>7, <2>2, SMTT(30), ZenonT(30)
  <2>3. CASE phase[d] \in {"idle", "error"}
    BY <1>2, <1>3, <1>7, <2>3
  <2> QED BY <1>2, <2>1, <2>2, <2>3 DEF Phases
<1> QED BY <1>4, <1>5, <1>6, <1>7

(***************************************************************************)
(* A request returns while every drive rests.                              *)
(***************************************************************************)
LEMMA ReturnInv ==
  ASSUME IdeInv, InRequest, NEW r, Return(r),
         UNCHANGED <<kind, platter, reg, cmd, req, idx, fsdev, writes>>,
         phase' \in [Devices -> Phases],
         \A e \in Devices : /\ phase'[e] \in {"idle", "error"}
                            /\ Empty(e) => phase'[e] = "idle"
  PROVE  IdeInv'
<1>1. /\ pc' \in {"identified", "bootread", "ready"}
      /\ req.op = "identify" => pc' = "identified"
      /\ req.op # "identify" => pc' # "identified"
  BY DEF Return
<1>2. /\ req.op = "identify" => idx \in Devices
      /\ req.op # "identify" => fsdev \in Devices
  BY DEF IdeInv, InStep, TypeOK
<1>3. TypeOK'
  BY <1>1, <1>2 DEF IdeInv, TypeOK
<1>4. ~InRequest'
  BY <1>1 DEF InRequest, Waiting
<1>5. WorksWhileWaited'
  BY DEF WorksWhileWaited
<1> QED BY <1>3, <1>4, <1>5 DEF IdeInv, Empty

\* The other drives rest during a request.
LEMMA OthersRest ==
  ASSUME IdeInv, NEW e \in Devices, e # Selected(Channel(req.dev))
  PROVE  phase[e] \in {"idle", "error"}
BY DEF IdeInv, WorksWhileWaited

(***************************************************************************)
(* wait_for_drive_ready goes on, with the drives as they are.              *)
(***************************************************************************)
LEMMA WaitInv ==
  ASSUME IdeInv, InRequest, InRequest', UNCHANGED <<ret, inWait>>,
         pc' = "delay" => pc = "delay",
         pc' \in {"present", "poll"} =>
           phase[Selected(Channel(req.dev))] # "taken",
         pc' = "transfer" =>
           /\ \/ Empty(Selected(Channel(req.dev)))
              \/ phase[Selected(Channel(req.dev))] \in {"data", "bad", "want"}
           /\ req.op # "store"
  PROVE  IdeInv'
<1>1. UNCHANGED <<kind, platter, reg, phase, cmd, req, idx, fsdev, writes>>
  BY DEF inWait, machine, drive
<1>2. pc' \notin {"probe", "identified", "ready", "bootread"}
  BY DEF InRequest, Waiting
<1>3. TypeOK'
  BY <1>1, <1>2 DEF IdeInv, TypeOK
<1>4. UNCHANGED Selected(Channel(req.dev))
  BY <1>1 DEF Selected
<1>5. WorksWhileWaited'
  BY <1>1, <1>4 DEF IdeInv, WorksWhileWaited, InRequest
<1>6. InStep'
  BY <1>1, <1>4 DEF IdeInv, InStep, Empty
<1> QED BY <1>1, <1>3, <1>5, <1>6 DEF IdeInv, Empty

LEMMA PollInv ==
  ASSUME IdeInv, Delay \/ Present \/ Poll
  PROVE  IdeInv'
<1> DEFINE d == Selected(Channel(req.dev))
           status == arch_ide_readaltstatus(Channel(req.dev))
<1>1. InRequest /\ UNCHANGED inWait
  BY DEF Delay, Present, Poll, InRequest, Waiting
<1>2. UNCHANGED <<kind, platter, reg, phase, cmd, req, idx, fsdev, writes>>
  BY <1>1 DEF inWait, machine, drive
<1>3. ASSUME NEW r, Return(r), phase[d] \in {"idle", "error"} PROVE IdeInv'
  <2>1. \A e \in Devices : phase'[e] \in {"idle", "error"}
    BY <1>2, <1>3, OthersRest
  <2>2. /\ phase' \in [Devices -> Phases]
        /\ \A e \in Devices : Empty(e) => phase'[e] = "idle"
    BY <1>2 DEF IdeInv, TypeOK
  <2> QED BY <1>1, <1>2, <1>3, <2>1, <2>2, ReturnInv
<1>4. ASSUME NEW r, WaitOver(r), phase[d] \in {"idle", "error"} PROVE IdeInv'
  BY <1>3, <1>4 DEF WaitOver
<1>5. CASE Delay
  <2>1. pc' = "present" /\ phase[d] # "taken" /\ ret' = ret
    BY <1>5 DEF Delay
  <2> QED BY <1>1, <2>1, WaitInv DEF InRequest, Waiting
<1>6. CASE Present
  <2>1. pc = "present" /\ pc # "delay" /\ phase[d] # "taken"
    BY <1>1, <1>6 DEF Present, IdeInv, InStep
  <2>2. CASE status = {}
    <3>1. phase[d] \in {"idle", "error"}
      BY <1>1, <2>1, <2>2, StatusTells
    <3>2. WaitOver("NO_DEVICE")
      BY <1>6, <2>2 DEF Present
    <3> QED BY <1>4, <3>1, <3>2
  <2>3. CASE status # {}
    <3>1. pc' = "poll" /\ ret' = ret
      BY <1>6, <2>3 DEF Present
    <3> QED BY <1>1, <2>1, <3>1, WaitInv DEF InRequest, Waiting
  <2> QED BY <2>2, <2>3
<1>7. CASE Poll
  <2>1. pc = "poll" /\ pc # "delay" /\ phase[d] # "taken"
    BY <1>1, <1>7 DEF Poll, IdeInv, InStep
  <2>2. CASE "BSY" \notin status /\ "DRQ" \in status
    <3>1. Empty(d) \/ phase[d] \in {"data", "bad", "want"}
      BY <1>1, <2>1, <2>2, StatusTells
    <3>2. CASE req.op = "store"
      <4>1. Return("NO_ERROR")
        BY <1>7, <2>2, <3>2 DEF Poll
      <4>2. phase[d] \in {"idle", "error"}
        BY <1>1, <2>1, <2>2, <3>2, StatusTells
      <4> QED BY <1>3, <4>1, <4>2
    <3>3. CASE req.op # "store"
      <4>1. pc' = "transfer" /\ ret' = ret
        BY <1>7, <2>2, <3>3 DEF Poll
      <4> QED BY <1>1, <3>1, <3>3, <4>1, WaitInv DEF InRequest, Waiting
    <3> QED BY <3>2, <3>3
  <2>3. CASE \/ "BSY" \notin status /\ "DRQ" \notin status
             \/ "BSY" \in status /\ "ERR" \in status
    <3>1. phase[d] \in {"idle", "error"}
      BY <1>1, <2>1, <2>3, StatusTells
    <3>2. WaitOver("UNIDENTIFIED_ERROR")
      BY <1>7, <2>3 DEF Poll
    <3> QED BY <1>4, <3>1, <3>2
  <2>4. CASE "BSY" \in status /\ "ERR" \notin status
    <3>1. pc' = pc /\ ret' = ret
      BY <1>7, <2>4 DEF Poll
    <3> QED BY <1>1, <2>1, <3>1, WaitInv DEF InRequest, Waiting
  <2> QED BY <2>2, <2>3, <2>4
<1> QED BY <1>5, <1>6, <1>7

(***************************************************************************)
(* The transfer of a sector: a read ends the request, a write begins the   *)
(* second wait.                                                            *)
(***************************************************************************)
LEMMA ReadBufferInv ==
  ASSUME IdeInv, ReadBuffer
  PROVE  IdeInv'
<1> DEFINE d == Selected(Channel(req.dev))
<1>1. /\ InRequest /\ Return("NO_ERROR")
      /\ UNCHANGED <<kind, platter, reg, cmd, req, idx, fsdev, writes>>
      /\ phase' = IF Empty(d) THEN phase ELSE [phase EXCEPT ![d] = "idle"]
  BY DEF ReadBuffer, InRequest, Waiting, machine
<1>2. d \in Devices /\ phase \in [Devices -> Phases]
  BY SelectedRange DEF IdeInv, TypeOK
<1>3. phase' \in [Devices -> Phases]
  BY <1>1, <1>2 DEF Phases
<1>4. \A e \in Devices : /\ phase'[e] \in {"idle", "error"}
                         /\ Empty(e) => phase'[e] = "idle"
  BY <1>1, <1>2, OthersRest DEF IdeInv
<1> HIDE DEF d
<1> QED BY <1>1, <1>3, <1>4, ReturnInv

LEMMA WriteBufferInv ==
  ASSUME IdeInv, WriteBuffer
  PROVE  IdeInv'
<1> DEFINE d == Selected(Channel(req.dev))
<1>1. /\ pc = "transfer" /\ pc' = "delay" /\ req.op = "write"
      /\ req' = [req EXCEPT !.op = "store"]
      /\ UNCHANGED <<kind, platter, reg, idx, fsdev, writes>>
  BY DEF WriteBuffer, machine
<1>2. /\ TypeOK /\ d \in Devices /\ phase \in [Devices -> Phases]
      /\ cmd \in [Devices -> [op : Ops \cup {"none"}, sector : Sectors]]
      /\ req \in [op : Ops \cup {"none"}, dev : Devices, lba : Nat]
  BY SelectedRange DEF IdeInv, TypeOK
<1>3. InStep /\ (Empty(d) \/ phase[d] \in {"data", "bad", "want"})
  BY <1>1 DEF IdeInv, InStep, InRequest
<1>4. req'.op = "store" /\ req'.dev = req.dev /\ req'.lba = req.lba
  BY <1>1, <1>2
<1>5. /\ phase' \in [Devices -> Phases]
      /\ cmd' \in [Devices -> [op : Ops \cup {"none"}, sector : Sectors]]
      /\ \A e \in Devices :
           /\ Empty(e) => phase'[e] = "idle"
           /\ phase'[e] \in {"idle", "error", "taken"}
           /\ phase'[e] \notin {"idle", "error"} =>
                e = d /\ cmd'[e].op = "store" /\ cmd'[e].sector = cmd[e].sector
  <2>1. CASE Empty(d)
    <3>1. UNCHANGED <<phase, cmd>>
      BY <2>1 DEF WriteBuffer
    <3> QED BY <1>2, <2>1, <3>1, OthersRest DEF IdeInv
  <2>2. CASE ~Empty(d)
    <3>1. /\ phase' = [phase EXCEPT ![d] = "taken"]
          /\ cmd' = [cmd EXCEPT ![d].op = "store"]
      BY <2>2 DEF WriteBuffer
    <3>2. phase' \in [Devices -> Phases]
      BY <1>2, <3>1 DEF Phases
    <3>3. /\ cmd' \in [Devices -> [op : Ops \cup {"none"}, sector : Sectors]]
          /\ cmd'[d].op = "store" /\ cmd'[d].sector = cmd[d].sector
      BY <1>2, <3>1 DEF Ops
    <3>4. \A e \in Devices \ {d} : phase'[e] = phase[e] /\ phase[e] \in {"idle", "error"}
      BY <1>2, <3>1, OthersRest
    <3>5. phase'[d] = "taken"
      BY <1>2, <3>1
    <3>6. \A e \in Devices : Empty(e) => phase[e] = "idle"
      BY DEF IdeInv
    <3> HIDE DEF d
    <3> QED BY <1>2, <2>2, <3>2, <3>3, <3>4, <3>5, <3>6
  <2> QED BY <2>1, <2>2
<1>6. Selected(Channel(req.dev))' = d
  BY <1>1, <1>4 DEF Selected
<1>7. TypeOK'
  BY <1>1, <1>2, <1>5, ZenonT(30), SMTT(30) DEF TypeOK, Ops
<1>8. WorksWhileWaited'
  BY <1>1, <1>5, <1>6 DEF WorksWhileWaited, Waiting
<1>9. ~Empty(d) => cmd[d].sector = reg[Channel(req.dev)].sector
  BY <1>1, <1>3 DEF InStep
<1>10. phase'[d] \notin {"idle", "error"} =>
         cmd'[d].op = "store" /\ cmd'[d].sector = reg'[Channel(req'.dev)].sector
  BY <1>1, <1>2, <1>4, <1>5, <1>9
<1>11. req'.dev = fsdev' /\ reg'[Channel(req'.dev)] = Addressed(req'.dev, req'.lba)
  BY <1>1, <1>3, <1>4 DEF InStep
<1>12. InStep'
  <2> HIDE DEF d
  <2> QED BY <1>1, <1>4, <1>6, <1>10, <1>11, SMTT(30), ZenonT(30) DEF InStep, Ops
<1> QED BY <1>1, <1>5, <1>7, <1>8, <1>12 DEF IdeInv, Empty

-----------------------------------------------------------------------------
(***************************************************************************)
(* A drive at work is the one the kernel waits for, and has its command.   *)
(***************************************************************************)
LEMMA WorkingIsAwaited ==
  ASSUME IdeInv, NEW d \in Devices, phase[d] \in {"taken", "busy"}
  PROVE  /\ InRequest /\ InStep /\ d = Selected(Channel(req.dev))
         /\ pc # "transfer"
         /\ cmd[d].op = req.op /\ req.op \in Ops
         /\ req.op # "identify" => cmd[d].sector = reg[Channel(req.dev)].sector
<1>1. InRequest /\ d = Selected(Channel(req.dev)) /\ ~Empty(d)
  BY SMTT(30), ZenonT(30) DEF IdeInv, WorksWhileWaited, InRequest
<1>2. InStep
  BY <1>1 DEF IdeInv
<1> QED BY <1>1, <1>2, SMTT(30), ZenonT(30) DEF InStep

\* What a command may lead to.
LEMMA OutcomesRange ==
  ASSUME NEW d, cmd[d].op \in Ops, NEW o \in Outcomes(d)
  PROVE  /\ o \in {"idle", "error", "data", "bad", "want"}
         /\ o = "idle" => cmd[d].op = "store"
         /\ o \in {"data", "bad", "want"} => cmd[d].op # "store"
<1>1. CASE cmd[d].op = "identify" BY <1>1 DEF Outcomes
<1>2. CASE cmd[d].op = "read" BY <1>2 DEF Outcomes
<1>3. CASE cmd[d].op = "write" BY <1>3 DEF Outcomes
<1>4. CASE cmd[d].op = "store" BY <1>4 DEF Outcomes
<1> QED BY <1>1, <1>2, <1>3, <1>4 DEF Ops

(***************************************************************************)
(* The steps of a drive.                                                   *)
(***************************************************************************)
LEMMA DriveInv ==
  ASSUME IdeInv, NEW d \in Devices, DriveStep(d)
  PROVE  IdeInv'
<1>1. phase[d] \in {"taken", "busy"}
  BY DEF DriveStep, Take, Answer, Hang
<1>2. /\ InRequest /\ InStep /\ d = Selected(Channel(req.dev))
      /\ pc # "transfer"
      /\ cmd[d].op = req.op /\ req.op \in Ops
  BY <1>1, WorkingIsAwaited
<1>3. UNCHANGED <<kind, reg, cmd, pc, req, idx, fsdev, writes>>
  BY DEF DriveStep, Take, Answer, Hang, machine, kernel
<1>4. PICK o \in Phases \ {"taken"} :
        /\ phase' = [phase EXCEPT ![d] = o]
        /\ o \in {"data", "bad", "want"} => cmd[d].op # "store"
  <2>1. CASE Take(d)
    <3>1. "busy" \in Phases \ {"taken"} /\ phase' = [phase EXCEPT ![d] = "busy"]
      BY <2>1 DEF Take, Phases
    <3> QED BY <3>1
  <2>2. CASE Hang(d)
    <3>1. "hung" \in Phases \ {"taken"} /\ phase' = [phase EXCEPT ![d] = "hung"]
      BY <2>2 DEF Hang, Phases
    <3> QED BY <3>1
  <2>3. CASE Answer(d)
    <3>1. PICK o \in Outcomes(d) : phase' = [phase EXCEPT ![d] = o]
      BY <2>3 DEF Answer
    <3> QED BY <1>2, <3>1, OutcomesRange DEF Phases
  <2> QED BY <2>1, <2>2, <2>3 DEF DriveStep
<1>5. platter' \in [Devices -> [Sectors -> Nat]]
  <2>1. /\ platter \in [Devices -> [Sectors -> Nat]] /\ writes \in Nat
        /\ cmd[d].sector \in Sectors
    BY DEF IdeInv, TypeOK
  <2>2. \/ platter' = platter
        \/ platter' = [platter EXCEPT ![d][cmd[d].sector] = writes]
    BY DEF DriveStep, Take, Answer, Hang
  <2> QED BY <2>1, <2>2
<1>6. /\ phase \in [Devices -> Phases] /\ phase' \in [Devices -> Phases]
      /\ phase'[d] = o /\ \A e \in Devices \ {d} : phase'[e] = phase[e]
  BY <1>4 DEF IdeInv, TypeOK
<1>7. TypeOK'
  BY <1>3, <1>5, <1>6, SMTT(30), ZenonT(30) DEF IdeInv, TypeOK
<1>8. Selected(Channel(req.dev))' = d
  BY <1>2, <1>3 DEF Selected
<1>9. WorksWhileWaited'
  BY <1>2, <1>3, <1>6, <1>8, SMTT(30), ZenonT(30) DEF IdeInv, WorksWhileWaited, InRequest
<1>10. InStep'
  <2>1. /\ req'.op \in Ops /\ pc' # "transfer" /\ phase'[d] # "taken"
        /\ req'.op = "identify" => idx' \in Devices
        /\ req'.op # "identify" =>
             req'.dev = fsdev' /\ reg'[Channel(req'.dev)] = Addressed(req'.dev, req'.lba)
    BY <1>2, <1>3, <1>4, <1>6, SMTT(30), ZenonT(30) DEF InStep
  <2>2. /\ cmd'[d].op = req'.op
        /\ req'.op # "identify" => cmd'[d].sector = reg'[Channel(req'.dev)].sector
    BY <1>1, <1>3, WorkingIsAwaited, SMTT(30), ZenonT(30)
  <2> QED BY <1>8, <2>1, <2>2, SMTT(30), ZenonT(30) DEF InStep
<1>11. \A e \in Devices :
         /\ Empty(e)' => phase'[e] = "idle"
         /\ phase'[e] \in {"data", "bad", "want"} => cmd'[e].op # "store"
  <2>1. ~Empty(d)
    BY <1>1 DEF IdeInv
  <2> QED BY <1>3, <1>4, <1>6, <2>1 DEF IdeInv, Empty
<1> QED BY <1>7, <1>9, <1>10, <1>11 DEF IdeInv

(***************************************************************************)
(* Every step of the kernel and of the drives keeps the invariant.         *)
(***************************************************************************)
LEMMA StepInv == IdeInv /\ [Next]_ideVars => IdeInv'
<1> SUFFICES ASSUME IdeInv, [Next]_ideVars PROVE IdeInv'
  OBVIOUS
<1>1. CASE ide_ctrlinit \/ Identified \/ NoController \/ NoDevice \/ fat16_create_context
  BY <1>1, BetweenInv
<1>2. CASE ide_identify_drive BY <1>2, IdentifyInv
<1>3. CASE TakeFirst BY <1>3, TakeFirstInv
<1>4. CASE Delay \/ Present \/ Poll BY <1>4, PollInv
<1>5. CASE ReadBuffer BY <1>5, ReadBufferInv
<1>6. CASE WriteBuffer BY <1>6, WriteBufferInv
<1>7. ASSUME NEW lba \in 0 .. Reach, block_dev_read(lba) \/ block_dev_write(lba)
      PROVE  IdeInv'
  <2>1. /\ fsdev \in Devices /\ ~InRequest /\ lba \in Nat /\ fsdev' = fsdev
        /\ UNCHANGED <<kind, platter>> /\ writes' \in Nat
    BY <1>7, IdeAssumption
       DEF block_dev_read, block_dev_write, IdeInv, TypeOK, InRequest, Waiting, machine
  <2>2. PICK op \in {"read", "write"} : StartSector(op, fsdev, lba)
    BY <1>7 DEF block_dev_read, block_dev_write
  <2> QED BY <2>1, <2>2, SectorInv
<1>8. ASSUME NEW d \in Devices, DriveStep(d) PROVE IdeInv'
  BY <1>8, DriveInv, SMTT(30), ZenonT(30)
<1>9. CASE UNCHANGED ideVars
  BY <1>9, SMTT(30), ZenonT(30) DEF ideVars, machine, drive, kernel, IdeInv, TypeOK, WorksWhileWaited, InStep,
     InRequest, Empty, Selected
<1> QED BY <1>1, <1>2, <1>3, <1>4, <1>5, <1>6, <1>7, <1>8, <1>9 DEF Next, KernelStep

(***************************************************************************)
(* A request within the 28 bits is with the file system's device and names *)
(* the sector in the registers.                                            *)
(***************************************************************************)
LEMMA RequestSelects ==
  ASSUME IdeInv, InRequest, req.op # "identify", req.lba < Reach
  PROVE  /\ Selected(Channel(req.dev)) = fsdev /\ fsdev \in Devices
         /\ reg[Channel(req.dev)].sector = req.lba /\ req.lba \in Sectors
<1>1. /\ req.dev = fsdev /\ req.dev \in Devices /\ req.lba \in Nat
      /\ reg[Channel(req.dev)] = Addressed(req.dev, req.lba)
  BY SMTT(30), ZenonT(30) DEF InStep, IdeInv, TypeOK
<1>2. reg[Channel(req.dev)] = [dev |-> req.dev % 2, sector |-> req.lba]
  BY <1>1, AddressRange
<1>3. Selected(Channel(req.dev)) = 2 * Channel(req.dev) + (req.dev % 2)
  BY <1>2 DEF Selected
<1>4. Selected(Channel(req.dev)) = req.dev
  BY <1>1, <1>3, Positions
<1>5. req.lba \in Sectors
  BY <1>1, IdeAssumption DEF Sectors
<1>6. reg[Channel(req.dev)].sector = req.lba
  BY <1>2, SMTT(30), ZenonT(30)
<1> QED BY <1>1, <1>4, <1>5, <1>6, ZenonT(30), SMTT(30)

(***************************************************************************)
(* A write that reaches a platter reaches the drive and sector of the      *)
(* request.                                                                *)
(***************************************************************************)
LEMMA StepWritesAsked ==
  ASSUME IdeInv, [Next]_ideVars, NEW d \in Devices, NEW s \in Sectors,
         platter'[d][s] # platter[d][s], req.lba < Reach
  PROVE  d = fsdev /\ s = req.lba
<1>1. PICK e \in Devices : Answer(e) /\ platter' # platter
  BY DEF Next, KernelStep, DriveStep, Take, Hang, ide_ctrlinit, ide_identify_drive,
     Identified, Delay, Present, Poll, ReadBuffer, WriteBuffer, NoController, NoDevice,
     TakeFirst, fat16_create_context, block_dev_read, block_dev_write, inWait, ideVars,
     drive
<1>2. /\ phase[e] = "busy" /\ e = Selected(Channel(req.dev)) /\ InStep
      /\ cmd[e].op = req.op /\ req.op \in Ops
      /\ req.op # "identify" => cmd[e].sector = reg[Channel(req.dev)].sector
  BY <1>1, WorkingIsAwaited DEF Answer
<1>3. PICK o \in Outcomes(e) :
        platter' = IF o = "idle" THEN [platter EXCEPT ![e][cmd[e].sector] = writes]
                                 ELSE platter
  BY <1>1 DEF Answer
<1>4. o = "idle" /\ req.op = "store"
  BY <1>1, <1>2, <1>3, OutcomesRange, SMTT(30), ZenonT(30)
<1>5. d = e /\ s = cmd[e].sector
  <2>1. platter' = [platter EXCEPT ![e][cmd[e].sector] = writes]
    BY <1>3, <1>4
  <2>2. platter \in [Devices -> [Sectors -> Nat]] /\ cmd[e].sector \in Sectors
    BY DEF IdeInv, TypeOK
  <2>3. d = e
    BY <2>1, <2>2
  <2>4. platter'[e] = [platter[e] EXCEPT ![cmd[e].sector] = writes]
    BY <2>1, <2>2
  <2> QED BY <2>2, <2>3, <2>4
<1>6. InRequest /\ req.op # "identify"
  BY <1>2, <1>4, WorkingIsAwaited
<1>7. e = fsdev /\ cmd[e].sector = req.lba
  BY <1>2, <1>6, RequestSelects
<1> QED BY <1>5, <1>7, SMTT(30), ZenonT(30)

-----------------------------------------------------------------------------
(***************************************************************************)
(* The probing of the four positions.  What is entered for a position      *)
(* stays right while a later one is probed.                                *)
(***************************************************************************)
LEMMA StillProbed ==
  ASSUME NEW n, ProbedTo(n), devices' = devices, kind' = kind,
         \A e \in Devices : e < n => phase'[e] = phase[e]
  PROVE  ProbedTo(n)'
BY SMTT(30), ZenonT(30) DEF ProbedTo, Answers

\* Nothing is said of the table while no position is probed.
LEMMA NotProbing ==
  ASSUME ProbeInv, devices' = devices,
         pc' \notin {"scan", "probe", "identified"}, ~Identifying'
  PROVE  ProbeInv'
BY SMTT(30), ZenonT(30) DEF ProbeInv, ProbeExact

LEMMA ProbeInit == Init => ProbeInv
<1> SUFFICES ASSUME Init PROVE ProbeInv
  OBVIOUS
<1>1. devices \in [Devices -> [exists : BOOLEAN, lba : BOOLEAN]]
  BY DEF Init, NoInfo
<1>2. pc = "scan" /\ ctrls = Controllers
  BY DEF Init
<1> QED BY <1>1, <1>2 DEF ProbeInv, ProbeExact, Identifying, InRequest, Waiting

LEMMA ProbeBegins ==
  ASSUME ide_ctrlinit
  PROVE  ProbeInv'
<1>1. devices' = [d \in Devices |-> NoInfo] /\ idx' = 0 /\ pc' = "probe"
  BY DEF ide_ctrlinit
<1>2. /\ devices' \in [Devices -> [exists : BOOLEAN, lba : BOOLEAN]]
      /\ \A d \in Devices : ~devices'[d].exists /\ ~(d < 0)
  BY <1>1 DEF NoInfo, Devices
<1>3. ProbedTo(idx)'
  BY <1>1, <1>2, SMTT(30), ZenonT(30) DEF ProbedTo
<1> QED BY <1>1, <1>2, <1>3 DEF ProbeInv, ProbeExact, Identifying, InRequest, Waiting

LEMMA ProbeIdentify ==
  ASSUME IdeInv, ProbeInv, ide_identify_drive
  PROVE  ProbeInv'
<1>1. /\ idx \in Devices /\ idx' = idx /\ ~InRequest
      /\ UNCHANGED <<kind, devices>>
      /\ Command(idx, "identify", 0)
      /\ reg' = [reg EXCEPT ![Channel(idx)] = [dev |-> idx % 2, sector |-> @.sector]]
      /\ req' = [op |-> "identify", dev |-> idx, lba |-> 0]
      /\ pc = "probe" /\ pc' = "delay"
  BY DEF ide_identify_drive, IdeInv, TypeOK, machine, InRequest, Waiting
<1>2. /\ Channel(idx) \in {0, 1} /\ idx % 2 \in {0, 1}
      /\ 2 * Channel(idx) + (idx % 2) = idx
  BY <1>1, Positions, SMTT(30), ZenonT(30)
<1>3. reg'[Channel(idx)].dev = idx % 2
  BY <1>1, <1>2 DEF IdeInv, TypeOK
<1>4. Selected(Channel(idx))' = idx
  BY <1>1, <1>2, <1>3 DEF Selected
<1>5. phase \in [Devices -> Phases] /\ phase[idx] \notin Working
  BY <1>1, Quiet DEF IdeInv, TypeOK, Working
<1>6. /\ \A e \in Devices : e # idx => phase'[e] = phase[e]
      /\ ~Empty(idx) => phase'[idx] = "taken"
      /\ Empty(idx) => phase'[idx] = phase[idx]
  BY <1>1, <1>5 DEF Command
<1>7. ProbedTo(idx)'
  <2>1. \A e \in Devices : e < idx => e # idx
    BY <1>1 DEF Devices
  <2> QED BY <1>1, <1>6, <2>1, StillProbed DEF ProbeInv
<1>8. kind[idx] = "packet" => ~Empty(idx)
  BY DEF Empty
<1> QED BY <1>1, <1>4, <1>6, <1>7, <1>8, SMTT(30), ZenonT(30)
        DEF ProbeInv, ProbeExact, Identifying, Empty, Working

(***************************************************************************)
(* What the status register says of a position that is being identified.   *)
(***************************************************************************)
LEMMA StatusIdentifies ==
  ASSUME IdeInv, ProbeInv, Identifying, pc # "delay",
         NEW status, status = arch_ide_readaltstatus(Channel(req.dev))
  PROVE  /\ status = {} => ~Answers(idx)
         /\ "BSY" \notin status => ("DRQ" \in status <=> Answers(idx))
         /\ "BSY" \in status /\ "ERR" \in status => ~Answers(idx)
<1> DEFINE d == Selected(Channel(req.dev))
<1>1. d = idx /\ idx \in Devices
  BY SMTT(30), ZenonT(30) DEF ProbeInv, Identifying, IdeInv, InStep
<1>2. /\ kind[d] \in {"ata", "chs", "packet", "none", "pulled", "floating"}
      /\ kind[d] \in {"ata", "chs", "packet"} =>
           phase[d] \in {"busy", "hung", "data", "error"}
      /\ kind[d] = "packet" => phase[d] # "data"
      /\ kind[d] \in {"none", "pulled", "floating"} => phase[d] = "idle"
  <2>1. phase[d] # "taken" \/ Empty(d)
    BY <1>1 DEF IdeInv, Identifying, InRequest, InStep, Waiting
  <2>2. /\ kind[d] \in {"ata", "chs", "packet", "none", "pulled", "floating"}
        /\ Empty(d) => phase[d] = "idle"
    BY <1>1, SMTT(30), ZenonT(30) DEF IdeInv, TypeOK
  <2> HIDE DEF d
  <2> QED BY <1>1, <2>1, <2>2, ZenonT(30), SMTT(30) DEF ProbeInv, Working, Empty
<1>3. Answers(d) <=> Answers(idx)
  BY <1>1 DEF Answers
<1>4. status = CASE kind[d] = "none"     -> {}
                 [] kind[d] = "pulled"   -> {"DRDY", "DRQ", "ERR"}
                 [] kind[d] = "floating" -> {"BSY", "DRDY", "DRQ", "ERR"}
                 [] phase[d] \in {"busy", "hung"} -> {"BSY"}
                 [] phase[d] \in {"data", "want"} -> {"DRDY", "DRQ"}
                 [] phase[d] = "bad"   -> {"DRDY", "DRQ", "ERR"}
                 [] phase[d] = "error" -> {"DRDY", "ERR"}
                 [] OTHER -> {"DRDY"}
  BY DEF arch_ide_readaltstatus
<1> HIDE DEF d
<1>5. CASE kind[d] = "none"
  <2>1. status = {}
    BY <1>2, <1>4, <1>5
  <2>2. ~Answers(idx)
    BY <1>3, <1>5 DEF Answers
  <2> QED BY <2>1, <2>2
<1>6. CASE kind[d] = "pulled"
  <2>1. status = {"DRDY", "DRQ", "ERR"}
    BY <1>2, <1>4, <1>6
  <2>2. Answers(idx)
    BY <1>3, <1>6 DEF Answers
  <2> QED BY <2>1, <2>2
<1>7. CASE kind[d] = "floating"
  <2>1. status = {"BSY", "DRDY", "DRQ", "ERR"}
    BY <1>2, <1>4, <1>7
  <2>2. ~Answers(idx)
    BY <1>3, <1>7 DEF Answers
  <2> QED BY <2>1, <2>2
<1>8. CASE kind[d] \in {"ata", "chs", "packet"} /\ phase[d] \in {"busy", "hung"}
  BY <1>3, <1>4, <1>8
<1>9. CASE kind[d] \in {"ata", "chs", "packet"} /\ phase[d] = "data"
  BY <1>2, <1>3, <1>4, <1>9 DEF Answers
<1>10. CASE kind[d] \in {"ata", "chs", "packet"} /\ phase[d] = "error"
  BY <1>3, <1>4, <1>10, SMTT(30), ZenonT(30) DEF Answers
<1> QED BY <1>2, <1>5, <1>6, <1>7, <1>8, <1>9, <1>10, SMTT(30), ZenonT(30)

\* The identification of a position ends with what the position answered.
LEMMA IdentifyReturns ==
  ASSUME IdeInv, ProbeInv, Identifying, NEW r, Return(r), UNCHANGED inWait,
         r = "NO_ERROR" <=> Answers(idx)
  PROVE  ProbeInv'
<1>1. UNCHANGED <<kind, phase, devices, idx>> /\ pc' = "identified" /\ ret' = r
  BY DEF inWait, machine, drive, Return, Identifying
<1>2. ProbedTo(idx)'
  BY <1>1, StillProbed, SMTT(30), ZenonT(30) DEF ProbeInv
<1> QED BY <1>1, <1>2 DEF ProbeInv, ProbeExact, Identifying, InRequest, Waiting, Answers

\* wait_for_drive_ready goes on for a position that is being identified.
LEMMA IdentifyWaits ==
  ASSUME ProbeInv, Identifying, UNCHANGED inWait, InRequest',
         pc' = "transfer" => Answers(idx)
  PROVE  ProbeInv'
<1>1. UNCHANGED <<kind, reg, phase, devices, req, idx>>
  BY DEF inWait, machine, drive
<1>2. ProbedTo(idx)'
  BY <1>1, StillProbed DEF ProbeInv
<1>3. Selected(Channel(idx))' = Selected(Channel(idx))
  BY <1>1 DEF Selected
<1>4. pc' \notin {"scan", "probe", "identified"} /\ Identifying'
  BY <1>1 DEF Identifying, InRequest, Waiting
<1> QED BY <1>1, <1>2, <1>3, <1>4 DEF ProbeInv, ProbeExact, Empty, Answers

LEMMA ProbeWait ==
  ASSUME IdeInv, ProbeInv, Delay \/ Present \/ Poll
  PROVE  ProbeInv'
<1> DEFINE status == arch_ide_readaltstatus(Channel(req.dev))
<1>1. InRequest /\ UNCHANGED inWait
  BY DEF Delay, Present, Poll, InRequest, Waiting
<1>2. UNCHANGED <<devices, req>>
  BY <1>1 DEF inWait
<1>3. CASE req.op # "identify"
  <2>1. pc' \notin {"scan", "probe", "identified"}
    BY <1>1, <1>3 DEF Delay, Present, Poll, WaitOver, Return, InRequest, Waiting
  <2> QED BY <1>2, <1>3, <2>1, NotProbing DEF Identifying
<1>4. CASE req.op = "identify"
  <2>1. Identifying
    BY <1>1, <1>4 DEF Identifying
  <2>2. ASSUME NEW r, WaitOver(r), r # "NO_ERROR", ~Answers(idx) PROVE ProbeInv'
    <3>1. Return(r)
      BY <1>4, <2>2 DEF WaitOver
    <3> QED BY <1>1, <2>1, <2>2, <3>1, IdentifyReturns
  <2>3. ASSUME pc' \in {"present", "poll"} \/ (pc' = "transfer" /\ Answers(idx))
        PROVE  ProbeInv'
    BY <1>1, <2>1, <2>3, IdentifyWaits DEF InRequest, Waiting
  <2>4. CASE Delay
    BY <2>3, <2>4 DEF Delay
  <2>5. CASE Present
    <3>1. status = {} => ~Answers(idx)
      BY <2>1, <2>5, StatusIdentifies DEF Present
    <3>2. CASE status = {} BY <2>2, <2>5, <3>1, <3>2 DEF Present
    <3>3. CASE status # {} BY <2>3, <2>5, <3>3 DEF Present
    <3> QED BY <3>2, <3>3
  <2>6. CASE Poll
    <3>1. /\ "BSY" \notin status => ("DRQ" \in status <=> Answers(idx))
          /\ "BSY" \in status /\ "ERR" \in status => ~Answers(idx)
      BY <2>1, <2>6, StatusIdentifies DEF Poll
    <3>2. CASE "BSY" \notin status /\ "DRQ" \in status
      BY <1>4, <2>3, <2>6, <3>1, <3>2 DEF Poll
    <3>3. CASE \/ "BSY" \notin status /\ "DRQ" \notin status
               \/ "BSY" \in status /\ "ERR" \in status
      <4>1. WaitOver("UNIDENTIFIED_ERROR")
        BY <2>6, <3>3 DEF Poll
      <4> QED BY <2>2, <3>1, <3>3, <4>1
    <3>4. CASE "BSY" \in status /\ "ERR" \notin status
      <4>1. pc' = "poll"
        BY <2>6, <3>4 DEF Poll
      <4> QED BY <2>3, <4>1
    <3> QED BY <3>2, <3>3, <3>4
  <2> QED BY <2>4, <2>5, <2>6
<1> QED BY <1>3, <1>4

LEMMA ProbeRead ==
  ASSUME IdeInv, ProbeInv, ReadBuffer
  PROVE  ProbeInv'
<1> DEFINE d == Selected(Channel(req.dev))
<1>1. /\ pc = "transfer" /\ InRequest /\ Return("NO_ERROR")
      /\ UNCHANGED <<kind, devices, req, idx>>
      /\ phase' = IF Empty(d) THEN phase ELSE [phase EXCEPT ![d] = "idle"]
  BY DEF ReadBuffer, InRequest, Waiting, machine
<1>2. CASE req.op # "identify"
  <2>1. pc' \notin {"scan", "probe", "identified"} /\ ~Identifying'
    BY <1>1, <1>2, SMTT(30), ZenonT(30) DEF Return, Identifying
  <2> QED BY <1>1, <2>1, NotProbing
<1>3. CASE req.op = "identify"
  <2>1. Identifying /\ d = idx /\ Answers(idx) /\ ProbedTo(idx) /\ idx \in Devices
    BY <1>1, <1>3 DEF Identifying, ProbeInv, IdeInv, InStep
  <2>2. phase \in [Devices -> Phases]
    BY DEF IdeInv, TypeOK
  <2> HIDE DEF d
  <2>3. phase'[idx] \in {phase[idx], "idle"} /\ \A e \in Devices : e # idx => phase'[e] = phase[e]
    BY <1>1, <2>1, <2>2
  <2>4. \A e \in Devices : e < idx => e # idx
    BY <2>1 DEF Devices
  <2>5. ProbedTo(idx)'
    BY <1>1, <2>1, <2>3, <2>4, StillProbed
  <2>6. Answers(idx)'
    BY <1>1, <2>1, <2>3 DEF Answers
  <2>7. pc' = "identified" /\ ret' = "NO_ERROR"
    BY <1>1, <1>3, SMTT(30), ZenonT(30) DEF Return
  <2> QED BY <1>1, <2>5, <2>6, <2>7, SMTT(30), ZenonT(30)
          DEF ProbeInv, ProbeExact, Identifying, InRequest, Waiting
<1> QED BY <1>2, <1>3, SMTT(30), ZenonT(30)

LEMMA ProbeEnters ==
  ASSUME IdeInv, ProbeInv, Identified
  PROVE  ProbeInv'
<1>1. /\ pc = "identified" /\ idx \in Devices /\ idx' = idx + 1
      /\ pc' = IF idx = 3 THEN "scan" ELSE "probe"
      /\ devices' = IF ret = "NO_ERROR"
                    THEN [devices EXCEPT ![idx] = fill_device_info(idx)] ELSE devices
      /\ UNCHANGED <<kind, phase>>
  BY DEF Identified, IdeInv, TypeOK, machine, drive
<1>2. /\ devices \in [Devices -> [exists : BOOLEAN, lba : BOOLEAN]]
      /\ ProbedTo(idx) /\ (ret = "NO_ERROR" <=> Answers(idx))
  BY <1>1, SMTT(30), ZenonT(30) DEF ProbeInv
<1>3. devices' \in [Devices -> [exists : BOOLEAN, lba : BOOLEAN]]
  BY <1>1, <1>2 DEF fill_device_info
<1>4. devices'[idx].exists <=> Answers(idx)
  <2>1. CASE ret = "NO_ERROR"
    BY <1>1, <1>2, <2>1 DEF fill_device_info
  <2>2. CASE ret # "NO_ERROR"
    <3>1. ~devices[idx].exists
      BY <1>1, <1>2 DEF ProbedTo, Devices
    <3> QED BY <1>1, <1>2, <2>2, <3>1
  <2> QED BY <2>1, <2>2
<1>5. \A e \in Devices : e # idx => devices'[e] = devices[e]
  BY <1>1, <1>2
<1>6. \A e \in Devices : Answers(e)' <=> Answers(e)
  BY <1>1 DEF Answers
<1>7. \A e \in Devices :
        IF e < idx + 1 THEN devices'[e].exists <=> Answers(e) ELSE ~devices'[e].exists
  <2> SUFFICES ASSUME NEW e \in Devices
               PROVE  IF e < idx + 1 THEN devices'[e].exists <=> Answers(e)
                                     ELSE ~devices'[e].exists
    OBVIOUS
  <2>1. CASE e = idx BY <1>1, <1>4, <2>1 DEF Devices
  <2>2. CASE e # idx
    <3>1. e < idx + 1 <=> e < idx
      BY <1>1, <2>2 DEF Devices
    <3> QED BY <1>2, <1>5, <2>2, <3>1 DEF ProbedTo
  <2> QED BY <2>1, <2>2
<1>8. ProbedTo(idx)'
  BY <1>1, <1>6, <1>7 DEF ProbedTo
<1>9. pc' = "scan" => \A e \in Devices : devices'[e].exists <=> Answers(e)'
  <2>1. pc' = "scan" => \A e \in Devices : e < idx + 1
    BY <1>1 DEF Devices
  <2> QED BY <1>6, <1>7, <2>1
<1>10. ProbeExact'
  BY <1>9 DEF ProbeExact, Answers
<1>11. pc' \in {"scan", "probe"}
  BY <1>1
<1> QED BY <1>3, <1>8, <1>10, <1>11
        DEF ProbeInv, Identifying, InRequest, Waiting

LEMMA ProbeDrive ==
  ASSUME IdeInv, ProbeInv, NEW d \in Devices, DriveStep(d)
  PROVE  ProbeInv'
<1>1. phase[d] \in {"taken", "busy"} /\ pc' = pc
      /\ UNCHANGED <<kind, reg, cmd, req, idx, devices>>
  BY DEF DriveStep, Take, Answer, Hang, machine, kernel
<1>2. /\ InRequest /\ InStep /\ d = Selected(Channel(req.dev)) /\ pc # "transfer"
      /\ cmd[d].op = req.op
  BY <1>1, WorkingIsAwaited
<1>3. CASE req.op # "identify"
  <2>1. pc' \notin {"scan", "probe", "identified"} /\ ~Identifying'
    BY <1>1, <1>2, <1>3, SMTT(30), ZenonT(30) DEF InRequest, Waiting, Identifying
  <2> QED BY <1>1, <2>1, NotProbing, SMTT(30), ZenonT(30)
<1>4. CASE req.op = "identify"
  <2>1. Identifying /\ d = idx /\ ProbedTo(idx)
    BY <1>2, <1>4 DEF Identifying, ProbeInv
  <2>2. PICK o \in Working \cup {"data", "error"} :
          /\ phase' = [phase EXCEPT ![d] = o]
          /\ kind[d] = "packet" => o # "data"
    BY <1>2, <1>4 DEF DriveStep, Take, Answer, Hang, Outcomes, Working
  <2>3. phase'[d] = o /\ \A e \in Devices : e # d => phase'[e] = phase[e]
    BY <2>2 DEF IdeInv, TypeOK
  <2>4. \A e \in Devices : e < idx => e # d
    BY <2>1 DEF Devices
  <2>5. ProbedTo(idx)'
    BY <1>1, <2>1, <2>3, <2>4, StillProbed, SMTT(30), ZenonT(30)
  <2>6. Selected(Channel(idx))' = Selected(Channel(idx))
    BY <1>1 DEF Selected
  <2>7. pc' \notin {"scan", "probe", "identified", "transfer"} /\ Identifying'
    BY <1>1, <1>2, <2>1 DEF Identifying, InRequest, Waiting
  <2>8. /\ ~Empty(idx)' => phase'[idx] \in Working \cup {"data", "error"}
        /\ kind'[idx] = "packet" => phase'[idx] # "data"
    BY <1>1, <2>1, <2>2, <2>3
  <2> QED BY <1>1, <2>1, <2>5, <2>6, <2>7, <2>8, ZenonT(30), SMTT(30) DEF ProbeInv, ProbeExact
<1> QED BY <1>3, <1>4

\* What the kernel has set once a request is begun, or refused.
LEMMA Requested ==
  /\ TakeFirst => devices' = devices /\ pc' \in {"delay", "bootread"} /\ req'.op = "read"
  /\ \A lba \in 0 .. Reach :
       block_dev_read(lba) \/ block_dev_write(lba) =>
         /\ pc = "ready" /\ pc' = "delay" /\ req'.op \in {"read", "write"}
         /\ fsdev' = fsdev /\ devices' = devices
<1>1. ASSUME NEW op, NEW d, NEW lba, StartSector(op, d, lba)
      PROVE  pc' = "delay" /\ req'.op = op
  <2>1. pc' = "delay" /\ req' = [op |-> op, dev |-> d, lba |-> lba]
    BY <1>1, ZenonT(30), SMTT(30) DEF StartSector
  <2> QED BY <2>1, SMTT(30), ZenonT(30)
<1>2. ASSUME NEW op, NEW d, NEW lba, RefuseSector(op, d, lba)
      PROVE  pc' = "bootread" /\ req'.op = op
  <2>1. pc' = "bootread" /\ req' = [op |-> op, dev |-> d, lba |-> lba]
    BY <1>2, ZenonT(30), SMTT(30) DEF RefuseSector
  <2> QED BY <2>1, SMTT(30), ZenonT(30)
<1>3. ASSUME TakeFirst
      PROVE  devices' = devices /\ pc' \in {"delay", "bootread"} /\ req'.op = "read"
  <2>1. /\ devices' = devices
        /\ StartSector("read", Min(Found), 0) \/ RefuseSector("read", Min(Found), 0)
    BY <1>3, ZenonT(30), SMTT(30) DEF TakeFirst
  <2> QED BY <1>1, <1>2, <2>1, ZenonT(30), SMTT(30)
<1>4. ASSUME NEW lba \in 0 .. Reach, block_dev_read(lba) \/ block_dev_write(lba)
      PROVE  /\ pc = "ready" /\ pc' = "delay" /\ req'.op \in {"read", "write"}
             /\ fsdev' = fsdev /\ devices' = devices
  <2>1. /\ pc = "ready" /\ fsdev' = fsdev /\ devices' = devices
        /\ StartSector("read", fsdev, lba) \/ StartSector("write", fsdev, lba)
    BY <1>4, ZenonT(30), SMTT(30) DEF block_dev_read, block_dev_write
  <2> QED BY <1>1, <2>1, ZenonT(30), SMTT(30)
<1> QED BY <1>3, <1>4

LEMMA ProbeStep == IdeInv /\ ProbeInv /\ [Next]_ideVars => ProbeInv'
<1> SUFFICES ASSUME IdeInv, ProbeInv, [Next]_ideVars PROVE ProbeInv'
  OBVIOUS
<1>1. CASE ide_ctrlinit BY <1>1, ProbeBegins
<1>2. CASE ide_identify_drive BY <1>2, ProbeIdentify
<1>3. CASE Identified BY <1>3, ProbeEnters
<1>4. CASE Delay \/ Present \/ Poll BY <1>4, ProbeWait
<1>5. CASE ReadBuffer BY <1>5, ProbeRead
<1>6. ASSUME devices' = devices, pc' \notin {"scan", "probe", "identified"},
             req'.op = "identify" => pc' \notin Waiting \cup {"transfer"}
      PROVE  ProbeInv'
  BY <1>6, NotProbing DEF Identifying, InRequest
<1>7. CASE WriteBuffer
  <2>1. req'.op = "store" /\ pc' = "delay" /\ devices' = devices
    BY <1>7 DEF WriteBuffer, IdeInv, TypeOK
  <2> QED BY <1>6, <2>1
<1>8. CASE NoController \/ NoDevice \/ fat16_create_context
  BY <1>6, <1>8 DEF NoController, NoDevice, fat16_create_context, Waiting
<1>9. CASE TakeFirst \/ \E lba \in 0 .. Reach : block_dev_read(lba) \/ block_dev_write(lba)
  <2>1. devices' = devices /\ pc' \in {"delay", "bootread"} /\ req'.op # "identify"
    BY <1>9, Requested
  <2> QED BY <1>6, <2>1, SMTT(30), ZenonT(30)
<1>10. ASSUME NEW d \in Devices, DriveStep(d) PROVE ProbeInv'
  BY <1>10, ProbeDrive, SMTT(30), ZenonT(30)
<1>11. CASE UNCHANGED ideVars
  BY <1>11 DEF ideVars, machine, drive, kernel, ProbeInv, ProbeExact, ProbedTo, Answers,
     Identifying, InRequest, Empty, Selected, Controllers
<1> QED BY <1>1, <1>2, <1>3, <1>4, <1>5, <1>7, <1>8, <1>9, <1>10, <1>11
        DEF Next, KernelStep

-----------------------------------------------------------------------------
(***************************************************************************)
(* The transfers.  What the boot sector may hold.                          *)
(***************************************************************************)
LEMMA SameBoot ==
  ASSUME devices' = devices
  PROVE  Min(Found)' = Min(Found) /\ BootSectors' = BootSectors
<1>1. Found' = Found
  BY DEF Found
<1>2. Min(Found)' = Min(Found)
  BY <1>1 DEF Min
<1> QED BY <1>2 DEF BootSectors

LEMMA Contents ==
  /\ Unread \notin BootSectors /\ Zero \notin BootSectors
  /\ Unread # Zero
<1>1. Unread # Garbage
  BY DEF Unread, Garbage
<1>2. Unread # <<Min(Found), 0, 0>>
  BY DEF Unread
<1>3. Zero # Garbage /\ Zero # <<Min(Found), 0, 0>> /\ Unread # Zero
  BY SMTT(30), ZenonT(30) DEF Zero, Unread, Garbage
<1> QED BY <1>1, <1>2, <1>3 DEF BootSectors

LEMMA TransfersInit == Init => TransfersInv
<1> SUFFICES ASSUME Init PROVE TransfersInv
  OBVIOUS
<1>1. pc = "scan" /\ boot_sector = Unread /\ req.op = "none"
  BY DEF Init
<1>2. \A d \in Devices, s \in Sectors : platter[d][s] = 0
  BY DEF Init
<1>3. ~Transferring
  BY <1>1, SMTT(30), ZenonT(30) DEF Transferring, InRequest, Waiting
<1> QED BY <1>1, <1>2, <1>3, SMTT(30), ZenonT(30) DEF TransfersInv

\* Up to the first read nothing is transferred.
LEMMA BeforeTransfers ==
  ASSUME TransfersInv, boot_sector = Unread, UNCHANGED <<platter, boot_sector>>,
         req'.op \notin {"write", "store"},
         pc' \notin {"ready", "bootread"}, ~Transferring'
  PROVE  TransfersInv'
BY DEF TransfersInv

\* A request begins.
LEMMA TransferBegins ==
  ASSUME IdeInv, TransfersInv,
         TakeFirst \/ \E lba \in 0 .. Reach : block_dev_read(lba) \/ block_dev_write(lba)
  PROVE  TransfersInv'
<1>1. UNCHANGED <<platter, boot_sector, devices>>
  BY DEF TakeFirst, block_dev_read, block_dev_write
<1>2. Min(Found)' = Min(Found) /\ BootSectors' = BootSectors
  BY <1>1, SameBoot, SMTT(30), ZenonT(30)
<1>3. CASE TakeFirst
  <2>1. /\ boot_sector = Unread /\ boot_sector' = Unread
        /\ \A d \in Devices, s \in Sectors : platter'[d][s] = 0
        /\ fsdev' = Min(Found) /\ buffer' = Zero
        /\ req' = [op |-> "read", dev |-> Min(Found), lba |-> 0]
    BY <1>1, <1>3, ZenonT(30), SMTT(30) DEF TakeFirst, TransfersInv, StartSector, RefuseSector
  <2>2. req'.op = "read" /\ req'.lba = 0
    BY <2>1, SMTT(30), ZenonT(30)
  <2>3. pc' = "delay" \/ (pc' = "bootread" /\ ret' = "NOT_IMPLEMENTED")
    <3>1. StartSector("read", Min(Found), 0) \/ RefuseSector("read", Min(Found), 0)
      BY <1>3, ZenonT(30), SMTT(30) DEF TakeFirst
    <3> QED BY <3>1, ZenonT(30), SMTT(30) DEF StartSector, RefuseSector
  <2>4. ~Identifying' /\ pc' \notin {"scan", "probe", "identified", "ready"}
    BY <2>2, <2>3 DEF Identifying
  <2>5. pc' = "bootread" => Done'
    BY <2>3, SMTT(30), ZenonT(30) DEF Done
  <2> QED BY <1>2, <2>1, <2>2, <2>4, <2>5, ZenonT(30), SMTT(30) DEF TransfersInv
<1>4. CASE \E lba \in 0 .. Reach : block_dev_read(lba) \/ block_dev_write(lba)
  <2>1. /\ pc = "ready" /\ pc' = "delay" /\ req'.op \in {"read", "write"}
        /\ fsdev' = fsdev
    BY <1>4, Requested, SMTT(30), ZenonT(30)
  <2>2. fsdev = Min(Found) /\ boot_sector \in BootSectors
    BY <2>1 DEF TransfersInv
  <2>3. boot_sector' # Unread
    BY <1>1, <2>2, Contents
  <2>4. ~Identifying'
    BY <2>1, SMTT(30), ZenonT(30) DEF Identifying
  <2> QED BY <1>1, <1>2, <2>1, <2>2, <2>3, <2>4, SMTT(30), ZenonT(30) DEF TransfersInv
<1> QED BY <1>3, <1>4

\* A request for a sector returns.
LEMMA TransferReturns ==
  ASSUME IdeInv, TransfersInv, Transferring, NEW r, Return(r),
         UNCHANGED <<platter, req, devices, fsdev, boot_sector>>,
         boot_sector = Unread => buffer' \in BootSectors \cup {Zero},
         Done'
  PROVE  TransfersInv'
<1>1. Min(Found)' = Min(Found) /\ BootSectors' = BootSectors
  BY SameBoot
<1>2. pc' = IF boot_sector = Unread THEN "bootread" ELSE "ready"
  BY DEF Return, Transferring
<1>3. pc' \in {"bootread", "ready"} /\ ~Transferring' /\ ~Identifying'
  BY <1>2 DEF Transferring, Identifying, InRequest, Waiting
<1>4. fsdev = Min(Found) /\ boot_sector \in BootSectors \cup {Unread}
  BY DEF TransfersInv
<1>5. boot_sector = Unread =>
        /\ \A d \in Devices, s \in Sectors : platter[d][s] = 0
        /\ req.op \notin {"write", "store"} /\ req.lba = 0
  BY SMTT(30), ZenonT(30) DEF TransfersInv
<1> QED BY <1>1, <1>2, <1>3, <1>4, <1>5 DEF TransfersInv

\* A request for a sector goes on; only its drive may do something.
LEMMA TransferWaits ==
  ASSUME IdeInv, TransfersInv, Transferring, InRequest',
         req'.op # "identify", req'.lba = req.lba,
         UNCHANGED <<devices, fsdev, boot_sector, buffer>>,
         boot_sector = Unread => platter' = platter /\ req'.op = req.op,
         req'.op = "store" /\ req.lba < Reach =>
           (phase[fsdev] # "idle" \/ Empty(fsdev) \/ platter[fsdev][req.lba] = writes)'
  PROVE  TransfersInv'
<1>1. Min(Found)' = Min(Found) /\ BootSectors' = BootSectors
  BY SameBoot, ZenonT(30), SMTT(30)
<1>2. pc' \notin {"scan", "probe", "identified", "bootread", "ready"} /\ ~Identifying'
  BY SMTT(30), ZenonT(30) DEF InRequest, Waiting, Identifying
<1>3. fsdev = Min(Found) /\ boot_sector \in BootSectors \cup {Unread}
  BY SMTT(30), ZenonT(30) DEF TransfersInv
<1>4. boot_sector = Unread =>
        /\ \A d \in Devices, s \in Sectors : platter[d][s] = 0
        /\ req.op \notin {"write", "store"} /\ req.lba = 0 /\ buffer = Zero
  BY DEF TransfersInv
<1> QED BY <1>1, <1>2, <1>3, <1>4, SMTT(30), ZenonT(30) DEF TransfersInv

LEMMA TransferPolls ==
  ASSUME IdeInv, TransfersInv, Delay \/ Present \/ Poll
  PROVE  TransfersInv'
<1> DEFINE d == Selected(Channel(req.dev))
           status == arch_ide_readaltstatus(Channel(req.dev))
<1>1. InRequest /\ UNCHANGED inWait
  BY DEF Delay, Present, Poll, InRequest, Waiting
<1>2. UNCHANGED <<kind, platter, phase, req, devices, fsdev, boot_sector, buffer, writes>>
  BY <1>1 DEF inWait, machine, drive
<1>3. CASE req.op = "identify"
  <2>1. pc' \notin {"ready", "bootread"}
    BY <1>1, <1>3, SMTT(30), ZenonT(30) DEF Delay, Present, Poll, WaitOver, Return, InRequest, Waiting
  <2>2. boot_sector = Unread /\ req.op \notin {"write", "store"}
    BY <1>1, <1>3 DEF TransfersInv, Identifying
  <2> QED BY <1>2, <1>3, <2>1, <2>2, BeforeTransfers DEF Transferring
<1>4. CASE req.op # "identify"
  <2>1. Transferring
    BY <1>1, <1>4 DEF Transferring
  <2>2. ASSUME InRequest' PROVE TransfersInv'
    <3>1. req'.op = "store" /\ req.lba < Reach =>
           (phase[fsdev] # "idle" \/ Empty(fsdev) \/ platter[fsdev][req.lba] = writes)'
      BY <1>2, <2>1 DEF TransfersInv, Empty
    <3> QED BY <1>2, <1>4, <2>1, <2>2, <3>1, TransferWaits, SMTT(30), ZenonT(30)
  <2>3. ASSUME NEW r, Return(r),
               r = "NO_ERROR" => req.op = "store" /\ phase[d] \in {"idle", "error"}
        PROVE  TransfersInv'
    <3>1. Done'
      <4> SUFFICES ASSUME ret' = "NO_ERROR", req'.lba < Reach PROVE Done'
        BY DEF Done
      <4>1. req.op = "store" /\ phase[d] \in {"idle", "error"}
        BY <2>3, SMTT(30), ZenonT(30) DEF Return
      <4>2. d = fsdev
        BY <1>1, <1>2, <1>4, RequestSelects, SMTT(30), ZenonT(30)
      <4>3. phase[fsdev] # "idle" \/ Empty(fsdev) \/ platter[fsdev][req.lba] = writes
        BY <1>2, <2>1, <4>1, SMTT(30), ZenonT(30) DEF TransfersInv
      <4> QED BY <1>2, <4>1, <4>2, <4>3, SMTT(30), ZenonT(30) DEF Done, Empty
    <3>2. boot_sector = Unread => buffer' = Zero
      BY <1>2, <2>1 DEF TransfersInv
    <3> QED BY <1>2, <2>1, <2>3, <3>1, <3>2, TransferReturns, SMTT(30), ZenonT(30)
  <2>4. ASSUME NEW r, WaitOver(r), r # "NO_ERROR", phase[d] \in {"idle", "error"}
        PROVE  TransfersInv'
    BY <2>3, <2>4 DEF WaitOver
  <2>5. CASE Delay
    BY <2>2, <2>5 DEF Delay, InRequest, Waiting
  <2>6. CASE Present
    <3>1. status = {} => phase[d] \in {"idle", "error"}
      BY <1>1, <2>6, StatusTells DEF Present
    <3>2. CASE status = {} BY <2>4, <2>6, <3>1, <3>2 DEF Present
    <3>3. CASE status # {} BY <2>2, <2>6, <3>3 DEF Present, InRequest, Waiting
    <3> QED BY <3>2, <3>3
  <2>7. CASE Poll
    <3>1. pc = "poll" /\ pc # "delay"
      BY <2>7 DEF Poll
    <3>2. CASE "BSY" \notin status /\ "DRQ" \in status
      <4>1. CASE req.op = "store"
        <5>1. phase[d] \in {"idle", "error"}
          BY <1>1, <3>1, <3>2, <4>1, StatusTells
        <5>2. Return("NO_ERROR")
          BY <2>7, <3>2, <4>1 DEF Poll
        <5> QED BY <2>3, <4>1, <5>1, <5>2
      <4>2. CASE req.op # "store"
        BY <2>2, <2>7, <3>2, <4>2 DEF Poll, InRequest
      <4> QED BY <4>1, <4>2
    <3>3. CASE \/ "BSY" \notin status /\ "DRQ" \notin status
               \/ "BSY" \in status /\ "ERR" \in status
      <4>1. phase[d] \in {"idle", "error"}
        BY <1>1, <3>1, <3>3, StatusTells
      <4>2. WaitOver("UNIDENTIFIED_ERROR")
        BY <2>7, <3>3 DEF Poll
      <4> QED BY <2>4, <4>1, <4>2
    <3>4. CASE "BSY" \in status /\ "ERR" \notin status
      <4>1. pc' = "poll"
        BY <2>7, <3>4 DEF Poll
      <4> QED BY <2>2, <4>1, SMTT(30), ZenonT(30) DEF InRequest, Waiting
    <3> QED BY <3>2, <3>3, <3>4
  <2> QED BY <2>5, <2>6, <2>7
<1> QED BY <1>3, <1>4

LEMMA TransferReads ==
  ASSUME IdeInv, TransfersInv, ReadBuffer
  PROVE  TransfersInv'
<1> DEFINE d == Selected(Channel(req.dev))
<1>1. /\ InRequest /\ req.op \in {"identify", "read"} /\ Return("NO_ERROR")
      /\ UNCHANGED <<platter, req, devices, fsdev, boot_sector>>
      /\ buffer' = IF phase[d] = "data" /\ cmd[d].op = "read"
                   THEN <<d, cmd[d].sector, platter[d][cmd[d].sector]>> ELSE Garbage
  BY SMTT(30), ZenonT(30) DEF ReadBuffer, InRequest, Waiting
<1>2. CASE req.op = "identify"
  <2>1. boot_sector = Unread /\ pc' = "identified"
    BY <1>1, <1>2, SMTT(30), ZenonT(30) DEF TransfersInv, Identifying, Return
  <2>2. ~Transferring'
    BY <1>1, <1>2, SMTT(30), ZenonT(30) DEF Transferring
  <2> QED BY <1>1, <1>2, <2>1, <2>2, BeforeTransfers, SMTT(30), ZenonT(30)
<1>3. CASE req.op = "read"
  <2>1. Transferring
    BY <1>1, <1>3, SMTT(30), ZenonT(30) DEF Transferring
  <2>2. req.lba < Reach => buffer' \in {<<fsdev, req.lba, platter[fsdev][req.lba]>>, Garbage}
    <3> SUFFICES ASSUME req.lba < Reach, phase[d] = "data", cmd[d].op = "read"
                 PROVE  buffer' = <<fsdev, req.lba, platter[fsdev][req.lba]>>
      BY <1>1, SMTT(30), ZenonT(30)
    <3>1. d = fsdev /\ reg[Channel(req.dev)].sector = req.lba
      BY <1>1, <1>3, RequestSelects, SMTT(30), ZenonT(30)
    <3>2. cmd[d].sector = reg[Channel(req.dev)].sector
      BY <1>1, <1>3, SMTT(30), ZenonT(30) DEF IdeInv, InStep
    <3> QED BY <1>1, <3>1, <3>2, SMTT(30), ZenonT(30)
  <2>3. Done'
    BY <1>1, <1>3, <2>2 DEF Done
  <2>4. boot_sector = Unread => buffer' \in BootSectors \cup {Zero}
    <3> SUFFICES ASSUME boot_sector = Unread PROVE buffer' \in BootSectors
      BY SMTT(30), ZenonT(30)
    <3>1. /\ \A e \in Devices, s \in Sectors : platter[e][s] = 0
          /\ req.lba = 0 /\ fsdev = Min(Found)
      BY <2>1 DEF TransfersInv
    <3>2. 0 < Reach
      BY IdeAssumption, SMTT(30), ZenonT(30)
    <3>3. fsdev \in Devices /\ 0 \in Sectors
      BY <1>1, <1>3, <3>1, <3>2, RequestSelects
    <3>4. platter[fsdev][0] = 0
      BY <3>1, <3>3
    <3> QED BY <2>2, <3>1, <3>2, <3>4 DEF BootSectors
  <2> QED BY <1>1, <2>1, <2>3, <2>4, TransferReturns, SMTT(30), ZenonT(30)
<1> QED BY <1>1, <1>2, <1>3, SMTT(30), ZenonT(30)

LEMMA TransferWrites ==
  ASSUME IdeInv, TransfersInv, WriteBuffer
  PROVE  TransfersInv'
<1> DEFINE d == Selected(Channel(req.dev))
<1>1. /\ InRequest /\ InRequest' /\ req.op = "write"
      /\ req' = [req EXCEPT !.op = "store"]
      /\ IF Empty(d) THEN UNCHANGED <<phase, cmd>>
         ELSE phase' = [phase EXCEPT ![d] = "taken"]
      /\ UNCHANGED <<kind, platter, devices, fsdev, boot_sector, buffer, writes>>
  BY DEF WriteBuffer, InRequest, Waiting, machine
<1>2. req'.op = "store" /\ req'.lba = req.lba
  BY <1>1 DEF IdeInv, TypeOK
<1>3. boot_sector # Unread /\ Transferring
  BY <1>1 DEF TransfersInv, Transferring
<1>4. req.lba < Reach => phase'[fsdev] # "idle" \/ Empty(fsdev)'
  <2> SUFFICES ASSUME req.lba < Reach, ~Empty(fsdev) PROVE phase'[fsdev] # "idle"
    BY <1>1 DEF Empty
  <2>1. d = fsdev /\ fsdev \in Devices
    BY <1>1, RequestSelects, SMTT(30), ZenonT(30)
  <2> QED BY <1>1, <2>1 DEF IdeInv, TypeOK
<1> QED BY <1>1, <1>2, <1>3, <1>4, TransferWaits

LEMMA BootSectorRead ==
  ASSUME TransfersInv, fat16_create_context
  PROVE  TransfersInv'
<1>1. /\ pc = "bootread" /\ boot_sector' = buffer
      /\ pc' \in {"divide", "ready", "nobuffer"}
      /\ pc' = "ready" => buffer # Zero
      /\ UNCHANGED <<kind, platter, phase, req, ret, devices, fsdev, buffer, writes>>
  BY DEF fat16_create_context, machine, drive
<1>2. BootSectors' = BootSectors /\ Min(Found)' = Min(Found)
  BY <1>1, SameBoot, SMTT(30), ZenonT(30)
<1>3. /\ boot_sector = Unread /\ fsdev = Min(Found) /\ Done
      /\ req.lba = 0 /\ buffer \in BootSectors \cup {Zero}
      /\ \A d \in Devices, s \in Sectors : platter[d][s] = 0
      /\ req.op \notin {"write", "store"}
  BY <1>1, SMTT(30), ZenonT(30) DEF TransfersInv
<1>4. Done'
  BY <1>1, <1>3 DEF Done, Empty
<1>5. ~Transferring' /\ ~Identifying' /\ pc' \notin {"scan", "probe", "identified", "bootread"}
  BY <1>1 DEF Transferring, Identifying, InRequest, Waiting
<1> QED BY <1>1, <1>2, <1>3, <1>4, <1>5 DEF TransfersInv

LEMMA TransferDrive ==
  ASSUME IdeInv, TransfersInv, NEW d \in Devices, DriveStep(d)
  PROVE  TransfersInv'
<1>1. /\ phase[d] \in {"taken", "busy"}
      /\ UNCHANGED <<kind, cmd, pc, req, devices, fsdev, boot_sector, buffer, writes>>
  BY SMTT(30), ZenonT(30) DEF DriveStep, Take, Answer, Hang, machine, kernel
<1>2. /\ InRequest /\ d = Selected(Channel(req.dev)) /\ cmd[d].op = req.op
      /\ req.op \in Ops
      /\ req.op # "identify" => cmd[d].sector = reg[Channel(req.dev)].sector
  BY <1>1, WorkingIsAwaited
<1>3. PICK o :
        /\ phase' = [phase EXCEPT ![d] = o]
        /\ platter' = IF o = "idle" THEN [platter EXCEPT ![d][cmd[d].sector] = writes]
                                    ELSE platter
        /\ o = "idle" => req.op = "store"
  <2>1. CASE Take(d)
    <3>1. phase' = [phase EXCEPT ![d] = "busy"] /\ platter' = platter /\ "busy" # "idle"
      BY <2>1 DEF Take
    <3> WITNESS "busy"
    <3> QED BY <3>1
  <2>2. CASE Hang(d)
    <3>1. phase' = [phase EXCEPT ![d] = "hung"] /\ platter' = platter /\ "hung" # "idle"
      BY <2>2 DEF Hang
    <3> WITNESS "hung"
    <3> QED BY <3>1
  <2>3. CASE Answer(d) BY <1>2, <2>3, OutcomesRange, ZenonT(30), SMTT(30) DEF Answer
  <2> QED BY <2>1, <2>2, <2>3 DEF DriveStep
<1>4. CASE req.op = "identify"
  <2>1. boot_sector = Unread /\ platter' = platter /\ ~Transferring'
        /\ pc' \notin {"ready", "bootread"}
    BY <1>1, <1>2, <1>3, <1>4, SMTT(30), ZenonT(30)
       DEF TransfersInv, Identifying, Transferring, InRequest, Waiting
  <2> QED BY <1>1, <1>4, <2>1, BeforeTransfers
<1>5. CASE req.op # "identify"
  <2>1. Transferring /\ InRequest'
    BY <1>1, <1>2, <1>5 DEF Transferring, InRequest
  <2>2. boot_sector = Unread => platter' = platter
    BY <1>3, SMTT(30), ZenonT(30) DEF TransfersInv
  <2>3. req.op = "store" /\ req.lba < Reach =>
          phase'[fsdev] # "idle" \/ platter'[fsdev][req.lba] = writes
    <3> SUFFICES ASSUME req.op = "store", req.lba < Reach, phase'[fsdev] = "idle"
                 PROVE  platter'[fsdev][req.lba] = writes
      BY SMTT(30), ZenonT(30)
    <3>1. d = fsdev /\ cmd[d].sector = req.lba /\ req.lba \in Sectors
      BY <1>2, <1>5, RequestSelects, SMTT(30), ZenonT(30)
    <3>2. o = "idle"
      BY <1>3, <3>1 DEF IdeInv, TypeOK
    <3>3. platter' = [platter EXCEPT ![fsdev][req.lba] = writes]
      BY <1>3, <3>1, <3>2
    <3>4. platter \in [Devices -> [Sectors -> Nat]]
      BY SMTT(30), ZenonT(30) DEF IdeInv, TypeOK
    <3>5. platter'[fsdev] = [platter[fsdev] EXCEPT ![req.lba] = writes]
      BY <3>1, <3>3, <3>4
    <3> QED BY <3>1, <3>4, <3>5, ZenonT(30), SMTT(30)
  <2> QED BY <1>1, <1>5, <2>1, <2>2, <2>3, TransferWaits, SMTT(30), ZenonT(30)
<1> QED BY <1>4, <1>5

LEMMA TransfersStep == IdeInv /\ TransfersInv /\ [Next]_ideVars => TransfersInv'
<1> SUFFICES ASSUME IdeInv, TransfersInv, [Next]_ideVars PROVE TransfersInv'
  OBVIOUS
<1>1. CASE ide_ctrlinit \/ Identified \/ NoController \/ NoDevice
  <2>1. /\ pc \in {"scan", "identified"}
        /\ pc' \in {"probe", "scan", "undefined", "nodevice"}
        /\ UNCHANGED <<platter, req, boot_sector>>
    BY <1>1, SMTT(30), ZenonT(30) DEF ide_ctrlinit, Identified, NoController, NoDevice, drive
  <2>2. boot_sector = Unread /\ req.op \notin {"write", "store"}
    BY <2>1 DEF TransfersInv
  <2> QED BY <2>1, <2>2, BeforeTransfers, SMTT(30), ZenonT(30) DEF Transferring, InRequest, Waiting
<1>2. CASE ide_identify_drive
  <2>1. pc = "probe" /\ req'.op = "identify" /\ pc' = "delay"
        /\ UNCHANGED <<platter, boot_sector>>
    BY <1>2, SMTT(30), ZenonT(30) DEF ide_identify_drive
  <2>2. boot_sector = Unread
    BY <2>1 DEF TransfersInv
  <2> QED BY <2>1, <2>2, BeforeTransfers DEF Transferring
<1>3. CASE TakeFirst \/ \E lba \in 0 .. Reach : block_dev_read(lba) \/ block_dev_write(lba)
  BY <1>3, TransferBegins
<1>4. CASE Delay \/ Present \/ Poll BY <1>4, TransferPolls
<1>5. CASE ReadBuffer BY <1>5, TransferReads
<1>6. CASE WriteBuffer BY <1>6, TransferWrites
<1>7. CASE fat16_create_context BY <1>7, BootSectorRead, SMTT(30), ZenonT(30)
<1>8. ASSUME NEW d \in Devices, DriveStep(d) PROVE TransfersInv'
  BY <1>8, TransferDrive
<1>9. CASE UNCHANGED ideVars
  <2>1. devices' = devices /\ UNCHANGED <<kind, platter, phase, pc, req, ret, fsdev,
                                          boot_sector, buffer, writes>>
    BY <1>9 DEF ideVars, machine, drive, kernel
  <2>2. Min(Found)' = Min(Found) /\ BootSectors' = BootSectors
    BY <2>1, SameBoot, SMTT(30), ZenonT(30)
  <2>3. /\ Transferring' <=> Transferring
        /\ Identifying' <=> Identifying
        /\ Done' <=> Done
    BY <2>1 DEF Transferring, Identifying, InRequest, Done, Empty
  <2> QED BY <2>1, <2>2, <2>3 DEF TransfersInv, Empty
<1> QED BY <1>1, <1>2, <1>3, <1>4, <1>5, <1>6, <1>7, <1>8, <1>9
        DEF Next, KernelStep

-----------------------------------------------------------------------------
(***************************************************************************)
(* ide.c never leaves a drive at work behind: whatever the drives answer,  *)
(* fail at or hang in, a drive is busy or has data only while              *)
(* wait_for_drive_ready or the transfer behind it is about that drive.     *)
(***************************************************************************)
THEOREM DrivesAwaited == Spec => []WorksWhileWaited
<1>1. IdeInv => WorksWhileWaited
  BY DEF IdeInv
<1> QED BY <1>1, InitInv, StepInv, PTL DEF Spec

(***************************************************************************)
(* ide_writesector changes no sector but the one it is asked to, on any    *)
(* arrangement of drives, while the address fits the 28 bits.              *)
(***************************************************************************)
THEOREM WritesAsAsked == Spec => OnlyAskedWritten
<1>1. IdeInv /\ [Next]_ideVars =>
        [\A d \in Devices, s \in Sectors :
           platter'[d][s] # platter[d][s] /\ req.lba < Reach =>
             d = fsdev /\ s = req.lba]_ideVars
  BY StepWritesAsked
<1> QED BY <1>1, InitInv, StepInv, PTL DEF Spec, OnlyAskedWritten

(***************************************************************************)
(* Once ide_ctrlinit is through, devices holds exactly the positions that  *)
(* answered IDENTIFY with data, for every arrangement of drives, however   *)
(* they fail, and however many controllers are initialised.                *)
(***************************************************************************)
THEOREM ProbeFindsDrives == Spec => []ProbeExact
<1>1. IdeInv /\ ProbeInv => ProbeExact
  BY SMTT(30), ZenonT(30) DEF ProbeInv
<1> QED BY <1>1, InitInv, StepInv, ProbeInit, ProbeStep, PTL DEF Spec

(***************************************************************************)
(* A read or write within the 28 bits that returns NO_ERROR was carried    *)
(* out at the sector it names of the first device found, but for the       *)
(* failures ide.c does not pass on; and the boot sector is sector 0 of     *)
(* that device.                                                            *)
(***************************************************************************)
THEOREM TransfersAsAsked == Spec => []TransfersExact
<1>1. IdeInv /\ TransfersInv => TransfersExact
  BY DEF TransfersInv, TransfersExact, Done, BootSectors
<1> QED BY <1>1, InitInv, StepInv, TransfersInit, TransfersStep, PTL DEF Spec

-----------------------------------------------------------------------------
(***************************************************************************)
(* The layout of a new device.  Bytes of a bitmap are sums of powers of    *)
(* two; which bits they have is proved from the least exponent for which   *)
(* it would be wrong.                                                      *)
(***************************************************************************)
LEMMA LayoutSizes ==
  /\ byte_bits \in Nat \ {0} /\ block_size \in Nat \ {0} /\ inode_table_length \in Nat \ {0}
  /\ inodes_per_group \in Nat \ {0} /\ desc_size \in Nat \ {0} /\ reduced_count \in Nat \ {0}
  /\ Metadata \in Nat /\ Metadata > inode_table_length
  /\ blocks_per_group \in Nat \ {0} /\ blocks_per_group <= 65536
  /\ inodes_per_group <= blocks_per_group /\ Sizes \subseteq Nat
<1>1. \A a, b \in Nat \ {0} : a * b \in Nat \ {0}
  OBVIOUS
<1> QED
  BY <1>1, LayoutAssumption DEF Metadata, blocks_per_group

LEMMA FirstOf ==
  ASSUME NEW T \in SUBSET Nat, T # {}
  PROVE  \E n \in T : \A m \in T : n <= m
<1> DEFINE R == OpToRel(<, Nat)
<1>1. IsWellFoundedOn(R, Nat)
  BY NatLessThanWellFounded
<1>2. \A n, m \in Nat : m < n => <<m, n>> \in R
  BY DEF OpToRel
<1> HIDE DEF R
<1>3. PICK n \in T : \A m \in T : ~(<<m, n>> \in R)
  BY <1>1, WFMin
<1>4. \A m \in T : ~(m < n)
  BY <1>2, <1>3
<1> QED
  BY <1>4

\* g solves the recursion of Pow2 up to k.
Doubles(g, k) ==
  /\ g = [n \in 0 .. byte_bits |-> g[n]]
  /\ g[0] = 1 /\ \A n \in 1 .. byte_bits : n <= k => g[n] = 2 * g[n - 1]

LEMMA DoublesExists == \E g : Doubles(g, byte_bits)
<1> DEFINE Bad == {k \in Nat : k <= byte_bits /\ ~\E g : Doubles(g, k)}
<1>0. byte_bits \in Nat
  BY LayoutSizes
<1> SUFFICES ASSUME Bad # {} PROVE FALSE
  BY <1>0
<1>1. PICK k \in Bad : \A m \in Bad : k <= m
  BY FirstOf
<1>2. k \in Nat /\ k <= byte_bits /\ ~\E g : Doubles(g, k)
  BY <1>1
<1>3. CASE k = 0
  <2> DEFINE g == [n \in 0 .. byte_bits |-> 1]
  <2>1. Doubles(g, k)
    BY <1>0, <1>3 DEF Doubles
  <2> QED BY <1>2, <2>1
<1>4. CASE k # 0
  <2>1. k - 1 \in Nat /\ k - 1 \notin Bad /\ k - 1 <= byte_bits
    BY <1>0, <1>1, <1>2, <1>4
  <2>2. PICK g : Doubles(g, k - 1)
    BY <2>1
  <2> DEFINE h == [n \in 0 .. byte_bits |-> IF n = k THEN 2 * g[k - 1] ELSE g[n]]
  <2>3. h = [n \in 0 .. byte_bits |-> h[n]] /\ h[0] = 1
    BY <1>0, <1>4, <2>2 DEF Doubles
  <2>4. ASSUME NEW n \in 1 .. byte_bits, n <= k PROVE h[n] = 2 * h[n - 1]
    <3>1. n \in 0 .. byte_bits /\ n - 1 \in 0 .. byte_bits /\ n - 1 # k
      BY <1>0, <1>2, <2>4
    <3>2. h[n - 1] = g[n - 1]
      BY <3>1
    <3>3. CASE n = k
      BY <3>1, <3>2, <3>3
    <3>4. CASE n # k
      <4>1. n <= k - 1
        BY <1>0, <1>2, <2>4, <3>4
      <4>2. \A m \in 1 .. byte_bits : m <= k - 1 => g[m] = 2 * g[m - 1]
        BY <2>2, SMTT(30), ZenonT(30) DEF Doubles
      <4>3. g[n] = 2 * g[n - 1]
        BY <4>1, <4>2
      <4> QED BY <3>1, <3>2, <3>4, <4>3
    <3> QED BY <3>3, <3>4
  <2> HIDE DEF h
  <2>5. Doubles(h, k)
    BY <2>3, <2>4 DEF Doubles
  <2> QED BY <1>2, <2>5
<1> QED
  BY <1>3, <1>4

LEMMA PowerIs ==
  /\ Pow2[0] = 1
  /\ \A n \in 1 .. byte_bits : Pow2[n] = 2 * Pow2[n - 1]
<1> DEFINE Is(g) == g = [n \in 0 .. byte_bits |-> IF n = 0 THEN 1 ELSE 2 * g[n - 1]]
<1>0. byte_bits \in Nat
  BY LayoutSizes
<1>1. PICK g : Doubles(g, byte_bits)
  BY DoublesExists
<1>2. Is(g)
  <2>1. g = [n \in 0 .. byte_bits |-> g[n]]
    BY <1>1 DEF Doubles
  <2>2. \A n \in 0 .. byte_bits : g[n] = IF n = 0 THEN 1 ELSE 2 * g[n - 1]
    <3>1. g[0] = 1 /\ \A n \in 1 .. byte_bits : n <= byte_bits => g[n] = 2 * g[n - 1]
      BY <1>1 DEF Doubles
    <3> TAKE n \in 0 .. byte_bits
    <3>2. n # 0 => n \in 1 .. byte_bits /\ n <= byte_bits
      BY <1>0
    <3> QED BY <3>1, <3>2
  <2> QED BY <2>1, <2>2
<1>3. Pow2 = CHOOSE f : Is(f)
  BY DEF Pow2
<1>4. Is(Pow2)
  BY <1>2, <1>3
<1>5. ASSUME NEW n \in 0 .. byte_bits
      PROVE  Pow2[n] = IF n = 0 THEN 1 ELSE 2 * Pow2[n - 1]
  <2> HIDE DEF Is
  <2>1. \A f : Is(f) => f[n] = IF n = 0 THEN 1 ELSE 2 * f[n - 1]
    BY DEF Is
  <2> QED BY <1>4, <2>1
<1> QED
  BY <1>0, <1>5

LEMMA PowerPositive == \A n \in 0 .. byte_bits : Pow2[n] \in Nat \ {0}
<1> DEFINE Bad == {n \in Nat : n <= byte_bits /\ Pow2[n] \notin Nat \ {0}}
<1>0. byte_bits \in Nat
  BY LayoutSizes
<1> SUFFICES ASSUME Bad # {} PROVE FALSE
  BY <1>0
<1>1. PICK n \in Bad : \A m \in Bad : n <= m
  BY FirstOf
<1>2. n \in Nat /\ n <= byte_bits /\ Pow2[n] \notin Nat \ {0}
  BY <1>1
<1>3. n # 0
  BY <1>2, PowerIs
<1>4. n - 1 \in Nat /\ n - 1 <= byte_bits /\ n - 1 \notin Bad
  BY <1>0, <1>1, <1>2, <1>3
<1>5. Pow2[n - 1] \in Nat \ {0}
  BY <1>4
<1>6. Pow2[n] = 2 * Pow2[n - 1]
  BY <1>0, <1>2, <1>3, PowerIs
<1> QED
  BY <1>2, <1>5, <1>6

LEMMA PowerSum ==
  ASSUME NEW a \in Nat
  PROVE  \A b \in Nat : a + b <= byte_bits => Pow2[a + b] = Pow2[a] * Pow2[b]
<1> DEFINE Bad == {b \in Nat : a + b <= byte_bits /\ Pow2[a + b] # Pow2[a] * Pow2[b]}
<1>0. byte_bits \in Nat
  BY LayoutSizes
<1> SUFFICES ASSUME Bad # {} PROVE FALSE
  OBVIOUS
<1>1. PICK b \in Bad : \A m \in Bad : b <= m
  BY FirstOf
<1>2. b \in Nat /\ a + b <= byte_bits /\ Pow2[a + b] # Pow2[a] * Pow2[b]
  BY <1>1
<1>3. /\ Pow2[a] \in Nat /\ Pow2[b] \in Nat /\ a \in 0 .. byte_bits
      /\ a + b \in 0 .. byte_bits /\ b \in 0 .. byte_bits
  BY <1>0, <1>2, PowerPositive
<1>4. CASE b = 0
  <2>1. a + b = a /\ Pow2[b] = 1
    BY <1>4, PowerIs
  <2> QED BY <1>2, <1>3, <2>1
<1>5. CASE b # 0
  <2>1. b - 1 \in Nat /\ a + (b - 1) <= byte_bits /\ b - 1 \notin Bad /\ a + (b - 1) = a + b - 1
    BY <1>0, <1>1, <1>2, <1>5
  <2>2. Pow2[a + b - 1] = Pow2[a] * Pow2[b - 1]
    BY <2>1
  <2>3. Pow2[b] = 2 * Pow2[b - 1] /\ Pow2[a + b] = 2 * Pow2[a + b - 1] /\ Pow2[b - 1] \in Nat
    <3>1. b \in 1 .. byte_bits /\ a + b \in 1 .. byte_bits /\ b - 1 \in 0 .. byte_bits
      BY <1>0, <1>2, <1>3, <1>5
    <3> QED BY <3>1, PowerIs, PowerPositive
  <2>4. \A x, y \in Nat : 2 * (x * y) = x * (2 * y)
    OBVIOUS
  <2> QED BY <1>2, <1>3, <2>2, <2>3, <2>4
<1> QED
  BY <1>4, <1>5

\* Larger exponents: a factor that is even.
LEMMA PowerFactor ==
  ASSUME NEW p \in Nat, NEW m \in Nat, p <= m, m <= byte_bits
  PROVE  /\ Pow2[p] \in Nat \ {0} /\ Pow2[m] \in Nat \ {0}
         /\ \E k \in Nat \ {0} : /\ Pow2[m] = Pow2[p] * k
                                 /\ p < m => k % 2 = 0
         /\ Pow2[p] <= Pow2[m]
<1>0. byte_bits \in Nat
  BY LayoutSizes
<1>1. p \in 0 .. byte_bits /\ m \in 0 .. byte_bits /\ m - p \in 0 .. byte_bits
  BY <1>0
<1>2. Pow2[p] \in Nat \ {0} /\ Pow2[m] \in Nat \ {0} /\ Pow2[m - p] \in Nat \ {0}
  BY <1>1, PowerPositive
<1>3. m - p \in Nat /\ p + (m - p) = m
  BY <1>1
<1>4. Pow2[m] = Pow2[p] * Pow2[m - p]
  BY <1>3, PowerSum
<1>5. p < m => Pow2[m - p] % 2 = 0
  <2> HAVE p < m
  <2>1. m - p \in 1 .. byte_bits /\ m - p - 1 \in 0 .. byte_bits
    BY <1>0, <1>1
  <2>2. Pow2[m - p] = 2 * Pow2[m - p - 1] /\ Pow2[m - p - 1] \in Nat
    BY <2>1, PowerIs, PowerPositive
  <2>3. \A x \in Nat : (2 * x) % 2 = 0
    OBVIOUS
  <2> QED BY <2>2, <2>3
<1>6. \A x, y \in Nat \ {0} : x <= x * y
  OBVIOUS
<1> QED
  BY <1>2, <1>4, <1>5, <1>6

LEMMA Divided ==
  ASSUME NEW d \in Nat \ {0}, NEW q \in Nat, NEW r \in 0 .. d - 1, NEW x \in Nat, x = d * q + r
  PROVE  x \div d = q /\ x % d = r
<1>1. x \div d \in Nat /\ x % d \in 0 .. d - 1 /\ x = d * (x \div d) + (x % d)
  OBVIOUS
<1>2. \A m, n \in Nat : m < n => d * m + d <= d * n
  OBVIOUS
<1>3. PICK a, s : a = x \div d /\ s = x % d
  OBVIOUS
<1>4. a \in Nat /\ s \in 0 .. d - 1 /\ x = d * a + s /\ d * a \in Nat /\ d * q \in Nat
  BY <1>1, <1>3
<1>5. ~(a < q)
  <2>1. a < q => d * a + d <= d * q
    BY <1>2, <1>4
  <2> QED BY <1>4, <2>1
<1>6. ~(q < a)
  <2>1. q < a => d * q + d <= d * a
    BY <1>2, <1>4
  <2> QED BY <1>4, <2>1
<1>7. a = q
  BY <1>4, <1>5, <1>6
<1>8. s = r
  BY <1>4, <1>7
<1> QED
  BY <1>3, <1>7, <1>8

LEMMA OddQuotient ==
  ASSUME NEW d \in Nat \ {0}, NEW k \in Nat \ {0}, k % 2 = 0, NEW s \in 1 .. d
  PROVE  ((d * k - s) \div d) % 2 = 1
<1>1. d * k = d * (k - 1) + d /\ d * (k - 1) \in Nat /\ k - 1 \in Nat
  OBVIOUS
<1>2. PICK x, y : x = d * k - s /\ y = d * (k - 1)
  OBVIOUS
<1>3. x = y + (d - s) /\ y \in Nat /\ d - s \in 0 .. d - 1 /\ x \in Nat
  <2>1. d * k = y + d /\ y \in Nat
    BY <1>1, <1>2
  <2>2. x = (y + d) - s
    BY <1>2, <2>1
  <2> QED BY <2>1, <2>2
<1>4. x \div d = k - 1
  <2>1. x = d * (k - 1) + (d - s)
    BY <1>2, <1>3
  <2> QED BY <1>1, <1>3, <2>1, Divided
<1>5. (k - 1) % 2 = 1
  OBVIOUS
<1> QED
  BY <1>2, <1>4, <1>5

LEMMA EvenQuotient ==
  ASSUME NEW d \in Nat \ {0}, NEW k \in Nat \ {0}, k % 2 = 0, NEW l \in Nat \ {0}, l % 2 = 0,
         d * l <= d * k
  PROVE  ((d * k - d * l) \div d) % 2 = 0
<1>1. l <= k
  <2>1. k < l => d * k + d <= d * l
    OBVIOUS
  <2>2. d * k \in Nat /\ d * l \in Nat
    OBVIOUS
  <2> QED BY <2>1, <2>2
<1>2. k - l \in Nat /\ d * k - d * l = d * (k - l)
  BY <1>1
<1>3. PICK x : x = d * (k - l)
  OBVIOUS
<1>4. x \in Nat /\ x = d * (k - l) + 0 /\ 0 \in 0 .. d - 1
  BY <1>2, <1>3
<1>5. x \div d = k - l
  BY <1>2, <1>4, Divided
<1>6. (k - l) % 2 = 0
  BY <1>1
<1> QED
  BY <1>2, <1>3, <1>5, <1>6

\* Bit p of a byte.
Bit(byte, p) == (byte \div Pow2[p]) % 2

\* The m lowest bits are set.
LEMMA LowBits ==
  ASSUME NEW p \in Nat, p < byte_bits, NEW m \in Nat, m <= byte_bits
  PROVE  Bit(Pow2[m] - 1, p) = IF p < m THEN 1 ELSE 0
<1>0. byte_bits \in Nat
  BY LayoutSizes
<1>1. Pow2[p] \in Nat \ {0} /\ Pow2[m] \in Nat \ {0}
  BY <1>0, PowerPositive
<1>2. CASE p < m
  <2>1. PICK k \in Nat \ {0} : Pow2[m] = Pow2[p] * k /\ k % 2 = 0
    <3>1. p <= m
      BY <1>2
    <3>2. PICK k \in Nat \ {0} : Pow2[m] = Pow2[p] * k /\ (p < m => k % 2 = 0)
      BY <3>1, PowerFactor
    <3> QED BY <1>2, <3>2
  <2>2. 1 \in 1 .. Pow2[p]
    BY <1>1
  <2>3. ((Pow2[p] * k - 1) \div Pow2[p]) % 2 = 1
    BY <1>1, <2>1, <2>2, OddQuotient
  <2> QED BY <1>2, <2>1, <2>3 DEF Bit
<1>3. CASE ~(p < m)
  <2>1. Pow2[m] <= Pow2[p]
    BY <1>0, <1>3, PowerFactor
  <2>2. Pow2[m] - 1 = Pow2[p] * 0 + (Pow2[m] - 1) /\ Pow2[m] - 1 \in 0 .. Pow2[p] - 1 /\ Pow2[m] - 1 \in Nat
    BY <1>1, <2>1
  <2>3. (Pow2[m] - 1) \div Pow2[p] = 0
    BY <1>1, <2>2, Divided, SMTT(30), ZenonT(30)
  <2> QED BY <1>3, <2>3 DEF Bit
<1> QED
  BY <1>2, <1>3

\* All but the r lowest bits are set.
LEMMA HighBits ==
  ASSUME NEW p \in Nat, p < byte_bits, NEW r \in Nat, r < byte_bits
  PROVE  Bit(Pow2[byte_bits] - Pow2[r], p) = IF p < r THEN 0 ELSE 1
<1>0. byte_bits \in Nat /\ p <= byte_bits /\ r <= byte_bits
  BY LayoutSizes
<1>1. Pow2[p] \in Nat \ {0} /\ Pow2[r] \in Nat \ {0} /\ Pow2[byte_bits] \in Nat \ {0}
  BY <1>0, PowerPositive
<1>2. PICK k \in Nat \ {0} : Pow2[byte_bits] = Pow2[p] * k /\ k % 2 = 0
  <2>1. PICK k \in Nat \ {0} : Pow2[byte_bits] = Pow2[p] * k /\ (p < byte_bits => k % 2 = 0)
    BY <1>0, PowerFactor
  <2> QED BY <2>1
<1>3. Pow2[r] <= Pow2[byte_bits]
  BY <1>0, PowerFactor
<1>4. CASE p < r
  <2>1. PICK l \in Nat \ {0} : Pow2[r] = Pow2[p] * l /\ l % 2 = 0
    <3>1. p <= r
      BY <1>4
    <3>2. PICK l \in Nat \ {0} : Pow2[r] = Pow2[p] * l /\ (p < r => l % 2 = 0)
      BY <1>0, <3>1, PowerFactor
    <3> QED BY <1>4, <3>2
  <2>2. Pow2[p] * l <= Pow2[p] * k
    BY <1>2, <1>3, <2>1
  <2>3. ((Pow2[p] * k - Pow2[p] * l) \div Pow2[p]) % 2 = 0
    BY <1>1, <1>2, <2>1, <2>2, EvenQuotient
  <2> QED BY <1>2, <1>4, <2>1, <2>3 DEF Bit
<1>5. CASE ~(p < r)
  <2>1. Pow2[r] <= Pow2[p]
    BY <1>0, <1>5, PowerFactor
  <2>2. Pow2[r] \in 1 .. Pow2[p]
    BY <1>1, <2>1
  <2>3. ((Pow2[p] * k - Pow2[r]) \div Pow2[p]) % 2 = 1
    BY <1>1, <1>2, <2>2, OddQuotient
  <2> QED BY <1>2, <1>5, <2>3 DEF Bit
<1> QED
  BY <1>4, <1>5

\* 0xff shifted left r times.
LEMMA ShiftedOnes ==
  ASSUME NEW r \in Nat, r < byte_bits
  PROVE  Byte(AllOnes * Pow2[r]) = Pow2[byte_bits] - Pow2[r]
<1>0. byte_bits \in Nat
  BY LayoutSizes
<1>1. Pow2[r] \in Nat \ {0} /\ Pow2[byte_bits] \in Nat \ {0} /\ Pow2[r] <= Pow2[byte_bits]
  BY <1>0, PowerPositive, PowerFactor
<1>2. PICK d, x : d = Pow2[byte_bits] /\ x = Pow2[r]
  OBVIOUS
<1>3. d \in Nat \ {0} /\ x \in Nat \ {0} /\ x <= d
  BY <1>1, <1>2
<1>4. (d - 1) * x = d * (x - 1) + (d - x)
  <2>1. (d - 1) * x = d * x - x /\ d * (x - 1) = d * x - d /\ d * x \in Nat
    BY <1>3
  <2> QED BY <1>3, <2>1
<1>5. (d - 1) * x \in Nat /\ x - 1 \in Nat /\ d - x \in 0 .. d - 1
  BY <1>3
<1>6. ((d - 1) * x) % d = d - x
  <2>1. PICK y, q, t : y = (d - 1) * x /\ q = x - 1 /\ t = d - x
    OBVIOUS
  <2>2. y \in Nat /\ q \in Nat /\ t \in 0 .. d - 1 /\ y = d * q + t
    BY <1>4, <1>5, <2>1
  <2>3. y % d = t
    BY <1>3, <2>2, Divided
  <2> QED BY <2>1, <2>3
<1> QED
  BY <1>2, <1>6 DEF Byte, AllOnes

\* n times: shift left, add one.
LEMMA OnesAre ==
  ASSUME NEW n \in Nat, n < byte_bits
  PROVE  Ones(0, n) = Pow2[n] - 1
<1>0. byte_bits \in Nat
  BY LayoutSizes
<1> DEFINE Is(h) == h = [k \in 0 .. n |-> IF k = 0 THEN 0 ELSE Byte(2 * h[k - 1] + 1)]
           g == [k \in 0 .. n |-> Pow2[k] - 1]
<1>1. \A k \in 1 .. n : Byte(2 * (Pow2[k - 1] - 1) + 1) = Pow2[k] - 1
  <2> TAKE k \in 1 .. n
  <2>1. k \in 1 .. byte_bits /\ k \in Nat /\ k <= byte_bits /\ k - 1 \in 0 .. byte_bits
    BY <1>0
  <2>2. Pow2[k] = 2 * Pow2[k - 1] /\ Pow2[k - 1] \in Nat \ {0}
    BY <2>1, PowerIs, PowerPositive
  <2>3. Pow2[k] <= Pow2[byte_bits] /\ Pow2[k] \in Nat \ {0} /\ Pow2[byte_bits] \in Nat \ {0}
    BY <1>0, <2>1, PowerFactor
  <2>4. 2 * (Pow2[k - 1] - 1) + 1 = Pow2[k] - 1
    BY <2>2
  <2>5. PICK y, d : y = Pow2[k] - 1 /\ d = Pow2[byte_bits]
    OBVIOUS
  <2>6. y % d = y
    <3>1. y \in Nat /\ d \in Nat \ {0} /\ y \in 0 .. d - 1
      BY <2>3, <2>5
    <3>2. y = d * 0 + y
      BY <3>1
    <3> QED BY <3>1, <3>2, Divided
  <2> QED BY <2>4, <2>5, <2>6 DEF Byte
<1>2. Is(g)
  <2>1. \A k \in 0 .. n : g[k] = IF k = 0 THEN 0 ELSE Byte(2 * g[k - 1] + 1)
    <3> TAKE k \in 0 .. n
    <3>1. CASE k = 0
      BY <3>1, PowerIs
    <3>2. CASE k # 0
      <4>1. k \in 1 .. n /\ k - 1 \in 0 .. n
        BY <3>2
      <4> QED BY <1>1, <3>2, <4>1
    <3> QED BY <3>1, <3>2
  <2>2. g = [k \in 0 .. n |-> g[k]]
    OBVIOUS
  <2> HIDE DEF g
  <2> QED BY <2>1, <2>2
\* Any other solution is the same.
<1>3. ASSUME NEW h, Is(h) PROVE h[n] = Pow2[n] - 1
  <2> DEFINE Bad == {k \in Nat : k <= n /\ h[k] # Pow2[k] - 1}
  <2>1. \A k \in 0 .. n : h[k] = IF k = 0 THEN 0 ELSE Byte(2 * h[k - 1] + 1)
    BY <1>3
  <2> HIDE DEF Is
  <2>2. ASSUME Bad # {} PROVE FALSE
    <3>1. PICK k \in Bad : \A m \in Bad : k <= m
      BY <2>2, FirstOf
    <3>2. k \in Nat /\ k <= n /\ h[k] # Pow2[k] - 1
      BY <3>1
    <3>3. k # 0
      BY <2>1, <3>2, PowerIs
    <3>4. k - 1 \in Nat /\ k - 1 <= n /\ k - 1 \notin Bad
      BY <3>1, <3>2, <3>3
    <3>5. h[k - 1] = Pow2[k - 1] - 1
      BY <3>4
    <3>6. k \in 1 .. n /\ k \in 0 .. n
      BY <3>2, <3>3
    <3>7. h[k] = Byte(2 * h[k - 1] + 1)
      BY <2>1, <3>3, <3>6
    <3> QED BY <1>1, <3>2, <3>5, <3>6, <3>7
  <2>3. n \notin Bad
    BY <2>2
  <2> QED BY <2>3
<1>4. Ones(0, n) = (CHOOSE h : Is(h))[n]
  BY DEF Ones
<1> HIDE DEF Is, g
<1>5. Is(CHOOSE h : Is(h))
  BY <1>2
<1> QED
  BY <1>3, <1>4, <1>5

-----------------------------------------------------------------------------
\* Bits below x are those of the bytes below its own, and the low ones of that.
LEMMA BitPlace ==
  ASSUME NEW b \in 0 .. blocks_per_group - 1
  PROVE  /\ b \div byte_bits \in Nat /\ b \div byte_bits < block_size
         /\ b \div byte_bits + 1 \in 1 .. block_size
         /\ b % byte_bits \in Nat /\ b % byte_bits < byte_bits
         /\ \A x \in Nat :
              b < x <=> \/ b \div byte_bits < x \div byte_bits
                        \/ /\ b \div byte_bits = x \div byte_bits
                           /\ b % byte_bits < x % byte_bits
<1>1. PICK d, q, p : d = byte_bits /\ q = b \div d /\ p = b % d
  OBVIOUS
<1>2. d \in Nat \ {0} /\ b \in Nat /\ b < blocks_per_group /\ block_size \in Nat
  BY <1>1, LayoutSizes
<1>3. q \in Nat /\ p \in 0 .. d - 1 /\ b = d * q + p
  BY <1>1, <1>2
<1>4. \A m, n \in Nat : m < n => d * m + d <= d * n
  BY <1>2
<1>5. blocks_per_group = d * block_size /\ d * block_size \in Nat /\ d * q \in Nat
  BY <1>1, <1>2, <1>3 DEF blocks_per_group
<1>6. q < block_size
  <2>1. ~(q < block_size) => d * block_size <= d * q
    <3>1. block_size < q => d * block_size + d <= d * q
      BY <1>2, <1>3, <1>4
    <3> QED BY <1>2, <1>3, <1>5, <3>1
  <2>2. d * q <= b /\ b < d * block_size
    BY <1>2, <1>3, <1>5
  <2> QED BY <1>2, <1>5, <2>1, <2>2
<1>7. ASSUME NEW x \in Nat
      PROVE  b < x <=> q < x \div d \/ (q = x \div d /\ p < x % d)
  <2>1. PICK u, v : u = x \div d /\ v = x % d
    OBVIOUS
  <2>2. u \in Nat /\ v \in 0 .. d - 1 /\ x = d * u + v /\ d * u \in Nat
    BY <1>2, <2>1
  <2>3. (q < u => d * q + d <= d * u) /\ (u < q => d * u + d <= d * q)
    BY <1>3, <1>4, <2>2
  <2>4. b < x <=> q < u \/ (q = u /\ p < v)
    BY <1>2, <1>3, <1>5, <2>2, <2>3
  <2> QED BY <2>1, <2>4
<1> QED
  BY <1>1, <1>2, <1>3, <1>6, <1>7

LEMMA ClearIs ==
  ASSUME NEW bitmap, NEW b \in 0 .. blocks_per_group - 1
  PROVE  b \in Clear(bitmap) <=> Bit(bitmap[b \div byte_bits + 1], b % byte_bits) = 0
BY DEF Clear, Bit

\* No bit set, every bit set.
LEMMA PlainBytes ==
  ASSUME NEW p \in Nat, p < byte_bits
  PROVE  Bit(0, p) = 0 /\ Bit(AllOnes, p) = 1
<1>1. byte_bits \in Nat /\ Pow2[p] \in Nat \ {0}
  BY LayoutSizes, PowerPositive
<1>2. 0 \div Pow2[p] = 0
  BY <1>1
<1>3. Bit(Pow2[byte_bits] - 1, p) = 1
  BY <1>1, LowBits
<1> QED
  BY <1>2, <1>3 DEF Bit, AllOnes

LEMMA InitialBlocks ==
  ASSUME Metadata < blocks_per_group
  PROVE  /\ Clear(setup_initial_block_bitmap) = Metadata .. blocks_per_group - 1
         /\ \A k \in 1 .. block_size :
              k - 1 > Metadata \div byte_bits => setup_initial_block_bitmap[k] = 0
<1> DEFINE map == setup_initial_block_bitmap
           Q == Metadata \div byte_bits
           R == Metadata % byte_bits
<1>1. Metadata \in Nat /\ byte_bits \in Nat \ {0} /\ blocks_per_group \in Nat
  BY LayoutSizes
<1>2. Q \in Nat /\ R \in Nat /\ R < byte_bits
  BY <1>1
<1>3. Ones(0, R) = Pow2[R] - 1
  BY <1>2, OnesAre
<1>4. \A k \in 1 .. block_size :
        /\ k - 1 < Q => map[k] = AllOnes
        /\ k - 1 = Q => map[k] = Pow2[R] - 1
        /\ k - 1 > Q => map[k] = 0
  <2> TAKE k \in 1 .. block_size
  <2>1. map[k] = CASE k - 1 < Q -> AllOnes
                   [] k - 1 = Q -> Ones(0, R)
                   [] OTHER -> 0
    BY DEF setup_initial_block_bitmap
  <2>2. k \in Int
    OBVIOUS
  <2> HIDE DEF map, Q, R
  <2> QED BY <1>2, <1>3, <2>1, <2>2
<1>5. ASSUME NEW b \in 0 .. blocks_per_group - 1 PROVE b \in Clear(map) <=> ~(b < Metadata)
  <2>1. PICK q, p : q = b \div byte_bits /\ p = b % byte_bits
    OBVIOUS
  <2>2. /\ q \in Nat /\ q + 1 \in 1 .. block_size /\ p \in Nat /\ p < byte_bits
        /\ b < Metadata <=> q < Q \/ (q = Q /\ p < R)
    BY <1>1, <2>1, BitPlace
  <2>3. b \in Clear(map) <=> Bit(map[q + 1], p) = 0
    BY <2>1, ClearIs
  <2> HIDE DEF map, Q, R
  <2>4. /\ q < Q => map[q + 1] = AllOnes
        /\ q = Q => map[q + 1] = Pow2[R] - 1
        /\ q > Q => map[q + 1] = 0
    <3>1. (q + 1) - 1 = q
      BY <2>2
    <3> QED BY <1>4, <2>2, <3>1
  <2>5. Bit(0, p) = 0 /\ Bit(AllOnes, p) = 1
    BY <2>2, PlainBytes
  <2>6. Bit(Pow2[R] - 1, p) = IF p < R THEN 1 ELSE 0
    <3>1. R <= byte_bits
      BY <1>1, <1>2
    <3> QED BY <1>2, <2>2, <3>1, LowBits
  <2>7. q < Q \/ q = Q \/ q > Q
    BY <1>2, <2>2
  <2>8. CASE q < Q
    BY <2>2, <2>3, <2>4, <2>5, <2>8
  <2>9. CASE q = Q
    <3>1. ~(q < Q)
      BY <1>2, <2>9
    <3> QED BY <2>2, <2>3, <2>4, <2>6, <2>9, <3>1
  <2>10. CASE q > Q
    <3>1. ~(q < Q) /\ q # Q
      BY <1>2, <2>2, <2>10
    <3> QED BY <2>2, <2>3, <2>4, <2>5, <2>10, <3>1
  <2> QED BY <2>7, <2>8, <2>9, <2>10
<1>6. Clear(map) \subseteq 0 .. blocks_per_group - 1
  BY DEF Clear
<1> HIDE DEF map, Q
<1>7. Clear(map) = Metadata .. blocks_per_group - 1
  <2>1. \A b : b \in Clear(map) => b \in Metadata .. blocks_per_group - 1
    <3> TAKE b
    <3> HAVE b \in Clear(map)
    <3>1. b \in 0 .. blocks_per_group - 1
      BY <1>6
    <3>2. ~(b < Metadata)
      BY <1>5, <3>1
    <3> QED BY <1>1, <3>1, <3>2
  <2>2. \A b : b \in Metadata .. blocks_per_group - 1 => b \in Clear(map)
    <3> TAKE b
    <3> HAVE b \in Metadata .. blocks_per_group - 1
    <3>1. b \in 0 .. blocks_per_group - 1 /\ ~(b < Metadata)
      BY <1>1
    <3> QED BY <1>5, <3>1
  <2> QED BY <2>1, <2>2
<1> QED
  BY <1>4, <1>7 DEF map, Q

LEMMA InitialInodes ==
  Clear(setup_initial_inode_bitmap) = 0 .. inodes_per_group - 1
<1> DEFINE map == setup_initial_inode_bitmap
           Q == inodes_per_group \div byte_bits
           R == inodes_per_group % byte_bits
<1>1. /\ inodes_per_group \in Nat /\ byte_bits \in Nat \ {0} /\ blocks_per_group \in Nat
      /\ inodes_per_group <= blocks_per_group
  BY LayoutSizes
<1>2. Q \in Nat /\ R \in Nat /\ R < byte_bits
  BY <1>1
<1>3. Byte(AllOnes * Pow2[R]) = Pow2[byte_bits] - Pow2[R]
  BY <1>2, ShiftedOnes
<1>4. \A k \in 1 .. block_size :
        /\ k - 1 < Q => map[k] = 0
        /\ k - 1 = Q => map[k] = Pow2[byte_bits] - Pow2[R]
        /\ k - 1 > Q => map[k] = AllOnes
  <2> TAKE k \in 1 .. block_size
  <2>1. map[k] = CASE k - 1 < Q -> 0
                   [] k - 1 = Q -> Byte(AllOnes * Pow2[R])
                   [] OTHER -> AllOnes
    BY DEF setup_initial_inode_bitmap
  <2>2. k \in Int
    OBVIOUS
  <2> HIDE DEF map, Q, R
  <2> QED BY <1>2, <1>3, <2>1, <2>2
<1>5. ASSUME NEW b \in 0 .. blocks_per_group - 1
      PROVE  b \in Clear(map) <=> b < inodes_per_group
  <2>1. PICK q, p : q = b \div byte_bits /\ p = b % byte_bits
    OBVIOUS
  <2>2. /\ q \in Nat /\ q + 1 \in 1 .. block_size /\ p \in Nat /\ p < byte_bits
        /\ b < inodes_per_group <=> q < Q \/ (q = Q /\ p < R)
    BY <1>1, <2>1, BitPlace
  <2>3. b \in Clear(map) <=> Bit(map[q + 1], p) = 0
    BY <2>1, ClearIs
  <2> HIDE DEF map, Q, R
  <2>4. /\ q < Q => map[q + 1] = 0
        /\ q = Q => map[q + 1] = Pow2[byte_bits] - Pow2[R]
        /\ q > Q => map[q + 1] = AllOnes
    <3>1. (q + 1) - 1 = q
      BY <2>2
    <3> QED BY <1>4, <2>2, <3>1
  <2>5. Bit(0, p) = 0 /\ Bit(AllOnes, p) = 1
    BY <2>2, PlainBytes
  <2>6. Bit(Pow2[byte_bits] - Pow2[R], p) = IF p < R THEN 0 ELSE 1
    BY <1>2, <2>2, HighBits
  <2>7. q < Q \/ q = Q \/ q > Q
    BY <1>2, <2>2
  <2>8. CASE q < Q
    BY <2>2, <2>3, <2>4, <2>5, <2>8, SMTT(30), ZenonT(30)
  <2>9. CASE q = Q
    <3>1. ~(q < Q)
      BY <1>2, <2>9
    <3> QED BY <2>2, <2>3, <2>4, <2>6, <2>9, <3>1
  <2>10. CASE q > Q
    <3>1. ~(q < Q) /\ q # Q
      BY <1>2, <2>2, <2>10
    <3> QED BY <2>2, <2>3, <2>4, <2>5, <2>10, <3>1
  <2> QED BY <2>7, <2>8, <2>9, <2>10
<1>6. Clear(map) \subseteq 0 .. blocks_per_group - 1
  BY DEF Clear
<1> HIDE DEF map
<1>7. Clear(map) = 0 .. inodes_per_group - 1
  <2>1. \A b : b \in Clear(map) => b \in 0 .. inodes_per_group - 1
    <3> TAKE b
    <3> HAVE b \in Clear(map)
    <3>1. b \in 0 .. blocks_per_group - 1
      BY <1>6
    <3>2. b < inodes_per_group
      BY <1>5, <3>1
    <3> QED BY <1>1, <3>1, <3>2
  <2>2. \A b : b \in 0 .. inodes_per_group - 1 => b \in Clear(map)
    <3> TAKE b
    <3> HAVE b \in 0 .. inodes_per_group - 1
    <3>1. b \in 0 .. blocks_per_group - 1 /\ b < inodes_per_group
      BY <1>1
    <3> QED BY <1>5, <3>1
  <2> QED BY <2>1, <2>2
<1> QED
  BY <1>7 DEF map

\* A count below the blocks of a group is not cut by its 16 bits.
LEMMA CountKept == \A x \in Nat : x < blocks_per_group => Uint16(x) = x
<1> TAKE x \in Nat
<1> HAVE x < blocks_per_group
<1>1. PICK w : w = 65536
  OBVIOUS
<1>2. w \in Nat \ {0}
  BY <1>1
<1>3. blocks_per_group \in Nat /\ blocks_per_group <= w
  BY <1>1, LayoutSizes
<1>4. x \in 0 .. w - 1 /\ x = w * 0 + x
  BY <1>2, <1>3
<1>5. x % w = x
  BY <1>2, <1>4, Divided, SMTT(30), ZenonT(30)
<1> QED
  BY <1>1, <1>5 DEF Uint16

\* With room in the last group: its size, and the number of groups.
LEMMA RoomSizes ==
  ASSUME blocks \in Nat, RoomInLast
  PROVE  \E last, rest \in Nat :
           /\ blocks = last * blocks_per_group + rest /\ rest < blocks_per_group
           /\ block_group_count(blocks) = last + 1
           /\ Metadata < blocks_per_group /\ Metadata + 1 < rest + 1
           /\ Metadata \div byte_bits < (rest - 1) \div byte_bits
           /\ Metadata + 1 <= rest
<1>1. PICK d, m, n : d = byte_bits /\ m = Metadata /\ n = blocks_per_group
  OBVIOUS
<1>2. d \in Nat \ {0} /\ m \in Nat /\ n \in Nat \ {0}
  BY <1>1, LayoutSizes
<1>3. PICK last, rest, u, v : /\ last = blocks \div n /\ rest = blocks % n
                              /\ u = m \div d /\ v = m % d
  OBVIOUS
<1>4. last \in Nat /\ rest \in 0 .. n - 1 /\ blocks = last * n + rest
  BY <1>2, <1>3
<1>5. u \in Nat /\ v \in 0 .. d - 1 /\ m = d * u + v
  BY <1>2, <1>3
<1>6. (u + 1) * d < rest
  BY <1>1, <1>3 DEF RoomInLast
<1>7. (u + 1) * d = d * u + d /\ d * u \in Nat
  BY <1>2, <1>5
<1>8. m < (u + 1) * d
  BY <1>2, <1>5, <1>7
<1>9. m < rest - 1 /\ rest - 1 \in Nat /\ (u + 1) * d <= rest - 1
  BY <1>2, <1>4, <1>6, <1>7, <1>8
<1>10. u < (rest - 1) \div d
  <2>1. PICK x : x = rest - 1
    OBVIOUS
  <2>a. x \in Nat
    BY <1>9, <2>1
  <2>b. PICK q, p : q = x \div d /\ p = x % d
    OBVIOUS
  <2>2. x \in Nat /\ q \in Nat /\ p \in 0 .. d - 1 /\ x = d * q + p /\ d * q \in Nat
    <3>1. q \in Nat /\ p \in 0 .. d - 1 /\ x = d * q + p
      BY <1>2, <2>a, <2>b
    <3> QED BY <1>2, <2>a, <3>1
  <2>3. q <= u => d * q <= d * u
    BY <1>2, <1>5, <2>2
  <2>4. d * u + d <= x
    BY <1>7, <1>9, <2>1
  <2>5. u < q
    BY <1>2, <1>5, <1>7, <2>2, <2>3, <2>4, SMTT(30), ZenonT(30)
  <2> QED BY <2>1, <2>b, <2>5
<1>11. block_group_count(blocks) = last + 1
  <2>1. (last + 1) * desc_size <= block_size
    BY <1>1, <1>3 DEF RoomInLast
  <2>2. (last + 1) * desc_size \in Int /\ block_size \in Int
    BY <1>4, LayoutSizes
  <2> QED BY <1>1, <1>3, <2>1, <2>2 DEF block_group_count
<1>12. rest \in Nat /\ rest < n /\ m < n /\ m + 1 < rest + 1 /\ m + 1 <= rest
  BY <1>2, <1>4, <1>9
<1> QED
  BY <1>1, <1>3, <1>4, <1>10, <1>11, <1>12

\* The bits the last group's bitmap leaves clear: those of blocks on the device.
LEMMA PaddedBits ==
  ASSUME NEW X \in Nat, X <= blocks_per_group, Metadata <= X,
         Metadata < blocks_per_group,
         Metadata \div byte_bits < X \div byte_bits
  PROVE  Clear(Padded(setup_initial_block_bitmap, X)) = Metadata .. X - 1
<1> DEFINE init == setup_initial_block_bitmap
           map == Padded(setup_initial_block_bitmap, X)
           Q == X \div byte_bits
           R == X % byte_bits
<1>1. Metadata \in Nat /\ byte_bits \in Nat \ {0} /\ blocks_per_group \in Nat
  BY LayoutSizes
<1>2. Q \in Nat /\ R \in Nat /\ R < byte_bits
  BY <1>1
<1>3. /\ Clear(init) = Metadata .. blocks_per_group - 1
      /\ \A k \in 1 .. block_size : k - 1 > Metadata \div byte_bits => init[k] = 0
  BY InitialBlocks
<1>4. \A k \in 1 .. block_size :
        /\ k - 1 < Q => map[k] = init[k]
        /\ k - 1 = Q => map[k] = Pow2[byte_bits] - Pow2[R]
        /\ k - 1 > Q => map[k] = AllOnes
  <2> TAKE k \in 1 .. block_size
  <2>1. map[k] = CASE k - 1 < Q -> init[k]
                   [] k - 1 = Q -> AllOnes - Ones(init[k], R)
                   [] OTHER -> AllOnes
    BY DEF Padded
  <2>2. k \in Int
    OBVIOUS
  <2>3. k - 1 = Q => AllOnes - Ones(init[k], R) = Pow2[byte_bits] - Pow2[R]
    <3> HAVE k - 1 = Q
    <3>1. k - 1 > Metadata \div byte_bits
      <4>1. Metadata \div byte_bits \in Int
        BY <1>1
      <4> QED BY <1>2, <4>1
    <3>2. init[k] = 0
      BY <1>3, <3>1
    <3>3. Ones(0, R) = Pow2[R] - 1
      BY <1>2, OnesAre
    <3>4. Pow2[R] \in Nat /\ Pow2[byte_bits] \in Nat
      BY <1>1, <1>2, PowerPositive
    <3> HIDE DEF init, R, Q
    <3> QED BY <3>2, <3>3, <3>4 DEF AllOnes
  <2> HIDE DEF map, Q, R, init
  <2> QED BY <1>2, <2>1, <2>2, <2>3
<1>5. ASSUME NEW b \in 0 .. blocks_per_group - 1
      PROVE  b \in Clear(map) <=> b < X /\ b \in Clear(init)
  <2>1. PICK q, p : q = b \div byte_bits /\ p = b % byte_bits
    OBVIOUS
  <2>2. /\ q \in Nat /\ q + 1 \in 1 .. block_size /\ p \in Nat /\ p < byte_bits
        /\ b < X <=> q < Q \/ (q = Q /\ p < R)
    BY <1>1, <2>1, BitPlace, ZenonT(30), SMTT(30)
  <2>3. /\ b \in Clear(map) <=> Bit(map[q + 1], p) = 0
        /\ b \in Clear(init) <=> Bit(init[q + 1], p) = 0
    BY <2>1, ClearIs
  <2>4. /\ q < Q => map[q + 1] = init[q + 1]
        /\ q = Q => map[q + 1] = Pow2[byte_bits] - Pow2[R]
        /\ q > Q => map[q + 1] = AllOnes
        /\ q > Metadata \div byte_bits => init[q + 1] = 0
    <3> HIDE DEF map, Q, R, init
    <3>1. (q + 1) - 1 = q
      BY <2>2
    <3> QED BY <1>3, <1>4, <2>2, <3>1
  <2>5. Bit(0, p) = 0 /\ Bit(AllOnes, p) = 1
    BY <2>2, PlainBytes
  <2>6. Bit(Pow2[byte_bits] - Pow2[R], p) = IF p < R THEN 0 ELSE 1
    BY <1>2, <2>2, HighBits
  <2>7. q < Q \/ q = Q \/ q > Q
    BY <1>2, <2>2
  <2>8. Metadata \div byte_bits \in Int /\ Metadata \div byte_bits < Q
    BY <1>1
  <2> HIDE DEF map, Q, R, init
  <2>9. CASE q < Q
    BY <2>2, <2>3, <2>4, <2>9, SMTT(30), ZenonT(30)
  <2>10. CASE q = Q
    <3>1. ~(q < Q) /\ q > Metadata \div byte_bits
      BY <1>2, <2>8, <2>10, SMTT(30), ZenonT(30)
    <3> QED BY <2>2, <2>3, <2>4, <2>5, <2>6, <2>10, <3>1
  <2>11. CASE q > Q
    <3>1. ~(q < Q) /\ q # Q
      BY <1>2, <2>2, <2>11
    <3> QED BY <2>2, <2>3, <2>4, <2>5, <2>11, <3>1
  <2> QED BY <2>7, <2>9, <2>10, <2>11
<1>6. Clear(map) \subseteq 0 .. blocks_per_group - 1
  BY DEF Clear
<1> HIDE DEF map, init
<1>7. Clear(map) = Metadata .. X - 1
  <2>1. \A b : b \in Clear(map) => b \in Metadata .. X - 1
    <3> TAKE b
    <3> HAVE b \in Clear(map)
    <3>1. b \in 0 .. blocks_per_group - 1
      BY <1>6
    <3>2. b < X /\ b \in Metadata .. blocks_per_group - 1
      BY <1>3, <1>5, <3>1
    <3> QED BY <1>1, <3>1, <3>2
  <2>2. \A b : b \in Metadata .. X - 1 => b \in Clear(map)
    <3> TAKE b
    <3> HAVE b \in Metadata .. X - 1
    <3>1. b \in 0 .. blocks_per_group - 1 /\ b < X /\ b \in Metadata .. blocks_per_group - 1
      BY <1>1, SMTT(30), ZenonT(30)
    <3> QED BY <1>3, <1>5, <3>1
  <2> QED BY <2>1, <2>2
<1> QED
  BY <1>7 DEF map

\* What group g's bitmap, count and positions should be.
FreeOf(g) == fill_block_group_descriptor(blocks, g).bg_free_blocks_count

LEMMA GroupData ==
  ASSUME blocks \in Nat, RoomInLast, NEW g \in Nat, g < block_group_count(blocks)
  PROVE  /\ g # block_group_count(blocks) - 1 =>
              /\ DataBits(g) = Clear(setup_initial_block_bitmap)
              /\ FreeOf(g) = blocks_per_group - Metadata
         /\ g = block_group_count(blocks) - 1 =>
              DataBits(g) = Clear(Padded(setup_initial_block_bitmap, FreeOf(g) + Metadata))
         /\ FreeOf(g) \in Nat /\ Cardinality(DataBits(g)) = FreeOf(g)
         /\ g * blocks_per_group + Metadata + 1 <= blocks
<1>1. PICK last, rest \in Nat :
           /\ blocks = last * blocks_per_group + rest /\ rest < blocks_per_group
           /\ block_group_count(blocks) = last + 1
           /\ Metadata < blocks_per_group
           /\ Metadata \div byte_bits < (rest - 1) \div byte_bits
           /\ Metadata + 1 <= rest
  BY RoomSizes
<1>2. PICK n, m : n = blocks_per_group /\ m = Metadata
  OBVIOUS
<1>3. n \in Nat \ {0} /\ m \in Nat \ {0} /\ m < n /\ rest < n /\ m + 1 <= rest
  BY <1>1, <1>2, LayoutSizes, SMTT(30), ZenonT(30)
<1>4. FreeOf(g) = Uint16(IF (g + 1) * n > blocks THEN blocks - g * n - m - 1 ELSE n - m)
  BY <1>2 DEF FreeOf, fill_block_group_descriptor
<1>5. \A x \in Nat : x < n => Uint16(x) = x
  BY <1>2, CountKept
<1>6. /\ g * n \in Nat /\ last * n \in Nat /\ (g + 1) * n = g * n + n
      /\ blocks = last * n + rest
  BY <1>1, <1>2, <1>3
<1>7. Clear(setup_initial_block_bitmap) = m .. n - 1
  BY <1>1, <1>2, InitialBlocks
<1>8. DataBits(g) = {b \in m .. n - 1 : g * n + 1 + b < blocks}
  BY <1>2, SMTT(30), ZenonT(30) DEF DataBits
<1>9. CASE g # last
  <2>1. g < last
    BY <1>1, <1>9
  <2>2. g * n + n <= last * n
    <3>1. \A a, b \in Nat : a < b => a * n + n <= b * n
      BY <1>3
    <3> QED BY <2>1, <3>1
  <2>3. g * n + n < blocks
    BY <1>3, <1>6, <2>2
  <2>4. FreeOf(g) = n - m
    <3>1. ~((g + 1) * n > blocks)
      BY <1>3, <1>6, <2>3
    <3>2. n - m \in Nat /\ n - m < n
      BY <1>3
    <3> QED BY <1>4, <1>5, <3>1, <3>2
  <2>5. DataBits(g) = m .. n - 1
    <3>1. \A b \in m .. n - 1 : g * n + 1 + b < blocks
      BY <1>3, <1>6, <2>3
    <3> QED BY <1>8, <3>1
  <2>6. Cardinality(m .. n - 1) = n - m
    <3>1. m \in Int /\ n - 1 \in Int /\ ~(m > n - 1) /\ (n - 1) - m + 1 = n - m
      BY <1>3
    <3> QED BY <3>1, FS_Interval
  <2>7. g * n + m + 1 <= blocks
    BY <1>3, <1>6, <2>3
  <2>8. n - m \in Nat /\ g # block_group_count(blocks) - 1
    BY <1>1, <1>3, <1>9, SMTT(30), ZenonT(30)
  <2> QED BY <1>2, <1>7, <2>4, <2>5, <2>6, <2>7, <2>8, SMTT(30), ZenonT(30)
<1>10. CASE g = last
  <2>1. PICK x : x = rest - 1
    OBVIOUS
  <2>2. x \in Nat /\ x < n /\ m <= x
    BY <1>3, <2>1
  <2>3. FreeOf(g) = x - m
    <3>1. (g + 1) * n > blocks
      BY <1>3, <1>6, <1>10
    <3>2. blocks - g * n - m - 1 = x - m
      BY <1>3, <1>6, <1>10, <2>1
    <3>3. x - m \in Nat /\ x - m < n
      BY <1>3, <2>2
    <3> QED BY <1>4, <1>5, <3>1, <3>2, <3>3
  <2>4. FreeOf(g) + Metadata = x
    BY <1>2, <1>3, <2>2, <2>3, SMTT(30), ZenonT(30)
  <2>5. Clear(Padded(setup_initial_block_bitmap, x)) = m .. x - 1
    <3>1. x <= blocks_per_group /\ Metadata <= x /\ Metadata \div byte_bits < x \div byte_bits
      BY <1>1, <1>2, <1>3, <2>1, <2>2
    <3> QED BY <1>1, <1>2, <2>2, <3>1, PaddedBits
  <2>6. DataBits(g) = m .. x - 1
    <3>1. \A b \in Int : g * n + 1 + b < blocks <=> b < x
      BY <1>3, <1>6, <1>10, <2>1
    <3> QED BY <1>3, <1>8, <2>2, <3>1
  <2>7. Cardinality(m .. x - 1) = x - m
    <3>1. m \in Int /\ x - 1 \in Int /\ (x - 1) - m + 1 = x - m /\ (m > x - 1 => x - m = 0)
      BY <1>3, <2>2
    <3> QED BY <3>1, FS_Interval
  <2>8. g * n + m + 1 <= blocks
    BY <1>3, <1>6, <1>10
  <2>9. x - m \in Nat /\ g = block_group_count(blocks) - 1
    BY <1>1, <1>3, <1>10, <2>2, SMTT(30), ZenonT(30)
  <2> QED BY <1>2, <2>3, <2>4, <2>5, <2>6, <2>7, <2>8, <2>9
<1> QED BY <1>9, <1>10

-----------------------------------------------------------------------------
\* LayoutInv, and that the groups written are a sequence.
Sequence(s) == \E S : s \in Seq(S)
FormatInv == LayoutInv /\ Sequence(placed)

\* What LayoutRight says of the k-th group written.
GroupRight(k) ==
  /\ Clear(placed[k].block_bitmap) = DataBits(k - 1)
  /\ Cardinality(DataBits(k - 1)) = desc[k - 1].bg_free_blocks_count
  /\ Cardinality(Clear(placed[k].inode_bitmap)) = desc[k - 1].bg_free_inodes_count
  /\ placed[k].block_bitmap_at = desc[k - 1].bg_block_bitmap
  /\ placed[k].inode_bitmap_at = desc[k - 1].bg_inode_bitmap
  /\ placed[k].inode_table_at = desc[k - 1].bg_inode_table
  /\ placed[k].inode_table_at + inode_table_length <= blocks

LEMMA RightByGroup ==
  LayoutRight <=> (RoomInLast => \A k \in 1 .. Len(placed) : GroupRight(k))
BY DEF LayoutRight, BitmapsMatchCounts, MetadataInPlace, GroupRight

LEMMA Appended ==
  ASSUME NEW s, Sequence(s), NEW e
  PROVE  /\ Sequence(Append(s, e)) /\ Len(s) \in Nat
         /\ Len(Append(s, e)) = Len(s) + 1
         /\ Append(s, e)[Len(s) + 1] = e
         /\ \A k \in 1 .. Len(s) : Append(s, e)[k] = s[k]
<1>1. PICK S : s \in Seq(S)
  BY DEF Sequence
<1>2. PICK T : T = S \cup {e}
  OBVIOUS
<1>3. s \in Seq(T) /\ e \in T
  BY <1>1, <1>2
<1>4. Append(s, e) \in Seq(T)
  BY <1>3
<1>5. /\ Len(s) \in Nat /\ Len(Append(s, e)) = Len(s) + 1
      /\ Append(s, e)[Len(s) + 1] = e
  BY <1>3
<1>6. \A k \in 1 .. Len(s) : Append(s, e)[k] = s[k]
  BY <1>3
<1>7. Sequence(Append(s, e))
  BY <1>4, ZenonT(30), SMTT(30) DEF Sequence
<1> QED BY <1>5, <1>6, <1>7, ZenonT(30), SMTT(30)

LEMMA CountPositive ==
  ASSUME blocks \in Nat
  PROVE  block_group_count(blocks) \in Nat \ {0}
<1>1. blocks_per_group \in Nat \ {0} /\ reduced_count \in Nat \ {0}
  BY LayoutSizes
<1>2. blocks \div blocks_per_group \in Nat
  BY <1>1
<1> QED
  BY <1>1, <1>2 DEF block_group_count

LEMMA FormatInit == (\E n \in Sizes : LayoutInit(n)) => FormatInv
<1> SUFFICES ASSUME NEW n \in Sizes, LayoutInit(n) PROVE FormatInv
  OBVIOUS
<1>1. /\ blocks = n /\ i = 0 /\ curr_block = 1 /\ placed = << >>
      /\ block_bitmap = setup_initial_block_bitmap
      /\ desc = [g \in 0 .. block_group_count(n) - 1 |-> fill_block_group_descriptor(n, g)]
  BY DEF LayoutInit
<1>2. blocks \in Nat /\ blocks_per_group \in Nat
  BY <1>1, LayoutSizes
<1>3. block_group_count(blocks) \in Nat
  BY <1>2, CountPositive
<1>4. Len(placed) = 0 /\ Sequence(placed)
  BY <1>1 DEF Sequence
<1>5. LayoutRight
  BY <1>4, RightByGroup
<1>6. curr_block = i * blocks_per_group + 1
  BY <1>1, <1>2
<1>7. i \in Nat /\ i <= block_group_count(blocks) /\ Len(placed) = i
  BY <1>1, <1>3, <1>4, SMTT(30), ZenonT(30)
<1> QED
  BY <1>1, <1>2, <1>4, <1>5, <1>6, <1>7 DEF FormatInv, LayoutInv

LEMMA WriteGroupKeeps ==
  ASSUME FormatInv, WriteGroup
  PROVE  FormatInv'
<1> DEFINE count == block_group_count(blocks)
           free == desc[i].bg_free_blocks_count
           bitmap == IF i = count - 1 THEN Padded(block_bitmap, free + Metadata)
                                      ELSE block_bitmap
           written == [super |-> curr_block,
                       block_bitmap_at |-> curr_block + 2,
                       block_bitmap |-> bitmap,
                       inode_bitmap_at |-> curr_block + 3,
                       inode_bitmap |-> setup_initial_inode_bitmap,
                       inode_table_at |-> curr_block + 4]
<1>1. /\ blocks \in Nat /\ i \in Nat /\ i <= count
      /\ desc = [g \in 0 .. count - 1 |-> fill_block_group_descriptor(blocks, g)]
      /\ Len(placed) = i
      /\ RoomInLast /\ i < count =>
           /\ block_bitmap = setup_initial_block_bitmap
           /\ curr_block = i * blocks_per_group + 1
      /\ LayoutRight /\ Sequence(placed)
  BY DEF FormatInv, LayoutInv
<1>2. count \in Nat \ {0}
  BY <1>1, CountPositive
<1>3. Cardinality(DOMAIN desc) = count
  <2>1. DOMAIN desc = 0 .. count - 1
    BY <1>1
  <2>2. 0 \in Int /\ count - 1 \in Int /\ ~(0 > count - 1) /\ (count - 1) - 0 + 1 = count
    BY <1>2, SMTT(30), ZenonT(30)
  <2> HIDE DEF count
  <2> QED BY <2>1, <2>2, FS_Interval
<1>4. /\ i \in DOMAIN desc /\ block_bitmap' = bitmap
      /\ placed' = Append(placed, written)
      /\ curr_block' = curr_block + Metadata + free
      /\ i' = i + 1 /\ blocks' = blocks /\ desc' = desc
  BY <1>3 DEF WriteGroup
<1>5. i < count
  <2>1. i \in 0 .. count - 1
    BY <1>1, <1>4, SMTT(30), ZenonT(30)
  <2> HIDE DEF count
  <2> QED BY <1>2, <2>1, SMTT(30), ZenonT(30)
<1>6. block_group_count(blocks)' = count /\ RoomInLast' = RoomInLast
  BY <1>4 DEF block_group_count, RoomInLast
<1>7. /\ Sequence(placed') /\ Len(placed') = i + 1
      /\ placed'[i + 1] = written
      /\ \A k \in 1 .. i : placed'[k] = placed[k]
  <2>1. PICK w : w = written
    OBVIOUS
  <2>2. PICK s : s = placed
    OBVIOUS
  <2>3. Sequence(s) /\ Len(s) = i /\ placed' = Append(s, w)
    BY <1>1, <1>4, <2>1, <2>2, ZenonT(30), SMTT(30)
  <2>4. /\ Sequence(placed') /\ Len(placed') = i + 1 /\ placed'[i + 1] = w
        /\ \A k \in 1 .. i : placed'[k] = s[k]
    BY <2>3, Appended, ZenonT(30), SMTT(30)
  <2> HIDE DEF written
  <2> QED BY <2>1, <2>2, <2>4, ZenonT(30), SMTT(30)
<1>8. ASSUME RoomInLast
      PROVE  /\ FreeOf(i) \in Nat /\ free = FreeOf(i)
             /\ Clear(bitmap) = DataBits(i) /\ Cardinality(DataBits(i)) = free
             /\ i * blocks_per_group + Metadata + 1 <= blocks
             /\ i + 1 < count => bitmap = block_bitmap /\ free = blocks_per_group - Metadata
             /\ block_bitmap = setup_initial_block_bitmap
             /\ curr_block = i * blocks_per_group + 1
  <2>1. block_bitmap = setup_initial_block_bitmap /\ curr_block = i * blocks_per_group + 1
    BY <1>1, <1>5, <1>8, SMTT(30), ZenonT(30)
  <2>2. free = FreeOf(i)
    BY <1>1, <1>4 DEF FreeOf
  <2>3. /\ i # count - 1 =>
              /\ DataBits(i) = Clear(setup_initial_block_bitmap)
              /\ FreeOf(i) = blocks_per_group - Metadata
        /\ i = count - 1 =>
              DataBits(i) = Clear(Padded(setup_initial_block_bitmap, FreeOf(i) + Metadata))
        /\ FreeOf(i) \in Nat /\ Cardinality(DataBits(i)) = FreeOf(i)
        /\ i * blocks_per_group + Metadata + 1 <= blocks
    BY <1>1, <1>5, <1>8, GroupData
  <2>4. i + 1 < count => i # count - 1
    BY <1>1, <1>2
  <2> HIDE DEF count, free
  <2> QED BY <2>1, <2>2, <2>3, <2>4
<1>9. ASSUME RoomInLast' PROVE \A k \in 1 .. Len(placed') : GroupRight(k)'
  <2> TAKE k \in 1 .. Len(placed')
  <2>1. RoomInLast
    BY <1>6, <1>9
  <2>2. CASE k \in 1 .. i
    <3>1. GroupRight(k)
      BY <1>1, <2>1, <2>2, RightByGroup, SMTT(30), ZenonT(30)
    <3>2. placed'[k] = placed[k] /\ DataBits(k - 1)' = DataBits(k - 1)
      BY <1>4, <1>7, <2>2 DEF DataBits
    <3>3. blocks' = blocks /\ desc' = desc
      BY <1>4, ZenonT(30), SMTT(30)
    <3> HIDE DEF written, bitmap, free
    <3> QED BY <3>1, <3>2, <3>3, ZenonT(30), SMTT(30) DEF GroupRight
  <2>3. CASE k = i + 1
    <3>1. PICK at, d : at = i * blocks_per_group /\ d = desc[i]
      OBVIOUS
    <3>2. at \in Nat /\ Metadata \in Nat
      BY <1>1, <3>1, LayoutSizes, SMTT(30), ZenonT(30)
    <3>3. /\ d.bg_block_bitmap = at + 3 /\ d.bg_inode_bitmap = at + 4
          /\ d.bg_inode_table = at + 5 /\ d.bg_free_inodes_count = inodes_per_group
      BY <1>1, <1>4, <3>1 DEF fill_block_group_descriptor
    <3>4. /\ curr_block + 2 = at + 3 /\ curr_block + 3 = at + 4 /\ curr_block + 4 = at + 5
      <4>1. curr_block = at + 1
        BY <1>8, <2>1, <3>1, ZenonT(30), SMTT(30)
      <4> QED BY <3>2, <4>1
    <3>5. at + 5 + inode_table_length <= blocks
      <4>1. at + Metadata + 1 <= blocks
        BY <1>8, <2>1, <3>1
      <4>2. Metadata = inode_table_length + 4 /\ inode_table_length \in Nat
        BY LayoutSizes DEF Metadata
      <4> QED BY <1>1, <3>2, <4>1, <4>2, SMTT(30), ZenonT(30)
    <3>6. Cardinality(Clear(setup_initial_inode_bitmap)) = inodes_per_group
      <4>1. 0 \in Int /\ inodes_per_group - 1 \in Int /\ ~(0 > inodes_per_group - 1)
            /\ (inodes_per_group - 1) - 0 + 1 = inodes_per_group
        BY LayoutSizes
      <4> QED BY <4>1, InitialInodes, FS_Interval
    <3>7. k - 1 = i /\ DataBits(k - 1)' = DataBits(k - 1)
      <4>1. k - 1 = i
        BY <1>1, <2>3, SMTT(30), ZenonT(30)
      <4>2. DataBits(k - 1)' = DataBits(k - 1)
        BY <1>4, ZenonT(30), SMTT(30) DEF DataBits
      <4> QED BY <4>1, <4>2
    <3>8. /\ written.block_bitmap = bitmap /\ written.inode_bitmap = setup_initial_inode_bitmap
          /\ written.block_bitmap_at = curr_block + 2
          /\ written.inode_bitmap_at = curr_block + 3
          /\ written.inode_table_at = curr_block + 4
      BY ZenonT(30), SMTT(30)
    <3>9. /\ Clear(bitmap) = DataBits(i) /\ Cardinality(DataBits(i)) = d.bg_free_blocks_count
      BY <1>8, <2>1, <3>1, ZenonT(30), SMTT(30)
    <3>10. placed'[k] = written /\ desc'[k - 1] = d /\ DataBits(k - 1)' = DataBits(i)
           /\ blocks' = blocks
      <4> HIDE DEF written
      <4> QED BY <1>4, <1>7, <2>3, <3>1, <3>7
    <3> HIDE DEF written, bitmap, free, count
    <3>11. /\ written.block_bitmap_at = d.bg_block_bitmap
           /\ written.inode_bitmap_at = d.bg_inode_bitmap
           /\ written.inode_table_at = d.bg_inode_table
           /\ written.inode_table_at + inode_table_length <= blocks
      BY <3>3, <3>4, <3>5, <3>8, ZenonT(30), SMTT(30)
    <3>12. /\ Clear(written.block_bitmap) = DataBits(i)
           /\ Cardinality(DataBits(i)) = d.bg_free_blocks_count
           /\ Cardinality(Clear(written.inode_bitmap)) = d.bg_free_inodes_count
      BY <3>3, <3>6, <3>8, <3>9, ZenonT(30), SMTT(30)
    <3> QED BY <3>10, <3>11, <3>12, ZenonT(30), SMTT(30) DEF GroupRight
  <2>4. k \in 1 .. i \/ k = i + 1
    <3>1. i \in Nat /\ k \in 1 .. i + 1
      BY <1>1, <1>7, ZenonT(30), SMTT(30)
    <3> QED BY <3>1
  <2> QED BY <2>2, <2>3, <2>4
<1>10. LayoutRight'
  <2>1. RoomInLast' => (BitmapsMatchCounts /\ MetadataInPlace)'
    BY <1>9 DEF GroupRight, BitmapsMatchCounts, MetadataInPlace
  <2> QED BY <2>1, SMTT(30), ZenonT(30) DEF LayoutRight
<1>11. ASSUME RoomInLast, i + 1 < count
       PROVE  /\ block_bitmap' = setup_initial_block_bitmap
              /\ curr_block' = (i + 1) * blocks_per_group + 1
  <2>1. block_bitmap' = setup_initial_block_bitmap
    BY <1>4, <1>8, <1>11
  <2>2. PICK n, m, at, f : /\ n = blocks_per_group /\ m = Metadata
                           /\ at = i * blocks_per_group /\ f = free
    BY SMTT(30), ZenonT(30)
  <2>3. curr_block' = curr_block + m + f /\ curr_block = at + 1 /\ f = n - m
    BY <1>4, <1>8, <1>11, <2>2, ZenonT(30), SMTT(30)
  <2>4. n \in Nat /\ m \in Nat /\ at \in Nat /\ (i + 1) * n = at + n
    BY <1>1, <2>2, LayoutSizes
  <2>5. curr_block' = at + n + 1
    BY <2>3, <2>4
  <2> QED BY <2>1, <2>2, <2>4, <2>5, SMTT(30), ZenonT(30)
<1>12. i + 1 \in Nat /\ i + 1 <= count
  <2> HIDE DEF count
  <2> QED BY <1>1, <1>2, <1>5, SMTT(30), ZenonT(30)
<1>13. desc' = [g \in 0 .. block_group_count(blocks)' - 1 |->
                  fill_block_group_descriptor(blocks', g)]
  BY <1>1, <1>4, <1>6
<1> HIDE DEF count, free, bitmap, written
<1> QED
  BY <1>1, <1>4, <1>6, <1>7, <1>10, <1>11, <1>12, <1>13, SMTT(30), ZenonT(30) DEF FormatInv, LayoutInv

(***************************************************************************)
(* ext2_format_device, for every size of device and every geometry: what   *)
(* the block bitmaps leave clear is what the descriptors count and what    *)
(* lies on the device behind the metadata, and bitmaps and tables are      *)
(* where the descriptors say, if the last group has room for them.         *)
(***************************************************************************)
THEOREM FormatLaysOut == LayoutSpec => []LayoutRight
<1>1. (\E n \in Sizes : LayoutInit(n)) => FormatInv
  BY FormatInit
<1>2. FormatInv /\ [WriteGroup]_layoutVars => FormatInv'
  <2>1. FormatInv /\ WriteGroup => FormatInv'
    BY WriteGroupKeeps
  <2>2. FormatInv /\ UNCHANGED layoutVars => FormatInv'
    <3> SUFFICES ASSUME FormatInv, UNCHANGED layoutVars PROVE FormatInv'
      OBVIOUS
    <3>1. /\ blocks' = blocks /\ desc' = desc /\ i' = i /\ curr_block' = curr_block
          /\ block_bitmap' = block_bitmap /\ placed' = placed
      BY SMTT(30), ZenonT(30) DEF layoutVars
    <3>2. (LayoutRight <=> LayoutRight') /\ (RoomInLast <=> RoomInLast')
      BY <3>1 DEF LayoutRight, RoomInLast, BitmapsMatchCounts, MetadataInPlace, DataBits
    <3>3. block_group_count(blocks)' = block_group_count(blocks)
      BY <3>1 DEF block_group_count
    <3> QED BY <3>1, <3>2, <3>3 DEF FormatInv, LayoutInv
  <2> QED BY <2>1, <2>2
<1>3. FormatInv => LayoutRight
  BY DEF FormatInv, LayoutInv
<1> QED
  BY <1>1, <1>2, <1>3, PTL DEF LayoutSpec
=============================================================================
