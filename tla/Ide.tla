-------------------------------- MODULE Ide --------------------------------
(***************************************************************************)
(* From the PCI scan of fscontext__init down to the registers of an ATA     *)
(* drive: ide_ctrlinit probes the four drive positions of two channels, the *)
(* first device found becomes the file system's block device, and sectors  *)
(* are read and written with programmed I/O, the kernel polling the        *)
(* alternate status register.  The drives run beside the kernel: they take *)
(* a command after a while, work on it, and answer, fail or hang.          *)
(***************************************************************************)
EXTENDS Integers, FiniteSets, FiniteSetsExt

CONSTANTS
  PciFunctions, \* pairs of a slot and a function number
  PciConfigs,  \* what they may be: absent, ide (class 1, 1, 0x80), or other
  Kinds,       \* what may be at the four drive positions
  Reach,       \* sectors the 28 address bits reach
  MaxWrites    \* bound on the client's writes

ASSUME IdeAssumption ==
  /\ Reach \in Nat \ {0} /\ MaxWrites \in Nat
  /\ PciConfigs \subseteq [PciFunctions -> {"absent", "ide", "other"}]
  /\ Kinds \subseteq [0 .. 3 -> {"ata", "chs", "packet", "none", "pulled", "floating"}]

Devices == 0 .. 3
Sectors == 0 .. Reach - 1
Channel(d) == d \div 2
NoDev == -1
Unread == <<"unread">>
Zero == <<>>       \* what a variable in .bss holds before it is read into
Garbage == <<"?">> \* bytes no drive vouches for

VARIABLES
  pci, kind,     \* the machine: PCI functions, drive positions
  platter,       \* the version of each sector on each drive
  reg,           \* the channels' drive and sector registers
  phase, cmd,    \* what each drive is doing, and with which command
  pc, req, ret,  \* the kernel: where it is, for which request, its result
  ctrls, idx,    \* controllers not initialised yet, position being probed
  devices,       \* __ide_ctrl.devices
  fsdev,         \* __block_device.ide_dev
  boot_sector,   \* __fscontext.boot_sector
  buffer,        \* the buffer of the request
  writes         \* writes requested so far: the version the next one carries

machine == <<pci, kind>>
drive == <<platter, reg, phase, cmd>>
kernel == <<pc, req, ret, ctrls, idx, devices, fsdev, boot_sector, buffer, writes>>
ideVars == <<machine, drive, kernel>>

-----------------------------------------------------------------------------
(***************************************************************************)
(* The drives.  An empty position answers with what the bus shows: nothing *)
(* when the other drive answers for it, 0x7F or 0xFF when nobody does.     *)
(***************************************************************************)
Empty(d) == kind[d] \in {"none", "pulled", "floating"}
Working == {"taken", "busy", "hung"}
Selected(c) == 2 * c + reg[c].dev

arch_ide_readaltstatus(c) ==
  LET d == Selected(c)
  IN CASE kind[d] = "none"     -> {}
       [] kind[d] = "pulled"   -> {"DRDY", "DRQ", "ERR"}
       [] kind[d] = "floating" -> {"BSY", "DRDY", "DRQ", "ERR"}
       [] phase[d] \in {"busy", "hung"} -> {"BSY"}
       [] phase[d] \in {"data", "want"} -> {"DRDY", "DRQ"}
       [] phase[d] = "bad"   -> {"DRDY", "DRQ", "ERR"}
       [] phase[d] = "error" -> {"DRDY", "ERR"}
       [] OTHER -> {"DRDY"}

\* A command written while the drive is working is lost.
Command(d, op, sector) ==
  IF Empty(d) \/ phase[d] \in Working
  THEN UNCHANGED <<phase, cmd>>
  ELSE /\ phase' = [phase EXCEPT ![d] = "taken"]
       /\ cmd' = [cmd EXCEPT ![d] = [op |-> op, sector |-> sector]]

\* BSY appears at most 400 ns after the command.
Take(d) ==
  /\ phase[d] = "taken"
  /\ phase' = [phase EXCEPT ![d] = "busy"]
  /\ UNCHANGED <<machine, platter, reg, cmd, kernel>>

Outcomes(d) ==
  CASE cmd[d].op = "identify" -> IF kind[d] = "packet" THEN {"error"} ELSE {"data", "error"}
    [] cmd[d].op = "read"     -> {"data", "bad", "error"}
    [] cmd[d].op = "write"    -> {"want", "error"}
    [] cmd[d].op = "store"    -> {"idle", "error"}

Answer(d) ==
  /\ phase[d] = "busy"
  /\ \E o \in Outcomes(d) :
       /\ phase' = [phase EXCEPT ![d] = o]
       /\ platter' = IF o = "idle" THEN [platter EXCEPT ![d][cmd[d].sector] = writes]
                                   ELSE platter
  /\ UNCHANGED <<machine, reg, cmd, kernel>>

Hang(d) ==
  /\ phase[d] = "busy"
  /\ phase' = [phase EXCEPT ![d] = "hung"]
  /\ UNCHANGED <<machine, platter, reg, cmd, kernel>>

DriveStep(d) == Take(d) \/ Answer(d) \/ Hang(d)

-----------------------------------------------------------------------------
(***************************************************************************)
(* fscontext__init: every function of class 1, subclass 1 and programming  *)
(* interface 0x80 is taken for a controller; a slot without function 0 is  *)
(* not looked at.                                                          *)
(***************************************************************************)
Controllers ==
  {f \in PciFunctions : /\ pci[<<f[1], 0>>] # "absent"
                     /\ pci[f] = "ide"}

NoInfo == [exists |-> FALSE, lba |-> FALSE]

\* An empty bus identifies itself with ones.
fill_device_info(d) == [exists |-> TRUE, lba |-> kind[d] # "chs"]

Init ==
  /\ pci \in PciConfigs /\ kind \in Kinds
  /\ platter = [d \in Devices |-> [s \in Sectors |-> 0]]
  /\ reg = [c \in {0, 1} |-> [dev |-> 0, sector |-> 0]]
  /\ phase = [d \in Devices |-> "idle"]
  /\ cmd = [d \in Devices |-> [op |-> "none", sector |-> 0]]
  /\ pc = "scan" /\ ret = "NO_ERROR" /\ req = [op |-> "none", dev |-> 0, lba |-> 0]
  /\ ctrls = Controllers /\ idx = 0
  /\ devices = [d \in Devices |-> NoInfo]
  /\ fsdev = NoDev /\ boot_sector = Unread /\ buffer = Zero /\ writes = 0

\* The beginning of ide_ctrlinit: it forgets what an earlier call found.
ide_ctrlinit ==
  /\ pc = "scan"
  /\ \E f \in ctrls : ctrls' = ctrls \ {f}
  /\ devices' = [d \in Devices |-> NoInfo]
  /\ idx' = 0 /\ pc' = "probe"
  /\ UNCHANGED <<machine, drive, req, ret, fsdev, boot_sector, buffer, writes>>

\* Select the position, wait, and ide_identify_drive up to its wait.
ide_identify_drive ==
  /\ pc = "probe"
  /\ reg' = [reg EXCEPT ![Channel(idx)] = [dev |-> idx % 2, sector |-> @.sector]]
  /\ Command(idx, "identify", 0)
  /\ req' = [op |-> "identify", dev |-> idx, lba |-> 0]
  /\ pc' = "delay"
  /\ UNCHANGED <<machine, platter, ret, ctrls, idx, devices, fsdev, boot_sector,
                 buffer, writes>>

\* Faulty variant: what the drive answered is not looked at.
Identified_Unchecked ==
  /\ pc = "identified"
  /\ devices' = [devices EXCEPT ![idx] = fill_device_info(idx)]
  /\ idx' = idx + 1
  /\ pc' = IF idx = 3 THEN "scan" ELSE "probe"
  /\ UNCHANGED <<machine, drive, req, ret, ctrls, fsdev, boot_sector, buffer, writes>>

Identified ==
  /\ pc = "identified"
  /\ devices' = IF ret = "NO_ERROR"
                THEN [devices EXCEPT ![idx] = fill_device_info(idx)] ELSE devices
  /\ idx' = idx + 1
  /\ pc' = IF idx = 3 THEN "scan" ELSE "probe"
  /\ UNCHANGED <<machine, drive, req, ret, ctrls, fsdev, boot_sector, buffer, writes>>

-----------------------------------------------------------------------------
(***************************************************************************)
(* ide_readsector and ide_writesector up to their wait, with numSectors 1  *)
(* as block_dev_read and block_dev_write pass it.  The address bits above  *)
(* the 28th run into the bit that selects the drive.                       *)
(***************************************************************************)
Addressed(d, lba) ==
  [dev |-> IF d % 2 = 1 \/ (lba \div Reach) % 2 = 1 THEN 1 ELSE 0,
   sector |-> lba % Reach]

\* Faulty variant: the drive is not selected.
StartSector_NotSelected(op, d, lba) ==
  LET c == Channel(d)
      a == [Addressed(d, lba) EXCEPT !.dev = reg[c].dev]
  IN /\ devices[d].lba
     /\ reg' = [reg EXCEPT ![c] = a]
     /\ Command(2 * c + a.dev, op, a.sector)
     /\ req' = [op |-> op, dev |-> d, lba |-> lba]
     /\ pc' = "delay" /\ UNCHANGED ret

StartSector(op, d, lba) ==
  LET c == Channel(d)
      a == Addressed(d, lba)
  IN /\ devices[d].lba
     /\ reg' = [reg EXCEPT ![c] = a]
     /\ Command(2 * c + a.dev, op, a.sector)
     /\ req' = [op |-> op, dev |-> d, lba |-> lba]
     /\ pc' = "delay" /\ UNCHANGED ret

RefuseSector(op, d, lba) ==
  /\ ~devices[d].lba
  /\ req' = [op |-> op, dev |-> d, lba |-> lba]
  /\ ret' = "NOT_IMPLEMENTED" /\ pc' = "bootread"
  /\ UNCHANGED <<reg, phase, cmd>>

Return(r) ==
  /\ ret' = r
  /\ pc' = IF req.op = "identify" THEN "identified"
            ELSE IF boot_sector = Unread THEN "bootread" ELSE "ready"

\* What the second wait of ide_writesector says is not passed on.
WaitOver(r) ==
  IF req.op = "store" THEN Return("NO_ERROR") ELSE Return(r)

inWait == <<machine, drive, req, ctrls, idx, devices, fsdev, boot_sector, buffer,
            writes>>

\* Faulty variant: the drive gets no time to show BSY.
Delay_None ==
  /\ pc = "delay"
  /\ pc' = "present"
  /\ UNCHANGED <<ret, inWait>>

\* wait_for_drive_ready: four reads of the status take the drive's 400 ns.
Delay ==
  /\ pc = "delay"
  /\ phase[Selected(Channel(req.dev))] # "taken"
  /\ pc' = "present"
  /\ UNCHANGED <<ret, inWait>>

Present ==
  /\ pc = "present"
  /\ IF arch_ide_readaltstatus(Channel(req.dev)) = {}
     THEN WaitOver("NO_DEVICE") ELSE pc' = "poll" /\ UNCHANGED ret
  /\ UNCHANGED inWait

\* Faulty variant: an error is waited out.
Poll_ErrorAwaited ==
  LET status == arch_ide_readaltstatus(Channel(req.dev))
  IN /\ pc = "poll"
     /\ CASE "BSY" \notin status /\ "DRQ" \in status ->
               IF req.op = "store" THEN Return("NO_ERROR")
               ELSE pc' = "transfer" /\ UNCHANGED ret
          [] OTHER -> UNCHANGED <<pc, ret>>
     /\ UNCHANGED inWait

Poll ==
  LET status == arch_ide_readaltstatus(Channel(req.dev))
  IN /\ pc = "poll"
     /\ CASE "BSY" \notin status /\ "DRQ" \in status ->
               IF req.op = "store" THEN Return("NO_ERROR")
               ELSE pc' = "transfer" /\ UNCHANGED ret
          [] "BSY" \notin status /\ "DRQ" \notin status -> WaitOver("UNIDENTIFIED_ERROR")
          [] "BSY" \in status /\ "ERR" \in status -> WaitOver("UNIDENTIFIED_ERROR")
          [] OTHER -> UNCHANGED <<pc, ret>>
     /\ UNCHANGED inWait

\* arch_ide_readbuffer: 512 bytes from the drive the channel has selected.
ReadBuffer ==
  LET d == Selected(Channel(req.dev))
  IN /\ pc = "transfer" /\ req.op \in {"identify", "read"}
     /\ buffer' = IF phase[d] = "data" /\ cmd[d].op = "read"
                  THEN <<d, cmd[d].sector, platter[d][cmd[d].sector]>> ELSE Garbage
     /\ phase' = IF Empty(d) THEN phase ELSE [phase EXCEPT ![d] = "idle"]
     /\ Return("NO_ERROR")
     /\ UNCHANGED <<machine, platter, reg, cmd, req, ctrls, idx, devices, fsdev,
                    boot_sector, writes>>

\* arch_ide_writebuffer: the drive stores the sector, and is waited for again.
WriteBuffer ==
  LET d == Selected(Channel(req.dev))
  IN /\ pc = "transfer" /\ req.op = "write"
     /\ IF Empty(d) THEN UNCHANGED <<phase, cmd>>
        ELSE /\ phase' = [phase EXCEPT ![d] = "taken"]
             /\ cmd' = [cmd EXCEPT ![d].op = "store"]
     /\ req' = [req EXCEPT !.op = "store"]
     /\ pc' = "delay"
     /\ UNCHANGED <<machine, platter, reg, ret, ctrls, idx, devices, fsdev,
                    boot_sector, buffer, writes>>

-----------------------------------------------------------------------------
(***************************************************************************)
(* The end of fscontext__init.  Without a controller ide_ctrl was never    *)
(* assigned; with one, the first device found is read from.                *)
(***************************************************************************)
NoController ==
  /\ pc = "scan" /\ Controllers = {}
  /\ pc' = "undefined"
  /\ UNCHANGED <<machine, drive, req, ret, ctrls, idx, devices, fsdev, boot_sector,
                 buffer, writes>>

Found == {d \in Devices : devices[d].exists}

NoDevice ==
  /\ pc = "scan" /\ ctrls = {} /\ Controllers # {} /\ Found = {}
  /\ pc' = "nodevice" /\ ret' = "NO_DEVICE"
  /\ UNCHANGED <<machine, drive, req, ctrls, idx, devices, fsdev, boot_sector,
                 buffer, writes>>

TakeFirst ==
  /\ pc = "scan" /\ ctrls = {} /\ Controllers # {} /\ Found # {}
  /\ fsdev' = Min(Found)
  /\ \/ StartSector("read", Min(Found), 0)
     \/ RefuseSector("read", Min(Found), 0)
  /\ buffer' = Zero
  /\ UNCHANGED <<machine, platter, ctrls, idx, devices, boot_sector, writes>>

(***************************************************************************)
(* fat16_create_context behind the read.  block_dev_read passes no result  *)
(* on: after a failure the boot sector is still zero, and so is the number *)
(* of sectors a cluster has, which the size is divided by.                 *)
(***************************************************************************)
fat16_create_context ==
  /\ pc = "bootread"
  /\ boot_sector' = buffer
  /\ \/ buffer \in {Zero, Garbage} /\ pc' = "divide"
     \/ buffer # Zero /\ pc' \in {"ready", "nobuffer"}
  /\ UNCHANGED <<machine, drive, req, ret, ctrls, idx, devices, fsdev, buffer, writes>>

\* The file systems' requests, for sectors up to one behind the drive's reach.
\* A drive without LBA has been refused with the boot sector already.
block_dev_read(lba) ==
  /\ pc = "ready"
  /\ StartSector("read", fsdev, lba)
  /\ UNCHANGED <<machine, platter, ctrls, idx, devices, fsdev, boot_sector, buffer,
                 writes>>

block_dev_write(lba) ==
  /\ pc = "ready" /\ writes < MaxWrites
  /\ StartSector("write", fsdev, lba)
  /\ writes' = writes + 1
  /\ UNCHANGED <<machine, platter, ctrls, idx, devices, fsdev, boot_sector, buffer>>

KernelStep ==
  \/ ide_ctrlinit \/ ide_identify_drive \/ Identified
  \/ Delay \/ Present \/ Poll \/ ReadBuffer \/ WriteBuffer
  \/ NoController \/ NoDevice \/ TakeFirst \/ fat16_create_context

Next ==
  \/ KernelStep
  \/ \E lba \in 0 .. Reach : block_dev_read(lba) \/ block_dev_write(lba)
  \/ \E d \in Devices : DriveStep(d)

Spec == Init /\ [][Next]_ideVars

\* The kernel runs; a drive takes a command and answers it, unless it hangs.
FairSpec ==
  /\ Spec
  /\ WF_ideVars(KernelStep)
  /\ \A d \in Devices : WF_ideVars(Take(d)) /\ WF_ideVars(Answer(d) \/ Hang(d))

-----------------------------------------------------------------------------
Waiting == {"delay", "present", "poll"}

(***************************************************************************)
(* Once ide_ctrlinit is through, devices holds exactly the drives that     *)
(* answered IDENTIFY with data, whatever the other positions of the        *)
(* channel do; an empty channel that reads 0x7F counts as two of them.     *)
(***************************************************************************)
ProbeExact ==
  pc = "scan" /\ ctrls # Controllers =>
    \A d \in Devices :
      devices[d].exists <=>
        \/ kind[d] = "pulled"
        \/ kind[d] \in {"ata", "chs"} /\ phase[d] # "error"

(***************************************************************************)
(* A request that returns NO_ERROR was carried out by the drive and at the *)
(* sector it named: a read delivers that sector's content, unless the      *)
(* drive raised ERR beside its data or the bus is empty, and a write has   *)
(* reached the platter, unless the drive failed to store what it had       *)
(* accepted, the one error that is not passed on.  The file system's boot  *)
(* sector is sector 0 of the first device found.                           *)
(***************************************************************************)
TransfersExact ==
  /\ pc = "ready" /\ ret = "NO_ERROR" /\ req.lba < Reach =>
       /\ req.op = "read" =>
            buffer \in {<<fsdev, req.lba, platter[fsdev][req.lba]>>, Garbage}
       /\ req.op = "store" =>
            \/ platter[fsdev][req.lba] = writes
            \/ phase[fsdev] = "error" \/ Empty(fsdev)
  /\ pc = "ready" => boot_sector \in {<<Min(Found), 0, 0>>, Garbage}

(***************************************************************************)
(* No sector changes but the one a write names, as long as the address     *)
(* stays within 28 bits.                                                   *)
(***************************************************************************)
OnlyAskedWritten ==
  [][\A d \in Devices, s \in Sectors :
       platter'[d][s] # platter[d][s] /\ req.lba < Reach =>
         d = fsdev /\ s = req.lba]_ideVars

(***************************************************************************)
(* A drive is at work, or has data to transfer, only while the kernel      *)
(* waits for it: no command is written to a drive that would not take it,  *)
(* and the two drives of a channel never compete.                          *)
(***************************************************************************)
WorksWhileWaited ==
  \A d \in Devices :
    phase[d] \notin {"idle", "error"} =>
      pc \in Waiting \cup {"transfer"} /\ d = Selected(Channel(req.dev))

(***************************************************************************)
(* The boot and every request come to an end, also when drives fail or are *)
(* missing; only a drive that stays busy for ever keeps the kernel in      *)
(* wait_for_drive_ready, which has no bound.                               *)
(***************************************************************************)
Settles ==
  []<>(\/ pc \in {"ready", "divide", "nobuffer", "nodevice", "undefined"}
       \/ \E d \in Devices : phase[d] = "hung")

-----------------------------------------------------------------------------
Phases == {"idle", "taken", "busy", "hung", "data", "want", "bad", "error"}
Ops == {"identify", "read", "write", "store"}
InRequest == pc \in Waiting \cup {"transfer"}

(***************************************************************************)
(* ide.c keeps its registers, requests and device numbers in range: no     *)
(* position beyond the fourth is probed, and no request names one.         *)
(***************************************************************************)
TypeOK ==
  /\ kind \in [Devices -> {"ata", "chs", "packet", "none", "pulled", "floating"}]
  /\ platter \in [Devices -> [Sectors -> Nat]]
  /\ reg \in [{0, 1} -> [dev : {0, 1}, sector : Sectors]]
  /\ phase \in [Devices -> Phases]
  /\ cmd \in [Devices -> [op : Ops \cup {"none"}, sector : Sectors]]
  /\ req \in [op : Ops \cup {"none"}, dev : Devices, lba : Nat]
  /\ writes \in Nat
  /\ pc \in {"probe", "identified"} => idx \in Devices
  /\ pc \in {"ready", "bootread"} => fsdev \in Devices

(***************************************************************************)
(* The inductive invariant behind WorksWhileWaited and OnlyAskedWritten:   *)
(* an empty position never works, the kernel is past its delay only when   *)
(* the drive has taken the command, it transfers only when the drive asks  *)
(* for it, and a drive at work has the command and the sector of the       *)
(* request the kernel waits for.                                           *)
(***************************************************************************)
InStep ==
  LET d == Selected(Channel(req.dev))
  IN /\ req.op \in Ops
     /\ pc \in {"present", "poll"} => phase[d] # "taken"
     /\ pc = "transfer" => /\ Empty(d) \/ phase[d] \in {"data", "bad", "want"}
                           /\ req.op # "store"
     /\ req.op = "identify" => idx \in Devices
     /\ req.op # "identify" =>
          req.dev = fsdev /\ reg[Channel(req.dev)] = Addressed(req.dev, req.lba)
     /\ phase[d] \notin {"idle", "error"} =>
          /\ cmd[d].op = req.op
          /\ req.op # "identify" => cmd[d].sector = reg[Channel(req.dev)].sector

IdeInv ==
  /\ TypeOK
  /\ WorksWhileWaited
  /\ \A d \in Devices :
       /\ Empty(d) => phase[d] = "idle"
       /\ phase[d] \in {"data", "bad", "want"} => cmd[d].op # "store"
  /\ InRequest => InStep

\* Position d answers IDENTIFY with data.
Answers(d) ==
  \/ kind[d] = "pulled"
  \/ kind[d] \in {"ata", "chs"} /\ phase[d] # "error"

\* The positions before idx are entered as they answered, the others not yet.
ProbedTo(i) ==
  \A d \in Devices :
    IF d < i THEN devices[d].exists <=> Answers(d) ELSE ~devices[d].exists

(***************************************************************************)
(* The inductive invariant behind ProbeExact: a drive that has taken       *)
(* IDENTIFY does not fall idle before its data are read, and the result of *)
(* ide_identify_drive says whether it answered.                            *)
(***************************************************************************)
Identifying == InRequest /\ req.op = "identify"

ProbeInv ==
  /\ devices \in [Devices -> [exists : BOOLEAN, lba : BOOLEAN]]
  /\ ProbeExact
  /\ pc = "probe" => ProbedTo(idx)
  /\ Identifying =>
       /\ ProbedTo(idx) /\ req.dev = idx /\ Selected(Channel(idx)) = idx
       /\ ~Empty(idx) => phase[idx] \in Working \cup {"data", "error"}
       /\ kind[idx] = "packet" => phase[idx] # "data"
       /\ pc = "transfer" => Answers(idx)
  /\ pc = "identified" =>
       ProbedTo(idx) /\ (ret = "NO_ERROR" <=> Answers(idx))

(***************************************************************************)
(* The inductive invariant behind TransfersExact.  Up to the boot sector   *)
(* nothing has been written; from then on the file system's device is the  *)
(* first one found; and a drive that has fallen idle in the second wait of *)
(* ide_writesector has stored its sector.                                  *)
(***************************************************************************)
Transferring == InRequest /\ req.op # "identify"
BootSectors == {<<Min(Found), 0, 0>>, Garbage}

Done ==
  ret = "NO_ERROR" /\ req.lba < Reach =>
    /\ req.op = "read" =>
         buffer \in {<<fsdev, req.lba, platter[fsdev][req.lba]>>, Garbage}
    /\ req.op = "store" =>
         \/ platter[fsdev][req.lba] = writes
         \/ phase[fsdev] = "error" \/ Empty(fsdev)

TransfersInv ==
  /\ pc \in {"scan", "probe", "identified", "bootread"} \/ Identifying =>
       boot_sector = Unread
  /\ boot_sector = Unread =>
       /\ \A d \in Devices, s \in Sectors : platter[d][s] = 0
       /\ req.op \notin {"write", "store"}
       /\ Transferring => req.lba = 0 /\ buffer = Zero
  /\ pc \in {"ready", "bootread"} \/ Transferring => fsdev = Min(Found)
  /\ pc = "ready" => boot_sector \in BootSectors
  /\ Transferring => boot_sector \in BootSectors \cup {Unread}
  /\ pc = "bootread" => req.lba = 0 /\ buffer \in BootSectors \cup {Zero}
  /\ pc \in {"ready", "bootread"} => Done
  /\ Transferring /\ req.op = "store" /\ req.lba < Reach =>
       phase[fsdev] # "idle" \/ Empty(fsdev) \/ platter[fsdev][req.lba] = writes
=============================================================================
