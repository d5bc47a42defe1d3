---------------------------- MODULE KernelProofs ----------------------------
(***************************************************************************)
(* The kernel beside its devices.  The frames mm_alloc hands out, for any  *)
(* number of blocks, any set of frames free at boot and any kernel pages.  *)
(* The interrupts, for every set of lines, withdrawn requests, drivers and *)
(* exceptions: handlers never nest, and every hardware interrupt is ended  *)
(* before the interrupted code goes on.  The echo of one-byte keys, for    *)
(* every table of scan codes that keeps their codes apart, any keys typed  *)
(* and any number of them.                                                 *)
(***************************************************************************)
EXTENDS Mm, Interrupts, Keyboard, TLAPS

(***************************************************************************)
(* One page mapped by arch_paging_map: its entry names the frame given.    *)
(***************************************************************************)
LEMMA MapOnePage ==
  ASSUME NEW v \in Blocks, NEW fr \in Blocks
  PROVE  arch_paging_map(v, 1, fr) =
           [p \in Blocks |-> IF p = v THEN [present |-> TRUE, frame |-> fr]
                                      ELSE pageTable[p]]
<1>1. v .. (v + 1 - 1) = {v}
  BY MmAssumption DEF Blocks
<1>2. (fr + (v - v)) % NBlocks = fr
  BY MmAssumption DEF Blocks
<1> QED BY <1>1, <1>2 DEF arch_paging_map

\* The invariant holds after mm_init.
LEMMA MmInitInv == MmInit => MmInv
<1> SUFFICES ASSUME MmInit PROVE MmInv
  OBVIOUS
<1>1. \A p \in Blocks :
        p \in KernelBase .. (KernelBase + KernelBlocks - 1) => p - KernelBase \in Blocks
  BY MmAssumption DEF Blocks
<1>2. pageTable \in [Blocks -> Pte]
  BY <1>1 DEF MmInit, arch_paging_init_lower, Pte
<1>3. Held = {}
  BY DEF MmInit, Held
<1> QED
  BY <1>2, <1>3, MmAssumption
  DEF MmInit, MmInv, MmTypeOK, FramesExclusive, FramesConserved, HeldPresent,
      HeldFromFree

(***************************************************************************)
(* mm_alloc of one page keeps the invariant: the frame it takes is marked  *)
(* by no one, or memory has run out.                                       *)
(***************************************************************************)
LEMMA AllocPageInv ==
  ASSUME MmInv, NEW v \in ClientPages, AllocPage(v)
  PROVE  MmInv'
<1>1. PICK fr \in Blocks : mm_alloc(v, 1, fr)
  BY DEF AllocPage
<1>2. v \in Blocks /\ v \notin KernelVm /\ v \notin vmBitmap
  BY <1>1 DEF ClientPages, mm_alloc
<1>3. pageTable' = [p \in Blocks |-> IF p = v THEN [present |-> TRUE, frame |-> fr]
                                              ELSE pageTable[p]]
  BY <1>1, <1>2, MapOnePage DEF mm_alloc
<1>4. Held' = Held \cup {v} /\ v \notin Held /\ Held \subseteq Blocks
  BY <1>1, <1>2 DEF mm_alloc, Held, MmInv, MmTypeOK
<1>5. pageBitmap' = pageBitmap \cup {fr}
  BY <1>1 DEF mm_alloc
<1>6. Frame(v)' = fr /\ pageTable'[v].present
  BY <1>2, <1>3 DEF Frame
<1>7. \A p \in Held : Frame(p)' = Frame(p) /\ pageTable'[p] = pageTable[p]
  BY <1>3, <1>4 DEF Frame
<1>8. MmTypeOK'
  <2>1. pageTable' \in [Blocks -> Pte]
    BY <1>3 DEF MmInv, MmTypeOK, Pte
  <2>2. exhausted' \in BOOLEAN
    BY <1>1 DEF mm_alloc, MmInv, MmTypeOK
  <2> QED BY <2>1, <2>2, <1>1, <1>2 DEF mm_alloc, MmInv, MmTypeOK
<1>9. HeldPresent'
  BY <1>4, <1>6, <1>7 DEF HeldPresent, MmInv
<1>10. ASSUME ~exhausted' PROVE ~exhausted /\ fr \notin pageBitmap
  BY <1>10, <1>1 DEF mm_alloc, mm_find_empty_block_physical
<1>11. ASSUME ~exhausted'
       PROVE  \A p \in Held : Frame(p) # fr
  BY <1>10, <1>11 DEF MmInv, FramesConserved
<1>12. FramesExclusive'
  BY <1>4, <1>6, <1>7, <1>10, <1>11 DEF FramesExclusive, MmInv
<1>13. ASSUME ~exhausted'
       PROVE  {Frame(p) : p \in Held}' = {Frame(p) : p \in Held} \cup {fr}
  BY <1>4, <1>6, <1>7
<1>14. FramesConserved'
  BY <1>5, <1>10, <1>13 DEF FramesConserved, MmInv
<1>15. HeldFromFree'
  <2> SUFFICES ASSUME ~exhausted' PROVE fr \in FreeAtBoot
    BY <1>4, <1>6, <1>7, <1>10 DEF HeldFromFree, MmInv
  <2> QED BY <1>10 DEF MmInv, FramesConserved
<1> QED BY <1>8, <1>9, <1>12, <1>14, <1>15 DEF MmInv

(***************************************************************************)
(* mm_free of a page that is held keeps the invariant: its frame was free  *)
(* at boot and no other page has it.                                       *)
(***************************************************************************)
LEMMA FreePageInv ==
  ASSUME MmInv, NEW v \in ClientPages, FreePage(v)
  PROVE  MmInv'
<1>1. v \in Held /\ v \in Blocks /\ Held \subseteq Blocks
  BY DEF FreePage, Held, ClientPages, MmInv, MmTypeOK
<1>2. pageTable' = [p \in Blocks |-> IF p = v THEN [present |-> FALSE, frame |-> 0]
                                              ELSE pageTable[p]]
  BY DEF FreePage, mm_free, arch_paging_unmap
<1>3. pageBitmap' = pageBitmap \ {Frame(v)}
  BY DEF FreePage, mm_free, Frame
<1>4. Held' = Held \ {v} /\ exhausted' = exhausted
  BY DEF FreePage, mm_free, Held, ClientPages
<1>5. \A p \in Held \ {v} : Frame(p)' = Frame(p) /\ pageTable'[p] = pageTable[p]
  BY <1>1, <1>2 DEF Frame
<1>6. MmTypeOK'
  <2>1. 0 \in Blocks
    BY MmAssumption DEF Blocks
  <2>2. pageTable' \in [Blocks -> Pte]
    BY <1>2, <2>1 DEF MmInv, MmTypeOK, Pte
  <2> QED BY <1>3, <1>4, <2>2 DEF MmInv, MmTypeOK, FreePage, mm_free
<1>7. HeldPresent' /\ FramesExclusive' /\ HeldFromFree'
  BY <1>4, <1>5 DEF MmInv, HeldPresent, FramesExclusive, HeldFromFree
<1>8. FramesConserved'
  <2> SUFFICES ASSUME ~exhausted
               PROVE  pageBitmap' = (Blocks \ FreeAtBoot)
                                      \cup {Frame(p)' : p \in Held \ {v}}
    BY <1>4 DEF FramesConserved
  <2>1. Frame(v) \in FreeAtBoot
    BY <1>1 DEF MmInv, HeldFromFree
  <2>2. {Frame(p)' : p \in Held \ {v}} = {Frame(p) : p \in Held \ {v}}
    BY <1>5
  <2>3. {Frame(p) : p \in Held \ {v}} = {Frame(p) : p \in Held} \ {Frame(v)}
    BY <1>1 DEF MmInv, FramesExclusive
  <2> QED BY <1>3, <2>1, <2>2, <2>3 DEF MmInv, FramesConserved
<1> QED BY <1>6, <1>7, <1>8 DEF MmInv

(***************************************************************************)
(* Every step of the single-page interface keeps the invariant.            *)
(***************************************************************************)
LEMMA MmStepInv == MmInv /\ [MmNext]_mmVars => MmInv'
<1> SUFFICES ASSUME MmInv, [MmNext]_mmVars PROVE MmInv'
  OBVIOUS
<1>1. ASSUME NEW v \in ClientPages, AllocRefused(v) PROVE UNCHANGED mmVars
  BY <1>1 DEF AllocRefused
<1>2. CASE UNCHANGED mmVars
  BY <1>2 DEF mmVars, MmInv, MmTypeOK, FramesExclusive, FramesConserved,
              HeldPresent, HeldFromFree, Held, Frame
<1> QED BY <1>1, <1>2, AllocPageInv, FreePageInv DEF MmNext

(***************************************************************************)
(* The single-page interface of mm.c never hands a frame out twice and     *)
(* never loses one, until a request finds no frame free.                   *)
(***************************************************************************)
THEOREM FramesSafe == MmSpec => []FramesSound
<1>1. MmInv => FramesSound
  BY DEF MmInv, FramesSound
<1> QED BY <1>1, MmInitInv, MmStepInv, PTL DEF MmSpec

(***************************************************************************)
(* A page that stays held keeps its page-table entry, whatever is          *)
(* allocated and freed beside it.                                          *)
(***************************************************************************)
THEOREM HeldKeepFrames == MmSpec => HeldStable
<1>1. MmInv /\ [MmNext]_mmVars =>
        [\A p \in Held : p \in vmBitmap' => pageTable'[p] = pageTable[p]]_mmVars
  <2> SUFFICES ASSUME MmInv, NEW v \in ClientPages, AllocPage(v) \/ FreePage(v),
                      NEW p \in Held, p \in vmBitmap'
               PROVE  pageTable'[p] = pageTable[p]
    BY DEF MmNext, AllocRefused
  <2>1. v \in Blocks /\ p \in Blocks /\ p \in vmBitmap /\ Blocks \subseteq Int
    BY MmAssumption DEF MmInv, MmTypeOK, Held, ClientPages, Blocks
  <2>2. CASE AllocPage(v)
    <3>1. PICK fr \in Blocks : mm_alloc(v, 1, fr)
      BY <2>2 DEF AllocPage
    <3>2. p # v
      BY <2>1, <3>1 DEF mm_alloc
    <3>3. p \notin v .. (v + 1 - 1)
      BY <2>1, <3>2
    <3> QED BY <2>1, <3>1, <3>3 DEF mm_alloc, arch_paging_map
  <2>3. CASE FreePage(v)
    BY <2>1, <2>3 DEF FreePage, mm_free, arch_paging_unmap
  <2> QED BY <2>2, <2>3
<1> QED BY <1>1, MmInitInv, MmStepInv, PTL DEF MmSpec, HeldStable

-----------------------------------------------------------------------------
(***************************************************************************)
(* What may be in service while frame f is on the stack: at most the line  *)
(* of its vector, with the cascade for the second controller, and nothing  *)
(* once the end of the interrupt has been signalled.                       *)
(***************************************************************************)
InServiceOf(f) ==
  /\ f.at = "end" => f.vector \in 32 .. 47
  /\ f.at = "return" \/ f.vector \notin 32 .. 47 => isr = {}
  /\ f.vector \in 32 .. 39 => \E l \in Master : isr \subseteq {l}
  /\ f.vector \in 40 .. 47 => \E l \in Slave : isr \subseteq {Cascade, l}

(***************************************************************************)
(* The inductive invariant: the flag is off in a handler, hence at most    *)
(* one frame, and that frame accounts for the lines in service.            *)
(***************************************************************************)
DispatchInv ==
  /\ IF_ \in BOOLEAN /\ isr \subseteq 0 .. 15 /\ irr \subseteq Lines
  /\ stack = <<>> \/ \E f \in FrameType : stack = <<f>>
  /\ stack = <<>> => isr = {}
  /\ stack # <<>> => IF_ = FALSE
  /\ \A f \in FrameType : stack = <<f>> => InServiceOf(f)

\* The invariant holds when the boot loader hands over.
LEMMA InitDispatch == IrqInit => DispatchInv
<1>1. \A f \in FrameType : <<>> # <<f>>
  OBVIOUS
<1> QED BY <1>1, LinesAssumption DEF IrqInit, DispatchInv

(***************************************************************************)
(* Entering a handler from code that no handler has interrupted.           *)
(***************************************************************************)
LEMMA EnterDispatch ==
  ASSUME DispatchInv, stack = <<>>, NEW v \in Vectors, Enter(v),
         isr' \subseteq 0 .. 15, irr' \subseteq Lines,
         v \notin 32 .. 47 => isr' = {},
         v \in 32 .. 39 => \E l \in Master : isr' \subseteq {l},
         v \in 40 .. 47 => \E l \in Slave : isr' \subseteq {Cascade, l}
  PROVE  DispatchInv'
<1>1. PICK f \in FrameType : /\ f.vector = v /\ f.at = "call"
                             /\ stack' = <<f>>
  BY DEF Enter, StackFrame, FrameType, DispatchInv
<1>2. IF_' = FALSE
  BY DEF Enter, FlagInHandler
<1>3. ASSUME NEW g \in FrameType, stack' = <<g>> PROVE InServiceOf(g)'
  <2>1. g = f
    BY <1>1, <1>3
  <2> QED BY <1>1, <2>1 DEF InServiceOf
<1> QED BY <1>1, <1>2, <1>3 DEF DispatchInv

\* A request, or a withdrawn one, enters its handler from the kernel only.
LEMMA AcceptDispatch ==
  ASSUME DispatchInv, NEW l \in Lines, Accept(l) \/ Spurious(l)
  PROVE  DispatchInv'
<1>1. IF_ = TRUE /\ stack = <<>> /\ isr = {} /\ l \in 0 .. 15
  BY LinesAssumption DEF DispatchInv, Accept, Spurious
<1>2. isr' \subseteq InService(l) /\ irr' \subseteq Lines
  BY <1>1 DEF Accept, Spurious, DispatchInv
<1>3. CASE l \in Slave
  <2>1. PICK v \in 40 .. 47 : Enter(v)
    BY <1>1, <1>3 DEF Accept, Spurious, Slave
  <2>2. InService(l) = {Cascade, l}
    BY <1>3 DEF InService
  <2>3. isr' \subseteq {Cascade, l} /\ isr' \subseteq 0 .. 15
    BY <1>1, <1>2, <2>2 DEF Cascade
  <2>4. v \in Vectors /\ v \notin 32 .. 39
    BY DEF Vectors
  <2> QED BY <1>1, <1>2, <1>3, <2>1, <2>3, <2>4, EnterDispatch
<1>4. CASE l \notin Slave
  <2>1. PICK v \in 32 .. 39 : Enter(v)
    BY <1>1, <1>4 DEF Accept, Spurious, Slave
  <2>2. InService(l) = {l}
    BY <1>4 DEF InService
  <2>3. l \in Master /\ isr' \subseteq {l} /\ isr' \subseteq 0 .. 15
    BY <1>1, <1>2, <1>4, <2>2 DEF Master, Slave
  <2>4. v \in Vectors /\ v \notin 40 .. 47
    BY DEF Vectors
  <2> QED BY <1>1, <1>2, <2>1, <2>3, <2>4, EnterDispatch
<1> QED BY <1>3, <1>4

(***************************************************************************)
(* One step of a handler, by the frame it works on.                        *)
(***************************************************************************)
LEMMA HandlerDispatch == DispatchInv /\ Handler => DispatchInv'
<1> SUFFICES ASSUME DispatchInv, Handler PROVE DispatchInv'
  OBVIOUS
<1>1. PICK f \in FrameType : stack = <<f>>
  BY DEF DispatchInv, Handler, Handling, interrupts_generic_handler,
         arch_irq_generic_handler, iret
<1>2. InServiceOf(f) /\ IF_ = FALSE /\ Top = f
  BY <1>1 DEF DispatchInv, Top
<1>3. ASSUME NEW s \in {"call", "end", "return"}
      PROVE  At(s) = <<[f EXCEPT !.at = s]>>
  BY <1>1 DEF At
<1>4. CASE interrupts_generic_handler
  <2>1. CASE f.vector \in handlers
    <3>1. PICK g \in FrameType :
            /\ stack' = <<g>> /\ g.vector = f.vector
            /\ g.at = IF f.vector \in 32 .. 47 THEN "end" ELSE "return"
      BY <1>2, <1>3, <1>4, <2>1 DEF interrupts_generic_handler, FrameType
    <3>2. UNCHANGED <<isr, irr, IF_>>
      BY <1>2, <1>4, <2>1 DEF interrupts_generic_handler
    <3>3. InServiceOf(g)'
      BY <1>2, <3>1, <3>2 DEF InServiceOf
    <3> QED BY <1>2, <3>1, <3>2, <3>3 DEF DispatchInv
  <2>2. CASE f.vector \notin handlers
    <3>1. UNCHANGED <<isr, irr, stack>> /\ IF_' = FALSE
      BY <1>2, <1>4, <2>2 DEF interrupts_generic_handler
    <3> QED BY <1>1, <1>2, <3>1, ZenonT(30), SMTT(30) DEF DispatchInv, InServiceOf
  <2> QED BY <2>1, <2>2
<1>5. CASE arch_irq_generic_handler
  <2>1. f.at = "end" /\ f.vector \in 32 .. 47
    BY <1>2, <1>5 DEF arch_irq_generic_handler, Handling, InServiceOf
  <2>2. isr' = {}
    <3>1. isr' = isr \ EndOfInterrupt(f.vector)
      BY <1>2, <1>5 DEF arch_irq_generic_handler
    <3>2. CASE f.vector \in 32 .. 39
      BY <1>2, <3>1, <3>2 DEF InServiceOf, EndOfInterrupt, Ended, Master
    <3>3. CASE f.vector \in 40 .. 47
      <4>1. PICK l \in Slave : isr \subseteq {Cascade, l}
        BY <1>2, <3>3 DEF InServiceOf
      <4>2. isr \cap Slave \subseteq {l} /\ isr \cap Master \subseteq {Cascade}
        BY <4>1 DEF Slave, Master, Cascade
      <4>3. isr \cap Slave \subseteq Ended(Slave)
        BY <4>2 DEF Ended, Slave
      <4>4. isr \cap Master \subseteq Ended(Master)
        BY <4>2 DEF Ended, Master, Cascade
      <4>5. isr \subseteq Master \cup Slave
        BY <4>1 DEF Cascade, Master, Slave
      <4> QED BY <3>1, <3>3, <4>3, <4>4, <4>5 DEF EndOfInterrupt
    <3> QED BY <2>1, <3>2, <3>3
  <2>3. PICK g \in FrameType :
          stack' = <<g>> /\ g.vector = f.vector /\ g.at = "return"
    BY <1>3, <1>5, <2>1 DEF arch_irq_generic_handler, FrameType
  <2>4. UNCHANGED <<irr, IF_>>
    BY <1>5 DEF arch_irq_generic_handler
  <2>5. InServiceOf(g)'
    BY <2>1, <2>2, <2>3 DEF InServiceOf, Master, Slave
  <2> QED BY <1>2, <2>2, <2>3, <2>4, <2>5 DEF DispatchInv
<1>6. CASE iret
  <2>1. f.at = "return" /\ isr = {}
    BY <1>2, <1>6 DEF iret, Handling, InServiceOf
  <2>2. stack' = <<>>
    BY <1>1, <1>6 DEF iret
  <2>3. IF_' \in BOOLEAN /\ isr' = {} /\ irr' = irr
    BY <1>2, <1>6, <2>1 DEF iret, FrameType
  <2> QED BY <2>2, <2>3 DEF DispatchInv
<1> QED BY <1>4, <1>5, <1>6 DEF Handler

\* Every step of kmain, the handlers and the devices keeps the invariant.
LEMMA NextDispatch == DispatchInv /\ [IrqNext]_irqVars => DispatchInv'
<1> SUFFICES ASSUME DispatchInv, [IrqNext]_irqVars PROVE DispatchInv'
  OBVIOUS
<1>1. CASE Boot
  <2>1. stack = <<>> /\ stack' = <<>> /\ isr = {} /\ isr' = {}
    BY <1>1 DEF Boot, interrupts_init, sethandler_exceptions,
      keyboard_initialize, interrupts_enableinterrupts, Kernel, DispatchInv
  <2>2. irr' \subseteq Lines /\ IF_' \in BOOLEAN
    BY <1>1 DEF Boot, interrupts_init, sethandler_exceptions,
      keyboard_initialize, interrupts_enableinterrupts, DispatchInv
  <2> QED BY <2>1, <2>2 DEF DispatchInv
<1>2. CASE Handler
  BY <1>2, HandlerDispatch
<1>3. CASE IntSyscall
  <2>1. /\ stack = <<>> /\ isr' = {} /\ irr' \subseteq Lines
        /\ Enter(Syscall) /\ Syscall \in Vectors /\ Syscall \notin 32 .. 47
    BY <1>3 DEF IntSyscall, Kernel, DispatchInv, Syscall, Vectors
  <2> QED BY <2>1, EnterDispatch
<1>4. ASSUME NEW l \in Lines, Raise(l) PROVE DispatchInv'
  BY <1>4 DEF Raise, DispatchInv, InServiceOf
<1>5. ASSUME NEW l \in Lines, Accept(l) \/ Spurious(l) PROVE DispatchInv'
  BY <1>5, AcceptDispatch
<1>6. ASSUME NEW l \in Drivers,
             \/ interrupts_sethandler(l) \/ interrupts_enablegate(l)
             \/ interrupts_disablegate(l)
      PROVE  DispatchInv'
  BY <1>6, ZenonT(30), SMTT(30) DEF interrupts_sethandler, interrupts_enablegate,
              interrupts_disablegate, DispatchInv, InServiceOf
<1>7. ASSUME NEW e \in Exceptions, Exception(e) PROVE DispatchInv'
  BY <1>7, ZenonT(30), SMTT(30) DEF Exception, DispatchInv, InServiceOf
<1>8. CASE UNCHANGED irqVars
  BY <1>8 DEF irqVars, DispatchInv, InServiceOf
<1> QED
  BY <1>1, <1>2, <1>3, <1>4, <1>5, <1>6, <1>7, <1>8, LinesAssumption DEF IrqNext

(***************************************************************************)
(* Handlers never nest, and no line is left in service when the kernel is  *)
(* out of its handlers.                                                    *)
(***************************************************************************)
THEOREM DispatchSafe == IrqSpec => []DispatchSound
<1>1. DispatchInv => DispatchSound
  <2> SUFFICES ASSUME DispatchInv PROVE Acknowledged /\ OneHandler
    BY DEF DispatchSound
  <2>1. Acknowledged
    BY DEF DispatchInv, Acknowledged
  <2>2. CASE stack = <<>>
    BY <2>1, <2>2 DEF OneHandler
  <2>3. CASE \E f \in FrameType : stack = <<f>>
    <3>1. PICK f \in FrameType : stack = <<f>>
      BY <2>3
    <3>2. Len(stack) = 1
      BY <3>1
    <3> QED BY <2>1, <3>2 DEF OneHandler
  <2> QED BY <2>2, <2>3 DEF DispatchInv
<1> QED BY InitDispatch, NextDispatch, <1>1, PTL DEF IrqSpec

-----------------------------------------------------------------------------
\* The hardware interrupts interrupts_generic_handler has no handler for.
Unexpected(v) == v = 39 \/ (v = 47 /\ Cascade \notin imr)

(***************************************************************************)
(* The inductive invariant behind LinesExpected: interrupts come only once *)
(* kmain runs; from setup_pic on, a line that is open has a handler, or is *)
(* the keyboard's while kmain still sets it up, or is line 15; and a frame *)
(* that is about to be dispatched came through such a line.                *)
(***************************************************************************)
LinesInv ==
  /\ IF_ = TRUE \/ stack # <<>> => boot = "run"
  /\ boot = "start" => halted = Running
  /\ boot \in {"enable", "run"} => 33 \in handlers
  /\ boot # "start" =>
       \A l \in 0 .. 15 \ imr : 32 + l \in handlers \/ l \in {1, 15}
  /\ \A f \in FrameType : stack = <<f>> /\ f.vector \in 32 .. 47 =>
       f.vector \in handlers \/ Unexpected(f.vector)
  /\ LinesExpected

\* The invariant holds when the boot loader hands over.
LEMMA InitLines == IrqInit => LinesInv
<1>1. \A f \in FrameType : <<>> # <<f>>
  OBVIOUS
<1> QED BY <1>1 DEF IrqInit, LinesInv, LinesExpected, Running

\* kmain's own steps, and what a driver does, from code outside of handlers.
LEMMA SetupLines ==
  ASSUME LinesInv, Boot \/ \E l \in Drivers : \/ interrupts_sethandler(l)
                                            \/ interrupts_enablegate(l)
                                            \/ interrupts_disablegate(l)
  PROVE  LinesInv'
<1>1. stack = <<>> /\ stack' = <<>> /\ halted = Running /\ halted' = Running
  BY DEF Boot, interrupts_init, sethandler_exceptions, keyboard_initialize,
    interrupts_enableinterrupts, interrupts_sethandler, interrupts_enablegate,
    interrupts_disablegate, Kernel
<1>2. \A f \in FrameType : stack' # <<f>>
  BY <1>1
<1>3. LinesExpected'
  BY <1>1 DEF LinesExpected, Running
<1>4. CASE interrupts_init
  <2>1. \A l \in 0 .. 15 \ imr' : l \in {1, 15}
    BY <1>4 DEF interrupts_init, SetupMask
  <2> QED BY <1>1, <1>2, <1>3, <1>4, <2>1 DEF interrupts_init, LinesInv
<1>5. CASE sethandler_exceptions
  BY <1>1, <1>2, <1>3, <1>5 DEF sethandler_exceptions, LinesInv
<1>6. CASE keyboard_initialize
  BY <1>1, <1>2, <1>3, <1>6 DEF keyboard_initialize, LinesInv
<1>7. CASE interrupts_enableinterrupts
  BY <1>1, <1>2, <1>3, <1>7 DEF interrupts_enableinterrupts, LinesInv
<1>8. ASSUME NEW l \in Drivers, \/ interrupts_sethandler(l)
                                \/ interrupts_enablegate(l)
                                \/ interrupts_disablegate(l)
      PROVE  LinesInv'
  BY <1>1, <1>2, <1>3, <1>8 DEF interrupts_sethandler, interrupts_enablegate,
    interrupts_disablegate, LinesInv
<1> QED BY <1>4, <1>5, <1>6, <1>7, <1>8 DEF Boot

\* A request that reaches the CPU came through an open line.
LEMMA AcceptLines ==
  ASSUME DispatchInv, LinesInv, NEW l \in Lines, Accept(l) \/ Spurious(l)
  PROVE  LinesInv'
<1>1. /\ IF_ /\ stack = <<>> /\ boot = "run" /\ l \in 0 .. 15 \ imr
      /\ l \in Slave => Cascade \notin imr
      /\ UNCHANGED <<boot, handlers, imr, halted>>
  BY LinesAssumption DEF DispatchInv, LinesInv, Accept, Spurious, Pending
<1>2. PICK v \in 32 .. 47 : Enter(v) /\ (v \in handlers \/ Unexpected(v))
  <2>1. CASE Accept(l)
    <3>1. 32 + l \in handlers \/ l = 15
      BY <1>1 DEF LinesInv
    <3>2. l = 15 => Unexpected(32 + l)
      BY <1>1 DEF Unexpected, Slave
    <3>3. 32 + l \in 32 .. 47 /\ Enter(32 + l)
      BY <1>1, <2>1 DEF Accept
    <3> QED BY <3>1, <3>2, <3>3
  <2>2. CASE Spurious(l)
    BY <1>1, <2>2 DEF Spurious, Unexpected
  <2> QED BY <2>1, <2>2
<1>3. PICK f : f.vector = v /\ stack' = <<f>>
  BY <1>1, <1>2 DEF Enter, StackFrame
<1>4. ASSUME NEW g \in FrameType, stack' = <<g>>
      PROVE  g.vector \in handlers' \/ Unexpected(g.vector)'
  BY <1>1, <1>2, <1>3, <1>4 DEF Unexpected
<1>5. IF_' = FALSE
  BY <1>2 DEF Enter, FlagInHandler
<1>6. LinesExpected'
  BY <1>1 DEF LinesInv, LinesExpected
<1> QED BY <1>1, <1>4, <1>5, <1>6 DEF LinesInv

\* A handler ends the interrupt and returns, or halts for want of an entry.
LEMMA HandlerLines == DispatchInv /\ LinesInv /\ Handler => LinesInv'
<1> SUFFICES ASSUME DispatchInv, LinesInv, Handler PROVE LinesInv'
  OBVIOUS
<1>1. PICK f \in FrameType : stack = <<f>>
  BY DEF DispatchInv, Handler, Handling, interrupts_generic_handler,
         arch_irq_generic_handler, iret
<1>2. /\ Top = f /\ boot = "run" /\ halted = Running
      /\ UNCHANGED <<boot, handlers, imr>>
      /\ f.vector \in 32 .. 47 => f.vector \in handlers \/ Unexpected(f.vector)
  BY <1>1 DEF LinesInv, Top, Handler, interrupts_generic_handler,
    arch_irq_generic_handler, iret, Handling
<1>3. /\ stack' = <<>> \/ \E g \in FrameType : g.vector = f.vector /\ stack' = <<g>>
  BY <1>1, <1>2 DEF Handler, interrupts_generic_handler,
    arch_irq_generic_handler, iret, At, FrameType
<1>4. \A g \in FrameType : stack' = <<g>> => g.vector = f.vector
  BY <1>3
<1>5. LinesExpected'
  BY <1>2, SMTT(30), ZenonT(30) DEF LinesExpected, Unexpected, Running, Handler,
    interrupts_generic_handler, arch_irq_generic_handler, iret
<1> QED BY <1>2, <1>4, <1>5 DEF LinesInv, Unexpected

\* Every step keeps the invariant.
LEMMA NextLines == DispatchInv /\ LinesInv /\ [IrqNext]_irqVars => LinesInv'
<1> SUFFICES ASSUME DispatchInv, LinesInv, [IrqNext]_irqVars PROVE LinesInv'
  OBVIOUS
<1>1. CASE Handler
  BY <1>1, HandlerLines
<1>2. CASE IntSyscall
  <2>1. PICK f : f.vector = Syscall /\ stack' = <<f>>
    BY <1>2 DEF IntSyscall, Kernel, Enter, StackFrame
  <2>2. \A g \in FrameType : stack' = <<g>> => g.vector \notin 32 .. 47
    BY <2>1 DEF Syscall
  <2>3. /\ boot = "run" /\ UNCHANGED <<boot, handlers, imr, halted>>
    BY <1>2 DEF IntSyscall
  <2> QED BY <2>2, <2>3 DEF LinesInv, LinesExpected
<1>3. ASSUME NEW l \in Lines, Raise(l) PROVE LinesInv'
  BY <1>3 DEF Raise, LinesInv, LinesExpected, Unexpected
<1>4. ASSUME NEW e \in Exceptions, Exception(e) PROVE LinesInv'
  BY <1>4, LinesAssumption DEF Exception, LinesInv, LinesExpected, Unexpected
<1>5. CASE UNCHANGED irqVars
  BY <1>5 DEF irqVars, LinesInv, LinesExpected, Unexpected
<1> QED
  BY <1>1, <1>2, <1>3, <1>4, <1>5, SetupLines, AcceptLines, LinesAssumption
     DEF IrqNext

(***************************************************************************)
(* For every set of lines, withdrawn requests and drivers, no hardware     *)
(* interrupt but a withdrawn one, or line 15 once the cascade is open,     *)
(* makes interrupts_generic_handler halt the system.                       *)
(***************************************************************************)
THEOREM LinesSafe == IrqSpec => []LinesExpected
<1>1. LinesInv => LinesExpected
  BY DEF LinesInv
<1> QED
  BY InitDispatch, NextDispatch, InitLines, NextLines, <1>1, PTL DEF IrqSpec

-----------------------------------------------------------------------------
LEMMA Rows ==
  /\ DOMAIN Table = 1 .. Len(Table) /\ Len(Table) \in Nat
  /\ \A k \in DOMAIN Table : Table[k] \in Seq(Nat) /\ Table[k] # <<>>
  /\ Plain \subseteq DOMAIN Table /\ Printable \subseteq DOMAIN Table
  /\ ReleaseBit \in Nat \ {0}
<1>1. /\ Table \in Seq(Seq(Nat)) /\ ReleaseBit \in Nat \ {0} /\ Printable \subseteq DOMAIN Table
      /\ \A k \in DOMAIN Table : Table[k] \in Seq(1 .. 2 * ReleaseBit - 1) \ {<<>>}
  BY TableAssumption, PlainCodesAssumption
<1> DEFINE Row == Seq(Nat)
<1>2. Table \in Seq(Row)
  BY <1>1
<1> HIDE DEF Row
<1>3. DOMAIN Table = 1 .. Len(Table) /\ Len(Table) \in Nat /\ \A k \in DOMAIN Table : Table[k] \in Row
  BY <1>2
<1>4. \A k \in DOMAIN Table : Table[k] # <<>>
  BY <1>1
<1> QED BY <1>1, <1>3, <1>4 DEF Row, Plain

\* The codes of a one-byte key.
LEMMA PlainCode ==
  ASSUME NEW k \in Plain
  PROVE  /\ Table[k][1] \in Nat /\ Table[k][1] < ReleaseBit
         /\ WithRelease(Table[k][1]) = Table[k][1] + ReleaseBit
         /\ WithRelease(Table[k][1]) # Table[k][1]
<1>1. Table[k] \in Seq(Nat) /\ Len(Table[k]) = 1 /\ ReleaseBit \in Nat \ {0}
  BY Rows DEF Plain
<1>2. Table[k][1] \in Nat
  BY <1>1
<1>3. Table[k][1] < ReleaseBit
  BY PlainCodesAssumption
<1> QED BY <1>1, <1>2, <1>3 DEF WithRelease

\* A byte of a one-byte key matches the key's row and no other.
LEMMA OneRow ==
  ASSUME NEW k \in Plain, NEW b \in {Table[k][1], WithRelease(Table[k][1])}
  PROVE  /\ \A n \in DOMAIN Table : Matches(Table[n][1], b) <=> n = k
         /\ KeyOf(b) = k
<1>1. Matches(Table[k][1], b)
  BY DEF Matches
<1>2. ASSUME NEW n \in DOMAIN Table, n # k PROVE ~Matches(Table[n][1], b)
  BY <1>2, PlainCodesAssumption DEF Matches
<1>3. \A n \in Plain : Matches(Table[n][1], b) <=> n = k
  BY <1>1, <1>2, Rows
<1>4. KeyOf(b) = k
  BY <1>3, Zenon DEF KeyOf
<1> QED BY <1>1, <1>2, <1>4

\* The bytes that print a key are those of its press.
LEMMA PrintsPress ==
  ASSUME NEW k \in Plain
  PROVE  /\ Prints(Table[k][1]) <=> k \in Printable
         /\ ~Prints(WithRelease(Table[k][1]))
<1>1. KeyOf(Table[k][1]) = k /\ KeyOf(WithRelease(Table[k][1])) = k
  BY OneRow
<1>2. WithRelease(Table[k][1]) # Table[k][1]
  BY PlainCode
<1> QED BY <1>1, <1>2 DEF Prints

LEMMA PlainByte ==
  ASSUME NEW b \in PlainBytes
  PROVE  /\ KeyOf(b) \in Plain /\ KeyOf(b) \in DOMAIN Table /\ KeyOf(b) \in Nat \ {0}
         /\ b \in {Table[KeyOf(b)][1], WithRelease(Table[KeyOf(b)][1])}
         /\ \A n \in DOMAIN Table : Matches(Table[n][1], b) <=> n = KeyOf(b)
         /\ Prints(b) => KeyOf(b) \in Printable
<1>1. PICK k \in Plain : b \in {Table[k][1], WithRelease(Table[k][1])}
  BY DEF PlainBytes
<1>2. KeyOf(b) = k /\ \A n \in DOMAIN Table : Matches(Table[n][1], b) <=> n = k
  BY <1>1, OneRow
<1>3. k \in DOMAIN Table /\ k \in Nat \ {0}
  BY Rows
<1> QED BY <1>1, <1>2, <1>3 DEF Prints

LEMMA CountIs == ASSUME NEW b PROVE Count(b) \in {0, 1} /\ (Prints(b) <=> Count(b) = 1)
BY DEF Count

-----------------------------------------------------------------------------
\* The keys that are still to be printed stay in line when another is pressed.
LEMMA TakesKept ==
  ASSUME NEW b, NEW m \in Nat, NEW n \in 0 .. Len(pressed), Takes(b, m, n),
         pressed \in Seq(Printable), pressed' \in Seq(Printable), Len(pressed') >= Len(pressed),
         \A x \in 1 .. Len(pressed) : pressed'[x] = pressed[x]
  PROVE  Takes(b, m, n)'
<1>1. n = m + Count(b) /\ (Prints(b) => pressed[n] = KeyOf(b))
  BY DEF Takes
<1>2. Prints(b) => n \in 1 .. Len(pressed)
  BY <1>1, CountIs
<1>3. Prints(b) => pressed'[n] = KeyOf(b)
  BY <1>1, <1>2, SMTT(30), ZenonT(30)
<1>4. Takes(b, m, n)' <=> n = m + Count(b) /\ (Prints(b) => pressed'[n] = KeyOf(b))
  BY ZenonT(30), SMTT(30) DEF Takes, Count, Prints, KeyOf, Matches, WithRelease, Plain
<1> QED BY <1>1, <1>3, <1>4

\* A byte joins the wire: of a key pressed, or of one released.
LEMMA SentInv ==
  ASSUME KeyboardInv, PlainInv, NEW k \in Plain, NEW b \in {Table[k][1], WithRelease(Table[k][1])},
         wire' = Append(wire, b),
         pressed' = IF Prints(b) THEN Append(pressed, k) ELSE pressed,
         UNCHANGED <<full, data, request, matcher, echoed>>
  PROVE  PlainInv'
<1>1. pressed \in Seq(Printable) /\ pressed' \in Seq(Printable) /\ KeyOf(b) = k
  BY OneRow DEF KeyboardInv, Prints
<1>2. /\ Len(pressed) \in Nat /\ Len(pressed') = Len(pressed) + Count(b)
      /\ \A x \in 1 .. Len(pressed) : pressed'[x] = pressed[x]
      /\ Prints(b) => pressed'[Len(pressed) + 1] = k
  BY <1>1 DEF Count
<1>3. Len(pressed') \in Nat /\ Len(pressed') >= Len(pressed)
  BY <1>2, CountIs, SMTT(30), ZenonT(30)
<1>4. /\ wire \in Seq(PlainBytes) /\ b \in PlainBytes /\ wire' \in Seq(PlainBytes)
      /\ Len(wire) \in Nat /\ Len(wire') = Len(wire) + 1 /\ wire'[Len(wire) + 1] = b
      /\ \A n \in 1 .. Len(wire) : wire'[n] = wire[n]
  BY SMTT(30), ZenonT(30) DEF PlainInv, PlainBytes
<1>5. /\ full' = full /\ data' = data /\ request' = request /\ pc' = pc /\ codeArr' = codeArr
      /\ i' = i /\ j' = j /\ release' = release /\ echoed' = echoed
  BY DEF matcher
<1>6. PICK matched, read \in 0 .. Len(pressed), rank \in [0 .. Len(wire) -> 0 .. Len(pressed)] :
        Ranked(matched, read, rank)
  BY SMTT(30), ZenonT(30) DEF PlainInv
<1>7. /\ matched \in 0 .. Len(pressed') /\ read \in 0 .. Len(pressed')
      /\ \A n \in 0 .. Len(wire) : rank[n] \in 0 .. Len(pressed) /\ rank[n] \in 0 .. Len(pressed')
  BY <1>2, <1>3, <1>4, SMTT(30), ZenonT(30)
<1>7a. PICK rank2 \in [0 .. Len(wire') -> 0 .. Len(pressed')] :
         /\ \A n \in 0 .. Len(wire) : rank2[n] = rank[n]
         /\ rank2[Len(wire) + 1] = Len(pressed')
  <2> DEFINE r == [n \in 0 .. Len(wire') |-> IF n \in 0 .. Len(wire) THEN rank[n] ELSE Len(pressed')]
  <2>1. r \in [0 .. Len(wire') -> 0 .. Len(pressed')]
    BY <1>3, <1>7
  <2>2. \A n \in 0 .. Len(wire) : r[n] = rank[n]
    BY <1>4
  <2>3. r[Len(wire) + 1] = Len(pressed')
    BY <1>4
  <2> HIDE DEF r
  <2> QED BY <2>1, <2>2, <2>3, SMTT(30), ZenonT(30)
<1>8. ASSUME NEW c, NEW m \in Nat, NEW n \in 0 .. Len(pressed), Takes(c, m, n)
      PROVE  Takes(c, m, n)'
  BY <1>1, <1>2, <1>3, <1>8, TakesKept
<1>9. Len(echoed) \in Nat
  BY SMTT(30), ZenonT(30) DEF KeyboardInv
<1>10. IF pc' = "match" THEN Takes(codeArr[1], Len(echoed), matched)' ELSE matched = Len(echoed')
  BY <1>5, <1>6, <1>8, <1>9 DEF Ranked
<1>11. IF full' THEN Takes(data, matched, read)' ELSE read = matched
  BY <1>5, <1>6, <1>8 DEF Ranked
<1>12. rank2[0] = read /\ rank[Len(wire)] = Len(pressed) /\ rank2[Len(wire')] = Len(pressed')
  BY <1>4, <1>6, <1>7a DEF Ranked
<1>13. ASSUME NEW n \in 1 .. Len(wire') PROVE Takes(wire[n], rank2[n - 1], rank2[n])'
  <2>1. CASE n \in 1 .. Len(wire)
    <3>1. Takes(wire[n], rank[n - 1], rank[n])
      BY <1>6, <2>1 DEF Ranked
    <3>2. n - 1 \in 0 .. Len(wire) /\ n \in 0 .. Len(wire)
      BY <1>4, <2>1
    <3>3. rank[n - 1] \in Nat /\ rank[n] \in 0 .. Len(pressed)
      BY <1>7, <3>2
    <3>4. Takes(wire[n], rank[n - 1], rank[n])'
      BY <1>4, <2>1, <3>1, <3>3, <1>8
    <3>5. rank2[n - 1] = rank[n - 1] /\ rank2[n] = rank[n]
      BY <1>7a, <3>2, ZenonT(30), SMTT(30)
    <3> QED BY <3>4, <3>5, SMTT(30), ZenonT(30)
  <2>2. CASE n = Len(wire) + 1
    <3>1. wire'[n] = b /\ n - 1 = Len(wire) /\ rank2[n - 1] = Len(pressed) /\ rank2[n] = Len(pressed')
      BY <1>4, <1>12, <1>7a, <2>2
    <3>2. Len(pressed') = Len(pressed) + Count(b) /\ (Prints(b) => pressed'[Len(pressed')] = KeyOf(b))
      BY <1>1, <1>2, CountIs, SMTT(30), ZenonT(30)
    <3>3. Takes(wire[n], rank2[n - 1], rank2[n])' <=>
            /\ rank2[n] = rank2[n - 1] + Count(wire'[n])
            /\ Prints(wire'[n]) => pressed'[rank2[n]] = KeyOf(wire'[n])
      BY DEF Takes, Count, Prints, KeyOf, Matches, WithRelease, Plain
    <3> QED BY <3>1, <3>2, <3>3, SMTT(30), ZenonT(30)
  <2> QED BY <1>4, <2>1, <2>2, SMTT(30), ZenonT(30)
<1>14. Ranked(matched, read, rank2)'
  BY <1>10, <1>11, <1>12, <1>13 DEF Ranked
<1>15. Resolving'
  BY <1>5 DEF PlainInv, Resolving, PlainBytes, KeyOf
<1>16. /\ pc' \in {"idle", "read", "match"} /\ (full' <=> request' \/ pc' = "read")
       /\ ~(request' /\ pc' = "read")
       /\ full' => data' \in PlainBytes'
  <2>1. /\ pc \in {"idle", "read", "match"} /\ (full <=> request \/ pc = "read")
        /\ ~(request /\ pc = "read") /\ (full => data \in PlainBytes)
    BY DEF PlainInv
  <2>2. PlainBytes' = PlainBytes
    BY DEF PlainBytes, Plain, WithRelease
  <2> QED BY <1>5, <2>1, <2>2, ZenonT(30), SMTT(30)
<1> QED BY <1>4, <1>7, <1>7a, <1>14, <1>15, <1>16 DEF PlainInv, PlainBytes, WithRelease, Plain

LEMMA PressInv ==
  ASSUME KeyboardInv, NEW k \in Keys, Press(k)
  PROVE  KeyboardInv'
<1>1. /\ k \in DOMAIN Table /\ Table[k] \in Seq(Nat)
      /\ pressed \in Seq(Printable) /\ echoed \in Seq(Printable) /\ i \in Nat \ {0}
  BY Rows, TableAssumption DEF KeyboardInv
<1>2. /\ pressed' = IF k \in Printable THEN Append(pressed, k) ELSE pressed
      /\ pressed' \in Seq(Printable) /\ echoed' = echoed /\ i' = i
      /\ plain' = (plain /\ Len(Table[k]) = 1)
  BY <1>1 DEF Press, Send, matcher
<1>3. plain' => PlainInv' /\ plain
  <2> SUFFICES ASSUME plain' PROVE PlainInv'
    BY <1>2
  <2>1. k \in Plain /\ PlainInv
    BY <1>1, <1>2 DEF Plain, KeyboardInv
  <2>2. wire' = Append(wire, Table[k][1])
    <3>1. wire \in Seq(PlainBytes) /\ Table[k] = <<Table[k][1]>> /\ wire' = wire \o Table[k]
      <4>1. wire \in Seq(PlainBytes)
        BY <2>1, ZenonT(30), SMTT(30) DEF PlainInv
      <4>2. Table[k] = <<Table[k][1]>>
        BY <1>1, <2>1, SMTT(30), ZenonT(30) DEF Plain
      <4>3. wire' = wire \o Table[k]
        BY ZenonT(30), SMTT(30) DEF Press
      <4> QED BY <4>1, <4>2, <4>3, ZenonT(30), SMTT(30)
    <3> QED BY <3>1, SMTT(30), ZenonT(30)
  <2>3. pressed' = IF Prints(Table[k][1]) THEN Append(pressed, k) ELSE pressed
    BY <1>2, <2>1, PrintsPress
  <2> QED BY <2>1, <2>2, <2>3, SentInv DEF Press
<1>4. EchoInOrder'
  <2>1. /\ Len(pressed) \in Nat /\ Len(echoed) \in Nat /\ Len(pressed') >= Len(pressed)
        /\ \A n \in 1 .. Len(pressed) : pressed'[n] = pressed[n]
    BY <1>1, <1>2
  <2> QED BY <1>2, <1>3, <2>1 DEF KeyboardInv, EchoInOrder
<1> QED BY <1>1, <1>2, <1>3, <1>4 DEF KeyboardInv

LEMMA ReleaseInv ==
  ASSUME KeyboardInv, NEW k \in Keys, Release(k)
  PROVE  KeyboardInv'
<1>1. k \in DOMAIN Table /\ Table[k] \in Seq(Nat)
  BY Rows, TableAssumption
<1>2. pressed' = pressed /\ echoed' = echoed /\ i' = i /\ plain' = (plain /\ Len(Table[k]) = 1)
  BY SMTT(30), ZenonT(30) DEF Release, Send, matcher
<1>3. plain' => PlainInv' /\ plain
  <2> SUFFICES ASSUME plain' PROVE PlainInv'
    BY <1>2
  <2>1. k \in Plain /\ PlainInv
    BY <1>1, <1>2, ZenonT(30), SMTT(30) DEF Plain, KeyboardInv
  <2> DEFINE up == [n \in DOMAIN Table[k] |-> WithRelease(Table[k][n])]
  <2>2. wire' = Append(wire, WithRelease(Table[k][1]))
    <3>1. wire \in Seq(PlainBytes) /\ DOMAIN Table[k] = {1} /\ wire' = wire \o up
      <4>1. wire \in Seq(PlainBytes)
        BY <2>1 DEF PlainInv
      <4>2. DOMAIN Table[k] = {1}
        BY <1>1, <2>1 DEF Plain
      <4>3. wire' = wire \o up
        BY DEF Release
      <4> QED BY <4>1, <4>2, <4>3
    <3>2. up = <<WithRelease(Table[k][1])>>
      BY <3>1
    <3> HIDE DEF up
    <3>3. wire' = wire \o <<WithRelease(Table[k][1])>>
      BY <3>1, <3>2
    <3> QED BY <3>1, <3>3
  <2>3. pressed' = IF Prints(WithRelease(Table[k][1])) THEN Append(pressed, k) ELSE pressed
    BY <1>2, <2>1, PrintsPress
  <2> QED BY <2>1, <2>2, <2>3, SentInv DEF Release
<1> QED BY <1>2, <1>3 DEF KeyboardInv, EchoInOrder

\* A byte moves from the wire into the controller, its place in line kept.
LEMMA DeliverInv ==
  ASSUME KeyboardInv, Deliver
  PROVE  KeyboardInv'
<1>1. /\ pressed' = pressed /\ echoed' = echoed /\ i' = i /\ plain' = plain /\ pc' = pc
      /\ codeArr' = codeArr /\ j' = j /\ release' = release /\ ~full /\ full' /\ request'
      /\ data' = Head(wire) /\ wire' = Tail(wire) /\ wire # <<>>
  BY SMTT(30), ZenonT(30) DEF Deliver, matcher, typed
<1>2. ASSUME plain PROVE PlainInv'
  <2>1. PlainInv
    BY <1>2 DEF KeyboardInv
  <2>2. /\ wire \in Seq(PlainBytes) /\ wire' \in Seq(PlainBytes) /\ data' \in PlainBytes
        /\ data' = wire[1] /\ Len(wire) \in Nat /\ Len(wire') = Len(wire) - 1 /\ Len(wire) > 0
        /\ Len(wire') \in Nat
        /\ \A n \in 1 .. Len(wire) - 1 : wire'[n] = wire[n + 1]
    BY <1>1, <2>1 DEF PlainInv
  <2>3. PICK matched, read \in 0 .. Len(pressed), rank \in [0 .. Len(wire) -> 0 .. Len(pressed)] :
          Ranked(matched, read, rank)
    BY <2>1 DEF PlainInv
  <2>4. PICK rank2 \in [0 .. Len(wire') -> 0 .. Len(pressed')] :
          \A n \in 0 .. Len(wire') : rank2[n] = rank[n + 1]
    <3> DEFINE r == [n \in 0 .. Len(wire') |-> rank[n + 1]]
    <3>1. r \in [0 .. Len(wire') -> 0 .. Len(pressed')]
      BY <1>1, <2>2
    <3> QED BY <3>1
  <2>5. /\ read = matched /\ Takes(wire[1], rank[0], rank[1]) /\ rank[0] = read
        /\ rank[Len(wire)] = Len(pressed)
    BY <1>1, <2>2, <2>3 DEF Ranked
  <2>6. rank2[0] = rank[1] /\ rank2[Len(wire')] = Len(pressed') /\ rank2[0] \in 0 .. Len(pressed')
    BY <1>1, <2>2, <2>4, <2>5, SMTT(30), ZenonT(30)
  <2>7. ASSUME NEW b, NEW m, NEW n PROVE Takes(b, m, n)' <=> Takes(b, m, n)
    BY <1>1 DEF Takes, Count, Prints, KeyOf, Matches, WithRelease, Plain
  <2>8. ASSUME NEW n \in 1 .. Len(wire') PROVE Takes(wire[n], rank2[n - 1], rank2[n])'
    <3>1. n + 1 \in 1 .. Len(wire) /\ (n - 1) + 1 = n /\ (n + 1) - 1 = n /\ wire'[n] = wire[n + 1]
      BY <2>2, SMTT(30), ZenonT(30)
    <3>2. Takes(wire[n + 1], rank[(n + 1) - 1], rank[n + 1])
      BY <2>3, <3>1 DEF Ranked
    <3>3. rank2[n] = rank[n + 1] /\ rank2[n - 1] = rank[n]
      <4>1. n \in 0 .. Len(wire') /\ n - 1 \in 0 .. Len(wire')
        <5>1. Len(wire') \in Nat
          BY <2>2, ZenonT(30), SMTT(30)
        <5> QED BY <5>1, SMTT(30), ZenonT(30)
      <4>2. rank2[n - 1] = rank[(n - 1) + 1]
        BY <2>4, <4>1, SMTT(30), ZenonT(30)
      <4> QED BY <2>4, <3>1, <4>1, <4>2, SMTT(30), ZenonT(30)
    <3> QED BY <3>1, <3>2, <3>3, <2>7
  <2>9. Ranked(matched, rank2[0], rank2)'
    <3>1. IF pc' = "match" THEN Takes(codeArr[1], Len(echoed), matched)' ELSE matched = Len(echoed')
      BY <1>1, <2>3, <2>7, SMTT(30), ZenonT(30) DEF Ranked
    <3>2. Takes(data, matched, rank2[0])'
      BY <2>2, <2>5, <2>6, <2>7, SMTT(30), ZenonT(30)
    <3> QED BY <1>1, <2>6, <2>8, <3>1, <3>2, SMTT(30), ZenonT(30) DEF Ranked
  <2>10. Resolving'
    BY <1>1, <2>1 DEF PlainInv, Resolving, PlainBytes, KeyOf
  <2>11. /\ pc' \in {"idle", "read", "match"} /\ (full' <=> request' \/ pc' = "read")
         /\ ~(request' /\ pc' = "read")
    BY <1>1, <2>1 DEF PlainInv
  <2>12. matched \in 0 .. Len(pressed')
    BY <1>1
  <2> QED BY <1>1, <2>2, <2>4, <2>6, <2>9, <2>10, <2>11, <2>12
       DEF PlainInv, PlainBytes, WithRelease, Plain
<1> QED BY <1>1, <1>2 DEF KeyboardInv, EchoInOrder

-----------------------------------------------------------------------------
LEMMA AcceptInv ==
  ASSUME KeyboardInv, AcceptKey
  PROVE  KeyboardInv'
<1>1. /\ pressed' = pressed /\ echoed' = echoed /\ i' = i /\ plain' = plain /\ data' = data
      /\ wire' = wire /\ full' = full /\ codeArr' = codeArr /\ pc = "idle" /\ pc' = "read"
      /\ request /\ ~request'
  BY SMTT(30), ZenonT(30) DEF AcceptKey, typed
<1>2. ASSUME plain PROVE PlainInv'
  <2>1. PlainInv
    BY <1>2 DEF KeyboardInv
  <2>2. PICK matched, read \in 0 .. Len(pressed), rank \in [0 .. Len(wire) -> 0 .. Len(pressed)] :
          Ranked(matched, read, rank)
    BY <2>1 DEF PlainInv
  <2>3. Ranked(matched, read, rank)'
    <3>1. ASSUME NEW b, NEW m, NEW n PROVE Takes(b, m, n)' <=> Takes(b, m, n)
      BY <1>1 DEF Takes, Count, Prints, KeyOf, Matches, WithRelease, Plain
    <3> QED BY <1>1, <2>2, <3>1 DEF Ranked
  <2>4. /\ Resolving' /\ (full' <=> request' \/ pc' = "read")
        /\ ~(request' /\ pc' = "read")
    BY <1>1, <2>1 DEF PlainInv, Resolving
  <2> QED BY <1>1, <2>1, <2>3, <2>4, SMTT(30), ZenonT(30) DEF PlainInv, PlainBytes, WithRelease, Plain
<1> QED BY <1>1, <1>2 DEF KeyboardInv, EchoInOrder

\* The byte read is the one the interrupt was for.
LEMMA FirstReadInv ==
  ASSUME KeyboardInv, FirstRead
  PROVE  KeyboardInv'
<1>1. /\ pressed' = pressed /\ echoed' = echoed /\ plain' = plain /\ data' = data
      /\ wire' = wire /\ ~full' /\ codeArr' = <<data>> /\ pc = "read" /\ pc' = "match"
      /\ request' = request /\ i' = 1 /\ j' = 1 /\ ~release'
  BY SMTT(30), ZenonT(30) DEF FirstRead, inb, typed
<1>2. ASSUME plain PROVE PlainInv'
  <2>1. PlainInv /\ full
    BY <1>1, <1>2 DEF KeyboardInv, PlainInv
  <2>2. PICK matched, read \in 0 .. Len(pressed), rank \in [0 .. Len(wire) -> 0 .. Len(pressed)] :
          Ranked(matched, read, rank)
    BY <2>1 DEF PlainInv
  <2>3. ASSUME NEW b, NEW m, NEW n PROVE Takes(b, m, n)' <=> Takes(b, m, n)
    BY <1>1 DEF Takes, Count, Prints, KeyOf, Matches, WithRelease, Plain
  <2>4. matched = Len(echoed) /\ Takes(data, matched, read) /\ codeArr'[1] = data
    BY <1>1, <2>1, <2>2 DEF Ranked
  <2>5. Ranked(read, read, rank)'
    BY <1>1, <2>2, <2>3, <2>4, SMTT(30), ZenonT(30) DEF Ranked
  <2>6. Resolving'
    <3>1. data \in PlainBytes /\ KeyOf(data) \in Nat \ {0}
      BY <2>1, PlainByte DEF PlainInv
    <3>2. Len(codeArr') = 1 /\ codeArr'[1] \in PlainBytes /\ i' <= KeyOf(codeArr'[1])
      BY <1>1, <2>4, <3>1
    <3> QED BY <1>1, <3>2, SMTT(30), ZenonT(30) DEF Resolving, PlainBytes, KeyOf, Matches, WithRelease, Plain
  <2>7. (full' <=> request' \/ pc' = "read") /\ ~(request' /\ pc' = "read")
    BY <1>1, <2>1, SMTT(30), ZenonT(30) DEF PlainInv
  <2> QED BY <1>1, <2>1, <2>5, <2>6, <2>7 DEF PlainInv, PlainBytes, WithRelease, Plain
<1> QED BY <1>1, <1>2 DEF KeyboardInv, EchoInOrder

-----------------------------------------------------------------------------
(***************************************************************************)
(* The matcher at work on a byte of a one-byte key: the only row that      *)
(* matches is the key's own, and it ends there.                            *)
(***************************************************************************)
LEMMA AtRow ==
  ASSUME KeyboardInv, plain, pc = "match"
  PROVE  /\ PlainInv /\ codeArr[1] \in PlainBytes /\ j = 1 /\ ~release
         /\ KeyOf(codeArr[1]) \in Plain /\ i \in DOMAIN Table /\ i \in Nat \ {0}
         /\ i <= KeyOf(codeArr[1]) /\ KeyOf(codeArr[1]) \in Nat
         /\ Matches(Table[i][1], codeArr[1]) <=> i = KeyOf(codeArr[1])
<1>1. /\ PlainInv /\ codeArr[1] \in PlainBytes /\ j = 1 /\ ~release
      /\ i <= KeyOf(codeArr[1]) /\ i \in Nat \ {0}
  BY SMTT(30), ZenonT(30) DEF KeyboardInv, PlainInv, Resolving
<1>2. /\ KeyOf(codeArr[1]) \in Plain /\ KeyOf(codeArr[1]) \in DOMAIN Table
      /\ KeyOf(codeArr[1]) \in Nat \ {0}
      /\ \A n \in DOMAIN Table : Matches(Table[n][1], codeArr[1]) <=> n = KeyOf(codeArr[1])
  BY <1>1, PlainByte, SMTT(30), ZenonT(30)
<1>3. i \in DOMAIN Table
  BY <1>1, <1>2, Rows, SMTT(30), ZenonT(30)
<1> QED BY <1>1, <1>2, <1>3

LEMMA NextRowInv ==
  ASSUME KeyboardInv, NextRow
  PROVE  KeyboardInv'
<1>1. /\ pressed' = pressed /\ echoed' = echoed /\ plain' = plain /\ data' = data
      /\ wire' = wire /\ full' = full /\ request' = request /\ codeArr' = codeArr
      /\ pc = "match" /\ pc' = pc /\ i' = i + 1 /\ j' = 1 /\ ~release'
      /\ ~Matches(Table[i][j], codeArr[j])
  BY SMTT(30), ZenonT(30) DEF NextRow, InRow, typed, controller
<1>2. ASSUME plain PROVE PlainInv'
  <2>1. /\ PlainInv /\ i \in Nat /\ i' <= KeyOf(codeArr[1])
    BY <1>1, <1>2, AtRow
  <2>2. PICK matched, read \in 0 .. Len(pressed), rank \in [0 .. Len(wire) -> 0 .. Len(pressed)] :
          Ranked(matched, read, rank)
    BY <2>1, SMTT(30), ZenonT(30) DEF PlainInv
  <2>3. ASSUME NEW b, NEW m, NEW n PROVE Takes(b, m, n)' <=> Takes(b, m, n)
    BY <1>1, SMTT(30), ZenonT(30) DEF Takes, Count, Prints, KeyOf, Matches, WithRelease, Plain
  <2>4. Ranked(matched, read, rank)'
    BY <1>1, <2>2, <2>3, SMTT(30), ZenonT(30) DEF Ranked
  <2>5. Resolving'
    BY <1>1, <2>1 DEF PlainInv, Resolving, PlainBytes, KeyOf
  <2>6. /\ (full' <=> request' \/ pc' = "read") /\ ~(request' /\ pc' = "read")
        /\ pc' \in {"idle", "read", "match"}
    BY <1>1, <2>1 DEF PlainInv
  <2> QED BY <1>1, <2>1, <2>4, <2>5, <2>6, SMTT(30), ZenonT(30) DEF PlainInv, PlainBytes, WithRelease, Plain
<1>3. i' \in Nat \ {0}
  BY <1>1 DEF KeyboardInv
<1> QED BY <1>1, <1>2, <1>3 DEF KeyboardInv, EchoInOrder

LEMMA NextByteInv ==
  ASSUME KeyboardInv, NextByte
  PROVE  KeyboardInv'
<1>1. /\ pressed' = pressed /\ echoed' = echoed /\ plain' = plain /\ i' = i
      /\ pc = "match" /\ Matches(Table[i][j], codeArr[j]) /\ j < Len(Table[i])
  BY DEF NextByte, InRow, typed
<1>2. ~plain
  <2> SUFFICES ASSUME plain PROVE FALSE
    OBVIOUS
  <2>1. j = 1 /\ i \in Plain
    BY <1>1, AtRow
  <2>2. Len(Table[i]) = 1
    BY <2>1 DEF Plain
  <2>3. 1 < 1
    BY <1>1, <2>1, <2>2
  <2> QED BY <2>3
<1> QED BY <1>1, <1>2 DEF KeyboardInv, EchoInOrder

LEMMA UnresolvedInv ==
  ASSUME KeyboardInv, Unresolved
  PROVE  KeyboardInv'
<1>1. /\ pressed' = pressed /\ echoed' = echoed /\ plain' = plain /\ i' = i
      /\ pc = "match" /\ i \notin DOMAIN Table
  BY DEF Unresolved, typed
<1>2. ~plain
  BY <1>1, AtRow
<1> QED BY <1>1, <1>2 DEF KeyboardInv, EchoInOrder

\* The key printed is the next of those pressed.
LEMMA ResolvedInv ==
  ASSUME KeyboardInv, Resolved
  PROVE  KeyboardInv'
<1> DEFINE c == codeArr[1]
<1>1. /\ pressed' = pressed /\ plain' = plain /\ data' = data /\ i' = i
      /\ wire' = wire /\ full' = full /\ request' = request
      /\ pc = "match" /\ pc' = "idle" /\ echoed' = Echo(i, IsRelease)
      /\ Matches(Table[i][j], codeArr[j])
  BY DEF Resolved, InRow, typed, controller
<1>2. echoed \in Seq(Printable) /\ echoed' \in Seq(Printable) /\ Len(echoed) \in Nat
  BY <1>1, SMTT(30), ZenonT(30) DEF KeyboardInv, Echo
<1>3. ASSUME plain PROVE PlainInv' /\ EchoInOrder'
  <2>1. PlainInv /\ c \in PlainBytes /\ j = 1 /\ ~release /\ i = KeyOf(c) /\ i \in Plain
    BY <1>1, <1>3, AtRow
  <2>2. Prints(c) <=> i \in Printable /\ ~IsRelease
    <3>1. c \in {Table[i][1], WithRelease(Table[i][1])} /\ Table[i][1] # WithRelease(Table[i][1])
      BY <2>1, PlainByte, PlainCode, SMTT(30), ZenonT(30)
    <3>2. IsRelease <=> c = WithRelease(Table[i][1])
      BY <2>1, SMTT(30), ZenonT(30) DEF IsRelease
    <3> QED BY <2>1, <3>1, <3>2, SMTT(30), ZenonT(30) DEF Prints
  <2>3. echoed' = IF Prints(c) THEN Append(echoed, i) ELSE echoed
    BY <1>1, <2>2 DEF Echo
  <2>4. PICK matched, read \in 0 .. Len(pressed), rank \in [0 .. Len(wire) -> 0 .. Len(pressed)] :
          Ranked(matched, read, rank)
    BY <2>1, SMTT(30), ZenonT(30) DEF PlainInv
  <2>5. matched = Len(echoed) + Count(c) /\ (Prints(c) => pressed[matched] = i)
    BY <1>1, <2>1, <2>4 DEF Ranked, Takes
  <2>6. /\ Len(echoed') = matched
        /\ \A n \in 1 .. Len(echoed) : echoed'[n] = echoed[n]
        /\ Prints(c) => matched = Len(echoed) + 1 /\ echoed'[matched] = i
        /\ ~Prints(c) => matched = Len(echoed)
    <3>1. CASE Prints(c)
      BY <1>2, <2>3, <2>5, <3>1, SMTT(30), ZenonT(30) DEF Count
    <3>2. CASE ~Prints(c)
      BY <1>2, <2>3, <2>5, <3>2, SMTT(30), ZenonT(30) DEF Count
    <3> QED BY <3>1, <3>2, SMTT(30), ZenonT(30)
  <2>7. ASSUME NEW b, NEW m, NEW n PROVE Takes(b, m, n)' <=> Takes(b, m, n)
    BY <1>1, SMTT(30), ZenonT(30) DEF Takes, Count, Prints, KeyOf, Matches, WithRelease, Plain
  <2>8. Ranked(matched, read, rank)'
    BY <1>1, <2>4, <2>6, <2>7, SMTT(30), ZenonT(30) DEF Ranked
  <2>9. Resolving' /\ (full' <=> request' \/ pc' = "read") /\ ~(request' /\ pc' = "read")
    BY <1>1, <2>1, SMTT(30), ZenonT(30) DEF PlainInv, Resolving
  <2>10. PlainInv'
    BY <1>1, <2>1, <2>8, <2>9 DEF PlainInv, PlainBytes, WithRelease, Plain
  <2>11. ASSUME NEW n \in 1 .. matched PROVE echoed'[n] = pressed[n]
    <3>1. CASE n \in 1 .. Len(echoed)
      BY <1>3, <2>6, <3>1 DEF KeyboardInv, EchoInOrder
    <3>2. CASE n \notin 1 .. Len(echoed)
      BY <1>2, <2>5, <2>6, <3>2
    <3> QED BY <3>1, <3>2
  <2>12. matched <= Len(pressed)
    OBVIOUS
  <2> QED BY <1>1, <2>6, <2>10, <2>11, <2>12, SMTT(30), ZenonT(30) DEF EchoInOrder
<1> QED BY <1>1, <1>2, <1>3, SMTT(30), ZenonT(30) DEF KeyboardInv, EchoInOrder

-----------------------------------------------------------------------------
LEMMA InitKeyboard == KeyboardInit => KeyboardInv
<1> SUFFICES ASSUME KeyboardInit PROVE KeyboardInv
  OBVIOUS
<1>1. /\ wire = <<>> /\ pressed = <<>> /\ echoed = <<>> /\ pc = "idle" /\ ~full /\ ~request
      /\ i = 1 /\ plain = TRUE
  BY DEF KeyboardInit
<1>2. Len(wire) = 0 /\ Len(pressed) = 0 /\ Len(echoed) = 0
  BY <1>1
<1>3. /\ pressed \in Seq(Printable) /\ echoed \in Seq(Printable) /\ wire \in Seq(PlainBytes)
  BY <1>1
<1> DEFINE rank == [n \in 0 .. 0 |-> 0]
<1>4. Ranked(0, 0, rank)
  BY <1>1, <1>2 DEF Ranked
<1>5. rank \in [0 .. Len(wire) -> 0 .. Len(pressed)] /\ 0 \in 0 .. Len(pressed)
  BY <1>2
<1>6. PlainInv
  <2> HIDE DEF rank
  <2> QED BY <1>1, <1>3, <1>4, <1>5 DEF PlainInv, Resolving
<1> QED BY <1>1, <1>2, <1>3, <1>6 DEF KeyboardInv, EchoInOrder

LEMMA StepKeyboard == KeyboardInv /\ [KeyboardNext]_keyboardVars => KeyboardInv'
<1> SUFFICES ASSUME KeyboardInv, [KeyboardNext]_keyboardVars PROVE KeyboardInv'
  OBVIOUS
<1>1. CASE \E k \in Keys : Press(k) \/ Release(k)
  BY <1>1, PressInv, ReleaseInv
<1>2. CASE Deliver
  BY <1>2, DeliverInv
<1>3. CASE AcceptKey
  BY <1>3, AcceptInv
<1>4. CASE KeyHandler
  BY <1>4, FirstReadInv, NextRowInv, NextByteInv, ResolvedInv, UnresolvedInv DEF KeyHandler
<1>5. CASE UNCHANGED keyboardVars
  <2>1. /\ pressed' = pressed /\ echoed' = echoed /\ plain' = plain /\ data' = data /\ i' = i
        /\ wire' = wire /\ full' = full /\ request' = request /\ codeArr' = codeArr /\ pc' = pc
        /\ j' = j /\ release' = release
    BY <1>5 DEF keyboardVars, controller, matcher, typed
  <2>2. ASSUME NEW b, NEW m, NEW n PROVE Takes(b, m, n)' <=> Takes(b, m, n)
    BY <2>1, SMTT(30), ZenonT(30) DEF Takes, Count, Prints, KeyOf, Matches, WithRelease, Plain
  <2>3. ASSUME NEW m, NEW r, NEW rank PROVE Ranked(m, r, rank)' <=> Ranked(m, r, rank)
    BY <2>1, <2>2, SMTT(30), ZenonT(30) DEF Ranked
  <2>4. Resolving' <=> Resolving
    BY <2>1, SMTT(30), ZenonT(30) DEF Resolving, PlainBytes, KeyOf, Matches, WithRelease, Plain
  <2>5. PlainInv' <=> PlainInv
    BY <2>1, <2>3, <2>4 DEF PlainInv, PlainBytes, WithRelease, Plain
  <2> QED BY <2>1, <2>5 DEF KeyboardInv, EchoInOrder
<1> QED BY <1>1, <1>2, <1>3, <1>4, <1>5 DEF KeyboardNext

(***************************************************************************)
(* keyboard_interrupt_handler prints the one-byte keys that are pressed,   *)
(* in the order they are, none twice and none for its release, for every   *)
(* table in which their codes start no other row.                          *)
(***************************************************************************)
THEOREM KeysEchoedInOrder == KeyboardSpec => []EchoInOrder
<1>1. KeyboardInv => EchoInOrder
  BY DEF KeyboardInv
<1> QED BY <1>1, InitKeyboard, StepKeyboard, PTL DEF KeyboardSpec
=============================================================================
