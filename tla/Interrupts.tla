----------------------------- MODULE Interrupts -----------------------------
(***************************************************************************)
(* Interrupt set-up and dispatch: kernel/interrupts.c, the i686 side of it *)
(* (interrupts.c, irq.c, int_handlers.S) and the part of kmain that brings *)
(* interrupts up.  The two cascaded 8259 controllers, the CPU's interrupt  *)
(* flag and the devices that raise lines are external and modelled as the  *)
(* code uses them: edge triggered, fixed priority, ended by a non-specific *)
(* end-of-interrupt command.                                               *)
(***************************************************************************)
EXTENDS Integers, Sequences

CONSTANTS
  Lines,      \* interrupt lines on which a device may ask for service
  Withdrawn,  \* lines whose device may drop its request before it is served
  Drivers,    \* lines for which a driver sets a handler and opens the gate
  Exceptions  \* CPU exceptions the kernel's code may raise

ASSUME LinesAssumption ==
  /\ Lines \subseteq 0 .. 15 /\ Withdrawn \subseteq Lines
  /\ Drivers \subseteq 0 .. 15 /\ Exceptions \subseteq 0 .. 31

Master == 0 .. 7
Slave == 8 .. 15
Cascade == 2
Syscall == 128
Vectors == 0 .. 47 \cup {Syscall}
Running == -1

VARIABLES
  boot,      \* how far kmain has come
  IF_,       \* the CPU's interrupt flag
  handlers,  \* the vectors whose intHandlers entry is set
  imr,       \* masked lines of both controllers
  irr, isr,  \* lines requested, and lines in service
  stack,     \* interrupt frames: vector, saved flag and how far the handler is
  halted     \* Running, or the vector whose handling never returns

irqVars == <<boot, IF_, handlers, imr, irr, isr, stack, halted>>

\* The boot loader hands over with interrupts off and any controller state.
IrqInit ==
  /\ boot = "start" /\ IF_ = FALSE /\ handlers = {}
  /\ imr \in SUBSET Lines /\ irr \in SUBSET Lines /\ isr = {}
  /\ stack = <<>> /\ halted = Running

Kernel == stack = <<>> /\ halted = Running

-----------------------------------------------------------------------------
\* Faulty variants: every line is open; every line is masked.
SetupMask_Open == {}
SetupMask_Closed == 0 .. 15
\* setup_pic opens line 1 on the first controller and line 15 on the second.
SetupMask == 0 .. 15 \ {1, 15}

interrupts_init ==
  /\ Kernel /\ boot = "start"
  /\ IF_' = FALSE /\ handlers' = {Syscall}
  /\ imr' = SetupMask /\ irr' = {} /\ isr' = {}
  /\ boot' = "exceptions"
  /\ UNCHANGED <<stack, halted>>

sethandler_exceptions ==
  /\ Kernel /\ boot = "exceptions"
  /\ handlers' = handlers \cup {0, 14}
  /\ boot' = "keyboard"
  /\ UNCHANGED <<IF_, imr, irr, isr, stack, halted>>

keyboard_initialize ==
  /\ Kernel /\ boot = "keyboard"
  /\ handlers' = handlers \cup {33}
  /\ boot' = "enable"
  /\ UNCHANGED <<IF_, imr, irr, isr, stack, halted>>

interrupts_enableinterrupts ==
  /\ Kernel /\ boot = "enable"
  /\ IF_' = TRUE /\ boot' = "run"
  /\ UNCHANGED <<handlers, imr, irr, isr, stack, halted>>

\* A driver first sets its handler, then opens its gate.
interrupts_sethandler(l) ==
  /\ Kernel /\ boot = "run"
  /\ handlers' = handlers \cup {32 + l}
  /\ UNCHANGED <<boot, IF_, imr, irr, isr, stack, halted>>

interrupts_enablegate(l) ==
  /\ Kernel /\ boot = "run" /\ 32 + l \in handlers
  /\ imr' = imr \ {l}
  /\ UNCHANGED <<boot, IF_, handlers, irr, isr, stack, halted>>

interrupts_disablegate(l) ==
  /\ Kernel /\ boot = "run" /\ 32 + l \in handlers
  /\ imr' = imr \cup {l}
  /\ UNCHANGED <<boot, IF_, handlers, irr, isr, stack, halted>>

Boot ==
  \/ interrupts_init \/ sethandler_exceptions
  \/ keyboard_initialize \/ interrupts_enableinterrupts

-----------------------------------------------------------------------------
(***************************************************************************)
(* The controllers, external.                                              *)
(***************************************************************************)
Raise(l) ==
  /\ irr' = irr \cup {l}
  /\ UNCHANGED <<boot, IF_, handlers, imr, isr, stack, halted>>

Above(l) == IF l \in Slave THEN 0 .. Cascade \cup 8 .. l
                           ELSE 0 .. l

\* A request reaches the CPU: its line is open, the second controller's
\* lines through the cascade, and nothing of its priority or higher is in
\* service.
Pending(l) ==
  /\ l \in irr \ imr
  /\ l \in Slave => Cascade \notin imr
  /\ isr \cap Above(l) = {}

InService(l) == {l} \cup IF l \in Slave THEN {Cascade} ELSE {}

StackFrame(v) == [vector |-> v, flag |-> IF_, at |-> "call"]

\* Faulty variant: trap gates, and no cli.
FlagInHandler_Kept == IF_
\* Interrupt gates, and the cli of the entry code, clear the flag.
FlagInHandler == FALSE

Enter(v) ==
  /\ stack' = Append(stack, StackFrame(v)) /\ IF_' = FlagInHandler

Accept(l) ==
  /\ halted = Running /\ IF_ /\ Pending(l)
  /\ \A k \in irr \cap Above(l) : k = l \/ ~Pending(k)
  /\ irr' = irr \ {l} /\ isr' = isr \cup InService(l)
  /\ Enter(32 + l)
  /\ UNCHANGED <<boot, handlers, imr, halted>>

\* The request is gone when the CPU asks for the vector: the controller
\* answers with its lowest line and puts nothing in service.
Spurious(l) ==
  /\ halted = Running /\ IF_ /\ Pending(l)
  /\ irr' = irr \ {l}
  /\ isr' = isr \cup (InService(l) \ {l})
  /\ Enter(IF l \in Slave THEN 47 ELSE 39)
  /\ UNCHANGED <<boot, handlers, imr, halted>>

-----------------------------------------------------------------------------
\* A system call of a program that my_main runs.
IntSyscall ==
  /\ Kernel /\ boot = "run"
  /\ Enter(Syscall)
  /\ UNCHANGED <<boot, handlers, imr, irr, isr, halted>>

\* The handlers of kmain loop for ever, and so does the generic handler when
\* there is none.
Exception(e) ==
  /\ halted = Running /\ boot # "start"
  /\ halted' = e /\ IF_' = FALSE
  /\ UNCHANGED <<boot, handlers, imr, irr, isr, stack>>

Top == stack[Len(stack)]
At(step) == [stack EXCEPT ![Len(stack)].at = step]
Handling(step) == halted = Running /\ stack # <<>> /\ Top.at = step

interrupts_generic_handler ==
  /\ Handling("call")
  /\ IF Top.vector \in handlers
     THEN /\ stack' = At(IF Top.vector \in 32 .. 47 THEN "end" ELSE "return")
          /\ UNCHANGED <<IF_, halted>>
     ELSE /\ IF_' = FALSE /\ halted' = Top.vector
          /\ UNCHANGED stack
  /\ UNCHANGED <<boot, handlers, imr, irr, isr>>

\* A non-specific end of interrupt: the highest line in service ends.
Ended(lines) == {l \in isr \cap lines : \A k \in isr \cap lines : l <= k}

\* Faulty variant: only the controller the line belongs to is told.
EndOfInterrupt_SlaveOnly(v) ==
  IF v > 39 THEN Ended(Slave) ELSE Ended(Master)

EndOfInterrupt(v) == Ended(Master) \cup IF v > 39 THEN Ended(Slave) ELSE {}

arch_irq_generic_handler ==
  /\ Handling("end")
  /\ isr' = isr \ EndOfInterrupt(Top.vector)
  /\ stack' = At("return")
  /\ UNCHANGED <<boot, IF_, handlers, imr, irr, halted>>

iret ==
  /\ Handling("return")
  /\ IF_' = Top.flag /\ stack' = SubSeq(stack, 1, Len(stack) - 1)
  /\ UNCHANGED <<boot, handlers, imr, irr, isr, halted>>

Handler == interrupts_generic_handler \/ arch_irq_generic_handler \/ iret

IrqNext ==
  \/ Boot \/ Handler \/ IntSyscall
  \/ \E l \in Lines : Raise(l) \/ Accept(l)
  \/ \E l \in Withdrawn : Spurious(l)
  \/ \E l \in Drivers :
       interrupts_sethandler(l) \/ interrupts_enablegate(l)
       \/ interrupts_disablegate(l)
  \/ \E e \in Exceptions : Exception(e)

IrqSpec == IrqInit /\ [][IrqNext]_irqVars

\* kmain and the handlers run on; the CPU takes an interrupt that stays
\* pending, however many system calls it makes in between.
IrqFairSpec ==
  /\ IrqSpec /\ WF_irqVars(Boot) /\ WF_irqVars(Handler)
  /\ SF_irqVars(Accept(1))

-----------------------------------------------------------------------------
FrameType ==
  [vector : Vectors, flag : BOOLEAN, at : {"call", "end", "return"}]

(***************************************************************************)
(* Whenever the CPU is out of its handlers no line is left in service, so  *)
(* that no later request is held back: _arch_irq_generic_handler ends the  *)
(* interrupt at every controller that has it in service.                   *)
(***************************************************************************)
Acknowledged == stack = <<>> => isr = {}

(***************************************************************************)
(* Handlers do not nest: with the interrupt gates and the entry code's cli *)
(* no handler runs on top of another, which is what the keyboard handler's *)
(* use of the console relies on.                                           *)
(***************************************************************************)
OneHandler == Len(stack) <= 1

(***************************************************************************)
(* The entry code and _arch_irq_generic_handler run one handler at a time  *)
(* and leave no line in service.                                           *)
(***************************************************************************)
DispatchSound == Acknowledged /\ OneHandler

(***************************************************************************)
(* At every point of kmain and of a driver's set-up, a line that can reach *)
(* the CPU has a handler.  interrupts_generic_handler halts the system for *)
(* two hardware interrupts only: for line 7, where a withdrawn request     *)
(* arrives, and for line 15, which setup_pic leaves open without a         *)
(* handler, once a driver has opened the cascade.                          *)
(***************************************************************************)
LinesExpected ==
  halted \in 32 .. 47 => halted = 39 \/ (halted = 47 /\ Cascade \notin imr)

(***************************************************************************)
(* A keyboard request made after interrupts_init is served, unless the     *)
(* system has halted.                                                      *)
(***************************************************************************)
KeyboardServed ==
  (boot # "start" /\ 1 \in irr) ~>
     (halted # Running \/ \E i \in DOMAIN stack : stack[i].vector = 33)
=============================================================================
