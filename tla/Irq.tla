-------------------------------- MODULE Irq ---------------------------------
(***************************************************************************)
(* Interrupt requests from the 8259 controllers to the bottom halves       *)
(* (irq.c, pic.c, irq.S, the registrations of timer.c and keyboard.c):     *)
(* which lines are masked, in service and acknowledged, and which bottom   *)
(* halves still have to run.                                               *)
(***************************************************************************)
EXTENDS Integers, FiniteSets, Sequences, SequencesExt

CONSTANTS
  Devices,   \* the lines that have a device
  Sticky,    \* the lines whose bottom half sets its own IRQ_BH_ACTIVE
  MaxNest,   \* bound on the nesting of interrupts
  MaxGlitch  \* bound on the number of spurious interrupts

TimerIrq == 0
KeyboardIrq == 1
CascadeIrq == 2
Master == 0..7
Slave == 8..15
Lines == Master \cup Slave

\* The bottom halves in the order of irq_bottom_half_register.
BhTable == <<TimerIrq, KeyboardIrq>>

ASSUME IrqAssumption ==
  /\ Devices \subseteq Lines \ {CascadeIrq} /\ Sticky \subseteq Devices
  /\ MaxNest \in Nat \ {0} /\ MaxGlitch \in Nat

VARIABLES
  masked,    \* the bits set in the interrupt mask registers
  raised,    \* the interrupt request registers
  service,   \* the in-service registers
  irqTable,  \* the lines with a handler in irq_table
  active,    \* the lines whose bottom half is marked IRQ_BH_ACTIVE
  owed,      \* history: the lines handled since their bottom half last began
  frames,    \* the interrupts being served, innermost last
  boot,      \* how far kmain has got
  glitches

vars == <<masked, raised, service, irqTable, active, owed, frames, boot, glitches>>

Depth == Len(frames)
Top == Last(frames)

\* The stub enables interrupts when it goes on to the bottom halves.
InterruptsOn ==
  /\ boot = "idle"
  /\ frames # <<>> => Top.at \in {"bh", "fn"}

GoTo(at, i) == frames' = [frames EXCEPT ![Depth].at = at, ![Depth].bh = i]

\* pic_init and irq_init
Init ==
  /\ masked = Lines \ {CascadeIrq}
  /\ raised = {} /\ service = {} /\ irqTable = {} /\ active = {} /\ owed = {}
  /\ frames = <<>> /\ boot = "timer_init" /\ glitches = 0

-----------------------------------------------------------------------------
(* Initialisation.                                                         *)

\* The end of timer_init: irq_register returns RET_OK, which is true, and
\* only a failure makes it enable the line.
TimerInit ==
  /\ boot = "timer_init" /\ boot' = "keyboard_init"
  /\ irqTable' = irqTable \cup {TimerIrq}
  /\ masked' = IF TimerIrq \in irqTable THEN masked \ {TimerIrq} ELSE masked
  /\ UNCHANGED <<raised, service, active, owed, frames, glitches>>

\* keyboard_init, which tests the result the other way round.
KeyboardInit ==
  /\ boot = "keyboard_init" /\ boot' = "int_enable"
  /\ irqTable' = irqTable \cup {KeyboardIrq}
  /\ masked' = IF KeyboardIrq \in irqTable THEN masked ELSE masked \ {KeyboardIrq}
  /\ UNCHANGED <<raised, service, active, owed, frames, glitches>>

\* The end of kmain.
IntEnable ==
  /\ boot = "int_enable" /\ boot' = "idle"
  /\ UNCHANGED <<masked, raised, service, irqTable, active, owed, frames, glitches>>

-----------------------------------------------------------------------------
(* The controllers.                                                        *)

Chip(line) == IF line \in Master THEN Master ELSE Slave

\* The bits an interrupt sets in service: that of its line, and for a slave's
\* line that of the cascade.
Bits(line) == IF line \in Master THEN {line} ELSE {CascadeIrq, line}

\* The master serves line 2 for the slave's lines; lower numbers come first.
Priority(line) == IF line \in Master THEN 10 * line ELSE 10 * CascadeIrq + line - 8

Blocked(line) == \E l \in service : Priority(l) <= Priority(line)

\* End of interrupt, non-specific: the first line in service is done.
Eoi(serv, chip) ==
  serv \ {l \in serv \cap chip : \A k \in serv \cap chip : l <= k}

\* Seeded fault: only the slave is told.
PicIrqAckSlave(serv, line) == Eoi(serv, Chip(line))

\* pic_irq_ack
PicIrqAck(serv, line) ==
  Eoi(IF line \in Slave THEN Eoi(serv, Slave) ELSE serv, Master)

Raise(line) ==
  /\ line \notin raised
  /\ raised' = raised \cup {line}
  /\ UNCHANGED <<masked, service, irqTable, active, owed, frames, boot, glitches>>

Enter(line) == frames' = Append(frames, [line |-> line, at |-> "top", bh |-> 0])

\* The CPU takes the interrupt; the gate turns interrupts off.
Deliver(line) ==
  /\ InterruptsOn /\ Depth < MaxNest
  /\ line \in raised \ masked /\ ~Blocked(line)
  /\ raised' = raised \ {line}
  /\ service' = service \cup Bits(line)
  /\ Enter(line)
  /\ UNCHANGED <<masked, irqTable, active, owed, boot, glitches>>

\* A request that is gone when the CPU asks for it: the controller reports its
\* last line, and does not set its bit in service.
Spurious(line) ==
  /\ InterruptsOn /\ Depth < MaxNest /\ line \in {7, 15}
  /\ glitches < MaxGlitch /\ glitches' = glitches + 1
  /\ service' = service \cup (Bits(line) \ {line})
  /\ Enter(line)
  /\ UNCHANGED <<masked, raised, irqTable, active, owed, boot>>

-----------------------------------------------------------------------------
(* The handlers.                                                           *)

\* irq_spurious_interrupt_handler: pic_get_irq_register tells whether any line
\* at all is in service.
AfterUnregistered(line) ==
  IF service # {} THEN PicIrqAck(service, line)
  ELSE IF line < 7 THEN Eoi(service, Master) ELSE service

\* Seeded fault: irq_handler does not acknowledge a line without a handler.
IrqHandlerIgnores ==
  /\ frames # <<>> /\ Top.at = "top"
  /\ IF Top.line \in irqTable
     THEN /\ service' = PicIrqAck(service, Top.line)
          /\ active' = active \cup {Top.line} /\ owed' = owed \cup {Top.line}
     ELSE UNCHANGED <<service, active, owed>>
  /\ masked' = masked \ {Top.line}
  /\ GoTo("bh", 1)
  /\ UNCHANGED <<raised, irqTable, boot, glitches>>

\* Seeded fault: a nested interrupt leaves the bottom halves to the outer one.
IrqHandlerNoNestedBh ==
  /\ frames # <<>> /\ Top.at = "top"
  /\ IF Top.line \in irqTable
     THEN /\ service' = PicIrqAck(service, Top.line)
          /\ active' = active \cup {Top.line} /\ owed' = owed \cup {Top.line}
     ELSE /\ service' = AfterUnregistered(Top.line)
          /\ UNCHANGED <<active, owed>>
  /\ masked' = masked \ {Top.line}
  /\ GoTo("bh", IF Depth > 1 THEN Len(BhTable) + 1 ELSE 1)
  /\ UNCHANGED <<raised, irqTable, boot, glitches>>

\* irq_handler, with interrupts off throughout: it masks the line and unmasks
\* it again; a driver's handler marks its bottom half.  The stub then turns
\* interrupts on.
IrqHandler ==
  /\ frames # <<>> /\ Top.at = "top"
  /\ IF Top.line \in irqTable
     THEN /\ service' = PicIrqAck(service, Top.line)
          /\ active' = active \cup {Top.line} /\ owed' = owed \cup {Top.line}
     ELSE /\ service' = AfterUnregistered(Top.line)
          /\ UNCHANGED <<active, owed>>
  /\ masked' = masked \ {Top.line}
  /\ GoTo("bh", 1)
  /\ UNCHANGED <<raised, irqTable, boot, glitches>>

\* irq_bottom_half_exec: the test and clearing of one bottom half's flag.
BhTest ==
  /\ frames # <<>> /\ Top.at = "bh" /\ Top.bh <= Len(BhTable)
  /\ active' = active \ {BhTable[Top.bh]}
  /\ owed' = IF BhTable[Top.bh] \in active THEN owed \ {BhTable[Top.bh]} ELSE owed
  /\ IF BhTable[Top.bh] \in active THEN GoTo("fn", Top.bh) ELSE GoTo("bh", Top.bh + 1)
  /\ UNCHANGED <<masked, raised, service, irqTable, boot, glitches>>

\* The bottom half's function.
BhRun ==
  /\ frames # <<>> /\ Top.at = "fn"
  /\ LET line == BhTable[Top.bh] IN
     active' = IF line \in Sticky THEN active \cup {line} ELSE active
  /\ GoTo("bh", Top.bh + 1)
  /\ UNCHANGED <<masked, raised, service, irqTable, owed, boot, glitches>>

\* The end of irq_bottom_half_exec, and the stub's return.
Iret ==
  /\ frames # <<>> /\ Top.at = "bh" /\ Top.bh > Len(BhTable)
  /\ frames' = Front(frames)
  /\ UNCHANGED <<masked, raised, service, irqTable, active, owed, boot, glitches>>

Boot == TimerInit \/ KeyboardInit \/ IntEnable

Serve == IrqHandler \/ BhTest \/ BhRun \/ Iret

Next ==
  \/ Boot
  \/ \E line \in Devices : Raise(line) \/ Deliver(line)
  \/ \E line \in Lines : Spurious(line)
  \/ Serve

\* An interrupted run goes on when the interrupts nested in it are done.
Spec ==
  /\ Init /\ [][Next]_vars /\ WF_vars(Boot)
  /\ \A d \in 1..MaxNest : SF_vars(Depth = d /\ Serve)
  /\ \A line \in Devices : SF_vars(Deliver(line))

-----------------------------------------------------------------------------
\* The first bottom half a run has not yet tested.
NextBh(frame) == IF frame.at = "fn" THEN frame.bh + 1 ELSE frame.bh

\* Whenever the CPU accepts interrupts, nothing is left in service: a missing
\* acknowledgement would block its line and all that come after it for good.
NothingLeftInService == InterruptsOn => service = {}

\* After a handler has run, its bottom half is still marked, and a run of
\* irq_bottom_half_exec has yet to come to it, whatever interrupts nest in it.
OwedWillRun ==
  \A i \in DOMAIN BhTable :
    BhTable[i] \in owed =>
      /\ BhTable[i] \in active
      /\ \E f \in DOMAIN frames : frames[f].at # "top" /\ NextBh(frames[f]) <= i

\* An interrupt of an unmasked line is served, even if it has no handler.
RaisedServed ==
  \A line \in Devices : line \in raised \ masked ~> line \notin raised

=============================================================================
