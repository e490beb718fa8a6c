---------------------------- MODULE Irq_proofs ------------------------------
(***************************************************************************)
(* Interrupts and bottom halves, for any devices, any nesting and any      *)
(* number of spurious interrupts: every path through irq_handler leaves    *)
(* the controllers with nothing in service when the CPU takes interrupts   *)
(* again, and no bottom half that was asked for is passed over.  The last  *)
(* section is about the ticket lock, which excludes, for any number of     *)
(* CPUs up to the number of tickets, and serves them in the order in which *)
(* they drew: every step of Spinlock is a step of FifoLock or changes none *)
(* of its variables.                                                       *)
(***************************************************************************)
EXTENDS Irq, Spinlock, FiniteSetTheorems, TLAPS

Frame == [line : Lines, at : {"top", "bh", "fn"}, bh : 0..(Len(BhTable) + 1)]

TypeOK ==
  /\ irqTable \subseteq {TimerIrq, KeyboardIrq}
  /\ owed \subseteq irqTable
  /\ frames \in Seq(Frame)
  /\ boot \in {"timer_init", "keyboard_init", "int_enable", "idle"}

\* Interrupts are off in a handler, so only the innermost frame can be in one;
\* the others are in a bottom half or between two.
Placed ==
  \A f \in DOMAIN frames :
    /\ frames[f].at = "top" => f = Len(frames)
    /\ frames[f].at = "bh" => frames[f].bh \in 1..(Len(BhTable) + 1)
    /\ frames[f].at = "fn" => frames[f].bh \in DOMAIN BhTable

InHandler == frames # <<>> /\ Top.at = "top"

\* A handler finds in service what its own interrupt put there, and no other.
ServiceIsOurs ==
  IF InHandler
  THEN \/ service = Bits(Top.line)
       \/ Top.line \in {7, 15} /\ service = Bits(Top.line) \ {Top.line}
  ELSE service = {}

\* kmain enables interrupts last.
QuietBoot == boot # "idle" => frames = <<>>

ControllerInv == TypeOK /\ Placed /\ ServiceIsOurs /\ QuietBoot

IInv == ControllerInv /\ OwedWillRun

-----------------------------------------------------------------------------
(* The sequence of frames.                                                 *)

LEMMA TopIsFrame ==
  ASSUME TypeOK, frames # <<>>
  PROVE  /\ Len(frames) \in Nat \ {0} /\ Len(frames) \in DOMAIN frames
         /\ Top = frames[Len(frames)] /\ Top \in Frame
BY DEF TypeOK, Top, Last

\* Entering an interrupt pushes a frame and keeps the others.
LEMMA EnterFrames ==
  ASSUME TypeOK, NEW line \in Lines, Enter(line)
  PROVE  /\ frames' \in Seq(Frame) /\ frames' # <<>>
         /\ Len(frames') = Len(frames) + 1
         /\ \A f \in DOMAIN frames : f \in DOMAIN frames' /\ frames'[f] = frames[f]
         /\ frames'[Len(frames')] = [line |-> line, at |-> "top", bh |-> 0]
         /\ Top' = [line |-> line, at |-> "top", bh |-> 0]
<1>1. [line |-> line, at |-> "top", bh |-> 0] \in Frame  BY DEF Frame, BhTable
<1> QED  BY <1>1 DEF TypeOK, Enter, Top, Last

\* GoTo moves the innermost frame and keeps the others.
LEMMA GoToFrames ==
  ASSUME TypeOK, frames # <<>>,
         NEW at \in {"bh", "fn"}, NEW i \in 1..(Len(BhTable) + 1), GoTo(at, i)
  PROVE  /\ frames' \in Seq(Frame) /\ frames' # <<>> /\ Len(frames') = Len(frames)
         /\ DOMAIN frames' = DOMAIN frames
         /\ \A f \in DOMAIN frames : f # Len(frames) => frames'[f] = frames[f]
         /\ Top' = frames'[Len(frames)]
         /\ Top'.line = Top.line /\ Top'.at = at /\ Top'.bh = i
<1> DEFINE n == Len(frames)
           g == [Top EXCEPT !.at = at, !.bh = i]
<1>1. n \in DOMAIN frames /\ Top = frames[n] /\ Top \in Frame
  BY TopIsFrame
<1>2. g \in Frame /\ g.line = Top.line /\ g.at = at /\ g.bh = i
  <2> DEFINE t == [Top EXCEPT !.at = at]
  <2>0. /\ i \in 0..(Len(BhTable) + 1) /\ at \in {"top", "bh", "fn"}
    BY DEF BhTable
  <2>1. t \in Frame /\ t.line = Top.line /\ t.at = at
    BY <1>1, <2>0 DEF Frame
  <2> HIDE DEF t
  <2>2. LET h == [t EXCEPT !.bh = i]
        IN  h \in Frame /\ h.line = t.line /\ h.at = t.at /\ h.bh = i
    BY <2>0, <2>1 DEF Frame
  <2>3. g = [t EXCEPT !.bh = i]
    BY DEF t
  <2> QED  BY <2>1, <2>2, <2>3
<1>3. frames' = [frames EXCEPT ![n] = g]
  BY <1>1 DEF GoTo, Depth
<1> HIDE DEF g
<1>4. frames' \in Seq(Frame) /\ Len(frames') = n
  BY <1>1, <1>2, <1>3 DEF TypeOK
<1>5. /\ frames' # <<>> /\ DOMAIN frames' = DOMAIN frames
      /\ \A f \in DOMAIN frames : f # n => frames'[f] = frames[f]
      /\ Top' = frames'[n] /\ frames'[n] = g
  BY <1>1, <1>3, <1>4 DEF TypeOK, Top, Last
<1> QED  BY <1>2, <1>4, <1>5

-----------------------------------------------------------------------------
(* The controllers.                                                        *)

\* Acknowledging an interrupt of any line, spurious or not, takes out of
\* service all that it put there, on both chips.
LEMMA AckClears ==
  ASSUME NEW line \in Lines, NEW serv,
         serv = Bits(line) \/ (line \in {7, 15} /\ serv = Bits(line) \ {line})
  PROVE  PicIrqAck(serv, line) = {}
<1>1. CASE line \in Master
  <2>1. line \notin Slave /\ Bits(line) = {line}
    BY <1>1 DEF Master, Slave, Bits
  <2>2. PicIrqAck(serv, line) = Eoi(serv, Master)
    BY <2>1 DEF PicIrqAck
  <2>3. serv = {line} \/ serv = {}  BY <2>1
  <2>4. line \in Master /\ line <= line  BY <1>1 DEF Master
  <2>5. Eoi({line}, Master) = {} /\ Eoi({}, Master) = {}  BY <2>4 DEF Eoi
  <2> QED  BY <2>2, <2>3, <2>5
<1>2. CASE line \in Slave
  <2>1. line \notin Master /\ Bits(line) = {2, line} /\ 2 \notin Slave /\ 2 \in Master
    BY <1>2 DEF Master, Slave, Bits, CascadeIrq
  <2>2. PicIrqAck(serv, line) = Eoi(Eoi(serv, Slave), Master)
    BY <1>2 DEF PicIrqAck
  <2>3. serv = {2, line} \/ serv = {2}  BY <2>1
  <2>4. Eoi(serv, Slave) = {2}
    BY <1>2, <2>1, <2>3 DEF Eoi, Slave
  <2>5. Eoi({2}, Master) = {}
    BY <2>1 DEF Eoi, Master
  <2> QED  BY <2>2, <2>4, <2>5
<1> QED  BY <1>1, <1>2 DEF Lines

\* So does the handler of interrupts nobody registered for, which looks at the
\* in-service registers to tell a request from a spurious one.
LEMMA UnregisteredClears ==
  ASSUME NEW line \in Lines,
         service = Bits(line) \/ (line \in {7, 15} /\ service = Bits(line) \ {line})
  PROVE  AfterUnregistered(line) = {}
<1>1. CASE service # {}
  BY <1>1, AckClears DEF AfterUnregistered
<1>2. CASE service = {}
  <2>1. Bits(line) # {}  BY DEF Bits
  <2>2. line \in {7, 15}  BY <1>2, <2>1
  <2>3. ~(line < 7)  BY <2>2
  <2> QED  BY <1>2, <2>3 DEF AfterUnregistered
<1> QED  BY <1>1, <1>2

-----------------------------------------------------------------------------
(* One lemma for each kind of step.                                        *)

LEMMA InitInv == Init => IInv
<1> SUFFICES ASSUME Init PROVE IInv  OBVIOUS
<1>1. TypeOK /\ Placed
  BY DEF Init, TypeOK, Placed
<1>2. ServiceIsOurs /\ QuietBoot
  BY DEF Init, ServiceIsOurs, InHandler, QuietBoot
<1>3. OwedWillRun
  BY DEF Init, OwedWillRun
<1> QED  BY <1>1, <1>2, <1>3 DEF IInv, ControllerInv

\* A step that touches neither the frames nor what is in service or owed.
LEMMA SameFramesInv ==
  ASSUME IInv,
         UNCHANGED <<service, active, owed, frames>>,
         irqTable \subseteq irqTable', irqTable' \subseteq {TimerIrq, KeyboardIrq},
         boot' \in {"timer_init", "keyboard_init", "int_enable", "idle"},
         boot' = "idle" \/ boot # "idle"
  PROVE  IInv'
<1>1. TypeOK'  BY DEF IInv, ControllerInv, TypeOK
<1>2. Placed'  BY DEF IInv, ControllerInv, Placed
<1>3. ServiceIsOurs'
  BY DEF IInv, ControllerInv, ServiceIsOurs, InHandler, Top
<1>4. QuietBoot'  BY DEF IInv, ControllerInv, QuietBoot
<1>5. OwedWillRun'  BY DEF IInv, OwedWillRun
<1> QED  BY <1>1, <1>2, <1>3, <1>4, <1>5 DEF IInv, ControllerInv

\* An interrupt is taken when interrupts are on, so with nothing in service and
\* no frame in a handler.
LEMMA EnterInv ==
  ASSUME IInv, InterruptsOn, NEW line \in Lines, Enter(line),
         \/ service' = service \cup Bits(line)
         \/ line \in {7, 15} /\ service' = service \cup (Bits(line) \ {line}),
         UNCHANGED <<irqTable, active, owed, boot>>
  PROVE  IInv'
<1> USE DEF IInv, ControllerInv
<1>1. /\ frames' \in Seq(Frame) /\ frames' # <<>>
      /\ Len(frames') = Len(frames) + 1
      /\ \A f \in DOMAIN frames : f \in DOMAIN frames' /\ frames'[f] = frames[f]
      /\ frames'[Len(frames')] = [line |-> line, at |-> "top", bh |-> 0]
      /\ Top' = [line |-> line, at |-> "top", bh |-> 0]
  BY EnterFrames
<1>2. service = {} /\ \A f \in DOMAIN frames : frames[f].at # "top"
  <2>1. ~InHandler  BY DEF InterruptsOn, InHandler
  <2>2. ASSUME NEW f \in DOMAIN frames, frames[f].at = "top" PROVE FALSE
    <3>1. f = Len(frames)  BY <2>2 DEF Placed
    <3>2. frames # <<>>  BY <2>2
    <3> QED  BY <2>1, <2>2, <3>1, <3>2, TopIsFrame DEF InHandler
  <2> QED  BY <2>1, <2>2 DEF ServiceIsOurs
<1>3. DOMAIN frames' = DOMAIN frames \cup {Len(frames')}
  BY <1>1 DEF TypeOK
<1>4. TypeOK'  BY <1>1 DEF TypeOK
<1>5. Placed'
  BY <1>1, <1>2, <1>3 DEF Placed, BhTable
<1>6. ServiceIsOurs'
  <2>1. InHandler' /\ Top'.line = line  BY <1>1 DEF InHandler
  <2>2. Bits(Top.line)' = Bits(line)  BY <2>1 DEF Bits
  <2> QED  BY <1>2, <2>1, <2>2 DEF ServiceIsOurs
<1>7. QuietBoot'  BY DEF QuietBoot, InterruptsOn
<1>8. OwedWillRun'
  <2> SUFFICES ASSUME NEW i \in DOMAIN BhTable, BhTable[i] \in owed
               PROVE  /\ BhTable[i] \in active
                      /\ \E f \in DOMAIN frames' :
                           frames'[f].at # "top" /\ NextBh(frames'[f]) <= i
    BY DEF OwedWillRun
  <2>1. /\ BhTable[i] \in active
        /\ \E f \in DOMAIN frames : frames[f].at # "top" /\ NextBh(frames[f]) <= i
    BY DEF OwedWillRun
  <2> QED  BY <1>1, <2>1
<1> QED  BY <1>4, <1>5, <1>6, <1>7, <1>8

\* irq_handler acknowledges what its interrupt put in service, and marks the
\* bottom half that the frame it is in goes on to look at.
LEMMA HandlerInv == IInv /\ IrqHandler => IInv'
<1> SUFFICES ASSUME IInv, IrqHandler PROVE IInv'  OBVIOUS
<1> USE DEF IInv, ControllerInv
<1> DEFINE n == Len(frames)
<1>1. /\ frames # <<>> /\ Top.at = "top" /\ GoTo("bh", 1)
      /\ UNCHANGED <<irqTable, boot>>
  BY DEF IrqHandler
<1>2. n \in DOMAIN frames /\ n \in Nat \ {0} /\ Top = frames[n] /\ Top \in Frame
  BY <1>1, TopIsFrame
<1>3. /\ frames' \in Seq(Frame) /\ frames' # <<>> /\ Len(frames') = n
      /\ DOMAIN frames' = DOMAIN frames
      /\ \A f \in DOMAIN frames : f # n => frames'[f] = frames[f]
      /\ Top' = frames'[n]
      /\ Top'.line = Top.line /\ Top'.at = "bh" /\ Top'.bh = 1
  BY <1>1, GoToFrames DEF BhTable
<1>4. Top.line \in Lines  BY <1>2 DEF Frame
<1>5. \/ service = Bits(Top.line)
      \/ Top.line \in {7, 15} /\ service = Bits(Top.line) \ {Top.line}
  BY <1>1 DEF ServiceIsOurs, InHandler
<1>6. service' = {}
  <2>1. PicIrqAck(service, Top.line) = {}  BY <1>4, <1>5, AckClears
  <2>2. AfterUnregistered(Top.line) = {}  BY <1>4, <1>5, UnregisteredClears
  <2> QED  BY <2>1, <2>2 DEF IrqHandler
<1>7. TypeOK'
  BY <1>1, <1>3 DEF TypeOK, IrqHandler
<1>8. Placed'
  BY <1>2, <1>3 DEF Placed, BhTable
<1>9. ServiceIsOurs'
  BY <1>3, <1>6 DEF ServiceIsOurs, InHandler
<1>10. QuietBoot'
  BY <1>1 DEF QuietBoot
<1>11. OwedWillRun'
  <2> SUFFICES ASSUME NEW i \in DOMAIN BhTable, BhTable[i] \in owed'
               PROVE  /\ BhTable[i] \in active'
                      /\ \E f \in DOMAIN frames' :
                           frames'[f].at # "top" /\ NextBh(frames'[f]) <= i
    BY DEF OwedWillRun
  <2>1. frames'[n].at # "top" /\ NextBh(frames'[n]) = 1 /\ 1 <= i
    BY <1>3 DEF NextBh, BhTable
  <2>2. BhTable[i] \in owed => BhTable[i] \in active  BY DEF OwedWillRun
  <2>3. BhTable[i] \in active'  BY <2>2 DEF IrqHandler
  <2> QED  BY <1>2, <1>3, <2>1, <2>3
<1> QED  BY <1>7, <1>8, <1>9, <1>10, <1>11

\* A step of the bottom halves in the innermost frame, which was not in a
\* handler and is not in one now.
LEMMA BottomHalfInv ==
  ASSUME ControllerInv, frames # <<>>, Top.at \in {"bh", "fn"},
         NEW at \in {"bh", "fn"}, NEW i \in 1..(Len(BhTable) + 1),
         at = "fn" => i \in DOMAIN BhTable, GoTo(at, i),
         owed' \subseteq owed, UNCHANGED <<service, irqTable, boot>>
  PROVE  ControllerInv'
<1> USE DEF ControllerInv
<1> DEFINE n == Len(frames)
<1>2. n \in DOMAIN frames /\ n \in Nat \ {0} /\ Top = frames[n] /\ Top \in Frame
  BY TopIsFrame
<1>3. /\ frames' \in Seq(Frame) /\ frames' # <<>> /\ Len(frames') = n
      /\ DOMAIN frames' = DOMAIN frames
      /\ \A f \in DOMAIN frames : f # n => frames'[f] = frames[f]
      /\ Top' = frames'[n]
      /\ Top'.line = Top.line /\ Top'.at = at /\ Top'.bh = i
  BY GoToFrames
<1>4. TypeOK'  BY <1>3 DEF TypeOK
<1>5. Placed'  BY <1>2, <1>3 DEF Placed
<1>6. ServiceIsOurs'
  BY <1>3 DEF ServiceIsOurs, InHandler
<1>7. QuietBoot'  BY DEF QuietBoot
<1> QED  BY <1>4, <1>5, <1>6, <1>7

\* Testing a flag takes the run past that bottom half only when it is not owed,
\* or while it runs.
LEMMA BhTestInv == IInv /\ BhTest => IInv'
<1> SUFFICES ASSUME IInv, BhTest PROVE IInv'  OBVIOUS
<1> USE DEF IInv
<1> DEFINE n == Len(frames)
           b == Top.bh
<1>1. frames # <<>> /\ Top.at = "bh" /\ b <= Len(BhTable)
  BY DEF BhTest
<1>2. /\ TypeOK /\ n \in DOMAIN frames /\ n \in Nat \ {0}
      /\ Top = frames[n] /\ Top \in Frame /\ b \in DOMAIN BhTable
  <2>1. TypeOK  BY DEF ControllerInv
  <2>2. n \in DOMAIN frames /\ n \in Nat \ {0} /\ Top = frames[n] /\ Top \in Frame
    BY <1>1, <2>1, TopIsFrame
  <2>3. b \in 1..(Len(BhTable) + 1)
    BY <1>1, <2>2 DEF ControllerInv, Placed
  <2> QED  BY <1>1, <2>1, <2>2, <2>3 DEF BhTable
<1>3. PICK at \in {"bh", "fn"}, i \in 1..(Len(BhTable) + 1) :
        /\ GoTo(at, i)
        /\ at = "fn" => i = b
        /\ at = "bh" => i = b + 1
  <2>1. CASE BhTable[b] \in active
    BY <1>2, <2>1 DEF BhTest, BhTable
  <2>2. CASE BhTable[b] \notin active
    BY <1>2, <2>2 DEF BhTest, BhTable
  <2> QED  BY <2>1, <2>2
<1>4. owed' \subseteq owed /\ UNCHANGED <<service, irqTable, boot>>
  BY DEF BhTest
<1>5. ControllerInv'
  <2>1. at = "fn" => i \in DOMAIN BhTable  BY <1>2, <1>3
  <2> QED  BY <1>1, <1>3, <1>4, <2>1, BottomHalfInv
<1>6. /\ DOMAIN frames' = DOMAIN frames
      /\ \A f \in DOMAIN frames : f # n => frames'[f] = frames[f]
      /\ frames'[n].at = at /\ frames'[n].bh = i
  BY <1>1, <1>2, <1>3, GoToFrames
<1>7. NextBh(frames[n]) = b /\ NextBh(frames'[n]) = b + 1
  BY <1>1, <1>2, <1>3, <1>6 DEF NextBh
<1>8. OwedWillRun'
  <2> SUFFICES ASSUME NEW j \in DOMAIN BhTable, BhTable[j] \in owed'
               PROVE  /\ BhTable[j] \in active'
                      /\ \E f \in DOMAIN frames' :
                           frames'[f].at # "top" /\ NextBh(frames'[f]) <= j
    BY DEF OwedWillRun
  <2>1. BhTable[j] \in owed  BY <1>4
  <2>2. PICK f \in DOMAIN frames : frames[f].at # "top" /\ NextBh(frames[f]) <= j
    BY <2>1 DEF OwedWillRun
  <2>3. BhTable[j] \in active  BY <2>1 DEF OwedWillRun
  <2>4. BhTable[j] # BhTable[b]  BY <2>3 DEF BhTest
  <2>5. BhTable[j] \in active'  BY <2>3, <2>4 DEF BhTest
  <2>6. frames'[f].at # "top" /\ NextBh(frames'[f]) <= j
    <3>1. CASE f # n  BY <2>2, <3>1, <1>6
    <3>2. CASE f = n
      <4>1. b <= j /\ b # j  BY <2>2, <2>4, <3>2, <1>7
      <4> QED  BY <4>1, <3>2, <1>2, <1>3, <1>6, <1>7 DEF BhTable
    <3> QED  BY <3>1, <3>2
  <2> QED  BY <2>5, <2>6, <1>6
<1> QED  BY <1>5, <1>8

\* A bottom half that has run is behind; what it marks again stays marked.
LEMMA BhRunInv == IInv /\ BhRun => IInv'
<1> SUFFICES ASSUME IInv, BhRun PROVE IInv'  OBVIOUS
<1> USE DEF IInv
<1> DEFINE n == Len(frames)
           b == Top.bh
<1>1. /\ frames # <<>> /\ Top.at = "fn" /\ GoTo("bh", b + 1)
      /\ active \subseteq active' /\ UNCHANGED <<service, irqTable, owed, boot>>
  BY DEF BhRun
<1>2. /\ TypeOK /\ n \in DOMAIN frames /\ n \in Nat \ {0}
      /\ Top = frames[n] /\ b \in DOMAIN BhTable
  <2>1. TypeOK  BY DEF ControllerInv
  <2>2. n \in DOMAIN frames /\ n \in Nat \ {0} /\ Top = frames[n]
    BY <1>1, <2>1, TopIsFrame
  <2> QED  BY <1>1, <2>1, <2>2 DEF ControllerInv, Placed
<1>3. b + 1 \in 1..(Len(BhTable) + 1)  BY <1>2 DEF BhTable
<1>4. ControllerInv'  BY <1>1, <1>3, BottomHalfInv
<1>5. /\ DOMAIN frames' = DOMAIN frames
      /\ \A f \in DOMAIN frames : f # n => frames'[f] = frames[f]
      /\ frames'[n].at = "bh" /\ frames'[n].bh = b + 1
  BY <1>1, <1>2, <1>3, GoToFrames
<1>6. NextBh(frames[n]) = b + 1 /\ NextBh(frames'[n]) = b + 1
  BY <1>1, <1>2, <1>5 DEF NextBh
<1>7. OwedWillRun'
  <2> SUFFICES ASSUME NEW j \in DOMAIN BhTable, BhTable[j] \in owed'
               PROVE  /\ BhTable[j] \in active'
                      /\ \E f \in DOMAIN frames' :
                           frames'[f].at # "top" /\ NextBh(frames'[f]) <= j
    BY DEF OwedWillRun
  <2>1. PICK f \in DOMAIN frames : frames[f].at # "top" /\ NextBh(frames[f]) <= j
    BY <1>1 DEF OwedWillRun
  <2>2. BhTable[j] \in active'  BY <1>1 DEF OwedWillRun
  <2>3. frames'[f].at # "top" /\ NextBh(frames'[f]) <= j
    BY <2>1, <1>5, <1>6
  <2> QED  BY <2>2, <2>3, <1>5
<1> QED  BY <1>4, <1>7

\* The frame that returns has come to the end of the bottom halves, so what is
\* owed is left to one of the others, which is not in a handler either.
LEMMA IretInv == IInv /\ Iret => IInv'
<1> SUFFICES ASSUME IInv, Iret PROVE IInv'  OBVIOUS
<1> USE DEF IInv, ControllerInv
<1> DEFINE n == Len(frames)
<1>1. /\ frames # <<>> /\ Top.at = "bh" /\ Top.bh > Len(BhTable)
      /\ frames' = Front(frames)
      /\ UNCHANGED <<service, active, irqTable, owed, boot>>
  BY DEF Iret
<1>2. n \in DOMAIN frames /\ n \in Nat \ {0} /\ Top = frames[n] /\ Top \in Frame
  BY <1>1, TopIsFrame
<1>3. /\ frames' \in Seq(Frame) /\ Len(frames') = n - 1
      /\ DOMAIN frames' = 1..(n - 1) /\ DOMAIN frames = 1..n
      /\ \A f \in DOMAIN frames' : frames'[f] = frames[f]
  <2>1. /\ Front(frames) \in Seq(Frame) /\ Len(Front(frames)) = n - 1
        /\ DOMAIN frames = 1..n
    <3>1. frames \in Seq(Frame) /\ n \in Nat /\ 1 <= n  BY <1>2 DEF TypeOK
    <3> QED  BY <3>1 DEF Front
  <2>2. DOMAIN Front(frames) = 1..(n - 1)
    BY <1>2, <2>1
  <2>3. \A f \in 1..(n - 1) : Front(frames)[f] = frames[f]
    BY <1>2 DEF TypeOK, Front
  <2> QED  BY <1>1, <2>1, <2>2, <2>3
<1>4. \A f \in DOMAIN frames' : f \in DOMAIN frames /\ frames'[f].at # "top"
  BY <1>2, <1>3 DEF Placed
<1>5. TypeOK'  BY <1>1, <1>3 DEF TypeOK
<1>6. Placed'  BY <1>3, <1>4 DEF Placed
<1>7. ServiceIsOurs'
  <2>1. ~InHandler'
    <3>1. CASE frames' = <<>>  BY <3>1 DEF InHandler
    <3>2. CASE frames' # <<>>
      <4>1. Top' = frames'[Len(frames')] /\ Len(frames') \in DOMAIN frames'
        BY <1>3, <3>2 DEF Top, Last
      <4> QED  BY <4>1, <1>4 DEF InHandler
    <3> QED  BY <3>1, <3>2
  <2>2. service = {}  BY <1>1 DEF ServiceIsOurs, InHandler
  <2> QED  BY <1>1, <2>1, <2>2 DEF ServiceIsOurs
<1>8. QuietBoot'  BY <1>1 DEF QuietBoot
<1>9. OwedWillRun'
  <2> SUFFICES ASSUME NEW j \in DOMAIN BhTable, BhTable[j] \in owed'
               PROVE  /\ BhTable[j] \in active'
                      /\ \E f \in DOMAIN frames' :
                           frames'[f].at # "top" /\ NextBh(frames'[f]) <= j
    BY DEF OwedWillRun
  <2>1. PICK f \in DOMAIN frames : frames[f].at # "top" /\ NextBh(frames[f]) <= j
    BY <1>1 DEF OwedWillRun
  <2>2. NextBh(frames[n]) = Top.bh  BY <1>1, <1>2 DEF NextBh
  <2>3. f # n  BY <1>1, <1>2, <2>1, <2>2 DEF BhTable, Frame
  <2>4. f \in DOMAIN frames'  BY <1>2, <1>3, <2>3
  <2> QED  BY <1>1, <1>3, <2>1, <2>4 DEF OwedWillRun
<1> QED  BY <1>5, <1>6, <1>7, <1>8, <1>9

\* Every step keeps the invariant.
LEMMA NextInv == IInv /\ [Next]_vars => IInv'
<1> SUFFICES ASSUME IInv, [Next]_vars PROVE IInv'  OBVIOUS
<1>a. TypeOK  BY DEF IInv, ControllerInv
<1>1. CASE Boot
  <2>1. /\ UNCHANGED <<service, active, owed, frames>>
        /\ irqTable \subseteq irqTable' /\ irqTable' \subseteq {TimerIrq, KeyboardIrq}
        /\ boot' \in {"timer_init", "keyboard_init", "int_enable", "idle"}
        /\ boot # "idle"
    BY <1>1, <1>a DEF Boot, TimerInit, KeyboardInit, IntEnable, TypeOK
  <2> QED  BY <2>1, SameFramesInv
<1>2. ASSUME NEW line \in Devices, Raise(line) PROVE IInv'
  <2>1. UNCHANGED <<service, active, owed, frames, irqTable, boot>>
    BY <1>2 DEF Raise
  <2> QED  BY <2>1, <1>a, SameFramesInv DEF TypeOK
<1>3. ASSUME NEW line \in Devices, Deliver(line) PROVE IInv'
  <2>1. line \in Lines  BY IrqAssumption
  <2> QED  BY <1>3, <2>1, EnterInv DEF Deliver
<1>4. ASSUME NEW line \in Lines, Spurious(line) PROVE IInv'
  BY <1>4, EnterInv DEF Spurious
<1>5. CASE IrqHandler  BY <1>5, HandlerInv
<1>6. CASE BhTest  BY <1>6, BhTestInv
<1>7. CASE BhRun  BY <1>7, BhRunInv
<1>8. CASE Iret  BY <1>8, IretInv
<1>9. CASE UNCHANGED vars
  BY <1>9, <1>a, SameFramesInv DEF vars, TypeOK
<1> QED  BY <1>1, <1>2, <1>3, <1>4, <1>5, <1>6, <1>7, <1>8, <1>9 DEF Next, Serve

LEMMA Invariant == Spec => []IInv
BY InitInv, NextInv, PTL DEF Spec

\* Whenever the CPU accepts interrupts nothing is left in service, so no
\* handler's end-of-interrupt is missing, to the wrong chip, or one too many:
\* pic_irq_ack and irq_spurious_interrupt_handler, nested to any depth.
THEOREM ServiceClear == Spec => []NothingLeftInService
<1>1. IInv => NothingLeftInService
  BY DEF IInv, ControllerInv, ServiceIsOurs, InHandler, NothingLeftInService,
         InterruptsOn
<1> QED  BY <1>1, Invariant, PTL

\* A bottom half that a handler marked and that has not begun since is still
\* marked, and some run of irq_bottom_half_exec on the stack has yet to come
\* to it, however interrupts nest and whatever marks itself.
THEOREM BottomHalvesRun == Spec => []OwedWillRun
<1>1. IInv => OwedWillRun  BY DEF IInv
<1> QED  BY <1>1, Invariant, PTL

-----------------------------------------------------------------------------
(* Spinlock                                                                *)

\* The CPUs that have asked are finitely many, at most as many as tickets.
LEMMA AskedFinite ==
  /\ IsFiniteSet(Asked)
  /\ Cardinality(Asked) \in Nat
  /\ Cardinality(Asked) <= Cardinality(CPUs)
  /\ Cardinality(CPUs) \in Nat
  /\ Cardinality(Asked) <= Tickets
<1>1. Asked \subseteq CPUs  BY DEF Asked
<1>2. IsFiniteSet(CPUs) /\ Tickets \in Nat /\ Cardinality(CPUs) <= Tickets
  BY SpinlockAssumption
<1>3. IsFiniteSet(Asked) /\ Cardinality(Asked) <= Cardinality(CPUs)
  BY <1>1, <1>2, FS_Subset
<1>4. Cardinality(Asked) \in Nat /\ Cardinality(CPUs) \in Nat
  BY <1>2, <1>3, FS_CardinalityType
<1> QED  BY <1>2, <1>3, <1>4

\* Advancing owner brings every ticket but the one it served one turn nearer.
LEMMA DistStep ==
  ASSUME NEW t \in TicketValues, owner \in TicketValues, owner' = Succ(owner)
  PROVE  /\ Dist(t) \in 0..(Tickets - 1)
         /\ (Dist(t) = 0) <=> (t = owner)
         /\ t # owner => (IF t >= owner' THEN t - owner' ELSE t - owner' + Tickets)
                           = Dist(t) - 1
         /\ t = owner => (IF t >= owner' THEN t - owner' ELSE t - owner' + Tickets)
                           = Tickets - 1
BY SpinlockAssumption DEF TicketValues, Succ, Dist

\* Distances tell tickets apart, and grow by one along Succ.
LEMMA DistOrder ==
  ASSUME owner \in TicketValues
  PROVE  /\ \A t \in TicketValues : Dist(t) \in 0..(Tickets - 1)
         /\ \A t, u \in TicketValues : Dist(t) = Dist(u) => t = u
         /\ \A t \in TicketValues : (Dist(t) = 0) <=> (t = owner)
         /\ \A t \in TicketValues : Succ(t) \in TicketValues
         /\ \A t \in TicketValues : Dist(t) = Tickets - 1 => Succ(t) = owner
         /\ \A t \in TicketValues : Dist(t) < Tickets - 1 => Dist(Succ(t)) = Dist(t) + 1
BY SpinlockAssumption DEF TicketValues, Succ, Dist

LEMMA SpinlockStarts == SpinlockInit => SpinlockInv
<1> SUFFICES ASSUME SpinlockInit PROVE SpinlockInv  OBVIOUS
<1>1. Asked = {} /\ Inside = {}  BY DEF SpinlockInit, Asked, Inside
<1>2. Cardinality(Asked) = 0  BY <1>1, FS_EmptySet
<1>3. SpinlockTypeOK  BY SpinlockAssumption DEF SpinlockInit, SpinlockTypeOK, TicketValues
<1>4. TicketsInOrder
  BY <1>1, <1>2, SpinlockAssumption DEF SpinlockInit, TicketsInOrder, Dist
<1>5. HolderServed  BY <1>1 DEF HolderServed
<1> QED  BY <1>3, <1>4, <1>5 DEF SpinlockInv

\* A CPU that draws joins behind those that have asked.
LEMMA DrawInv ==
  ASSUME SpinlockInv, NEW c \in CPUs, Draw(c)
  PROVE  /\ SpinlockInv'
         /\ Asked' = Asked \cup {c} /\ c \notin Asked
         /\ Cardinality(Asked') = Cardinality(Asked) + 1
         /\ Dist(next) = Cardinality(Asked)
         /\ owner = next <=> Asked = {}
<1> DEFINE n == Cardinality(Asked)
<1>a. SpinlockTypeOK /\ TicketsInOrder /\ HolderServed  BY DEF SpinlockInv
<1>b. /\ c \notin Asked /\ Asked' = Asked \cup {c}
  BY <1>a DEF Draw, Asked, SpinlockTypeOK
<1>c. n \in Nat /\ IsFiniteSet(Asked) /\ n <= Tickets  BY AskedFinite
<1>d. Cardinality(Asked') = n + 1
  BY <1>b, <1>c, FS_AddElement
<1>e. n + 1 <= Tickets
  <2>1. Asked \cup {c} \subseteq CPUs  BY DEF Asked
  <2>2. Cardinality(Asked \cup {c}) <= Cardinality(CPUs)
    BY <2>1, SpinlockAssumption, FS_Subset
  <2> QED  BY <2>2, <1>b, <1>c, <1>d, SpinlockAssumption, AskedFinite
<1>f. Dist(next) = n  BY <1>a, <1>c, <1>e, SpinlockAssumption DEF TicketsInOrder
<1>g. owner = next <=> Asked = {}
  <2>1. n = 0 <=> Asked = {}  BY <1>c, FS_EmptySet
  <2> QED  BY <2>1, <1>f, <1>a, DistOrder DEF SpinlockTypeOK
<1>h. /\ ticket'[c] = next
      /\ \A d \in Asked : d \in CPUs /\ ticket'[d] = ticket[d] /\ ticket[d] \in TicketValues
      /\ \A d \in CPUs : d # c => pc'[d] = pc[d] /\ ticket'[d] = ticket[d]
      /\ pc'[c] = IF owner = next THEN "in" ELSE "wait"
      /\ owner' = owner /\ next' = Succ(next)
  BY <1>a, <1>b DEF Draw, SpinlockTypeOK, Asked
<1>1. SpinlockTypeOK'
  BY <1>a, DistOrder DEF SpinlockTypeOK, Draw
<1>2. TicketsInOrder'
  <2> DEFINE D(t) == IF t >= owner' THEN t - owner' ELSE t - owner' + Tickets
  <2>0. \A t : D(t) = Dist(t)  BY <1>h DEF Dist
  <2>1. \A d \in Asked' : D(ticket'[d]) < n + 1
    BY <2>0, <1>a, <1>b, <1>c, <1>f, <1>h, DistOrder DEF TicketsInOrder, SpinlockTypeOK
  <2>2. \A d, e \in Asked' : ticket'[d] = ticket'[e] => d = e
    BY <1>a, <1>b, <1>c, <1>f, <1>h DEF TicketsInOrder
  <2>3. \A i \in 0..n : \E d \in Asked' : D(ticket'[d]) = i
    <3> TAKE i \in 0..n
    <3>1. CASE i = n
      BY <3>1, <2>0, <1>b, <1>f, <1>h
    <3>2. CASE i # n
      <4>1. i \in 0..(n - 1)  BY <3>2, <1>c
      <4>2. PICK d \in Asked : Dist(ticket[d]) = i  BY <4>1, <1>a DEF TicketsInOrder
      <4> QED  BY <4>2, <2>0, <1>b, <1>h
    <3> QED  BY <3>1, <3>2
  <2>4. IF n + 1 = Tickets THEN next' = owner' ELSE D(next') = n + 1
    BY <2>0, <1>a, <1>c, <1>e, <1>f, <1>h, DistOrder, SpinlockAssumption DEF SpinlockTypeOK
  <2> QED  BY <2>1, <2>2, <2>3, <2>4, <1>c, <1>d DEF TicketsInOrder, Dist
<1>3. HolderServed'
  <2>1. \A d \in Inside : d \in Asked  BY DEF Inside, Asked
  <2> QED  BY <2>1, <1>a, <1>b, <1>h DEF HolderServed, Inside
<1> QED  BY <1>1, <1>2, <1>3, <1>b, <1>d, <1>f, <1>g DEF SpinlockInv

\* A CPU that finds its ticket served was waiting at the front.
LEMMA ServedInv ==
  ASSUME SpinlockInv, NEW c \in CPUs, Served(c)
  PROVE  SpinlockInv' /\ Asked' = Asked
<1>a. SpinlockTypeOK /\ TicketsInOrder /\ HolderServed  BY DEF SpinlockInv
<1>1. Asked' = Asked  BY <1>a DEF Served, Asked, SpinlockTypeOK
<1>2. SpinlockTypeOK'  BY <1>a DEF SpinlockTypeOK, Served
<1>3. TicketsInOrder'  BY <1>a, <1>1 DEF TicketsInOrder, Dist, Served
<1>4. HolderServed'
  BY <1>a DEF HolderServed, Inside, Served, SpinlockTypeOK
<1> QED  BY <1>1, <1>2, <1>3, <1>4 DEF SpinlockInv

\* A CPU that unlocks was the only one inside and at the front.
LEMMA UnlockInv ==
  ASSUME SpinlockInv, NEW c \in CPUs, Unlock(c)
  PROVE  /\ SpinlockInv'
         /\ Asked' = Asked \ {c} /\ c \in Asked /\ ticket[c] = owner
         /\ Cardinality(Asked') = Cardinality(Asked) - 1
         /\ Inside = {c} /\ Inside' = {}
<1> DEFINE n == Cardinality(Asked)
           D(t) == IF t >= owner' THEN t - owner' ELSE t - owner' + Tickets
<1>a. SpinlockTypeOK /\ TicketsInOrder /\ HolderServed  BY DEF SpinlockInv
<1>b. /\ c \in Asked /\ Asked' = Asked \ {c} /\ c \in Inside
  BY <1>a DEF Unlock, Asked, Inside, SpinlockTypeOK
<1>c. n \in Nat /\ IsFiniteSet(Asked) /\ n <= Tickets  BY AskedFinite
<1>d. Cardinality(Asked') = n - 1
  BY <1>b, <1>c, FS_RemoveElement
<1>e. ticket[c] = owner  BY <1>a, <1>b DEF HolderServed
<1>f. /\ owner' = Succ(owner) /\ next' = next /\ ticket' = ticket
      /\ owner \in TicketValues /\ next \in TicketValues
      /\ \A d \in Asked : ticket[d] \in TicketValues
      /\ \A d \in CPUs : d # c => pc'[d] = pc[d]
      /\ pc'[c] = "out"
  BY <1>a DEF Unlock, SpinlockTypeOK, Asked
<1>g. \A d \in Asked' : d \in Asked /\ ticket[d] # owner
  BY <1>a, <1>b, <1>e DEF TicketsInOrder
<1>h. \A t \in TicketValues :
        /\ Dist(t) \in 0..(Tickets - 1)
        /\ t # owner => D(t) = Dist(t) - 1
        /\ t = owner => D(t) = Tickets - 1
  BY <1>f, DistStep
<1>i. \A d \in Inside : d = c
  <2>1. \A d \in Inside : d \in Asked  BY DEF Inside, Asked
  <2> QED  BY <2>1, <1>a, <1>b, <1>e DEF TicketsInOrder, HolderServed
<1>j. Inside = {c}  BY <1>b, <1>i
<1>k. Inside' = {}
  BY <1>f, <1>i DEF Inside
<1>1. SpinlockTypeOK'  BY <1>a, DistOrder DEF SpinlockTypeOK, Unlock
<1>2. TicketsInOrder'
  <2>0. n \in Nat \ {0}  BY <1>b, <1>c, FS_EmptySet
  <2>1. \A d \in Asked' : D(ticket'[d]) < n - 1
    BY <1>a, <1>c, <1>f, <1>g, <1>h, SpinlockAssumption DEF TicketsInOrder
  <2>2. \A d, e \in Asked' : ticket'[d] = ticket'[e] => d = e
    BY <1>a, <1>f, <1>g DEF TicketsInOrder
  <2>3. \A i \in 0..(n - 1 - 1) : \E d \in Asked' : D(ticket'[d]) = i
    <3> TAKE i \in 0..(n - 1 - 1)
    <3>1. i + 1 \in 0..(n - 1)  BY <2>0
    <3>2. PICK d \in Asked : Dist(ticket[d]) = i + 1  BY <3>1, <1>a DEF TicketsInOrder
    <3>3. ticket[d] # owner  BY <3>2, <2>0, <1>f, DistOrder
    <3>4. D(ticket[d]) = i  BY <3>2, <3>3, <1>f, <1>h
    <3>5. d \in Asked'  BY <3>2, <3>3, <1>b, <1>e
    <3> QED  BY <3>4, <3>5, <1>f
  <2>4. n - 1 # Tickets  BY <1>c, <2>0, SpinlockAssumption
  <2>5. D(next') = n - 1
    <3>1. CASE n = Tickets
      <4>1. next = owner  BY <3>1, <1>a DEF TicketsInOrder
      <4> QED  BY <4>1, <3>1, <1>f, <1>h
    <3>2. CASE n # Tickets
      <4>1. Dist(next) = n  BY <3>2, <1>a DEF TicketsInOrder
      <4>2. next # owner  BY <4>1, <2>0, <1>f, DistOrder
      <4> QED  BY <4>1, <4>2, <1>f, <1>h
    <3> QED  BY <3>1, <3>2
  <2> QED  BY <2>1, <2>2, <2>3, <2>4, <2>5, <1>d DEF TicketsInOrder, Dist
<1>3. HolderServed'  BY <1>k DEF HolderServed
<1> QED  BY <1>1, <1>2, <1>3, <1>b, <1>d, <1>e, <1>j, <1>k DEF SpinlockInv

-----------------------------------------------------------------------------
\* The tickets drawn and not yet given back are in order, in every state.
THEOREM InductiveInvariant == SpinlockSpec => []SpinlockInv
<1>1. SpinlockInv /\ [SpinlockNext]_spinlockVars => SpinlockInv'
  <2> SUFFICES ASSUME SpinlockInv, [SpinlockNext]_spinlockVars PROVE SpinlockInv'  OBVIOUS
  <2>1. ASSUME NEW c \in CPUs, Draw(c) PROVE SpinlockInv'  BY <2>1, DrawInv
  <2>2. ASSUME NEW c \in CPUs, Served(c) PROVE SpinlockInv'  BY <2>2, ServedInv
  <2>3. ASSUME NEW c \in CPUs, Unlock(c) PROVE SpinlockInv'  BY <2>3, UnlockInv
  <2>4. CASE UNCHANGED spinlockVars
    BY <2>4 DEF spinlockVars, SpinlockInv, SpinlockTypeOK, TicketsInOrder, HolderServed, Asked, Inside, Dist
  <2> QED  BY <2>1, <2>2, <2>3, <2>4 DEF SpinlockNext
<1> QED  BY SpinlockStarts, <1>1, PTL DEF SpinlockSpec

\* Each CPU that has asked has a ticket of its own, and together they are the
\* tickets from the one now served on, without a gap, also when the tickets
\* wrap around: next is behind them, wherever it is.
THEOREM TicketsLineUp == SpinlockSpec => []TicketsInOrder
<1>1. SpinlockInv => TicketsInOrder  BY DEF SpinlockInv
<1> QED  BY InductiveInvariant, <1>1, PTL

\* Two CPUs are never between spinlock_lock and spinlock_unlock at once,
\* for any number of CPUs up to the number of tickets.
THEOREM Excludes == SpinlockSpec => []MutualExclusion
<1>1. SpinlockInv => MutualExclusion
  BY DEF SpinlockInv, TicketsInOrder, HolderServed, MutualExclusion, Inside, Asked
<1> QED  BY InductiveInvariant, <1>1, PTL

-----------------------------------------------------------------------------
\* Line lists the CPUs that have asked by the distance of their tickets.
LineByDistance ==
  /\ Line \in Seq(CPUs)
  /\ Len(Line) = Cardinality(Asked)
  /\ \A i \in 1..Len(Line) : Line[i] \in Asked /\ Dist(ticket[Line[i]]) = i - 1
  /\ \A c \in Asked : \A i \in 1..Len(Line) : Dist(ticket[c]) = i - 1 => Line[i] = c
  /\ \A c \in Asked : Dist(ticket[c]) + 1 \in 1..Len(Line)

\* The choice in the definition of Line always succeeds, and in one way.
LEMMA LineShape == SpinlockInv => LineByDistance
<1> SUFFICES ASSUME SpinlockInv PROVE LineByDistance  OBVIOUS
<1> DEFINE n == Cardinality(Asked)
           At(i) == CHOOSE c \in Asked : Dist(ticket[c]) = i - 1
<1>a. SpinlockTypeOK /\ TicketsInOrder /\ n \in Nat  BY AskedFinite DEF SpinlockInv
<1>b. \A c \in Asked : c \in CPUs /\ ticket[c] \in TicketValues
  BY <1>a DEF Asked, SpinlockTypeOK
<1>1. \A i \in 1..n : At(i) \in Asked /\ Dist(ticket[At(i)]) = i - 1
  <2> TAKE i \in 1..n
  <2>1. i - 1 \in 0..(n - 1)  BY <1>a
  <2>2. \E c \in Asked : Dist(ticket[c]) = i - 1  BY <2>1, <1>a DEF TicketsInOrder
  <2> QED  BY <2>2
<1>2. Line = [i \in 1..n |-> At(i)]  BY DEF Line
<1> HIDE DEF At, n
<1>3. Line \in Seq(CPUs) /\ Len(Line) = n /\ \A i \in 1..n : Line[i] = At(i)
  <2>1. \A i \in 1..n : At(i) \in CPUs  BY <1>1, <1>b
  <2> QED  BY <1>a, <1>2, <2>1
<1>4. \A c \in Asked : \A i \in 1..n : Dist(ticket[c]) = i - 1 => At(i) = c
  BY <1>1, <1>a, <1>b, DistOrder DEF TicketsInOrder, SpinlockTypeOK
<1>5. \A c \in Asked : Dist(ticket[c]) + 1 \in 1..n
  BY <1>a, <1>b, DistOrder, SpinlockAssumption DEF TicketsInOrder, SpinlockTypeOK, n
<1> QED  BY <1>1, <1>3, <1>4, <1>5 DEF n, LineByDistance

LEMMA LineShapeNext == SpinlockInv' => LineByDistance'
BY LineShape, PTL

\* A CPU is in line exactly if it has asked.
LEMMA InLineAsked ==
  ASSUME SpinlockInv, NEW c \in CPUs
  PROVE  Fifo!InLine(c) <=> c \in Asked
<1>a. LineByDistance  BY LineShape
<1>1. DOMAIN Line = 1..Len(Line)  BY <1>a DEF LineByDistance
<1>2. c \in Asked => \E i \in 1..Len(Line) : Line[i] = c
  <2> SUFFICES ASSUME c \in Asked PROVE \E i \in 1..Len(Line) : Line[i] = c  OBVIOUS
  <2>1. Dist(ticket[c]) \in Nat
    BY DistOrder, SpinlockAssumption DEF SpinlockInv, SpinlockTypeOK, Asked
  <2>2. Dist(ticket[c]) = (Dist(ticket[c]) + 1) - 1  BY <2>1
  <2> QED  BY <2>2, <1>a DEF LineByDistance
<1> QED  BY <1>1, <1>2, <1>a DEF Fifo!InLine, LineByDistance

\* Drawing is asking: a CPU joins the end of the line, and has the lock at
\* once exactly if the line was empty.
LEMMA DrawAsks ==
  ASSUME SpinlockInv, NEW c \in CPUs, Draw(c)
  PROVE  Fifo!Ask(c)
<1> DEFINE n == Cardinality(Asked)
<1>a. LineByDistance /\ LineByDistance'  BY DrawInv, LineShape, LineShapeNext
<1>b. /\ Asked' = Asked \cup {c} /\ c \notin Asked
      /\ Cardinality(Asked') = n + 1
      /\ Dist(next) = n
      /\ owner = next <=> Asked = {}
      /\ n \in Nat
  BY DrawInv, AskedFinite
<1>c. /\ ticket' = [ticket EXCEPT ![c] = next] /\ owner' = owner
      /\ pc' = [pc EXCEPT ![c] = IF owner = next THEN "in" ELSE "wait"]
      /\ ticket \in [CPUs -> TicketValues]
      /\ pc \in [CPUs -> {"out", "wait", "in"}] /\ pc[c] = "out"
  BY DEF Draw, SpinlockInv, SpinlockTypeOK
<1>d. \A t : (IF t >= owner' THEN t - owner' ELSE t - owner' + Tickets) = Dist(t)
  BY <1>c DEF Dist
<1>e. /\ Line \in Seq(CPUs) /\ Len(Line) = n
      /\ Line' \in Seq(CPUs) /\ Len(Line') = n + 1
  BY <1>a, <1>b DEF LineByDistance
<1>1. ~Fifo!InLine(c)  BY <1>b, InLineAsked
<1>2. Line' = Append(Line, c)
  <2>1. \A d \in Asked' : \A i \in 1..(n + 1) : Dist(ticket'[d]) = i - 1 => Line'[i] = d
    BY <1>a, <1>d, <1>e DEF LineByDistance, Dist
  <2>2. Line'[n + 1] = c
    BY <2>1, <1>b, <1>c
  <2>3. \A i \in 1..n : Line'[i] = Line[i]
    <3> TAKE i \in 1..n
    <3>1. Line[i] \in Asked /\ Dist(ticket[Line[i]]) = i - 1
      BY <1>a, <1>e DEF LineByDistance
    <3>2. Line[i] \in Asked' /\ ticket'[Line[i]] = ticket[Line[i]]
      BY <3>1, <1>b, <1>c DEF Asked
    <3>3. i \in 1..(n + 1)  BY <1>b
    <3> QED  BY <3>1, <3>2, <3>3, <2>1
  <2> HIDE DEF n
  <2> QED  BY <2>2, <2>3, <1>b, <1>e
<1>3. Line = <<>> <=> Asked = {}
  <2>1. Asked = {} <=> n = 0  BY AskedFinite, FS_EmptySet
  <2> QED  BY <2>1, <1>e
<1>4. Inside' = IF Line = <<>> THEN {c} ELSE Inside
  <2>1. CASE Asked = {}
    BY <2>1, <1>3, <1>b, <1>c DEF Inside, Asked
  <2>2. CASE Asked # {}
    BY <2>2, <1>3, <1>b, <1>c DEF Inside
  <2> QED  BY <2>1, <2>2
<1> QED  BY <1>1, <1>2, <1>4 DEF Fifo!Ask

\* The ticket that is served belongs to the head of the line.
LEMMA OwnerAtHead ==
  ASSUME SpinlockInv, NEW c \in Asked, ticket[c] = owner
  PROVE  Line # <<>> /\ Head(Line) = c
<1>a. LineByDistance  BY LineShape
<1>1. ticket[c] \in TicketValues  BY DEF SpinlockInv, SpinlockTypeOK, Asked
<1>2. Dist(ticket[c]) = 0  BY <1>1, DistOrder DEF SpinlockInv, SpinlockTypeOK
<1>3. 1 \in 1..Len(Line) /\ 0 = 1 - 1  BY <1>2, <1>a DEF LineByDistance
<1>4. Line[1] = c  BY <1>2, <1>3, <1>a DEF LineByDistance
<1> QED  BY <1>3, <1>4, <1>a DEF LineByDistance

\* Leaving the loop is getting the lock: nobody is inside.
LEMMA ServedGets ==
  ASSUME SpinlockInv, NEW c \in CPUs, Served(c)
  PROVE  Fifo!Get(c)
<1>a. /\ pc \in [CPUs -> {"out", "wait", "in"}] /\ pc[c] = "wait" /\ ticket[c] = owner
      /\ pc' = [pc EXCEPT ![c] = "in"] /\ ticket' = ticket /\ owner' = owner
  BY DEF Served, SpinlockInv, SpinlockTypeOK
<1>b. c \in Asked  BY <1>a DEF Asked
<1>c. Asked' = Asked  BY ServedInv
<1>1. Line # <<>> /\ Head(Line) = c  BY <1>a, <1>b, OwnerAtHead
<1>2. Inside = {}
  BY <1>a, <1>b DEF SpinlockInv, HolderServed, TicketsInOrder, Inside, Asked
<1>3. Inside' = {c}  BY <1>2, <1>a DEF Inside
<1>4. Line' = Line  BY <1>a, <1>c DEF Line, Dist
<1> QED  BY <1>1, <1>2, <1>3, <1>4 DEF Fifo!Get

\* Unlocking is releasing: the head leaves the line and everyone else moves up.
LEMMA UnlockReleases ==
  ASSUME SpinlockInv, NEW c \in CPUs, Unlock(c)
  PROVE  Fifo!Release(c)
<1> DEFINE n == Cardinality(Asked)
           D(t) == IF t >= owner' THEN t - owner' ELSE t - owner' + Tickets
<1>a. LineByDistance /\ LineByDistance'  BY UnlockInv, LineShape, LineShapeNext
<1>b. /\ Asked' = Asked \ {c} /\ c \in Asked /\ ticket[c] = owner
      /\ Cardinality(Asked') = n - 1
      /\ Inside = {c} /\ Inside' = {}
      /\ n \in Nat
  BY UnlockInv, AskedFinite
<1>c. ticket' = ticket /\ owner' = Succ(owner) /\ owner \in TicketValues
  BY DEF Unlock, SpinlockInv, SpinlockTypeOK
<1>d. \A t \in TicketValues : t # owner => D(t) = Dist(t) - 1 /\ Dist(t) \in Nat
  BY <1>c, DistStep, SpinlockAssumption
<1>e. /\ Line \in Seq(CPUs) /\ Len(Line) = n
      /\ Line' \in Seq(CPUs) /\ Len(Line') = n - 1
  BY <1>a, <1>b DEF LineByDistance
<1>1. Line # <<>> /\ Head(Line) = c  BY <1>b, OwnerAtHead
<1>2. \A i \in 1..(n - 1) : Line'[i] = Line[i + 1]
  <2> TAKE i \in 1..(n - 1)
  <2>1. i + 1 \in 1..n  BY <1>b
  <2>2. Line[i + 1] \in Asked /\ Dist(ticket[Line[i + 1]]) = i
    BY <2>1, <1>a, <1>e DEF LineByDistance
  <2>3. ticket[Line[i + 1]] \in TicketValues
    BY <2>2 DEF Asked, SpinlockInv, SpinlockTypeOK
  <2>4. ticket[Line[i + 1]] # owner
    BY <2>2, <2>3, <1>c, DistOrder
  <2>5. Line[i + 1] \in Asked' /\ D(ticket'[Line[i + 1]]) = i - 1
    BY <2>2, <2>3, <2>4, <1>b, <1>c, <1>d
  <2>6. \A d \in Asked' : \A j \in 1..(n - 1) : D(ticket'[d]) = j - 1 => Line'[j] = d
    BY <1>a, <1>e DEF LineByDistance, Dist
  <2> QED  BY <2>5, <2>6
<1>3. Line' = Tail(Line)
  <2> HIDE DEF n
  <2> QED  BY <1>1, <1>2, <1>b, <1>e
<1> QED  BY <1>1, <1>3, <1>b DEF Fifo!Release

\* The lock serves its CPUs in the order in which they drew their tickets:
\* it implements FifoLock.
THEOREM ServesInOrder == SpinlockSpec => FifoSafety
<1>1. SpinlockInit => Fifo!Init
  <2> SUFFICES ASSUME SpinlockInit PROVE Line = <<>> /\ Inside = {}  BY DEF Fifo!Init
  <2>1. Asked = {} /\ Inside = {}  BY DEF SpinlockInit, Asked, Inside
  <2>2. Cardinality(Asked) = 0  BY <2>1, FS_EmptySet
  <2>3. LineByDistance  BY SpinlockStarts, LineShape
  <2> QED  BY <2>1, <2>2, <2>3 DEF LineByDistance
<1>2. SpinlockInv /\ [SpinlockNext]_spinlockVars => [Fifo!Next]_Fifo!vars
  <2> SUFFICES ASSUME SpinlockInv, [SpinlockNext]_spinlockVars PROVE [Fifo!Next]_Fifo!vars  OBVIOUS
  <2>1. ASSUME NEW c \in CPUs, Draw(c) PROVE Fifo!Next
    BY <2>1, DrawAsks DEF Fifo!Next
  <2>2. ASSUME NEW c \in CPUs, Served(c) PROVE Fifo!Next
    BY <2>2, ServedGets DEF Fifo!Next
  <2>3. ASSUME NEW c \in CPUs, Unlock(c) PROVE Fifo!Next
    BY <2>3, UnlockReleases DEF Fifo!Next
  <2>4. CASE UNCHANGED spinlockVars
    BY <2>4 DEF spinlockVars, Fifo!vars, Line, Inside, Asked, Dist
  <2> QED  BY <2>1, <2>2, <2>3, <2>4 DEF SpinlockNext
<1> QED  BY <1>1, <1>2, InductiveInvariant, PTL DEF SpinlockSpec, FifoSafety
=============================================================================
