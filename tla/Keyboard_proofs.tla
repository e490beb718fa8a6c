--------------------------- MODULE Keyboard_proofs ---------------------------
(***************************************************************************)
(* Ctrl is on only while a control key is down, for every keyboard and     *)
(* every bound.  Between a key and the driver are the bytes on the wire:   *)
(* the invariant says what they may be while Ctrl and the keys disagree.   *)
(***************************************************************************)
EXTENDS Keyboard, TLAPS, SequenceTheorems

CtrlHeld == \E k \in down : k.sym = "CTRL"

Flags == [shift : BOOLEAN, altgr : BOOLEAN, ctrl : BOOLEAN, alt : BOOLEAN, extkey : BOOLEAN,
          leds_on : BOOLEAN, altsysrq : BOOLEAN]

\* One or two bytes, and only the last one is a key's.
WireInv ==
  \/ wire = <<>>
  \/ \E k \in keys, up \in BOOLEAN :
       /\ ~up => k \in down
       /\ \/ wire = <<[sym |-> k.sym, up |-> up]>>
          \/ wire = <<[sym |-> "E0", up |-> FALSE], [sym |-> k.sym, up |-> up]>>

\* The release of a control key that the driver has not seen yet.
CtrlRelease == wire # <<>> /\ wire[Len(wire)].sym = "CTRL" /\ wire[Len(wire)].up
CtrlInv == kb.ctrl => CtrlHeld \/ CtrlRelease

IInv ==
  /\ keys \in Keyboards
  /\ kb \in Flags
  /\ WireInv
  /\ CtrlInv

-----------------------------------------------------------------------------
(* What a byte leaves behind.                                              *)

\* A byte is the last one, or the prefix of a key whose byte is left.
LEMMA ByteOfKey ==
  ASSUME WireInv, wire # <<>>
  PROVE  \E k \in keys, up \in BOOLEAN :
           /\ ~up => k \in down
           /\ \/ wire = <<[sym |-> k.sym, up |-> up]>> /\ Byte = [sym |-> k.sym, up |-> up] /\ Tail(wire) = <<>>
              \/ /\ wire = <<[sym |-> "E0", up |-> FALSE], [sym |-> k.sym, up |-> up]>>
                 /\ Byte = [sym |-> "E0", up |-> FALSE] /\ Tail(wire) = <<[sym |-> k.sym, up |-> up]>>
<1>1. PICK k \in keys, up \in BOOLEAN :
        /\ ~up => k \in down
        /\ \/ wire = <<[sym |-> k.sym, up |-> up]>>
           \/ wire = <<[sym |-> "E0", up |-> FALSE], [sym |-> k.sym, up |-> up]>>
  BY DEF WireInv
<1>2. CASE wire = <<[sym |-> k.sym, up |-> up]>>
  <2>1. Head(wire) = [sym |-> k.sym, up |-> up] /\ Tail(wire) = <<>>
    BY <1>2
  <2> QED
    BY <1>1, <1>2, <2>1 DEF Byte
<1>3. CASE wire = <<[sym |-> "E0", up |-> FALSE], [sym |-> k.sym, up |-> up]>>
  <2>1. Head(wire) = [sym |-> "E0", up |-> FALSE] /\ Tail(wire) = <<[sym |-> k.sym, up |-> up]>>
    BY <1>3
  <2> QED
    BY <1>1, <1>3, <2>1 DEF Byte
<1> QED
  BY <1>1, <1>2, <1>3

LEMMA ConcatOne == ASSUME NEW a, NEW b PROVE <<a>> \o <<b>> = <<a, b>>
<1> DEFINE S == {a, b}
<1>1. <<a>> \in Seq(S) /\ <<b>> \in Seq(S) /\ <<a, b>> \in Seq(S)
  OBVIOUS
<1>2. Len(<<a>>) = 1 /\ Len(<<b>>) = 1 /\ Len(<<a, b>>) = 2
  OBVIOUS
<1>3. /\ <<a>> \o <<b>> \in Seq(S)
      /\ Len(<<a>> \o <<b>>) = 2
      /\ \A i \in 1..2 : (<<a>> \o <<b>>)[i] = IF i <= 1 THEN <<a>>[i] ELSE <<b>>[i - 1]
  BY <1>1, <1>2, ConcatProperties
<1>4. \A i \in 1..2 : (<<a>> \o <<b>>)[i] = <<a, b>>[i]
  BY <1>3
<1> QED
  BY <1>1, <1>2, <1>3, <1>4, SeqEqual

\* A key sends one byte or two.
LEMMA SendsBytes ==
  ASSUME NEW k, NEW up
  PROVE  \/ Sends(k, up) = <<[sym |-> k.sym, up |-> up]>>
         \/ Sends(k, up) = <<[sym |-> "E0", up |-> FALSE], [sym |-> k.sym, up |-> up]>>
<1>1. CASE k.ext
  <2>1. <<[sym |-> "E0", up |-> FALSE]>> \o <<[sym |-> k.sym, up |-> up]>>
          = <<[sym |-> "E0", up |-> FALSE], [sym |-> k.sym, up |-> up]>>
    BY ONLY ConcatOne
  <2> QED
    BY <1>1, <2>1 DEF Sends
<1>2. CASE ~k.ext
  <2>1. <<>> \o <<[sym |-> k.sym, up |-> up]>> = <<[sym |-> k.sym, up |-> up]>>
    OBVIOUS
  <2> QED
    BY <1>2, <2>1 DEF Sends
<1> QED
  BY <1>1, <1>2

\* The bytes that are left are those of a key as well.
LEMMA ReceiveKeepsWire ==
  ASSUME WireInv, Receive
  PROVE  WireInv'
<1>1. PICK k \in keys, up \in BOOLEAN :
        /\ ~up => k \in down
        /\ \/ wire = <<[sym |-> k.sym, up |-> up]>> /\ Byte = [sym |-> k.sym, up |-> up] /\ Tail(wire) = <<>>
           \/ /\ wire = <<[sym |-> "E0", up |-> FALSE], [sym |-> k.sym, up |-> up]>>
              /\ Byte = [sym |-> "E0", up |-> FALSE] /\ Tail(wire) = <<[sym |-> k.sym, up |-> up]>>
  BY ByteOfKey DEF Receive
<1> QED
  BY <1>1 DEF WireInv, Receive

\* As long as the byte is not the release of a control key, that release is still to come.
LEMMA ReceiveKeepsRelease ==
  ASSUME WireInv, Receive, CtrlRelease, ~(Byte.sym = "CTRL" /\ Byte.up)
  PROVE  CtrlRelease'
<1>1. PICK k \in keys, up \in BOOLEAN :
        /\ ~up => k \in down
        /\ \/ wire = <<[sym |-> k.sym, up |-> up]>> /\ Byte = [sym |-> k.sym, up |-> up] /\ Tail(wire) = <<>>
           \/ /\ wire = <<[sym |-> "E0", up |-> FALSE], [sym |-> k.sym, up |-> up]>>
              /\ Byte = [sym |-> "E0", up |-> FALSE] /\ Tail(wire) = <<[sym |-> k.sym, up |-> up]>>
  BY ByteOfKey DEF Receive
<1>2. CASE wire = <<[sym |-> k.sym, up |-> up]>> /\ Byte = [sym |-> k.sym, up |-> up]
  BY <1>2 DEF CtrlRelease
<1>3. CASE /\ wire = <<[sym |-> "E0", up |-> FALSE], [sym |-> k.sym, up |-> up]>>
           /\ Tail(wire) = <<[sym |-> k.sym, up |-> up]>>
  BY <1>3 DEF CtrlRelease, Receive
<1> QED
  BY <1>1, <1>2, <1>3

\* A control key whose byte comes is down, or was released.
LEMMA CtrlByteHeld ==
  ASSUME WireInv, wire # <<>>, Byte.sym = "CTRL", ~Byte.up
  PROVE  CtrlHeld
BY ByteOfKey DEF CtrlHeld

\* What a release takes back are flags.
LEMMA ReleasedFlags ==
  ASSUME NEW k, kb \in Flags
  PROVE  Released(k) \in Flags
<1>1. CASE k = "CTRL"
  BY <1>1 DEF Released, Flags
<1>2. CASE k = "ALT"
  <2>1. CASE kb.extkey
    BY <1>2, <2>1 DEF Released, Flags
  <2>2. CASE ~kb.extkey
    BY <1>2, <2>2 DEF Released, Flags
  <2> QED
    BY <2>1, <2>2
<1>3. CASE k = "SHIFT"
  <2>1. Released(k) = [kb EXCEPT !.shift = kb.shift /\ kb.extkey]
    BY <1>3 DEF Released, Locks, Flags
  <2>2. (kb.shift /\ kb.extkey) \in BOOLEAN
    OBVIOUS
  <2> QED
    BY <2>1, <2>2 DEF Flags
<1>4. CASE k \in Locks
  BY <1>4 DEF Released, Flags, Locks
<1>5. CASE k \notin {"CTRL", "ALT", "SHIFT"} \cup Locks
  BY <1>5 DEF Released, Flags
<1> QED
  BY <1>1, <1>2, <1>3, <1>4, <1>5

-----------------------------------------------------------------------------
LEMMA InitIInv == ASSUME Init PROVE IInv
BY DEF Init, IInv, Flags, WireInv, CtrlInv

\* A byte that leaves Ctrl as it is.
LEMMA OtherByte ==
  ASSUME IInv, Receive, kb' \in Flags, kb'.ctrl = kb.ctrl, ~(Byte.sym = "CTRL" /\ Byte.up)
  PROVE  IInv'
<1>1. WireInv' /\ (keys \in Keyboards)'
  BY ReceiveKeepsWire DEF IInv, Receive
<1>2. CtrlHeld => CtrlHeld'
  BY DEF CtrlHeld, Receive
<1>3. CtrlRelease => CtrlRelease'
  BY ReceiveKeepsRelease DEF IInv
<1> QED
  BY <1>1, <1>2, <1>3 DEF IInv, CtrlInv

LEMMA InterruptStep == ASSUME IInv, Interrupt PROVE IInv'
<1>1. CASE Prefix
  <2>1. kb' \in Flags /\ kb'.ctrl = kb.ctrl /\ Receive /\ ~(Byte.sym = "CTRL" /\ Byte.up)
    BY <1>1 DEF Prefix, IInv, Flags
  <2> QED
    BY <2>1, OtherByte
<1>2. CASE KeyUp
  <2>1. Receive /\ Byte.up /\ kb' = [Released(Byte.sym) EXCEPT !.extkey = FALSE]
    BY <1>2 DEF KeyUp
  <2>2. Released(Byte.sym) \in Flags
    BY ReleasedFlags DEF IInv
  <2>3. kb' \in Flags
    BY <2>1, <2>2 DEF Flags
  <2>4. CASE Byte.sym = "CTRL"
    <3>1. Released(Byte.sym) = [kb EXCEPT !.ctrl = FALSE]
      BY <2>4 DEF Released, Locks
    <3>2. ~kb'.ctrl
      BY <2>1, <3>1 DEF Flags, IInv
    <3> QED
      BY <2>1, <2>3, <3>2, ReceiveKeepsWire DEF IInv, CtrlInv, Receive
  <2>5. CASE Byte.sym # "CTRL"
    <3>1. Released(Byte.sym).ctrl = kb.ctrl
      BY <2>5 DEF Released, Flags, IInv
    <3>2. kb'.ctrl = kb.ctrl
      BY <2>1, <2>2, <3>1 DEF Flags
    <3> QED
      BY <2>1, <2>3, <2>5, <3>2, OtherByte
  <2> QED
    BY <2>4, <2>5
<1>3. CASE LockDown
  <2>1. kb' \in Flags /\ kb'.ctrl = kb.ctrl /\ Receive /\ ~Byte.up
    BY <1>3 DEF LockDown, IInv, Flags
  <2> QED
    BY <2>1, OtherByte
<1>4. CASE ModifierDown
  <2>1. Receive /\ ~Byte.up /\ Byte.sym \in {"CTRL", "ALT", "SHIFT"}
    BY <1>4 DEF ModifierDown
  <2>2. CASE Byte.sym = "CTRL"
    <3>1. kb' \in Flags
      BY <1>4, <2>2 DEF ModifierDown, IInv, Flags
    <3>2. CtrlHeld'
      BY <2>1, <2>2, CtrlByteHeld DEF CtrlHeld, Receive, IInv
    <3> QED
      BY <2>1, <3>1, <3>2, ReceiveKeepsWire DEF IInv, CtrlInv, Receive
  <2>3. CASE Byte.sym # "CTRL"
    <3>1. kb' \in Flags /\ kb'.ctrl = kb.ctrl
      BY <1>4, <2>1, <2>3 DEF ModifierDown, IInv, Flags
    <3> QED
      BY <2>1, <3>1, OtherByte
  <2> QED
    BY <2>2, <2>3
<1>5. CASE KeyDown
  <2>1. kb' \in Flags /\ kb'.ctrl = kb.ctrl /\ Receive /\ ~Byte.up
    BY <1>5 DEF KeyDown, IInv, Flags
  <2> QED
    BY <2>1, OtherByte
<1> QED
  BY <1>1, <1>2, <1>3, <1>4, <1>5 DEF Interrupt

\* A key is pressed or released only when the driver has seen all bytes before.
LEMMA KeyStep ==
  ASSUME IInv, NEW k \in keys, Press(k) \/ Release(k)
  PROVE  IInv'
<1>1. wire = <<>> /\ k \in keys' /\ kb' \in Flags /\ kb' = kb /\ (keys \in Keyboards)'
  BY DEF Press, Release, IInv
<1>2. CASE Press(k)
  <2>1. wire' = Sends(k, FALSE) /\ k \in down' /\ down \subseteq down'
    BY <1>2 DEF Press
  <2>2. WireInv'
    BY <1>1, <2>1, SendsBytes DEF WireInv
  <2>3. CtrlHeld => CtrlHeld'
    BY <2>1 DEF CtrlHeld
  <2> QED
    BY <1>1, <2>2, <2>3 DEF IInv, CtrlInv, CtrlRelease
<1>3. CASE Release(k)
  <2>1. wire' = Sends(k, TRUE) /\ down' = down \ {k}
    BY <1>3 DEF Release
  <2>2. WireInv'
    BY <1>1, <2>1, SendsBytes DEF WireInv
  <2>3. CASE k.sym = "CTRL"
    <3>1. wire' = <<[sym |-> k.sym, up |-> TRUE]>> => CtrlRelease'
      BY <2>3 DEF CtrlRelease
    <3>2. wire' = <<[sym |-> "E0", up |-> FALSE], [sym |-> k.sym, up |-> TRUE]>> => CtrlRelease'
      BY <2>3 DEF CtrlRelease
    <3>3. CtrlRelease'
      BY <2>1, <3>1, <3>2, SendsBytes
    <3> QED
      BY <1>1, <2>2, <3>3 DEF IInv, CtrlInv
  <2>4. CASE k.sym # "CTRL"
    <3>1. CtrlHeld => CtrlHeld'
      BY <2>1, <2>4 DEF CtrlHeld
    <3> QED
      BY <1>1, <2>2, <3>1 DEF IInv, CtrlInv, CtrlRelease
  <2> QED
    BY <2>3, <2>4
<1> QED
  BY <1>2, <1>3

\* Neither the bottom half nor a stuttering step touches keys, wire or modifiers.
LEMMA OtherStep ==
  ASSUME IInv, BhEnter \/ BottomHalf \/ UNCHANGED vars
  PROVE  IInv'
<1>1. UNCHANGED <<keys, down, wire, kb>>
  BY DEF BhEnter, BottomHalf, BhCarryOut, BhClear, BhStartStop, BhFlag, BhClearBoth, BhInput, vars
<1> QED
  BY <1>1 DEF IInv, WireInv, CtrlInv, CtrlHeld, CtrlRelease

\* Spec => []CtrlFollowsKeys: with all bytes seen, Ctrl is on only while one of the control keys is
\* down (the flags of keyboard_irq).
THEOREM CtrlNeverSticks == Spec => []CtrlFollowsKeys
<1>1. Init => IInv
  BY InitIInv
<1>2. IInv /\ [Next]_vars => IInv'
  BY InterruptStep, KeyStep, OtherStep DEF Next
<1>3. IInv => CtrlFollowsKeys
  BY DEF IInv, CtrlInv, CtrlRelease, CtrlHeld, CtrlFollowsKeys
<1> QED
  BY <1>1, <1>2, <1>3, PTL DEF Spec
=============================================================================
