-------------------------------- MODULE Ps2 ---------------------------------
(***************************************************************************)
(* How the PS/2 controller and its keyboard are set up (ps2_init,          *)
(* keyboard_init, keyboard_identify), byte by byte.  A byte that cannot be *)
(* written in time is dropped, and one that does not come in time is read  *)
(* as 0 and stays for the next read.  The controller and the keyboard are  *)
(* the hardware the code is written for.                                   *)
(***************************************************************************)
EXTENDS Integers, Sequences, SequencesExt

CONSTANTS
  MaxFaults   \* bound: writes dropped and reads that time out

VARIABLE ps2

Bit(byte, b) == (byte \div b) % 2 = 1
Set(byte, b) == IF Bit(byte, b) THEN byte ELSE byte + b
Clear(byte, b) == IF Bit(byte, b) THEN byte - b ELSE byte

IRQ1 == 1
IRQ2 == 2
OFF1 == 16
OFF2 == 32
TRANSLATE == 64
SELF_OK == 85
ACK == 250
RESET_OK == 170
RESEND == 254

-----------------------------------------------------------------------------
(* The steps of the program: a byte for the command port or the data port, *)
(* an answer, an acknowledge, the buffer emptied, a decision.              *)

Cmd(c) == [do |-> "cmd", arg |-> c]
Data(v) == [do |-> "data", arg |-> v]
Read(into) == [do |-> "read", arg |-> into]
Await == [do |-> "await", arg |-> ""]
ClearBuffer == [do |-> "clear", arg |-> ""]
Decide(what) == [do |-> "decide", arg |-> what]
Configure(v) == <<Cmd("send"), Data(v)>>
Ask(into) == <<Cmd("recv"), Read(into)>>

Start ==
  <<Cmd("disable1"), Cmd("disable2"), [do |-> "flush", arg |-> ""]>> \o Ask("config")
    \o Configure("quiet") \o <<Cmd("self"), Read("got"), Decide("self")>>

\* The second channel is there when its disable bit is set, and cleared by enabling it.
SecondChannel == <<Cmd("enable2")>> \o Ask("got") \o <<Decide("second"), Cmd("disable2")>>

\* The translation bit is tried and put back; what came of it is not used.
Types == Ask("config") \o Configure("translated") \o Ask("got") \o Configure("config")

\* Seeded fault: the final configuration does not ask for translation.
FinishUntranslated(chans) == IF chans > 1 THEN IRQ1 + IRQ2 ELSE IRQ1
Finish(chans) == (IF chans > 1 THEN IRQ1 + IRQ2 ELSE IRQ1) + TRANSLATE

\* keyboard_identify: the set that is in use is asked for untranslated, and set 2 is chosen.
Identify ==
  <<Data("disable"), Await, Data("identify"), Await, Read("got"), Read("got")>> \o Ask("config")
    \o Configure("untranslated") \o <<Data("getset"), Await, Data("zero"), Await, Read("got"), Decide("set")>>
    \o Configure("config") \o <<Data("enable"), Await, ClearBuffer>>

KeyboardInit ==
  <<Data("reset"), Await, Read("got"), ClearBuffer>> \o Identify \o <<Data("rate"), Await, Data("delay"), Await>>

Init ==
  \E second, works, keyboard \in BOOLEAN, left \in {<<>>, <<28>>} :
    ps2 = [todo |-> Start, config |-> 0, got |-> 0, chans |-> 0, dropped |-> FALSE, late |-> FALSE, faults |-> 0,
           second |-> second, works |-> works, keyboard |-> keyboard,
           out |-> left, byte |-> IRQ1 + TRANSLATE, waits |-> "no", scanning |-> TRUE, set |-> 2, kbwaits |-> "no"]

-----------------------------------------------------------------------------
(* The hardware.                                                           *)

Controller(p, c) ==
  CASE c = "disable1" -> [p EXCEPT !.byte = Set(@, OFF1)]
    [] c = "enable1" -> [p EXCEPT !.byte = Clear(@, OFF1)]
    [] c = "disable2" -> [p EXCEPT !.byte = IF p.second THEN Set(@, OFF2) ELSE @]
    [] c = "enable2" -> [p EXCEPT !.byte = Clear(@, OFF2)]
    [] c = "recv" -> [p EXCEPT !.out = Append(@, p.byte)]
    [] c = "send" -> [p EXCEPT !.waits = "config"]
    [] c = "self" -> [p EXCEPT !.out = Append(@, IF p.works THEN SELF_OK ELSE 252)]
    [] c \in {"test1", "test2", "iface"} -> [p EXCEPT !.out = Append(@, 0)]

Answers(p, bytes) == [p EXCEPT !.out = @ \o bytes]
KeyboardTakes(p, v) ==
  CASE p.kbwaits = "rate" -> [Answers(p, <<ACK>>) EXCEPT !.kbwaits = "no"]
    [] p.kbwaits = "set" -> [Answers(p, IF v = "zero" THEN <<ACK, IF Bit(p.byte, TRANSLATE) THEN 65 ELSE p.set>> ELSE <<ACK>>)
                               EXCEPT !.kbwaits = "no", !.set = IF v = "two" THEN 2 ELSE @]
    [] v = "reset" -> [Answers(p, <<ACK, RESET_OK>>) EXCEPT !.scanning = TRUE]
    [] v = "identify" -> Answers(p, <<ACK, 171, 131>>)
    [] v = "disable" -> [Answers(p, <<ACK>>) EXCEPT !.scanning = FALSE]
    [] v = "enable" -> [Answers(p, <<ACK>>) EXCEPT !.scanning = TRUE]
    [] v = "rate" -> [Answers(p, <<ACK>>) EXCEPT !.kbwaits = "rate"]
    [] v = "getset" -> [Answers(p, <<ACK>>) EXCEPT !.kbwaits = "set"]
    [] OTHER -> Answers(p, <<RESEND>>)

\* The byte a name stands for.
Value(v) ==
  CASE v = "quiet" -> Clear(Clear(Clear(ps2.config, IRQ1), IRQ2), TRANSLATE)
    [] v = "translated" -> Set(ps2.config, TRANSLATE)
    [] v = "untranslated" -> Clear(ps2.config, TRANSLATE)
    [] v = "final" -> Finish(ps2.chans)
    [] OTHER -> ps2.config

Delivered(p, v) ==
  IF p.waits = "config" THEN [p EXCEPT !.waits = "no", !.byte = Value(v)]
  ELSE IF p.keyboard /\ ~Bit(p.byte, OFF1) THEN KeyboardTakes(p, v) ELSE p

-----------------------------------------------------------------------------
(* The program.                                                            *)

Step == Head(ps2.todo)
Rest == [ps2 EXCEPT !.todo = Tail(@)]
Doing(what) == ps2.todo # <<>> /\ Step.do = what
MayFail == ps2.faults < MaxFaults

Write ==
  \/ Doing("cmd") /\ ps2' = Controller(Rest, Step.arg)
  \/ Doing("data") /\ ps2' = Delivered(Rest, Step.arg)

\* is_ready_to_write gives up.
WriteDropped ==
  /\ Doing("cmd") \/ Doing("data")
  /\ MayFail
  /\ ps2' = [Rest EXCEPT !.dropped = TRUE, !.faults = @ + 1]

Took(p, into, byte) == IF into = "config" THEN [p EXCEPT !.config = byte] ELSE [p EXCEPT !.got = byte]
ReadByte ==
  /\ Doing("read")
  /\ ps2' = IF ps2.out = <<>> THEN Took(Rest, Step.arg, 0)
            ELSE [Took(Rest, Step.arg, Head(ps2.out)) EXCEPT !.out = Tail(@)]

\* is_ready_to_read gives up, and the answer comes later.
ReadLate ==
  /\ Doing("read") /\ ps2.out # <<>> /\ MayFail
  /\ ps2' = [Took(Rest, Step.arg, 0) EXCEPT !.late = TRUE, !.faults = @ + 1]

\* Everything up to the acknowledge, or everything.
AwaitAck ==
  /\ Doing("await")
  /\ LET n == SelectInSeq(ps2.out, LAMBDA b : b = ACK)
     IN  ps2' = [Rest EXCEPT !.out = IF n = 0 THEN <<>> ELSE SubSeq(@, n + 1, Len(@))]
AwaitLate == Doing("await") /\ ps2.out # <<>> /\ MayFail /\ ps2' = [Rest EXCEPT !.late = TRUE, !.faults = @ + 1]

\* ps2_clear_buffer, and the single byte read at the start.
Empty ==
  \/ Doing("clear") /\ ps2' = [Rest EXCEPT !.out = <<>>]
  \/ Doing("flush") /\ ps2' = [Rest EXCEPT !.out = IF @ = <<>> THEN @ ELSE Tail(@)]

\* The steps that follow are put before those that are left.
Then(p, steps) == [p EXCEPT !.todo = steps \o @]
Deciding ==
  /\ Doing("decide")
  /\ LET what == Step.arg
     IN  ps2' =
       CASE what = "self" ->
              IF ps2.got # SELF_OK THEN Rest
              ELSE Then([Rest EXCEPT !.chans = 1],
                        (IF Bit(ps2.config, OFF2) THEN SecondChannel ELSE <<>>) \o <<Cmd("test1"), Read("got"), Decide("tests")>>)
         [] what = "second" -> IF Bit(ps2.got, OFF2) THEN Rest ELSE [Rest EXCEPT !.chans = @ + 1]
         [] what = "tests" ->
              Then(Rest, (IF ps2.chans > 1 THEN <<Cmd("test2"), Read("got")>> ELSE <<>>) \o Types
                           \o Configure("final") \o <<ClearBuffer, Cmd("iface"), Read("got"), Cmd("enable1")>> \o KeyboardInit)
         [] what = "set" -> IF ps2.got = 2 THEN Rest ELSE Then(Rest, <<Data("getset"), Data("two"), Await>>)

Next == Write \/ WriteDropped \/ ReadByte \/ ReadLate \/ AwaitAck \/ AwaitLate \/ Empty \/ Deciding
Spec == Init /\ [][Next]_ps2

-----------------------------------------------------------------------------
Done == ps2.todo = <<>>
Listening == ~Bit(ps2.byte, OFF1) /\ Bit(ps2.byte, IRQ1) /\ Bit(ps2.byte, TRANSLATE)

\* With a controller that works and no time-out the keyboard is left enabled, scanning in set 2, its
\* interrupt and the translation on, with no answer left to be taken for a key, and there are as many
\* channels as there are.  With at most one time-out (MaxFaults = 1): an answer that comes late, the
\* self test's excepted, leaves it scanning nonetheless; a controller that fails its test is never
\* left to interrupt.
Ps2Exact ==
  Done =>
    /\ ps2.works /\ ps2.faults = 0 =>
         /\ Listening
         /\ ps2.keyboard => ps2.scanning /\ ps2.set = 2 /\ ps2.kbwaits = "no"
         /\ ps2.out = <<>>
         /\ Bit(ps2.byte, IRQ2) <=> ps2.second
    /\ ps2.chans > 0 /\ ~ps2.dropped /\ ps2.keyboard => ps2.scanning
    /\ ~ps2.works => ~Listening
=============================================================================
