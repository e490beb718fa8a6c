-------------------------------- MODULE Tty ---------------------------------
(***************************************************************************)
(* A terminal (tty.c) between its keyboard and the processes that use it.  *)
(* The keyboard's interrupt puts characters into read_q; its bottom half   *)
(* moves them to cooked_q, editing the line on the way; tty_read takes     *)
(* them from there, and tty_write fills write_q, which the console empties *)
(* unless it is stopped.  The bottom half runs with interrupts on, on top  *)
(* of the process that was interrupted, and other interrupts bring further *)
(* instances of it: only AREA_TTY_READ keeps those apart.                  *)
(*                                                                         *)
(* The queues are taken by what module CharQueue promises of them.  What   *)
(* is in write_q is abstracted to how much is.                             *)
(***************************************************************************)
EXTENDS Integers, Sequences, FiniteSets, SequencesExt

CONSTANTS
  MaxTyped,   \* bound: characters typed
  Limit,      \* characters a queue takes
  MaxNested,  \* bound: instances of the bottom half on top of each other
  Settings,   \* the settings of the terminal: flags, VMIN and VTIME of c_cc, and the keys typed
  Counts      \* the sizes of the buffers given to tty_read and tty_write

ASSUME TtyAssumption ==
  /\ MaxTyped \in Nat /\ Limit \in Nat \ {0} /\ MaxNested \in Nat \ {0}
  /\ Counts \subseteq Nat \ {0}
  /\ \A s \in Settings : s.vmin \in Nat /\ s.vtime \in Nat

\* The control characters of termios_reset.
VINTR == "^C"
VQUIT == "^|"
VSUSP == "^Z"
VERASE == "BS"
VWERASE == "^W"
VKILL == "^U"
VREPRINT == "^R"
VLNEXT == "^V"
VSTART == "^Q"
VSTOP == "^S"
VEOF == "^D"
VEOL == "NL"

Space == {"SP", "TAB", "NL", "CR"}
Control == {VINTR, VQUIT, VSUSP, VERASE, VWERASE, VKILL, VREPRINT, VLNEXT, VSTART, VSTOP, VEOF}

\* The flags a terminal starts with.
ResetFlags == {"ICRNL", "IXON", "OPOST", "ONLCR", "ISIG", "ICANON", "ECHO", "ECHOE", "ECHOK",
               "ECHOCTL", "IEXTEN"}

\* The header's predicates on characters, as they are written there.
is_eof_char(ch) == ch # VEOF
is_eol_char(ch) == ch # VEOL

VARIABLES
  read_q, cooked_q,   \* sequences of [id, ch]; id numbers what was typed
  write_q,            \* how many characters it holds
  lnext,              \* TTY_HAS_LNEXT of tty->flags
  stopped,            \* the console's scrlock_on
  area,               \* AREA_TTY_READ is locked
  bh,                 \* the running instances of the bottom half, the innermost last
  typed,              \* how many characters were typed
  set,                \* the setting, which nothing changes
  reader, writer,     \* the process in tty_read and the one in tty_write
  released,           \* history: scroll lock started the console, and nothing called its output since
  left,               \* history: what is in read_q has no run of the bottom half to come
  taken               \* history: the id of the last character tty_read took
queues == <<read_q, cooked_q, write_q>>
history == <<released, left>>
vars == <<queues, lnext, stopped, area, bh, typed, set, reader, writer, history, taken>>

On(flag) == flag \in set.flags
Canonical == On("ICANON")

Idle == [pc |-> "user", count |-> 0, nonblock |-> FALSE, n |-> 0, min |-> 0, expired |-> FALSE]

Init ==
  /\ read_q = <<>> /\ cooked_q = <<>> /\ write_q = 0
  /\ lnext = FALSE /\ stopped = FALSE /\ area = FALSE
  /\ bh = <<>> /\ typed = 0
  /\ set \in Settings
  /\ reader = Idle /\ writer = [pc |-> "user", n |-> 0, count |-> 0, nonblock |-> FALSE]
  /\ released = FALSE /\ left = FALSE /\ taken = 0

-----------------------------------------------------------------------------
(* Output.                                                                 *)

Min2(a, b) == IF a < b THEN a ELSE b

\* charq_put_char, n times; what does not fit is dropped.
Out(w, n) == Min2(w + n, Limit)

\* opost: a newline needs room for two characters.
Opost(w, ch) ==
  IF ch = "NL" /\ On("OPOST") /\ On("ONLCR")
    THEN IF Limit - w >= 2 THEN w + 2 ELSE w
    ELSE Out(w, 1)

OutChar(w, ch) ==
  IF ch \in Control /\ On("ECHOCTL")
    THEN IF lnext \/ is_eof_char(ch) THEN Out(w, 2) ELSE w
    ELSE Opost(w, ch)

\* tty->output: the console takes all of write_q unless it is stopped.
Drained(w) == IF stopped THEN w ELSE 0

-----------------------------------------------------------------------------
(* The line editor.                                                        *)

IsBlank(c) == c.ch \in {"SP", "TAB"}

LastIndex(S) == IF S = {} THEN 0 ELSE CHOOSE i \in S : \A j \in S : j <= i

\* How much of the line the word-erase character leaves.
BeforeWord(q) ==
  LET w == LastIndex({i \in 1..Len(q) : ~IsBlank(q[i])}) IN LastIndex({i \in 1..w : IsBlank(q[i])})

Left(q, ch) ==
  CASE ch = VERASE -> IF q = <<>> THEN 0 ELSE Len(q) - 1
    [] ch = VWERASE -> BeforeWord(q)
    [] OTHER -> 0

\* The echo of one erased character.  charq_unput_char returns RET_OK whatever the queue holds,
\* and erase_char takes that for the character, a control character.
EraseEcho == IF On("ECHO") THEN IF On("ECHOCTL") THEN 6 ELSE 3 ELSE 0

Edit(ch) ==
  LET erased == IF ch = VERASE THEN 1 ELSE Len(cooked_q) - Left(cooked_q, ch)
      w == Out(write_q, erased * EraseEcho)
  IN /\ cooked_q' = SubSeq(cooked_q, 1, Left(cooked_q, ch))
     /\ write_q' = IF ch = VKILL /\ On("ECHOK") /\ ~On("ECHOE") THEN Out(w, 1) ELSE w

Reprint ==
  write_q' = FoldLeft(LAMBDA w, c : OutChar(w, c.ch), Out(OutChar(write_q, VREPRINT), 1), cooked_q)

\* What becomes of carriage returns and newlines.
Mapped(ch) ==
  CASE lnext -> ch
    [] ch = "CR" /\ On("ICRNL") -> "NL"
    [] ch = "NL" /\ On("INLCR") -> "CR"
    [] OTHER -> ch

-----------------------------------------------------------------------------
(* The keyboard's interrupt and bottom half.                               *)

Top == bh[Len(bh)]
Goto(pc) == bh' = [bh EXCEPT ![Len(bh)].pc = pc]
Return == bh' = Front(bh)

Enter == bh' = Append(bh, [pc |-> "look", c |-> [id |-> 0, ch |-> "NUL"]])

\* keyboard_irq with its putc; a full queue loses the character.  The handler marks the bottom half
\* active, and the end of this interrupt runs it.
Type(ch) ==
  /\ typed < MaxTyped /\ Len(bh) < MaxNested
  /\ typed' = typed + 1
  /\ read_q' = IF Len(read_q) < Limit THEN Append(read_q, [id |-> typed + 1, ch |-> ch]) ELSE read_q
  /\ Enter
  /\ left' = (left /\ read_q # <<>>)
  /\ UNCHANGED <<cooked_q, write_q, lnext, stopped, area, set, reader, writer, released, taken>>

\* The scroll-lock key, by way of the bottom half: tty->start does not call tty->output.
ScrollLock ==
  /\ stopped' = ~stopped
  /\ released' = (stopped /\ write_q > 0)
  /\ UNCHANGED <<queues, lnext, area, bh, typed, set, reader, writer, left, taken>>

\* The bottom half marks itself active again in each run, so once a key was pressed the end of
\* every other interrupt brings another run of it, if there are others.
BhEnter ==
  /\ typed > 0 /\ Len(bh) < MaxNested
  /\ Enter
  /\ UNCHANGED <<queues, lnext, stopped, area, typed, set, reader, writer, history, taken>>

\* lock_area(AREA_TTY_READ) by an instance that finds characters in read_q.
\* Seeded fault: the answer of lock_area is not looked at.
LookUnlocked ==
  /\ Top.pc = "look"
  /\ IF read_q = <<>> THEN Return /\ UNCHANGED area ELSE Goto("loop") /\ area' = TRUE
  /\ UNCHANGED <<queues, lnext, stopped, typed, set, reader, writer, history, taken>>

\* The one that has the area looks at read_q again, unless it is past its loop.
Look ==
  /\ Top.pc = "look"
  /\ IF read_q = <<>> \/ area
       THEN /\ Return /\ UNCHANGED area
            /\ left' = (left \/ \E k \in DOMAIN bh : bh[k].pc = "end")
       ELSE Goto("loop") /\ area' = TRUE /\ left' = FALSE
  /\ UNCHANGED <<queues, lnext, stopped, typed, set, reader, writer, released, taken>>

\* The head of tty_cook_input's loop.
CookNext ==
  /\ Top.pc = "loop" /\ read_q # <<>>
  /\ bh' = [bh EXCEPT ![Len(bh)] = [pc |-> "char", c |-> Head(read_q)]]
  /\ read_q' = Tail(read_q)
  /\ UNCHANGED <<cooked_q, write_q, lnext, stopped, area, typed, set, reader, writer, history, taken>>

IsSignal(ch) == On("ISIG") /\ ~lnext /\ ch \in {VINTR, VQUIT, VSUSP}
IsEdit(ch) == Canonical /\ ~lnext /\ ch \in {VERASE, VWERASE, VKILL}
IsReprint(ch) == Canonical /\ ~lnext /\ ch = VREPRINT
IsLnext(ch) == Canonical /\ ~lnext /\ ch = VLNEXT /\ On("IEXTEN")
IsFlow(ch) == Canonical /\ ~lnext /\ On("IXON") /\ ch \in {VSTART, VSTOP}

\* Seeded fault: a signal character leaves tty_cook_input at once.
CookSignalReturns ==
  /\ Top.pc = "char" /\ IsSignal(Top.c.ch)
  /\ IF Top.c.ch = VINTR /\ ~On("NOFLSH")
       THEN read_q' = <<>> /\ cooked_q' = <<>>
       ELSE UNCHANGED <<read_q, cooked_q>>
  /\ area' = FALSE /\ Return
  /\ UNCHANGED <<write_q, lnext, stopped, typed, set, reader, writer, history, taken>>

\* A signal character is not stored; the rest of read_q is left for the next run.
CookSignal ==
  /\ Top.pc = "char" /\ IsSignal(Top.c.ch)
  /\ IF Top.c.ch = VINTR /\ ~On("NOFLSH")
       THEN read_q' = <<>> /\ cooked_q' = <<>>
       ELSE UNCHANGED <<read_q, cooked_q>>
  /\ Goto("end") /\ left' = (read_q' # <<>>)
  /\ UNCHANGED <<write_q, lnext, stopped, area, typed, set, reader, writer, released, taken>>

CookEdit ==
  /\ Top.pc = "char" /\ IsEdit(Top.c.ch)
  /\ Edit(Top.c.ch)
  /\ Goto("loop")
  /\ UNCHANGED <<read_q, lnext, stopped, area, typed, set, reader, writer, history, taken>>

CookReprint ==
  /\ Top.pc = "char" /\ IsReprint(Top.c.ch)
  /\ Reprint
  /\ Goto("loop")
  /\ UNCHANGED <<read_q, cooked_q, lnext, stopped, area, typed, set, reader, writer, history, taken>>

CookLnext ==
  /\ Top.pc = "char" /\ IsLnext(Top.c.ch)
  /\ lnext' = TRUE
  /\ write_q' = IF On("ECHOCTL") THEN Out(write_q, 2) ELSE write_q
  /\ Goto("end") /\ left' = (read_q # <<>>)
  /\ UNCHANGED <<read_q, cooked_q, stopped, area, typed, set, reader, writer, released, taken>>

CookFlow ==
  /\ Top.pc = "char" /\ IsFlow(Top.c.ch)
  /\ stopped' = (Top.c.ch = VSTOP)
  /\ Goto("loop")
  /\ UNCHANGED <<queues, lnext, area, typed, set, reader, writer, history, taken>>

CookIgnore ==
  /\ Top.pc = "char" /\ Top.c.ch = "CR" /\ ~lnext /\ On("IGNCR")
  /\ Goto("loop")
  /\ UNCHANGED <<queues, lnext, stopped, area, typed, set, reader, writer, history, taken>>

\* Every other character is echoed and goes to cooked_q.
IsIgnored(ch) == ch = "CR" /\ ~lnext /\ On("IGNCR")
Special(ch) == IsIgnored(ch) \/ IsSignal(ch) \/ IsEdit(ch) \/ IsReprint(ch) \/ IsLnext(ch) \/ IsFlow(ch)

CookStore ==
  LET ch == Mapped(Top.c.ch)
      restarts == Canonical /\ ~lnext /\ On("IXON") /\ On("IXANY")
      quoted == Canonical /\ ch \in Control /\ On("ECHOCTL")
  IN /\ Top.pc = "char" /\ ~Special(Top.c.ch)
     /\ cooked_q' = IF Len(cooked_q) < Limit
                      THEN Append(cooked_q, [id |-> Top.c.id, ch |-> ch]) ELSE cooked_q
     /\ write_q' = IF quoted \/ On("ECHO") \/ (On("ECHONL") /\ ch = "NL")
                     THEN OutChar(write_q, ch) ELSE write_q
     /\ lnext' = FALSE
     /\ stopped' = (stopped /\ ~restarts)
     /\ Goto("loop")
     /\ UNCHANGED <<read_q, area, typed, set, reader, writer, history, taken>>

Asleep == {"asleep", "asleep vmin", "asleep vtime"}

\* wakeup(tty_read).
Woken(r) ==
  CASE r.pc \in {"asleep", "asleep vtime"} -> [r EXCEPT !.pc = "woken"]
    [] r.pc = "asleep vmin" -> [r EXCEPT !.pc = "woken vmin"]
    [] OTHER -> r

CookDone ==
  /\ Top.pc = "loop" /\ read_q = <<>>
  /\ Goto("end")
  /\ UNCHANGED <<queues, lnext, stopped, area, typed, set, reader, writer, history, taken>>

\* Seeded fault: the area stays locked.
CookEndLocked ==
  /\ Top.pc = "end"
  /\ write_q' = Drained(write_q) /\ released' = FALSE
  /\ reader' = Woken(reader)
  /\ Return
  /\ UNCHANGED <<read_q, cooked_q, lnext, stopped, area, typed, set, writer, left, taken>>

CookEnd ==
  /\ Top.pc = "end"
  /\ write_q' = Drained(write_q) /\ released' = FALSE
  /\ reader' = Woken(reader)
  /\ area' = FALSE
  /\ Return
  /\ UNCHANGED <<read_q, cooked_q, lnext, stopped, typed, set, writer, left, taken>>

BottomHalf ==
  /\ bh # <<>>
  /\ \/ Look \/ CookNext \/ CookSignal \/ CookEdit \/ CookReprint \/ CookLnext \/ CookFlow
     \/ CookIgnore \/ CookStore \/ CookDone \/ CookEnd

-----------------------------------------------------------------------------
(* tty_read.  The kernel is not preemptive: the process goes on when no    *)
(* bottom half runs on top of it and the other one is not in the kernel.   *)

ReaderRuns == bh = <<>> /\ writer.pc \in {"user", "asleep", "resched"}

ReadCall(count, nonblock) ==
  /\ ReaderRuns /\ reader.pc = "user"
  /\ reader' = [Idle EXCEPT !.pc = "loop", !.count = count, !.nonblock = nonblock]
  /\ UNCHANGED <<queues, lnext, stopped, area, bh, typed, set, writer, history, taken>>

\* The tests of tty_read's loop, first or again after a sleep.
AtTests == reader.pc \in {"loop", "woken"}
Delimits(ch) == ch = "NL" \/ is_eol_char(ch) \/ is_eof_char(ch)
LineReady == Canonical /\ cooked_q # <<>> /\ Delimits(Last(cooked_q).ch)
OnlyVtime == ~Canonical /\ set.vtime > 0 /\ set.vmin = 0
Both == ~Canonical /\ set.vtime > 0 /\ set.vmin > 0
OnlyVmin == ~Canonical /\ set.vtime = 0

Took(r) == [r EXCEPT !.n = @ + 1]
TakeHead == taken' = Head(cooked_q).id /\ cooked_q' = Tail(cooked_q)
Leave == reader' = Idle

\* sleep comes after the tests, with interrupts on.
Block(how) == IF reader.nonblock THEN Leave ELSE reader' = [reader EXCEPT !.pc = how]

ReadLine ==
  /\ ReaderRuns /\ AtTests /\ LineReady
  /\ cooked_q' = IF is_eof_char(Last(cooked_q).ch) THEN Front(cooked_q) ELSE cooked_q
  /\ reader' = [reader EXCEPT !.pc = "copy"]
  /\ UNCHANGED <<read_q, write_q, lnext, stopped, area, bh, typed, set, writer, history, taken>>

ReadCopy ==
  /\ ReaderRuns /\ reader.pc = "copy"
  /\ IF reader.n < reader.count /\ cooked_q # <<>>
       THEN TakeHead /\ reader' = Took(reader)
       ELSE Leave /\ UNCHANGED <<cooked_q, taken>>
  /\ UNCHANGED <<read_q, write_q, lnext, stopped, area, bh, typed, set, writer, history>>

\* A pure timeout: the task it adds wakes &cooked_q, where nobody sleeps.
ReadTimed ==
  /\ ReaderRuns /\ AtTests /\ OnlyVtime
  /\ IF ~reader.expired /\ cooked_q = <<>>
       THEN Block("block vtime")
       ELSE reader' = [reader EXCEPT !.pc = "copy"]
  /\ UNCHANGED <<queues, lnext, stopped, area, bh, typed, set, writer, history, taken>>

Expire ==
  /\ reader.pc \in {"loop", "woken", "block vtime", "asleep vtime"} /\ OnlyVtime /\ ~reader.expired
  /\ reader' = [reader EXCEPT !.expired = TRUE]
  /\ UNCHANGED <<queues, lnext, stopped, area, bh, typed, set, writer, history, taken>>

\* VMIN with VTIME: one character in each turn; a process that cannot wait loses those it has.
ReadMinTimed ==
  /\ ReaderRuns /\ AtTests /\ Both /\ cooked_q # <<>>
  /\ TakeHead
  /\ IF reader.n + 1 >= Min2(set.vmin, reader.count) THEN Leave
     ELSE IF reader.nonblock THEN Leave ELSE reader' = [Took(reader) EXCEPT !.pc = "block vmin"]
  /\ UNCHANGED <<read_q, write_q, lnext, stopped, area, bh, typed, set, writer, history>>

ReadMinWoken ==
  /\ ReaderRuns /\ reader.pc = "woken vmin"
  /\ IF cooked_q = <<>> THEN Leave ELSE reader' = [reader EXCEPT !.pc = "loop"]
  /\ UNCHANGED <<queues, lnext, stopped, area, bh, typed, set, writer, history, taken>>

\* VMIN alone: one character in each turn, and the process blocks after it although more wait.
ReadMin ==
  /\ ReaderRuns /\ AtTests /\ OnlyVmin /\ (cooked_q # <<>> \/ reader.min >= set.vmin)
  /\ LET takes == cooked_q # <<>> /\ (reader.min < set.vmin \/ set.vmin = 0)
         min   == IF takes THEN reader.min + 1 ELSE reader.min
     IN  /\ IF takes /\ reader.n < reader.count THEN TakeHead ELSE UNCHANGED <<cooked_q, taken>>
         /\ IF min >= set.vmin \/ reader.nonblock THEN Leave
            ELSE reader' = [reader EXCEPT !.pc = "block", !.min = min,
                                          !.n = Min2(@ + 1, reader.count)]
  /\ UNCHANGED <<read_q, write_q, lnext, stopped, area, bh, typed, set, writer, history>>

\* No branch applies.
ReadBlocks ==
  /\ ReaderRuns /\ AtTests
  /\ \/ Canonical /\ ~LineReady
     \/ Both /\ cooked_q = <<>>
     \/ OnlyVmin /\ cooked_q = <<>> /\ reader.min < set.vmin
  /\ Block("block")
  /\ UNCHANGED <<queues, lnext, stopped, area, bh, typed, set, writer, history, taken>>

ReadSleeps ==
  /\ ReaderRuns /\ reader.pc \in {"block", "block vmin", "block vtime"}
  /\ reader' = [reader EXCEPT !.pc = CASE @ = "block" -> "asleep"
                                       [] @ = "block vmin" -> "asleep vmin"
                                       [] OTHER -> "asleep vtime"]
  /\ UNCHANGED <<queues, lnext, stopped, area, bh, typed, set, writer, history, taken>>

-----------------------------------------------------------------------------
(* tty_write.                                                              *)

WriterRuns == bh = <<>> /\ reader.pc \in Asleep \cup {"user", "woken", "woken vmin"}

WriteCall(count, nonblock) ==
  /\ WriterRuns /\ writer.pc = "user"
  /\ writer' = [pc |-> "put", n |-> 0, count |-> count, nonblock |-> nonblock]
  /\ UNCHANGED <<queues, lnext, stopped, area, bh, typed, set, reader, history, taken>>

Room(ch) == Limit - write_q >= (IF ch = "NL" /\ On("OPOST") /\ On("ONLCR") THEN 2 ELSE 1)

WritePut(ch) ==
  /\ WriterRuns /\ writer.pc = "put"
  /\ IF writer.n < writer.count /\ Room(ch)
       THEN write_q' = Opost(write_q, ch) /\ writer' = [writer EXCEPT !.n = @ + 1]
       ELSE UNCHANGED write_q /\ writer' = [writer EXCEPT !.pc = "output"]
  /\ UNCHANGED <<read_q, cooked_q, lnext, stopped, area, bh, typed, set, reader, history, taken>>

\* Nothing wakes up tty_write: a writer that sleeps stays asleep.
WriteOutput ==
  /\ WriterRuns /\ writer.pc = "output"
  /\ write_q' = Drained(write_q) /\ released' = FALSE
  /\ writer' = [writer EXCEPT !.pc = IF writer.n = writer.count \/ writer.nonblock THEN "user"
                                     ELSE IF write_q' > 0 THEN "asleep" ELSE "resched"]
  /\ UNCHANGED <<read_q, cooked_q, lnext, stopped, area, bh, typed, set, reader, left, taken>>

WriteResumes ==
  /\ WriterRuns /\ writer.pc = "resched"
  /\ writer' = [writer EXCEPT !.pc = "put"]
  /\ UNCHANGED <<queues, lnext, stopped, area, bh, typed, set, reader, history, taken>>

-----------------------------------------------------------------------------
Read ==
  \/ \E n \in Counts, nonblock \in BOOLEAN : ReadCall(n, nonblock)
  \/ ReadLine \/ ReadCopy \/ ReadTimed \/ Expire \/ ReadMinTimed \/ ReadMinWoken \/ ReadMin
  \/ ReadBlocks \/ ReadSleeps

Write ==
  \/ \E n \in Counts, nonblock \in BOOLEAN : WriteCall(n, nonblock)
  \/ \E ch \in {"x", "NL"} : WritePut(ch)
  \/ WriteOutput \/ WriteResumes

Next == (\E ch \in set.keys : Type(ch)) \/ ScrollLock \/ BhEnter \/ BottomHalf \/ Read \/ Write

Spec == Init /\ [][Next]_vars

\* A bottom half runs on, and the outermost one gets the processor between two interrupts.  No
\* interrupt needs to come: nobody unmasks the timer's line, and the next key may never be typed.
Fairness ==
  /\ WF_vars(BottomHalf)
  /\ SF_vars(Len(bh) = 1 /\ BottomHalf)

FairSpec == Spec /\ Fairness

-----------------------------------------------------------------------------
(* Properties.                                                             *)

Hands == {k \in DOMAIN bh : bh[k].pc = "char"}
Ids(q) == [i \in DOMAIN q |-> q[i].id]

\* The characters on their way, from what tty_read took last to what was typed last, are in the
\* order in which they were typed, whatever instances of the bottom half run on top of each other,
\* and no character is in two places: those in hand are between cooked_q and read_q, the innermost
\* instance's first.  This is what AREA_TTY_READ is for.
InOrder ==
  LET InLine(hand) ==
        LET way == <<taken>> \o Ids(cooked_q) \o hand \o Ids(read_q) \o <<typed + 1>>
        IN  \A i \in 1..Len(way) - 1 : way[i] < way[i + 1]
  IN  /\ InLine(<<>>)
      /\ \A k \in Hands : InLine(<<bh[k].c.id>>)
      /\ \A k, l \in Hands : k < l => bh[l].c.id < bh[k].c.id

\* Whatever is typed leaves read_q again, by the run its own interrupt brings or by one that is
\* under way, although an instance that finds the area locked does nothing.  Only what was typed
\* before a run broke off at a signal character or the literal-next character, or between the last
\* test of its loop and unlock_area, may wait in read_q until another interrupt brings a run.
TypedIsCooked == read_q # <<>> ~> (read_q = <<>> \/ (bh = <<>> /\ left))

\* When neither a bottom half nor a writer is at work, characters stay in write_q only behind a
\* stopped console, or when it was scroll lock that started it: every way out of tty_cook_input
\* and tty_write goes by tty->output.
OutputTaken ==
  (write_q > 0 /\ bh = <<>> /\ writer.pc \notin {"put", "output"}) => (stopped \/ released)
=============================================================================
