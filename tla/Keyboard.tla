------------------------------ MODULE Keyboard ------------------------------
(***************************************************************************)
(* The keyboard driver (keyboard.c) and the keys of a keyboard.  A key     *)
(* sends its scan code, the right-hand and cursor keys after a prefix      *)
(* byte; the interrupt handler keeps track of the modifiers and turns the  *)
(* other keys into characters or into requests (do_switch_console and its  *)
(* like).  The bottom half carries the requests out with interrupts on,    *)
(* and further instances of it run on top of it.  The scroll-lock state    *)
(* of the console also changes when the terminal meets ^S or ^Q            *)
(* (console.c).                                                            *)
(***************************************************************************)
EXTENDS Integers, Sequences, FiniteSets, SequencesExt

CONSTANTS
  Keyboards,   \* sets of keys, each with the symbol of its code and whether the prefix goes before
  MaxPressed,  \* bound: keys pressed
  MaxNested    \* bound: instances of the bottom half

ASSUME KeyboardAssumption ==
  /\ MaxPressed \in Nat /\ MaxNested \in Nat \ {0}
  /\ \A keys \in Keyboards : \A k \in keys : k.ext \in BOOLEAN

VARIABLES
  keys,           \* the keyboard, which nothing changes
  down, pressed,  \* the keys held down; how many were pressed
  wire,           \* the bytes on their way to the handler
  kb,             \* shift_pressed, altgr_pressed, ... of the driver
  vc,             \* led_status and the lock flags of the console
  do,             \* the requests to the bottom half
  bh              \* the instances of the bottom half, the innermost last
vars == <<keys, down, pressed, wire, kb, vc, do, bh>>

\* CTRL stands for both codes of the control keys, SHIFT for both shift keys; ALT with the prefix
\* is the right one.
Locks == {"CAPS", "NUMS", "SCRL"}

Requests == {"switch_console", "buf_scroll", "setleds", "tty_start", "tty_stop", "sysrq"}

Init ==
  /\ keys \in Keyboards /\ down = {} /\ pressed = 0 /\ wire = <<>>
  /\ kb = [shift |-> FALSE, altgr |-> FALSE, ctrl |-> FALSE, alt |-> FALSE, extkey |-> FALSE,
           leds_on |-> FALSE, altsysrq |-> FALSE]
  /\ vc = [capslock_on |-> FALSE, numlock_on |-> FALSE, scrlock_on |-> FALSE, led_status |-> {}]
  /\ do = {} /\ bh = <<>>

-----------------------------------------------------------------------------
(* The keys.                                                               *)

Sends(k, up) == (IF k.ext THEN <<[sym |-> "E0", up |-> FALSE]>> ELSE <<>>) \o <<[sym |-> k.sym, up |-> up]>>

Press(k) ==
  /\ k \notin down /\ pressed < MaxPressed /\ wire = <<>>
  /\ down' = down \cup {k} /\ pressed' = pressed + 1
  /\ wire' = Sends(k, FALSE)
  /\ UNCHANGED <<keys, kb, vc, do, bh>>

Release(k) ==
  /\ k \in down /\ wire = <<>>
  /\ down' = down \ {k}
  /\ wire' = Sends(k, TRUE)
  /\ UNCHANGED <<keys, pressed, kb, vc, do, bh>>

-----------------------------------------------------------------------------
(* keyboard_irq, with interrupts off: one byte.                            *)

Byte == Head(wire)

\* The handler marks the bottom half active, and the end of this interrupt runs it.
Receive ==
  /\ wire # <<>> /\ Len(bh) < MaxNested
  /\ wire' = Tail(wire)
  /\ bh' = Append(bh, "switch_console")
  /\ UNCHANGED <<keys, down, pressed>>

Prefix ==
  /\ Receive /\ Byte.sym = "E0"
  /\ kb' = [kb EXCEPT !.extkey = TRUE]
  /\ UNCHANGED <<vc, do>>

\* Seeded fault: a release of Ctrl counts only without the prefix, as one of Shift does.
ReleasedPlainCtrl(k) ==
  CASE k = "CTRL" -> [kb EXCEPT !.ctrl = @ /\ kb.extkey]
    [] k = "ALT" -> IF kb.extkey THEN [kb EXCEPT !.altgr = FALSE]
                    ELSE [kb EXCEPT !.alt = FALSE, !.altsysrq = FALSE]
    [] k = "SHIFT" -> [kb EXCEPT !.shift = @ /\ kb.extkey]
    [] k \in Locks -> [kb EXCEPT !.leds_on = FALSE]
    [] OTHER -> kb

\* What a release takes back; the prefix tells the two Alt keys apart.
Released(k) ==
  CASE k = "CTRL" -> [kb EXCEPT !.ctrl = FALSE]
    [] k = "ALT" -> IF kb.extkey THEN [kb EXCEPT !.altgr = FALSE]
                    ELSE [kb EXCEPT !.alt = FALSE, !.altsysrq = FALSE]
    [] k = "SHIFT" -> [kb EXCEPT !.shift = @ /\ kb.extkey]
    [] k \in Locks -> [kb EXCEPT !.leds_on = FALSE]
    [] OTHER -> kb

KeyUp ==
  /\ Receive /\ Byte.up
  /\ kb' = [Released(Byte.sym) EXCEPT !.extkey = FALSE]
  /\ UNCHANGED <<vc, do>>

Toggle(S, x) == IF x \in S THEN S \ {x} ELSE S \cup {x}

\* Caps, Num and Scroll Lock; NUMS takes the state of Caps Lock.
LockDown ==
  /\ Receive /\ ~Byte.up /\ Byte.sym \in Locks
  /\ kb' = [kb EXCEPT !.leds_on = TRUE]
  /\ IF kb.leds_on THEN UNCHANGED <<vc, do>>
     ELSE CASE Byte.sym = "CAPS" ->
                 /\ vc' = [vc EXCEPT !.led_status = Toggle(@, "CAPS"), !.capslock_on = ~@]
                 /\ do' = do \cup {"setleds"}
            [] Byte.sym = "NUMS" ->
                 /\ vc' = [vc EXCEPT !.led_status = Toggle(@, "NUMS"),
                                     !.numlock_on = ~vc.capslock_on]
                 /\ do' = do \cup {"setleds"}
            [] Byte.sym = "SCRL" ->
                 /\ do' = do \cup {IF vc.scrlock_on THEN "tty_start" ELSE "tty_stop"}
                 /\ UNCHANGED vc

\* The prefix of Alt stays set, and so does that of the keys below, until some key is released or
\* Shift is pressed.
ModifierDown ==
  /\ Receive /\ ~Byte.up /\ Byte.sym \in {"CTRL", "ALT", "SHIFT"}
  /\ kb' = CASE Byte.sym = "CTRL" -> [kb EXCEPT !.ctrl = TRUE]
             [] Byte.sym = "ALT" -> IF kb.extkey THEN [kb EXCEPT !.altgr = TRUE]
                                    ELSE [kb EXCEPT !.alt = TRUE]
             [] Byte.sym = "SHIFT" -> [kb EXCEPT !.shift = TRUE, !.extkey = FALSE]
  /\ UNCHANGED <<vc, do>>

\* The column of the keymap.  LETTER_KEYS has bits in common with every other kind of key here, so
\* that Caps Lock affects them all.
Mod ==
  CASE kb.alt -> "alt"
    [] kb.ctrl -> "ctrl"
    [] kb.altgr -> "altgr"
    [] vc.capslock_on -> IF kb.shift THEN "base" ELSE "shift"
    [] OTHER -> IF kb.shift /\ ~kb.extkey THEN "shift" ELSE "base"

\* The default keymap: a letter, a function key, a cursor key with a shifted meaning, SysRq.
Keymap(k) ==
  CASE k = "a" -> IF Mod = "alt" THEN "META" ELSE IF Mod = "ctrl" THEN "CHAR" ELSE "LETTER"
    [] k = "F1" -> IF Mod = "alt" THEN "AF1" ELSE IF Mod = "altgr" THEN "CHAR" ELSE "FN"
    [] k = "PGUP" -> IF Mod = "alt" THEN "CHAR" ELSE "PGUP"
    [] k = "SYSRQ" -> IF Mod \in {"base", "alt"} THEN "SYSRQ" ELSE "CHAR"
    [] OTHER -> "PAD"

KeyDown ==
  LET key == Keymap(Byte.sym)
  IN  /\ Receive /\ ~Byte.up /\ Byte.sym \notin Locks \cup {"E0", "CTRL", "ALT", "SHIFT"}
      /\ kb' = IF key = "SYSRQ" THEN [kb EXCEPT !.altsysrq = TRUE] ELSE kb
      /\ do' = do \cup (CASE key = "AF1" -> {"switch_console"}
                          [] key = "PGUP" /\ kb.shift -> {"buf_scroll"}
                          [] key \in {"CHAR", "META"} /\ kb.altsysrq -> {"sysrq"}
                          [] OTHER -> {})
      /\ UNCHANGED vc

Interrupt == Prefix \/ KeyUp \/ LockDown \/ ModifierDown \/ KeyDown

-----------------------------------------------------------------------------
(* keyboard_bh_irq.  Each request is tested, carried out and cleared, with *)
(* interrupts on between these steps.                                      *)

Top == bh[Len(bh)]
Goto(pc) == bh' = [bh EXCEPT ![Len(bh)] = pc]
Return == bh' = Front(bh)

\* It marks itself active again in each run: after the first key every other interrupt brings
\* another, if there are others.
BhEnter ==
  /\ pressed > 0 /\ Len(bh) < MaxNested
  /\ bh' = Append(bh, "switch_console")
  /\ UNCHANGED <<keys, down, pressed, wire, kb, vc, do>>

Carried == [pc \in {"switch_console", "buf_scroll", "setleds", "sysrq"} |->
  CASE pc = "switch_console" -> [clear |-> "clear switch_console", next |-> "buf_scroll"]
    [] pc = "buf_scroll" -> [clear |-> "clear buf_scroll", next |-> "setleds"]
    [] pc = "setleds" -> [clear |-> "clear setleds", next |-> "tty_start"]
    [] pc = "sysrq" -> [clear |-> "input", next |-> "input"]]

\* The effects of these are outside: nothing of them comes back.  do_sysrq is cleared first.
BhCarryOut ==
  /\ Top \in DOMAIN Carried
  /\ Goto(IF Top \in do THEN Carried[Top].clear ELSE Carried[Top].next)
  /\ do' = do \ (IF Top = "sysrq" THEN {"sysrq"} ELSE {})
  /\ UNCHANGED <<keys, down, pressed, wire, kb, vc>>

\* Seeded fault: the request to scroll is not cleared.
BhClearSome ==
  /\ \E pc \in DOMAIN Carried \ {"sysrq"} :
       /\ Top = Carried[pc].clear
       /\ do' = IF pc = "buf_scroll" THEN do ELSE do \ {pc}
       /\ Goto(Carried[pc].next)
  /\ UNCHANGED <<keys, down, pressed, wire, kb, vc>>

BhClear ==
  /\ \E pc \in DOMAIN Carried \ {"sysrq"} :
       Top = Carried[pc].clear /\ do' = do \ {pc} /\ Goto(Carried[pc].next)
  /\ UNCHANGED <<keys, down, pressed, wire, kb, vc>>

\* The calls of tty->start and tty->stop: for the scroll-lock key here, and for ^Q and ^S out of
\* tty->input, which AREA_TTY_READ lets one instance at a time run.
InInput == {"input start", "input start flag", "input stop", "input stop flag"}
Callers == {"tty_start", "tty_stop", "input start", "input stop"}

\* vconsole_start and vconsole_stop, first half: the LED's bit.
BhStartStop ==
  /\ Top \in Callers
  /\ LET starts == Top \in {"tty_start", "input start"}
         called == Top \in do \/ Top \in InInput
         acts   == called /\ vc.scrlock_on = starts
     IN  /\ vc' = IF acts THEN [vc EXCEPT !.led_status = IF starts THEN @ \ {"SCRL"}
                                                         ELSE @ \cup {"SCRL"}]
                  ELSE vc
         /\ CASE acts -> Goto(Top \o " flag")
              [] called /\ ~acts /\ Top \in InInput -> Return
              [] called /\ ~acts /\ Top \notin InInput -> Goto(Top \o " clear")
              [] OTHER -> Goto(IF Top = "tty_start" THEN "tty_stop" ELSE "sysrq")
  /\ UNCHANGED <<keys, down, pressed, wire, kb, do>>

\* Second half: the flag.
BhFlag ==
  /\ \E c \in Callers :
       /\ Top = c \o " flag"
       /\ vc' = [vc EXCEPT !.scrlock_on = c \in {"tty_stop", "input stop"}]
       /\ IF c \in InInput THEN Return ELSE Goto(c \o " clear")
  /\ UNCHANGED <<keys, down, pressed, wire, kb, do>>

BhClearBoth ==
  /\ Top \in {"tty_start clear", "tty_stop clear"}
  /\ do' = do \ {"tty_start", "tty_stop"}
  /\ Goto(IF Top = "tty_start clear" THEN "tty_stop" ELSE "sysrq")
  /\ UNCHANGED <<keys, down, pressed, wire, kb, vc>>

BhInput ==
  /\ Top = "input"
  /\ \/ Return
     \/ /\ \A i \in DOMAIN bh : bh[i] \notin InInput
        /\ \E what \in {"input start", "input stop"} : Goto(what)
  /\ UNCHANGED <<keys, down, pressed, wire, kb, vc, do>>

BottomHalf ==
  bh # <<>> /\ (BhCarryOut \/ BhClear \/ BhStartStop \/ BhFlag \/ BhClearBoth \/ BhInput)

-----------------------------------------------------------------------------
Next == (\E k \in keys : Press(k) \/ Release(k)) \/ Interrupt \/ BhEnter \/ BottomHalf

Spec == Init /\ [][Next]_vars

\* A bottom half runs on, and the outermost one gets the processor between two interrupts.
Fairness ==
  /\ WF_vars(BottomHalf)
  /\ SF_vars(Len(bh) = 1 /\ BottomHalf)

FairSpec == Spec /\ Fairness

-----------------------------------------------------------------------------
(* Properties.                                                             *)

\* Ctrl never stays on when no control key is down, in whatever order keys are pressed and
\* released and with the prefix left behind by other keys (it does for Shift and Alt).
CtrlFollowsKeys == (wire = <<>> /\ kb.ctrl) => \E k \in down : k.sym = "CTRL"

\* Every request is taken off again, so that the next key of its kind asks anew.
RequestsTaken == \A r \in Requests : r \in do ~> r \notin do
=============================================================================
