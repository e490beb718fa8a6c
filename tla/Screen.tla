------------------------------- MODULE Screen -------------------------------
(***************************************************************************)
(* The VGA text screen (vga.c) and the control sequences that edit it      *)
(* (csi.h).  A cell is two bytes, its character and its colours; vga.c     *)
(* counts bytes where it means cells, so the buffers are bytes here.  The  *)
(* console with focus writes video memory as well as its back buffer.      *)
(***************************************************************************)
EXTENDS Integers, FiniteSetsExt

CONSTANTS
  Columns, Rows,
  Lines,     \* video.lines: CONSOLE_SIZE is Columns * Lines
  PutChars,  \* characters that are put
  MaxOps     \* bound: operations in a behaviour

\* Nothing sets video.lines.
ASSUME ScreenAssumption == Columns \in Nat \ {0} /\ Rows \in Nat \ {0} /\ Lines \in Nat /\ PutChars \subseteq 0..255

\* The consoles have video.lines rows; were it set, it would be the screen's.  Without it csi_J wipes
\* what is behind the buffers, which are all there is here.
LinesSet == Lines = Rows

VARIABLE screen

Blank == 32        \* CLEAR_MEM's low byte
White == 7         \* the high byte of CLEAR_MEM, and of DEFAULT_MODE
Console == Columns * Lines
\* One more cell than the screen has: delete_char clears the one behind the line.
BytesOf == 0..2 * (Columns * Rows + 1) - 1
Cell(n) == 2 * n
Cursor == screen.y * Columns + screen.x
LineOf(y) == Cell(y * Columns)..Cell((y + 1) * Columns) - 1

\* A count below 0 is a huge size_t for kmemset: all that follows is written, and not the buffer's alone.
Fill(buffer, from, byte, count) ==
  [b \in BytesOf |-> IF b >= Cell(from) /\ (count < 0 \/ b < Cell(from) + count) THEN byte ELSE buffer[b]]
\* Upwards, from the same buffer too: what is read is not yet written.
Copy(buffer, source, dest, src, count) ==
  [b \in BytesOf |-> IF b \in Cell(dest)..Cell(dest) + count - 1 THEN source[b + Cell(src) - Cell(dest)] ELSE buffer[b]]

Empty == [b \in BytesOf |-> IF b % 2 = 0 THEN Blank ELSE White]
EmptyScreen(x, y, focus) ==
  [x |-> x, y |-> y, focus |-> focus, main |-> Empty, back |-> Empty, was |-> Empty, did |-> "init", cleared |-> FALSE,
   blank |-> FALSE, visible |-> TRUE, position |-> 0, status |-> "on", lit |-> TRUE, ops |-> 0]
ScreenInit == \E x \in 0..Columns - 1, y \in 0..Rows - 1, focus \in BOOLEAN : screen = EmptyScreen(x, y, focus)

\* An operation done to the back buffer and, with focus, to video memory.
Edit(name, Do(_)) ==
  screen' = [screen EXCEPT !.did = name, !.ops = @ + 1, !.was = screen.back, !.back = Do(@),
                           !.main = IF screen.focus THEN Do(@) ELSE @]

-----------------------------------------------------------------------------
(* vga.c                                                                   *)

\* iso8859, for characters below 160: control characters have no glyph.
Shown(c) == IF c < 32 \/ c \in 127..159 THEN 0 ELSE c
PutChar(c) == Edit("put", LAMBDA b : [b EXCEPT ![Cell(Cursor)] = Shown(c), ![Cell(Cursor) + 1] = White])

\* Seeded fault: the lines below move as well.
ShiftedOn(buffer, from) ==
  [b \in BytesOf |-> IF b = Cell(Cursor) THEN Blank ELSE IF b > Cell(Cursor) /\ b % 2 = 0 THEN from[b - 2] ELSE buffer[b]]
\* The characters from the cursor on, with a blank before them and without the last.
Shifted(buffer, from) ==
  [b \in BytesOf |-> IF b = Cell(Cursor) THEN Blank
                     ELSE IF b \in Cell(Cursor)..Cell((screen.y + 1) * Columns) - 1 /\ b % 2 = 0 THEN from[b - 2] ELSE buffer[b]]
Inserted(back, count) ==
  LET after[n \in 0..count] == IF n = 0 THEN back ELSE Shifted(after[n - 1], after[n - 1])
  IN  after[count]
\* What moves is read from the back buffer, which is the last to be read.
ShownInserted(main, back, count) ==
  LET after[n \in 0..count] == IF n = 0 THEN main ELSE Shifted(after[n - 1], Inserted(back, n - 1))
  IN  after[count]

\* count is the cells of the line, and is taken for bytes; the byte behind those cells is cleared.
DeleteChar(buffer) ==
  LET count == Columns - screen.x
  IN  Fill(Copy(buffer, buffer, Cursor, Cursor + 1, count), Cursor + count, Blank, 1)

\* color_attr's low byte is 0.
WriteScreen(buffer, from, count) == Fill(buffer, from, 0, count)

\* blank: cleared and not restored since.  Nobody takes CONSOLE_CLEARED back but a reset, so that a
\* restored screen is not cleared again.
ClearScreen ==
  /\ ~screen.cleared
  /\ screen' = [screen EXCEPT !.did = "clear", !.ops = @ + 1, !.was = screen.back, !.cleared = TRUE, !.blank = TRUE, !.visible = FALSE,
                              !.main = IF screen.focus THEN Fill(@, 0, Blank, Console) ELSE @]

RestoreScreen ==
  screen' = [screen EXCEPT !.did = "restore", !.blank = FALSE, !.ops = @ + 1, !.was = screen.back,
                           !.main = IF screen.focus THEN Copy(@, screen.back, 0, 0, Console) ELSE @]

ShowCursor(mode) ==
  screen' = [screen EXCEPT !.did = "cursor", !.ops = @ + 1, !.was = screen.back,
                           !.visible = mode = "on" \/ (mode = "cond" /\ @)]

\* The position goes through the two registers of the controller.
UpdateCursorPos ==
  /\ screen.focus
  /\ screen' = [screen EXCEPT !.did = "update", !.ops = @ + 1, !.was = screen.back, !.position = Cursor % 65536]
GetCursorPos ==
  screen' = [screen EXCEPT !.did = "get", !.ops = @ + 1, !.was = screen.back,
                           !.x = screen.position % Columns, !.y = screen.position \div Columns]

\* Nobody sets the status back to on.
ScreenOn == screen' = [screen EXCEPT !.did = "on", !.ops = @ + 1, !.was = screen.back, !.lit = @ \/ screen.status = "off"]
ScreenOff == screen' = [screen EXCEPT !.did = "off", !.ops = @ + 1, !.was = screen.back, !.status = "off", !.lit = FALSE]

-----------------------------------------------------------------------------
(* csi.h                                                                   *)

\* csi_J: the part in the cursor's line, then the lines below it or above.
EraseDisplay(mode) ==
  LET below == (screen.y + 1) * Columns
  IN  CASE mode = 0 -> Edit("J", LAMBDA b : WriteScreen(WriteScreen(b, Cursor, Columns - screen.x), below, Console - below))
        [] mode = 1 -> Edit("J", LAMBDA b : WriteScreen(WriteScreen(b, screen.y * Columns, screen.x + 1), 0, screen.y * Columns))
        [] mode = 2 -> Edit("J", LAMBDA b : WriteScreen(b, 0, Console))

\* csi_K
EraseLine(mode) ==
  CASE mode = 0 -> Edit("line", LAMBDA b : WriteScreen(b, Cursor, Columns - screen.x))
    [] mode = 1 -> Edit("line", LAMBDA b : WriteScreen(b, screen.y * Columns, screen.x + 1))
    [] mode = 2 -> Edit("line", LAMBDA b : WriteScreen(b, screen.y * Columns, Columns))

\* csi_X
EraseChars(count) == Edit("line", LAMBDA b : WriteScreen(b, Cursor, Min({count, Columns - screen.x})))

\* csi_P
Deleted(buffer, count) ==
  LET after[n \in 0..count] == IF n = 0 THEN buffer ELSE DeleteChar(after[n - 1])
  IN  after[count]
DeleteChars(count) == Edit("delete", LAMBDA b : Deleted(b, Min({count, Columns})))

\* csi_at
InsertChars(count) ==
  LET n == Min({count, Columns})
  IN  screen' = [screen EXCEPT !.did = "insert", !.ops = @ + 1, !.was = screen.back, !.back = Inserted(@, n),
                               !.main = IF screen.focus THEN ShownInserted(@, screen.back, n) ELSE @]

ScreenNext ==
  /\ screen.ops < MaxOps
  /\ \/ \E c \in PutChars : PutChar(c)
     \/ \E mode \in 0..2 : EraseDisplay(mode) \/ EraseLine(mode)
     \/ \E count \in 1..Columns + 1 : EraseChars(count) \/ DeleteChars(count) \/ InsertChars(count)
     \/ ClearScreen \/ RestoreScreen
     \/ \E mode \in {"on", "off", "cond"} : ShowCursor(mode)
     \/ UpdateCursorPos \/ GetCursorPos \/ ScreenOn \/ ScreenOff

ScreenSpec == ScreenInit /\ [][ScreenNext]_screen

-----------------------------------------------------------------------------
(* What is seen is what is kept: video memory is the back buffer of the    *)
(* console with focus, but for what a clear screen blanks until it is      *)
(* restored, and no other console touches it.  Editing a line leaves the   *)
(* others alone, and inserting moves the characters, no colours.           *)

ScreenExact ==
  LET changed == {b \in BytesOf : screen.back[b] # screen.was[b]}
  IN  /\ screen.focus =>
           \A b \in BytesOf : screen.main[b] = screen.back[b] \/ (screen.blank /\ b < Console)
      /\ ~screen.focus => screen.main = Empty
      /\ screen.did \in {"put", "line", "insert"} => changed \subseteq LineOf(screen.y)
      /\ screen.did = "insert" =>
           \A b \in changed :
             /\ b % 2 = 0 /\ b >= Cell(Cursor)
             /\ screen.back[b] \in {Blank} \cup {screen.was[c] : c \in Cell(Cursor)..b - 2}
      /\ screen.did = "on" => screen.lit
=============================================================================
