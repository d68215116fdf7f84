------------------------------ MODULE Console ------------------------------
(***************************************************************************)
(* The output of one terminal: the character cells of its buffer and its   *)
(* cursor, and what putc() (lib.c) does with them.  Which of the buffers   *)
(* that is, and whose turn it is to write, is the business of Display;     *)
(* putc() runs with interrupts off, so that here each call is one step.    *)
(*                                                                         *)
(* A line may be deleted backwards into the row above: the column is then  *)
(* negative, and stays on the row the line ended on.                       *)
(***************************************************************************)
EXTENDS Integers

CONSTANTS
    NUM_COLS, NUM_ROWS,
    Glyphs,     \* the characters that leave a mark
    Blank       \* a space

ASSUME ConsoleAssumption ==
    /\ NUM_COLS \in Nat /\ 1 < NUM_COLS
    /\ NUM_ROWS \in Nat /\ 1 < NUM_ROWS

VARIABLES
    cells,       \* the characters of the buffer
    cursor_x,    \* of terminal_data[]
    cursor_y,
    drawn,       \* history: something else than putc() wrote since the last clear
    last         \* history: what wrote last, a character or one of Others

consoleVars == <<cells, cursor_x, cursor_y, drawn, last>>

Cells == 0 .. NUM_COLS * NUM_ROWS - 1

\* The index of a cell: the address arithmetic of putc().
Cell(x, y) == NUM_COLS * y + x

Columns == 1 - NUM_COLS .. NUM_COLS - 1
Rows == 0 .. NUM_ROWS - 1
Others == {"newline", "backspace", "clear", "draw"}

ConsoleTypeOK ==
    /\ cells \in [Cells -> Glyphs \cup {Blank}]
    /\ cursor_x \in Columns
    /\ cursor_y \in Rows
    /\ drawn \in BOOLEAN
    /\ last \in Glyphs \cup {Blank} \cup Others

Cleared == [i \in Cells |-> Blank]

\* A terminal is cleared before its first shell, but terminal_init() sends the
\* cursor of terminal 0 home without clearing what the boot has printed.
ConsoleInit ==
    /\ cursor_x = 0
    /\ cursor_y = 0
    /\ last = "clear"
    /\ \/ cells = Cleared /\ drawn = FALSE
       \/ cells \in [Cells -> Glyphs \cup {Blank}] /\ drawn = TRUE

----------------------------------------------------------------------------

\* Mutant: the last row keeps its text.
scroll_down_keeps_last_row ==
    [i \in Cells |-> IF i + NUM_COLS \in Cells THEN cells[i + NUM_COLS] ELSE cells[i]]

scroll_down ==
    [i \in Cells |-> IF i + NUM_COLS \in Cells THEN cells[i + NUM_COLS] ELSE Blank]

set_cursor_pos(x, y) == cursor_x' = x /\ cursor_y' = y

\* putc() of \n or \r.
Newline ==
    /\ IF cursor_y = NUM_ROWS - 1
       THEN cells' = scroll_down /\ set_cursor_pos(0, cursor_y)
       ELSE UNCHANGED cells /\ set_cursor_pos(0, cursor_y + 1)
    /\ last' = "newline"
    /\ UNCHANGED drawn

\* The column to the left: the % of C keeps the sign, and / then gives 0, so that
\* the row never changes.
LeftOf(x) == IF x - 1 = -NUM_COLS THEN 0 ELSE x - 1

\* Mutant: a backspace in the top left corner is not refused.
HomeIgnored == FALSE

AtHome == cursor_x = 0 /\ cursor_y = 0

\* putc() of BACKSPACE.
Backspace ==
    /\ IF AtHome
       THEN UNCHANGED cells /\ set_cursor_pos(0, 0)
       ELSE /\ set_cursor_pos(LeftOf(cursor_x), cursor_y)
            /\ cells' = [cells EXCEPT ![Cell(cursor_x', cursor_y)] = Blank]
    /\ last' = "backspace"
    /\ UNCHANGED drawn

Stored(c) == [cells EXCEPT ![Cell(cursor_x, cursor_y)] = c]

\* A character in the last column; in the last row the screen scrolls instead.
PutAtLineEnd(c) ==
    /\ cursor_x = NUM_COLS - 1
    /\ IF cursor_y = NUM_ROWS - 1
       THEN cells' = scroll_down /\ set_cursor_pos(0, cursor_y)
       ELSE cells' = Stored(c) /\ set_cursor_pos(0, cursor_y + 1)

\* A character anywhere else.
PutInLine(c) ==
    /\ cursor_x # NUM_COLS - 1
    /\ cells' = Stored(c)
    /\ set_cursor_pos(cursor_x + 1, cursor_y)

Put(c) ==
    /\ PutAtLineEnd(c) \/ PutInLine(c)
    /\ last' = c
    /\ UNCHANGED drawn

\* Ctrl+L, and the first turn of a terminal.
clear_reset_cursor ==
    /\ cells' = Cleared
    /\ set_cursor_pos(0, 0)
    /\ drawn' = FALSE
    /\ last' = "clear"

\* A program draws on the page vidmap() gave it.
Draw ==
    /\ \E i \in Cells, c \in Glyphs \cup {Blank} : cells' = [cells EXCEPT ![i] = c]
    /\ drawn' = TRUE
    /\ last' = "draw"
    /\ UNCHANGED <<cursor_x, cursor_y>>

ConsoleNext ==
    \/ Newline
    \/ Backspace
    \/ \E c \in Glyphs \cup {Blank} : Put(c)
    \/ clear_reset_cursor
    \/ Draw

ConsoleSpec == ConsoleInit /\ [][ConsoleNext]_consoleVars

----------------------------------------------------------------------------

CursorCell == Cell(cursor_x, cursor_y)

\* putc() never writes outside the buffer of its terminal, however text wraps and
\* is deleted: the cell of the cursor exists, and a column is negative only below
\* the top row.
CursorOnScreen == CursorCell \in Cells /\ (cursor_y = 0 => 0 <= cursor_x)

\* What putc() has written is the text before the cursor: nothing shows from the
\* cursor on, so no character is ever written over another one and what is
\* deleted is gone from the screen.
NothingBeyondCursor ==
    ~drawn => \A i \in Cells : CursorCell <= i => cells[i] = Blank

\* The inductive invariant of the proofs.
ConsoleInv == ConsoleTypeOK /\ CursorOnScreen /\ NothingBeyondCursor

\* A character that is output is on the screen, before the cursor.
EveryCharShown == last \in Glyphs => cells[CursorCell - 1] = last

\* A backspace goes one cell back and deletes what is there.
BackspaceDeletesLast ==
    [][Backspace /\ ~AtHome =>
            CursorCell' = CursorCell - 1 /\ cells'[CursorCell'] = Blank]_consoleVars
=============================================================================
