---------------------------- MODULE LibraryProofs ----------------------------
(***************************************************************************)
(* Proofs about Console, Commands, Blocks and Library: on a screen of any  *)
(* size putc() stays inside its buffer and its text ends at the cursor;    *)
(* whatever the commands and the files, and however long a name may be,    *)
(* execute() launches the file the command names, and getargs() gives it   *)
(* its own arguments; memset(), memcpy() and memmove() leave memory as     *)
(* they promise; and printf() shows every item of every format.            *)
(***************************************************************************)
EXTENDS Console, Commands, Blocks, Library, SequenceTheorems, WellFoundedInduction, TLAPS

(* Console *)

\* The multiplications of Cell, for the linear arithmetic of the other steps.
LEMMA RowFacts ==
    ASSUME NEW y \in Rows
    PROVE  /\ NUM_COLS * y \in Nat
           /\ NUM_COLS * NUM_ROWS \in Nat
           /\ NUM_COLS * (y + 1) = NUM_COLS * y + NUM_COLS
           /\ NUM_COLS * y + NUM_COLS <= NUM_COLS * NUM_ROWS
           /\ 0 < y => NUM_COLS <= NUM_COLS * y
           /\ y = 0 => NUM_COLS * y = 0
           /\ y = NUM_ROWS - 1 => NUM_COLS * y + NUM_COLS = NUM_COLS * NUM_ROWS
<1>1. y \in Nat /\ y + 1 <= NUM_ROWS /\ NUM_COLS \in Nat /\ NUM_ROWS \in Nat
  BY ConsoleAssumption DEF Rows
<1>2. NUM_COLS * (y + 1) = NUM_COLS * y + NUM_COLS /\ NUM_COLS * y \in Nat
  BY <1>1
<1>3. NUM_COLS * (y + 1) <= NUM_COLS * NUM_ROWS
  BY <1>1
<1>4. 0 < y => NUM_COLS <= NUM_COLS * y
  BY <1>1
<1>5. y = NUM_ROWS - 1 => y + 1 = NUM_ROWS
  BY <1>1
<1> QED
  BY <1>1, <1>2, <1>3, <1>4, <1>5

LEMMA CellOnScreen ==
    ASSUME NEW x \in Columns, NEW y \in Rows, y = 0 => 0 <= x
    PROVE  Cell(x, y) \in Cells
<1>1. NUM_COLS \in Nat /\ x \in Int /\ 1 - NUM_COLS <= x /\ x <= NUM_COLS - 1 /\ y \in Nat
  BY ConsoleAssumption DEF Columns, Rows
<1> DEFINE row == NUM_COLS * y
           size == NUM_COLS * NUM_ROWS
<1>2. /\ row \in Nat /\ size \in Nat
      /\ row + NUM_COLS <= size
      /\ 0 < y => NUM_COLS <= row
      /\ y = 0 => row = 0
  BY RowFacts
<1> HIDE DEF row, size
<1>3. 0 <= row + x /\ row + x <= size - 1
  BY <1>1, <1>2
<1> QED
  BY <1>1, <1>2, <1>3 DEF Cell, Cells, row, size

LEMMA ScrollType ==
    ASSUME cells \in [Cells -> Glyphs \cup {Blank}]
    PROVE  scroll_down \in [Cells -> Glyphs \cup {Blank}]
BY DEF scroll_down

\* After a scroll the last row is blank.
LEMMA ScrolledRowBlank ==
    ASSUME NEW i \in Cells, Cell(0, NUM_ROWS - 1) <= i
    PROVE  scroll_down[i] = Blank
<1>1. NUM_ROWS - 1 \in Rows
  BY ConsoleAssumption DEF Rows
<1> DEFINE row == NUM_COLS * (NUM_ROWS - 1)
           size == NUM_COLS * NUM_ROWS
<1>2. row \in Nat /\ size \in Nat /\ row + NUM_COLS = size
  BY <1>1, RowFacts
<1>3. NUM_COLS \in Nat /\ i \in Int
  BY ConsoleAssumption DEF Cells
<1>4. row <= i
  BY <1>2 DEF Cell
<1> HIDE DEF row, size
<1>5. ~(i + NUM_COLS <= size - 1)
  BY <1>2, <1>3, <1>4
<1>6. i + NUM_COLS \notin Cells
  BY <1>3, <1>5 DEF Cells, size
<1> QED
  BY <1>6 DEF scroll_down

\* The cursor moves to x, y and the text from there on is blank.
LEMMA MoveCursor ==
    ASSUME ConsoleInv, NEW x \in Columns, NEW y \in Rows, y = 0 => 0 <= x,
           set_cursor_pos(x, y), UNCHANGED drawn,
           last' \in Glyphs \cup {Blank} \cup Others,
           cells' \in [Cells -> Glyphs \cup {Blank}],
           ~drawn => \A i \in Cells : Cell(x, y) <= i => cells'[i] = Blank
    PROVE  ConsoleInv'
<1>1. Cell(x, y) \in Cells
  BY CellOnScreen
<1>2. CursorCell' = Cell(x, y)
  BY DEF CursorCell, Cell, set_cursor_pos
<1> QED
  BY <1>1, <1>2 DEF ConsoleInv, ConsoleTypeOK, CursorOnScreen, NothingBeyondCursor, set_cursor_pos

\* Nothing is at or after a cell that is not before the cursor.
LEMMA BlankFrom ==
    ASSUME ConsoleInv, ~drawn, NEW k \in Int, CursorCell <= k, NEW i \in Cells, k <= i
    PROVE  cells[i] = Blank
<1>1. CursorCell \in Int /\ i \in Int
  BY DEF ConsoleInv, CursorOnScreen, Cells
<1>2. CursorCell <= i
  BY <1>1
<1> QED
  BY <1>2 DEF ConsoleInv, NothingBeyondCursor

\* The start of the row below the one the cursor counts from is after the cursor.
LEMMA NextRow ==
    ASSUME ConsoleInv, cursor_y # NUM_ROWS - 1
    PROVE  /\ cursor_y + 1 \in Rows
           /\ Cell(0, cursor_y + 1) \in Int
           /\ CursorCell <= Cell(0, cursor_y + 1) - 1
<1>1. cursor_y \in Rows /\ cursor_x \in Int /\ cursor_x <= NUM_COLS - 1 /\ NUM_COLS \in Nat
  BY ConsoleAssumption DEF ConsoleInv, ConsoleTypeOK, Columns
<1>2. cursor_y + 1 \in Rows
  BY <1>1, ConsoleAssumption DEF Rows
<1> DEFINE row == NUM_COLS * cursor_y
           next == NUM_COLS * (cursor_y + 1)
<1>3. row \in Nat /\ next = row + NUM_COLS
  BY <1>1, RowFacts
<1>4. CursorCell = row + cursor_x /\ Cell(0, cursor_y + 1) = next + 0
  BY DEF Cell, CursorCell
<1> HIDE DEF row, next
<1> QED
  BY <1>1, <1>2, <1>3, <1>4

LEMMA HomeFacts == 0 \in Columns /\ 0 \in Rows /\ NUM_ROWS - 1 \in Rows
BY ConsoleAssumption DEF Columns, Rows

LEMMA NewlineInv ==
    ASSUME ConsoleInv, Newline
    PROVE  ConsoleInv'
<1> USE HomeFacts
<1>1. cells \in [Cells -> Glyphs \cup {Blank}] /\ cursor_y \in Rows
  BY DEF ConsoleInv, ConsoleTypeOK
<1>2. last' \in Glyphs \cup {Blank} \cup Others /\ UNCHANGED drawn
  BY DEF Newline, Others
<1>3. CASE cursor_y = NUM_ROWS - 1
  BY <1>1, <1>2, <1>3, ScrollType, ScrolledRowBlank, MoveCursor DEF Newline
<1>4. CASE cursor_y # NUM_ROWS - 1
  <2>1. cells' = cells /\ set_cursor_pos(0, cursor_y + 1)
    BY <1>4 DEF Newline
  <2>2. CursorCell \in Int
    BY DEF ConsoleInv, CursorOnScreen, Cells
  <2>3. CursorCell <= Cell(0, cursor_y + 1)
    BY <1>4, <2>2, NextRow
  <2>4. ~drawn => \A i \in Cells : Cell(0, cursor_y + 1) <= i => cells[i] = Blank
    BY <1>4, <2>3, NextRow, BlankFrom
  <2> QED
    BY <1>1, <1>2, <1>4, <2>1, <2>4, NextRow, MoveCursor
<1> QED
  BY <1>3, <1>4

LEMMA BackspaceInv ==
    ASSUME ConsoleInv, Backspace
    PROVE  ConsoleInv'
<1> DEFINE x == LeftOf(cursor_x)
           k == Cell(x, cursor_y)
<1>1. /\ cells \in [Cells -> Glyphs \cup {Blank}]
      /\ cursor_x \in Columns /\ cursor_y \in Rows
      /\ cursor_y = 0 => 0 <= cursor_x
  BY DEF ConsoleInv, ConsoleTypeOK, CursorOnScreen
<1>2. last' \in Glyphs \cup {Blank} \cup Others /\ UNCHANGED drawn
  BY DEF Backspace, Others
<1>3. CASE AtHome
  BY <1>3 DEF Backspace, AtHome, set_cursor_pos, Others, ConsoleInv, ConsoleTypeOK, CursorOnScreen,
              NothingBeyondCursor, CursorCell, Cell
<1>4. CASE ~AtHome
  <2>1. NUM_COLS \in Nat /\ 1 < NUM_COLS /\ cursor_x \in Int
        /\ 1 - NUM_COLS <= cursor_x /\ cursor_x <= NUM_COLS - 1
    BY <1>1, ConsoleAssumption DEF Columns
  <2>2. x \in Int /\ 1 - NUM_COLS <= x /\ x <= NUM_COLS - 1 /\ cursor_x - 1 <= x
    BY <2>1 DEF LeftOf
  <2>3. x \in Columns
    BY <2>1, <2>2 DEF Columns
  <2>4. cursor_y = 0 => 0 <= x
    BY <1>1, <1>4, <2>1, <2>2 DEF AtHome
  <2>5. k \in Cells
    BY <1>1, <2>3, <2>4, CellOnScreen
  <2>6. set_cursor_pos(x, cursor_y) /\ cells' = [cells EXCEPT ![k] = Blank]
    BY <1>4 DEF Backspace, set_cursor_pos
  <2>7. NUM_COLS * cursor_y \in Nat
    BY <1>1, RowFacts
  <2>8. k \in Int /\ CursorCell \in Int /\ CursorCell <= k + 1
    BY <2>1, <2>2, <2>7 DEF Cell, CursorCell
  <2>9. ASSUME ~drawn, NEW i \in Cells, k <= i PROVE cells'[i] = Blank
    <3>1. CASE i = k
      BY <1>1, <2>5, <2>6, <3>1
    <3>2. CASE i # k
      <4>1. i \in Int /\ k + 1 <= i /\ k + 1 \in Int
        BY <2>8, <2>9, <3>2 DEF Cells
      <4>2. cells[i] = Blank
        BY <2>8, <2>9, <4>1, BlankFrom
      <4> QED
        BY <1>1, <2>6, <3>2, <4>2
    <3> QED
      BY <3>1, <3>2
  <2>10. cells' \in [Cells -> Glyphs \cup {Blank}]
    BY <1>1, <2>6
  <2> QED
    BY <1>1, <1>2, <2>3, <2>4, <2>6, <2>9, <2>10, MoveCursor
<1> QED
  BY <1>3, <1>4

\* A character stored at the cursor leaves what is after it as it was.
LEMMA StoredFacts ==
    ASSUME ConsoleInv, NEW c \in Glyphs \cup {Blank}
    PROVE  /\ Stored(c) \in [Cells -> Glyphs \cup {Blank}]
           /\ ~drawn => \A i \in Cells : CursorCell + 1 <= i => Stored(c)[i] = Blank
<1>1. cells \in [Cells -> Glyphs \cup {Blank}] /\ CursorCell \in Cells
  BY DEF ConsoleInv, ConsoleTypeOK, CursorOnScreen
<1>2. CursorCell \in Int
  BY <1>1 DEF Cells
<1>3. ASSUME ~drawn, NEW i \in Cells, CursorCell + 1 <= i PROVE Stored(c)[i] = Blank
  <2>1. i # CursorCell
    BY <1>2, <1>3 DEF Cells
  <2>2. CursorCell + 1 \in Int /\ CursorCell <= CursorCell + 1
    BY <1>2
  <2>3. cells[i] = Blank
    BY <1>3, <2>2, BlankFrom
  <2> QED
    BY <1>1, <2>1, <2>3 DEF Stored, CursorCell
<1> QED
  BY <1>1, <1>3 DEF Stored

LEMMA PutInv ==
    ASSUME ConsoleInv, NEW c \in Glyphs \cup {Blank}, Put(c)
    PROVE  ConsoleInv'
<1> USE HomeFacts
<1>1. /\ cells \in [Cells -> Glyphs \cup {Blank}]
      /\ cursor_x \in Columns /\ cursor_y \in Rows
      /\ cursor_y = 0 => 0 <= cursor_x
      /\ CursorCell \in Int
  BY DEF ConsoleInv, ConsoleTypeOK, CursorOnScreen, Cells
<1>2. last' \in Glyphs \cup {Blank} \cup Others /\ UNCHANGED drawn
  BY DEF Put
<1>3. CASE PutAtLineEnd(c) /\ cursor_y = NUM_ROWS - 1
  BY <1>1, <1>2, <1>3, ScrollType, ScrolledRowBlank, MoveCursor DEF PutAtLineEnd
<1>4. CASE PutAtLineEnd(c) /\ cursor_y # NUM_ROWS - 1
  <2>1. cells' = Stored(c) /\ set_cursor_pos(0, cursor_y + 1)
    BY <1>4 DEF PutAtLineEnd
  <2>2. CursorCell + 1 <= Cell(0, cursor_y + 1) /\ Cell(0, cursor_y + 1) \in Int
    BY <1>1, <1>4, NextRow
  <2>3. ASSUME ~drawn, NEW i \in Cells, Cell(0, cursor_y + 1) <= i PROVE cells'[i] = Blank
    <3>1. CursorCell + 1 <= i
      BY <1>1, <2>2, <2>3 DEF Cells
    <3> QED
      BY <2>1, <2>3, <3>1, StoredFacts
  <2> QED
    BY <1>2, <1>4, <2>1, <2>3, NextRow, StoredFacts, MoveCursor
<1>5. CASE PutInLine(c)
  <2>1. cells' = Stored(c) /\ set_cursor_pos(cursor_x + 1, cursor_y)
    BY <1>5 DEF PutInLine
  <2>2. cursor_x + 1 \in Columns /\ (cursor_y = 0 => 0 <= cursor_x + 1)
    BY <1>1, <1>5, ConsoleAssumption DEF PutInLine, Columns
  <2>3. NUM_COLS * cursor_y \in Nat /\ cursor_x \in Int
    BY <1>1, RowFacts DEF Columns
  <2>4. Cell(cursor_x + 1, cursor_y) = CursorCell + 1
    BY <2>3 DEF Cell, CursorCell
  <2> QED
    BY <1>1, <1>2, <2>1, <2>2, <2>4, StoredFacts, MoveCursor
<1> QED
  BY <1>3, <1>4, <1>5 DEF Put

LEMMA ConsoleInitInv == ConsoleInit => ConsoleInv
<1> SUFFICES ASSUME ConsoleInit PROVE ConsoleInv
  OBVIOUS
<1>1. CursorCell \in Cells
  BY HomeFacts, CellOnScreen DEF ConsoleInit, CursorCell
<1>2. Cleared \in [Cells -> Glyphs \cup {Blank}] /\ \A i \in Cells : Cleared[i] = Blank
  BY DEF Cleared
<1>3. ConsoleTypeOK
  BY <1>2, HomeFacts DEF ConsoleInit, ConsoleTypeOK, Others
<1>4. NothingBeyondCursor
  BY <1>2 DEF ConsoleInit, NothingBeyondCursor
<1> QED
  BY <1>1, <1>3, <1>4 DEF ConsoleInit, ConsoleInv, CursorOnScreen

LEMMA ConsoleNextInv == ConsoleInv /\ [ConsoleNext]_consoleVars => ConsoleInv'
<1> SUFFICES ASSUME ConsoleInv, [ConsoleNext]_consoleVars PROVE ConsoleInv'
  OBVIOUS
<1>1. CASE clear_reset_cursor
  <2>1. CursorCell' = Cell(0, 0) /\ Cell(0, 0) \in Cells
    BY <1>1, HomeFacts, CellOnScreen DEF clear_reset_cursor, set_cursor_pos, CursorCell, Cell
  <2>2. Cleared \in [Cells -> Glyphs \cup {Blank}] /\ \A i \in Cells : Cleared[i] = Blank
    BY DEF Cleared
  <2>3. ConsoleTypeOK'
    BY <1>1, <2>2, HomeFacts DEF clear_reset_cursor, set_cursor_pos, ConsoleTypeOK, Others
  <2>4. NothingBeyondCursor'
    BY <1>1, <2>2 DEF clear_reset_cursor, NothingBeyondCursor
  <2>5. CursorOnScreen'
    BY <1>1, <2>1 DEF clear_reset_cursor, set_cursor_pos, CursorOnScreen
  <2> QED
    BY <2>3, <2>4, <2>5 DEF ConsoleInv
<1>2. CASE Draw
  BY <1>2 DEF Draw, ConsoleInv, ConsoleTypeOK, CursorOnScreen, NothingBeyondCursor, CursorCell,
              Cell, Others
<1>3. CASE UNCHANGED consoleVars
  BY <1>3 DEF consoleVars, ConsoleInv, ConsoleTypeOK, CursorOnScreen, NothingBeyondCursor,
              CursorCell, Cell
<1> QED
  BY <1>1, <1>2, <1>3, NewlineInv, BackspaceInv, PutInv DEF ConsoleNext

\* On a screen of any size text never leaves the buffer of its terminal, however
\* it wraps, scrolls and is deleted (lib.c, putc()).
THEOREM OutputStaysOnScreen == ConsoleSpec => [](ConsoleTypeOK /\ CursorOnScreen)
<1>1. ConsoleInv => ConsoleTypeOK /\ CursorOnScreen
  BY DEF ConsoleInv
<1> QED
  BY <1>1, ConsoleInitInv, ConsoleNextInv, PTL DEF ConsoleSpec

\* Text ends at the cursor: putc() overwrites no character, and what is deleted
\* or scrolled away is gone (lib.c, putc() and scroll_down()).
THEOREM TextEndsAtCursor == ConsoleSpec => []NothingBeyondCursor
<1>1. ConsoleInv => NothingBeyondCursor
  BY DEF ConsoleInv
<1> QED
  BY <1>1, ConsoleInitInv, ConsoleNextInv, PTL DEF ConsoleSpec

----------------------------------------------------------------------------
(* Commands *)

LEMMA LeastExists ==
    ASSUME NEW T \in SUBSET Nat, T # {}
    PROVE  \E k \in T : \A j \in T : k <= j
<1> DEFINE R == {ss \in Nat \X Nat : ss[1] < ss[2]}
<1>1. IsWellFoundedOn(R, Nat)
  BY NatLessThanWellFounded DEF OpToRel
<1>2. PICK k \in T : \A j \in T : <<j, k>> \notin R
  <2> HIDE DEF R
  <2> QED
    BY <1>1, WFMin
<1>3. ASSUME NEW j \in T PROVE k <= j
  <2>1. <<j, k>> \notin R
    <3> HIDE DEF R
    <3> QED
      BY <1>2
  <2> QED
    BY <2>1
<1> QED
  BY <1>3

----------------------------------------------------------------------------
(* What the CHOOSEs of Prefix and strnlen find *)

LEMMA PrefixFound ==
    ASSUME NEW S, NEW s \in Seq(S), NEW C
    PROVE  /\ Prefix(s, C) \in 0 .. Len(s)
           /\ \A i \in 1 .. Prefix(s, C) : s[i] \in C
           /\ Prefix(s, C) = Len(s) \/ s[Prefix(s, C) + 1] \notin C
<1> DEFINE T == {k \in 0 .. Len(s) : k = Len(s) \/ s[k + 1] \notin C}
<1>1. PICK k \in T : \A j \in T : k <= j
  <2>1. T \in SUBSET Nat /\ Len(s) \in T
    BY LenProperties
  <2> QED
    BY <2>1, LeastExists
<1>2. \A i \in 1 .. k : s[i] \in C
  <2>1. ASSUME NEW i \in 1 .. k, s[i] \notin C PROVE FALSE
    <3>1. i - 1 \in T
      BY <2>1, <1>1, LenProperties
    <3>2. k <= i - 1
      <4> HIDE DEF T
      <4> QED
        BY <3>1, <1>1
    <3> QED
      BY <3>2, <1>1, LenProperties
  <2> QED
    BY <2>1
<1> QED
  BY <1>1, <1>2 DEF Prefix

LEMMA PrefixUnique ==
    ASSUME NEW S, NEW s \in Seq(S), NEW C, NEW k \in 0 .. Len(s),
           \A i \in 1 .. k : s[i] \in C, k = Len(s) \/ s[k + 1] \notin C
    PROVE  Prefix(s, C) = k
<1> DEFINE p == Prefix(s, C)
<1>1. /\ p \in 0 .. Len(s)
      /\ \A i \in 1 .. p : s[i] \in C
      /\ p = Len(s) \/ s[p + 1] \notin C
  BY PrefixFound
<1> HIDE DEF p
<1>2. Len(s) \in Nat
  BY LenProperties
<1>3. ~(p < k)
  BY <1>1, <1>2
<1>4. ~(k < p)
  BY <1>1, <1>2
<1> QED
  BY <1>1, <1>3, <1>4, <1>2 DEF p

LEMMA StrnlenIs ==
    ASSUME NEW s, NEW n \in Nat, NEW k \in 0 .. n,
           \A j \in 1 .. k : s[j] # NUL, k = n \/ s[k + 1] = NUL
    PROVE  strnlen(s, n) = k
<1>1. ASSUME NEW l \in 0 .. n, \A j \in 1 .. l : s[j] # NUL, l = n \/ s[l + 1] = NUL
      PROVE  l = k
  <2>1. ~(l < k)
    BY <1>1
  <2>2. ~(k < l)
    BY <1>1
  <2> QED
    BY <2>1, <2>2
<1> QED
  BY <1>1 DEF strnlen

----------------------------------------------------------------------------
(* The file that is found has the name in the command *)

LEMMA CharacterFacts ==
    /\ Space \in Characters /\ Enter \in Characters /\ Space # Enter
    /\ \A x \in Characters : x # NUL
    /\ DENTRY_NAME_LEN \in Nat /\ ARG_BUFF_SIZE \in Nat
BY CommandsAssumption

\* A string of characters that NUL ends, in the field of a directory entry.
LEMMA NameField ==
    ASSUME NEW f \in Seq(Characters), Len(f) <= DENTRY_NAME_LEN
    PROVE  LET field == strncpy(f \o <<NUL>>, DENTRY_NAME_LEN)
           IN  /\ strnlen(field, DENTRY_NAME_LEN) = Len(f)
               /\ \A i \in 1 .. DENTRY_NAME_LEN :
                    field[i] = IF i <= Len(f) THEN f[i] ELSE NUL
<1> DEFINE full == f \o <<NUL>>
           n == Lesser(DENTRY_NAME_LEN, Len(full))
           field == strncpy(full, DENTRY_NAME_LEN)
<1>1. /\ Len(f) \in Nat /\ Len(full) = Len(f) + 1
      /\ \A i \in 1 .. Len(f) : full[i] = f[i] /\ f[i] \in Characters
      /\ full[Len(f) + 1] = NUL
  <2>1. f \in Seq(Characters \cup {NUL}) /\ <<NUL>> \in Seq(Characters \cup {NUL})
    BY SeqMonotonic
  <2>2. Len(<<NUL>>) = 1 /\ <<NUL>>[1] = NUL
    OBVIOUS
  <2>3. Len(f) \in Nat /\ \A i \in 1 .. Len(f) : f[i] \in Characters
    BY LenProperties
  <2>4. Len(full) = Len(f) + 1
    BY <2>1, <2>2, ConcatProperties
  <2>5. \A i \in 1 .. Len(f) + 1 : full[i] = IF i <= Len(f) THEN f[i] ELSE <<NUL>>[i - Len(f)]
    BY <2>1, <2>2, ConcatProperties
  <2> HIDE DEF full
  <2>6. full[Len(f) + 1] = NUL
    <3>1. Len(f) + 1 - Len(f) = 1 /\ Len(f) + 1 \in 1 .. Len(f) + 1 /\ ~(Len(f) + 1 <= Len(f))
      BY <2>3
    <3> QED
      BY <3>1, <2>2, <2>5
  <2>7. \A i \in 1 .. Len(f) : full[i] = f[i]
    BY <2>3, <2>5
  <2> QED
    BY <2>3, <2>4, <2>6, <2>7
<1> HIDE DEF full
<1>2. n \in Nat /\ Len(f) \in 0 .. n /\ n <= Len(f) + 1 /\ n <= DENTRY_NAME_LEN
  BY <1>1, CharacterFacts DEF Lesser
<1>3. strnlen(full, n) = Len(f)
  <2>1. \A j \in 1 .. Len(f) : full[j] # NUL
    BY <1>1, CharacterFacts
  <2>2. Len(f) = n \/ full[Len(f) + 1] = NUL
    BY <1>1
  <2> QED
    BY <2>1, <2>2, <1>2, StrnlenIs
<1>4. \A i \in 1 .. DENTRY_NAME_LEN : field[i] = IF i <= Len(f) THEN f[i] ELSE NUL
  BY <1>1, <1>3 DEF strncpy
<1> HIDE DEF field
<1>5. strnlen(field, DENTRY_NAME_LEN) = Len(f)
  <2>1. Len(f) \in 0 .. DENTRY_NAME_LEN
    BY <1>1
  <2>2. \A j \in 1 .. Len(f) : field[j] # NUL
    BY <1>1, <1>4, <2>1, CharacterFacts
  <2>3. Len(f) = DENTRY_NAME_LEN \/ field[Len(f) + 1] = NUL
    BY <1>1, <1>4, <2>1, CharacterFacts
  <2> QED
    BY <2>1, <2>2, <2>3, CharacterFacts, StrnlenIs
<1> QED
  BY <1>4, <1>5 DEF field, full

\* strlen() of file_name[], whatever the stack holds behind it.
LEMMA StackedLength ==
    ASSUME NEW name \in Seq(Characters), Len(name) <= DENTRY_NAME_LEN,
           NEW fname \in StackedNames(name)
    PROVE  /\ strlen(fname) >= Len(name)
           /\ strlen(fname) = Len(name) \/ strlen(fname) > DENTRY_NAME_LEN
           /\ \A i \in 1 .. Len(name) : fname[i] = name[i]
<1> DEFINE All == Characters \cup {NUL}
<1>1. /\ name \in Seq(All) /\ Len(name) \in Nat
      /\ \A i \in 1 .. Len(name) : name[i] \in Characters
  BY LenProperties, SeqMonotonic
<1>2. CASE fname = name \o <<NUL>>
  <2>1. /\ <<NUL>> \in Seq(All) /\ Len(<<NUL>>) = 1 /\ <<NUL>>[1] = NUL
    OBVIOUS
  <2>2. /\ Len(fname) = Len(name) + 1
        /\ \A i \in 1 .. Len(name) + 1 :
                fname[i] = IF i <= Len(name) THEN name[i] ELSE <<NUL>>[i - Len(name)]
    BY <1>1, <1>2, <2>1, ConcatProperties
  <2>3. fname[Len(name) + 1] = NUL
    <3>1. Len(name) + 1 - Len(name) = 1 /\ ~(Len(name) + 1 <= Len(name))
          /\ Len(name) + 1 \in 1 .. Len(name) + 1
      BY <1>1
    <3> QED
      BY <3>1, <2>1, <2>2
  <2>4. \A i \in 1 .. Len(name) : fname[i] = name[i] /\ fname[i] # NUL
    BY <1>1, <2>2, CharacterFacts
  <2>5. Len(fname) \in Nat /\ Len(name) \in 0 .. Len(fname)
    BY <1>1, <2>2
  <2>6. strlen(fname) = Len(name)
    BY <2>3, <2>4, <2>5, StrnlenIs DEF strlen
  <2> QED
    BY <2>4, <2>6, <1>1
<1>3. CASE Len(name) >= DENTRY_NAME_LEN /\ fname = name \o <<Space, NUL>>
  <2>1. /\ <<Space, NUL>> \in Seq(All) /\ Len(<<Space, NUL>>) = 2
        /\ <<Space, NUL>>[1] = Space /\ <<Space, NUL>>[2] = NUL
    BY CharacterFacts
  <2>2. /\ Len(fname) = Len(name) + 2
        /\ \A i \in 1 .. Len(name) + 2 :
                fname[i] = IF i <= Len(name) THEN name[i] ELSE <<Space, NUL>>[i - Len(name)]
    BY <1>1, <1>3, <2>1, ConcatProperties
  <2>3. fname[Len(name) + 1] = Space /\ fname[Len(name) + 2] = NUL
    <3>1. /\ Len(name) + 1 - Len(name) = 1 /\ ~(Len(name) + 1 <= Len(name))
          /\ Len(name) + 2 - Len(name) = 2 /\ ~(Len(name) + 2 <= Len(name))
          /\ {Len(name) + 1, Len(name) + 2} \subseteq 1 .. Len(name) + 2
      BY <1>1
    <3> QED
      BY <3>1, <2>1, <2>2
  <2>4. \A i \in 1 .. Len(name) : fname[i] = name[i] /\ fname[i] # NUL
    BY <1>1, <2>2, CharacterFacts
  <2>5. \A i \in 1 .. Len(name) + 1 : fname[i] # NUL
    BY <1>1, <2>3, <2>4, CharacterFacts
  <2>6. Len(fname) \in Nat /\ Len(name) + 1 \in 0 .. Len(fname)
    BY <1>1, <2>2
  <2>7. fname[(Len(name) + 1) + 1] = NUL
    BY <1>1, <2>3
  <2>8. strlen(fname) = Len(name) + 1
    BY <2>5, <2>6, <2>7, StrnlenIs DEF strlen
  <2> QED
    BY <2>4, <2>8, <1>1, <1>3, CharacterFacts
<1> QED
  BY SMTT(20), <1>1, <1>2, <1>3, CharacterFacts DEF StackedNames

LEMMA FoundIsNamed ==
    ASSUME NEW name \in Seq(Characters), Len(name) <= DENTRY_NAME_LEN,
           NEW fname \in StackedNames(name), NEW f \in Found(fname)
    PROVE  f = name
<1>1. f \in Seq(Characters) /\ Len(f) <= DENTRY_NAME_LEN
  BY CommandsAssumption DEF Found, Files
<1> DEFINE field == strncpy(f \o <<NUL>>, DENTRY_NAME_LEN)
<1>2. /\ strnlen(field, DENTRY_NAME_LEN) = Len(f)
      /\ \A i \in 1 .. DENTRY_NAME_LEN : field[i] = IF i <= Len(f) THEN f[i] ELSE NUL
  BY <1>1, NameField
<1>3. strnlen(field, DENTRY_NAME_LEN) = strlen(fname) /\ SameChars(field, fname, DENTRY_NAME_LEN)
  BY DEF Found, NameMatches
<1> HIDE DEF field
<1>4. /\ Len(f) \in Nat /\ Len(name) \in Nat
      /\ \A i \in 1 .. Len(f) : f[i] \in Characters
  BY <1>1, LenProperties
<1>5. Len(f) = Len(name)
  BY <1>1, <1>2, <1>3, <1>4, StackedLength, CharacterFacts
<1>6. \A i \in 1 .. Len(name) : fname[i] = name[i]
  BY StackedLength
<1> DEFINE Wrong == {i \in 1 .. Len(f) : f[i] # name[i]}
<1>7. Wrong = {}
  <2>1. SUFFICES ASSUME Wrong # {} PROVE FALSE
    OBVIOUS
  <2>2. PICK k \in Wrong : \A j \in Wrong : k <= j
    <3>1. Wrong \in SUBSET Nat
      BY <1>4
    <3> HIDE DEF Wrong
    <3> QED
      BY <2>1, <3>1, LeastExists
  <2>3. k \in 1 .. DENTRY_NAME_LEN /\ k \in 1 .. Len(f)
    BY <1>1, <1>4, CharacterFacts
  <2>4. \A j \in 1 .. k - 1 : j \in 1 .. DENTRY_NAME_LEN /\ j \in 1 .. Len(f) /\ j \notin Wrong
    <3>1. \A j \in 1 .. k - 1 : j \in 1 .. DENTRY_NAME_LEN /\ j \in 1 .. Len(f) /\ ~(k <= j)
      BY <2>3, <1>4, CharacterFacts
    <3> HIDE DEF Wrong
    <3> QED
      BY <3>1, <2>2
  <2>5. \A j \in 1 .. k - 1 : field[j] = fname[j] /\ field[j] # NUL
    BY <2>4, <1>2, <1>4, <1>5, <1>6, CharacterFacts
  <2>6. field[k] = fname[k]
    BY <2>3, <2>5, <1>3 DEF SameChars
  <2>7. field[k] = f[k] /\ fname[k] = name[k]
    BY <2>3, <1>2, <1>4, <1>5, <1>6
  <2> QED
    BY <2>6, <2>7
<1> QED
  BY <1>1, <1>4, <1>5, <1>7, SeqEqual

----------------------------------------------------------------------------
(* A command is spaces, the name, spaces, the arguments and what Enter ends *)

LEMMA DropFacts ==
    ASSUME NEW s \in Seq(Characters), NEW k \in 0 .. Len(s)
    PROVE  /\ Drop(s, k) \in Seq(Characters)
           /\ Len(Drop(s, k)) = Len(s) - k
           /\ \A i \in 1 .. Len(s) - k : Drop(s, k)[i] = s[k + i]
<1>1. Len(s) \in Nat /\ \A i \in 1 .. Len(s) : s[i] \in Characters
  BY LenProperties
<1>2. k + 1 \in Int /\ \A i \in k + 1 .. Len(s) : s[i] \in Characters
  BY <1>1
<1> DEFINE d == SubSeq(s, k + 1, Len(s))
<1>3. /\ d \in Seq(Characters)
      /\ Len(d) = IF k + 1 <= Len(s) THEN Len(s) - (k + 1) + 1 ELSE 0
      /\ \A i \in 1 .. Len(s) - (k + 1) + 1 : d[i] = s[k + 1 + i - 1]
  BY <1>1, <1>2, SubSeqProperties
<1> HIDE DEF d
<1> QED
  BY <1>1, <1>3 DEF Drop, d

LEMMA PartOfRest ==
    ASSUME NEW c \in Seq(Characters), NEW d \in Seq(Characters), NEW at \in Nat,
           NEW n \in 0 .. Len(d), at + n <= Len(c),
           \A i \in 1 .. Len(d) : d[i] = c[at + i]
    PROVE  SubSeq(d, 1, n) = SubSeq(c, at + 1, at + n)
<1>1. /\ Len(c) \in Nat /\ \A i \in 1 .. Len(c) : c[i] \in Characters
      /\ Len(d) \in Nat /\ \A i \in 1 .. Len(d) : d[i] \in Characters
  BY LenProperties
<1> DEFINE p == SubSeq(d, 1, n)
           q == SubSeq(c, at + 1, at + n)
<1>2. /\ p \in Seq(Characters) /\ Len(p) = IF 1 <= n THEN n - 1 + 1 ELSE 0
      /\ \A i \in 1 .. n - 1 + 1 : p[i] = d[1 + i - 1]
  <2>1. n \in Int /\ \A i \in 1 .. n : d[i] \in Characters
    BY <1>1
  <2> QED
    BY <2>1, SubSeqProperties
<1>3. /\ q \in Seq(Characters) /\ Len(q) = IF at + 1 <= at + n THEN at + n - (at + 1) + 1 ELSE 0
      /\ \A i \in 1 .. at + n - (at + 1) + 1 : q[i] = c[at + 1 + i - 1]
  <2>1. /\ at + 1 \in Int /\ at + n \in Int
        /\ \A i \in at + 1 .. at + n : c[i] \in Characters
    BY <1>1
  <2> QED
    BY <2>1, SubSeqProperties
<1> HIDE DEF p, q
<1>4. Len(p) = n /\ Len(q) = n
  BY <1>1, <1>2, <1>3
<1>5. ASSUME NEW i \in 1 .. n PROVE p[i] = q[i]
  <2>1. /\ 1 + i - 1 = i /\ at + 1 + i - 1 = at + i
        /\ i \in 1 .. n - 1 + 1 /\ i \in 1 .. at + n - (at + 1) + 1 /\ i \in 1 .. Len(d)
    BY <1>1
  <2> QED
    BY <2>1, <1>2, <1>3
<1>6. p = q
  BY <1>2, <1>3, <1>4, <1>5, SeqEqual
<1> QED
  BY <1>6 DEF p, q

\* The parts, by their lengths: where each begins and ends in the command.
SplitAt(c, b, w, s, t) ==
    /\ b + w + s + t <= Len(c)
    /\ \A i \in 1 .. b : c[i] = Space
    /\ file_name(c) = SubSeq(c, b + 1, b + w)
    /\ \A i \in b + 1 .. b + w : c[i] \notin {Space, Enter}
    /\ \A i \in b + w + 1 .. b + w + s : c[i] = Space
    /\ file_args(c) = SubSeq(c, b + w + s + 1, b + w + s + t)
    /\ \A i \in b + w + s + 1 .. b + w + s + t : c[i] # Enter
    /\ b + w + s + t = Len(c) \/ c[b + w + s + t + 1] = Enter
    /\ t > 0 => s > 0 /\ c[b + w + s + 1] # Space

LEMMA Parts ==
    ASSUME NEW c \in Seq(Characters), Len(file_name(c)) < DENTRY_NAME_LEN
    PROVE  \E b, w, s, t \in Nat : SplitAt(c, b, w, s, t)
<1> DEFINE b == Prefix(c, {Space})
           trimmed == Drop(c, b)
           w == Prefix(trimmed, Characters \ {Space, Enter})
           rest == Drop(trimmed, w)
           s == Prefix(rest, {Space})
           start == Drop(rest, s)
           t == Prefix(start, Characters \ {Enter})
<1>1. Len(c) \in Nat /\ \A i \in 1 .. Len(c) : c[i] \in Characters
  BY LenProperties
<1>2. b \in 0 .. Len(c) /\ \A i \in 1 .. b : c[i] \in {Space}
  BY PrefixFound
<1>3. /\ trimmed \in Seq(Characters)
      /\ Len(trimmed) = Len(c) - b
      /\ \A i \in 1 .. Len(c) - b : trimmed[i] = c[b + i]
  <2> HIDE DEF b
  <2> QED
    BY <1>2, DropFacts
<1>4. /\ w \in 0 .. Len(trimmed)
      /\ \A i \in 1 .. w : trimmed[i] \in Characters \ {Space, Enter}
      /\ w = Len(trimmed) \/ trimmed[w + 1] \notin Characters \ {Space, Enter}
  <2> HIDE DEF trimmed
  <2> QED
    BY <1>3, PrefixFound
<1>5. /\ rest \in Seq(Characters)
      /\ Len(rest) = Len(trimmed) - w
      /\ \A i \in 1 .. Len(trimmed) - w : rest[i] = trimmed[w + i]
  <2> HIDE DEF trimmed, w
  <2> QED
    BY <1>3, <1>4, DropFacts
<1>6. /\ s \in 0 .. Len(rest)
      /\ \A i \in 1 .. s : rest[i] \in {Space}
      /\ s = Len(rest) \/ rest[s + 1] \notin {Space}
  <2> HIDE DEF rest
  <2> QED
    BY <1>5, PrefixFound
<1>7. /\ start \in Seq(Characters)
      /\ Len(start) = Len(rest) - s
      /\ \A i \in 1 .. Len(rest) - s : start[i] = rest[s + i]
  <2> HIDE DEF rest, s
  <2> QED
    BY <1>5, <1>6, DropFacts
<1>8. /\ t \in 0 .. Len(start)
      /\ \A i \in 1 .. t : start[i] \in Characters \ {Enter}
      /\ t = Len(start) \/ start[t + 1] \notin Characters \ {Enter}
  <2> HIDE DEF start
  <2> QED
    BY <1>7, PrefixFound
<1>9. NameLength(c) = w
  <2>1. NameLength(c) = Lesser(DENTRY_NAME_LEN, w)
    BY DEF NameLength, PrefixWithout, Trimmed
  <2>2. file_name(c) = SubSeq(trimmed, 1, NameLength(c))
    BY DEF file_name, Trimmed
  <2> HIDE DEF trimmed, w
  <2>3. NameLength(c) \in 0 .. Len(trimmed) /\ Len(trimmed) \in Nat
    BY <2>1, <1>1, <1>2, <1>3, <1>4, CharacterFacts DEF Lesser
  <2>4. \A i \in 1 .. Len(trimmed) : trimmed[i] \in Characters
    BY <1>3, LenProperties
  <2>5. Len(file_name(c)) = NameLength(c)
    <3>1. /\ NameLength(c) \in Int
          /\ \A i \in 1 .. NameLength(c) : trimmed[i] \in Characters
      BY <2>3, <2>4
    <3>2. Len(SubSeq(trimmed, 1, NameLength(c))) =
                IF 1 <= NameLength(c) THEN NameLength(c) - 1 + 1 ELSE 0
      BY <3>1, SubSeqProperties
    <3> QED
      BY <3>2, <2>2, <2>3
  <2> QED
    BY <2>1, <2>5, <1>4, CharacterFacts DEF Lesser
<1>10. file_name(c) = SubSeq(trimmed, 1, w)
  BY <1>9 DEF file_name, Trimmed
<1>11. file_args(c) = SubSeq(start, 1, t)
  BY <1>9 DEF file_args, PrefixWithout, Trimmed
<1> HIDE DEF b, trimmed, w, rest, s, start, t
<1>12. /\ b \in Nat /\ w \in Nat /\ s \in Nat /\ t \in Nat
       /\ b + w + s + t <= Len(c)
       /\ Len(trimmed) = Len(c) - b /\ Len(rest) = Len(c) - b - w
       /\ Len(start) = Len(c) - b - w - s
  BY <1>1, <1>2, <1>3, <1>4, <1>5, <1>6, <1>7, <1>8
<1>13. /\ \A i \in 1 .. Len(rest) : rest[i] = c[b + w + i]
       /\ \A i \in 1 .. Len(start) : start[i] = c[b + w + s + i]
  <2>1. \A i \in 1 .. Len(rest) : rest[i] = c[b + w + i]
    <3>1. ASSUME NEW i \in 1 .. Len(rest) PROVE rest[i] = c[b + w + i]
      <4>1. w + i \in 1 .. Len(c) - b /\ b + (w + i) = b + w + i /\ i \in 1 .. Len(trimmed) - w
        BY <1>12
      <4> QED
        BY <4>1, <1>3, <1>5
    <3> QED
      BY <3>1
  <2>2. \A i \in 1 .. Len(start) : start[i] = c[b + w + s + i]
    <3>1. ASSUME NEW i \in 1 .. Len(start) PROVE start[i] = c[b + w + s + i]
      <4>1. s + i \in 1 .. Len(rest) /\ b + w + (s + i) = b + w + s + i /\ i \in 1 .. Len(rest) - s
        BY <1>12
      <4> QED
        BY <4>1, <2>1, <1>7
    <3> QED
      BY <3>1
  <2> QED
    BY <2>1, <2>2
<1>14. file_name(c) = SubSeq(c, b + 1, b + w)
  <2>1. \A i \in 1 .. Len(trimmed) : trimmed[i] = c[b + i]
    BY <1>3, <1>12
  <2>2. w \in 0 .. Len(trimmed) /\ b + w <= Len(c)
    BY <1>1, <1>4, <1>12
  <2> QED
    BY <2>1, <2>2, <1>3, <1>10, <1>12, PartOfRest
<1>15. file_args(c) = SubSeq(c, b + w + s + 1, b + w + s + t)
  <2>1. /\ t \in 0 .. Len(start) /\ b + w + s \in Nat /\ b + w + s + t <= Len(c)
        /\ start \in Seq(Characters)
    BY <1>7, <1>8, <1>12
  <2> DEFINE at == b + w + s
  <2>2. /\ at \in Nat /\ at + t <= Len(c)
        /\ \A i \in 1 .. Len(start) : start[i] = c[at + i]
    BY <2>1, <1>13
  <2> HIDE DEF at
  <2>3. SubSeq(start, 1, t) = SubSeq(c, at + 1, at + t)
    BY <2>1, <2>2, PartOfRest
  <2> QED
    BY <2>3, <1>11 DEF at
<1>16. \A i \in 1 .. b : c[i] = Space
  BY <1>2
<1>17. \A i \in b + 1 .. b + w : c[i] \notin {Space, Enter}
  <2>1. ASSUME NEW i \in b + 1 .. b + w PROVE c[i] \notin {Space, Enter}
    <3>1. i - b \in 1 .. w /\ i - b \in 1 .. Len(c) - b /\ b + (i - b) = i
      BY <1>1, <1>12
    <3> QED
      BY <3>1, <1>3, <1>4
  <2> QED
    BY <2>1
<1>18. \A i \in b + w + 1 .. b + w + s : c[i] = Space
  <2>1. ASSUME NEW i \in b + w + 1 .. b + w + s PROVE c[i] = Space
    <3>1. i - (b + w) \in 1 .. s /\ i - (b + w) \in 1 .. Len(rest) /\ b + w + (i - (b + w)) = i
      BY <1>1, <1>12
    <3> QED
      BY <3>1, <1>6, <1>13
  <2> QED
    BY <2>1
<1>19. \A i \in b + w + s + 1 .. b + w + s + t : c[i] # Enter
  <2>1. ASSUME NEW i \in b + w + s + 1 .. b + w + s + t PROVE c[i] # Enter
    <3>1. /\ i - (b + w + s) \in 1 .. t /\ i - (b + w + s) \in 1 .. Len(start)
          /\ b + w + s + (i - (b + w + s)) = i
      BY <1>1, <1>12
    <3> QED
      BY <3>1, <1>8, <1>13
  <2> QED
    BY <2>1
<1>20. b + w + s + t = Len(c) \/ c[b + w + s + t + 1] = Enter
  <2>1. ASSUME b + w + s + t # Len(c) PROVE c[b + w + s + t + 1] = Enter
    <3>1. /\ t # Len(start) /\ t + 1 \in 1 .. Len(start)
          /\ b + w + s + (t + 1) = b + w + s + t + 1
          /\ b + w + s + t + 1 \in 1 .. Len(c)
      BY <2>1, <1>1, <1>12
    <3>2. start[t + 1] = c[b + w + s + t + 1]
      BY <3>1, <1>13
    <3> QED
      BY <3>1, <3>2, <1>1, <1>8
  <2> QED
    BY <2>1
<1>21. ASSUME t > 0 PROVE s > 0 /\ c[b + w + s + 1] # Space
  <2>1. /\ s # Len(rest) /\ s + 1 \in 1 .. Len(rest) /\ b + w + (s + 1) = b + w + s + 1
        /\ 1 \in 1 .. t /\ 1 \in 1 .. Len(start) /\ w # Len(trimmed)
        /\ w + 1 \in 1 .. Len(c) - b
    BY <1>21, <1>1, <1>12
  <2>2. rest[s + 1] = c[b + w + s + 1] /\ start[1] = c[b + w + s + 1]
    BY <2>1, <1>13
  <2>3. c[b + w + s + 1] # Space /\ c[b + w + s + 1] # Enter
    BY <2>1, <2>2, <1>6, <1>8
  <2>4. ASSUME s = 0 PROVE FALSE
    <3>1. b + (w + 1) = b + w + s + 1
      BY <2>4, <1>12
    <3>2. trimmed[w + 1] = c[b + w + s + 1] /\ trimmed[w + 1] \in Characters
      <4>1. trimmed[w + 1] \in Characters
        BY <2>1, <1>3, <1>12, LenProperties
      <4> QED
        BY <4>1, <3>1, <2>1, <1>3
    <3> QED
      BY <3>2, <2>1, <2>3, <1>4
  <2> QED
    BY <2>3, <2>4, <1>12
<1> QED
  BY <1>12, <1>14, <1>15, <1>16, <1>17, <1>18, <1>19, <1>20, <1>21 DEF SplitAt

LEMMA SpacesAre ==
    ASSUME NEW c \in Seq(Characters), NEW at \in Nat, NEW n \in Nat, at + n <= Len(c),
           \A i \in at + 1 .. at + n : c[i] = Space
    PROVE  SubSeq(c, at + 1, at + n) = Spaces(n)
<1> DEFINE p == SubSeq(c, at + 1, at + n)
           q == Spaces(n)
<1>1. Len(c) \in Nat /\ \A i \in 1 .. Len(c) : c[i] \in Characters
  BY LenProperties
<1>2. /\ p \in Seq(Characters) /\ Len(p) = IF at + 1 <= at + n THEN at + n - (at + 1) + 1 ELSE 0
      /\ \A i \in 1 .. at + n - (at + 1) + 1 : p[i] = c[at + 1 + i - 1]
  <2>1. /\ at + 1 \in Int /\ at + n \in Int
        /\ \A i \in at + 1 .. at + n : c[i] \in Characters
    BY <1>1
  <2> QED
    BY <2>1, SubSeqProperties
<1>3. q \in Seq(Characters) /\ Len(q) = n /\ \A i \in 1 .. n : q[i] = Space
  <2>1. q \in [1 .. n -> Characters]
    BY CharacterFacts DEF Spaces
  <2>2. \A i \in 1 .. n : q[i] = Space
    BY DEF Spaces
  <2> HIDE DEF q
  <2>3. q \in Seq(Characters)
    BY <2>1, SeqDef
  <2>4. Len(q) = n
    BY <2>1, <2>3, LenProperties
  <2> QED
    BY <2>2, <2>3, <2>4
<1> HIDE DEF p, q
<1>4. Len(p) = n
  BY <1>1, <1>2
<1>5. ASSUME NEW i \in 1 .. n PROVE p[i] = q[i]
  <2>1. /\ at + 1 + i - 1 = at + i /\ at + i \in at + 1 .. at + n
        /\ i \in 1 .. at + n - (at + 1) + 1
    OBVIOUS
  <2> QED
    BY <2>1, <1>2, <1>3
<1>6. p = q
  BY <1>2, <1>3, <1>4, <1>5, SeqEqual
<1> QED
  BY <1>6 DEF p, q

LEMMA CommandSplits ==
    ASSUME NEW c \in Seq(Characters), Len(file_name(c)) < DENTRY_NAME_LEN
    PROVE  Splits(c, file_name(c), file_args(c)) /\ file_args(c) \in Ends(c)
<1>1. PICK b, w, s, t \in Nat : SplitAt(c, b, w, s, t)
  BY Parts
<1>2. Len(c) \in Nat /\ \A i \in 1 .. Len(c) : c[i] \in Characters
  BY LenProperties
<1> DEFINE b2 == b + w
           b3 == b2 + s
           b4 == b3 + t
           name == file_name(c)
           text == file_args(c)
<1>3. /\ b2 \in Nat /\ b3 \in Nat /\ b4 \in Nat
      /\ b <= b2 /\ b2 <= b3 /\ b3 <= b4 /\ b4 <= Len(c)
      /\ b2 = b + w /\ b3 = b2 + s /\ b4 = b3 + t
  BY <1>1 DEF SplitAt
<1>4. /\ name = SubSeq(c, b + 1, b2) /\ text = SubSeq(c, b3 + 1, b4)
      /\ \A i \in 1 .. b : c[i] = Space
      /\ \A i \in b + 1 .. b2 : c[i] \notin {Space, Enter}
      /\ \A i \in b2 + 1 .. b3 : c[i] = Space
      /\ \A i \in b3 + 1 .. b4 : c[i] # Enter
      /\ b4 = Len(c) \/ c[b4 + 1] = Enter
      /\ t > 0 => s > 0 /\ c[b3 + 1] # Space
  BY <1>1 DEF SplitAt
<1> HIDE DEF b2, b3, b4, name, text
<1>5. PrefixWithout(c, {Enter}) = b4
  <2>1. \A i \in 1 .. b4 : c[i] \in Characters \ {Enter}
    <3>1. ASSUME NEW i \in 1 .. b4 PROVE c[i] # Enter /\ i \in 1 .. Len(c)
      <4>1. i \in 1 .. b \/ i \in b + 1 .. b2 \/ i \in b2 + 1 .. b3 \/ i \in b3 + 1 .. b4
        BY <1>3
      <4>2. i \in 1 .. Len(c)
        BY <1>2, <1>3
      <4> QED
        BY <4>1, <4>2, <1>4, CharacterFacts
    <3> QED
      BY <3>1, <1>2
  <2>2. b4 = Len(c) \/ c[b4 + 1] \notin Characters \ {Enter}
    BY <1>4
  <2>3. b4 \in 0 .. Len(c)
    BY <1>2, <1>3
  <2> QED
    BY <2>1, <2>2, <2>3, PrefixUnique DEF PrefixWithout
<1>6. SubSeq(c, 1, b4) = Spaces(b) \o name \o Spaces(s) \o text
  <2>1. SubSeq(c, 1, b) = Spaces(b)
    <3>1. 0 \in Nat /\ 0 + b = b /\ 0 + 1 = 1 /\ 0 + b <= Len(c)
      BY <1>2, <1>3
    <3>2. \A i \in 0 + 1 .. 0 + b : c[i] = Space
      BY <3>1, <1>4
    <3>3. SubSeq(c, 0 + 1, 0 + b) = Spaces(b)
      BY <3>1, <3>2, SpacesAre
    <3> QED
      BY <3>1, <3>3
  <2>2. SubSeq(c, b2 + 1, b3) = Spaces(s)
    <3>1. b2 + s <= Len(c) /\ \A i \in b2 + 1 .. b2 + s : c[i] = Space
      BY <1>2, <1>3, <1>4
    <3>2. SubSeq(c, b2 + 1, b2 + s) = Spaces(s)
      BY <3>1, <1>3, SpacesAre
    <3> QED
      BY <3>2, <1>3
  <2>3. SubSeq(c, 1, b) \o SubSeq(c, b + 1, b2) = SubSeq(c, 1, b2)
    <3>1. 1 \in 1 .. Len(c) + 1 /\ b \in 1 - 1 .. Len(c) /\ b2 \in b .. Len(c)
      BY <1>2, <1>3
    <3> QED
      BY <3>1, ConcatAdjacentSubSeq
  <2>4. SubSeq(c, 1, b2) \o SubSeq(c, b2 + 1, b3) = SubSeq(c, 1, b3)
    <3>1. 1 \in 1 .. Len(c) + 1 /\ b2 \in 1 - 1 .. Len(c) /\ b3 \in b2 .. Len(c)
      BY <1>2, <1>3
    <3> QED
      BY <3>1, ConcatAdjacentSubSeq
  <2>5. SubSeq(c, 1, b3) \o SubSeq(c, b3 + 1, b4) = SubSeq(c, 1, b4)
    <3>1. 1 \in 1 .. Len(c) + 1 /\ b3 \in 1 - 1 .. Len(c) /\ b4 \in b3 .. Len(c)
      BY <1>2, <1>3
    <3> QED
      BY <3>1, ConcatAdjacentSubSeq
  <2> QED
    BY <2>1, <2>2, <2>3, <2>4, <2>5, <1>4
<1>7. /\ Len(name) = w /\ \A i \in 1 .. w : name[i] = c[b + i]
  <2>1. /\ b + 1 \in Int /\ b2 \in Int
        /\ \A i \in b + 1 .. b2 : c[i] \in Characters
    BY <1>2, <1>3
  <2>2. /\ Len(name) = IF b + 1 <= b2 THEN b2 - (b + 1) + 1 ELSE 0
        /\ \A i \in 1 .. b2 - (b + 1) + 1 : name[i] = c[b + 1 + i - 1]
    BY <2>1, <1>4, SubSeqProperties, SMTT(30)
  <2>3. /\ b2 - (b + 1) + 1 = w
        /\ \A i \in 1 .. w : b + 1 + i - 1 = b + i
    BY <1>3
  <2> QED
    BY <2>2, <2>3, <1>3
<1>8. Space \notin {name[i] : i \in 1 .. Len(name)}
  <2>1. ASSUME NEW i \in 1 .. w PROVE name[i] # Space
    <3>1. b + i \in b + 1 .. b2
      BY <1>3
    <3>2. c[b + i] \notin {Space, Enter}
      BY <3>1, <1>4
    <3> QED
      BY <3>2, <1>7
  <2> QED
    BY <2>1, <1>7
<1>9. text # <<>> => s > 0 /\ Head(text) # Space
  <2>1. ASSUME t = 0 PROVE text = <<>>
    <3>1. b4 < b3 + 1 /\ b3 + 1 \in Int /\ b4 \in Int
      BY <2>1, <1>3
    <3> QED
      BY <3>1, <1>4, SubSeqEmpty
  <2>2. ASSUME t > 0 PROVE Head(text) = c[b3 + 1]
    <3>1. b3 + 1 \in 1 .. Len(c) /\ b4 \in b3 + 1 .. Len(c)
      BY <2>2, <1>2, <1>3
    <3> QED
      BY <3>1, <1>4, HeadTailOfSubSeq
  <2>3. ASSUME text # <<>> PROVE t > 0
    BY <2>1, <2>3
  <2>4. ASSUME t > 0 PROVE s > 0 /\ c[b3 + 1] # Space
    BY <2>4, <1>4
  <2> QED
    BY <2>2, <2>3, <2>4
<1>10. b \in 0 .. Len(c) /\ s \in 0 .. Len(c)
  BY <1>2, <1>3
<1>11. Splits(c, name, text)
  BY <1>5, <1>6, <1>8, <1>9, <1>10 DEF Splits
<1>12. text \in Ends(c)
  <2>1. b3 + 1 \in 1 .. Len(c) + 1
    BY <1>2, <1>3
  <2> QED
    BY <2>1, <1>4, <1>5 DEF Ends
<1> QED
  BY <1>11, <1>12 DEF name, text

LEMMA NameIsShort ==
    ASSUME NEW c \in Seq(Characters)
    PROVE  file_name(c) \in Seq(Characters) /\ Len(file_name(c)) <= DENTRY_NAME_LEN
<1> DEFINE b == Prefix(c, {Space})
           trimmed == Drop(c, b)
           w == Prefix(trimmed, Characters \ {Space, Enter})
           n == Lesser(DENTRY_NAME_LEN, w)
<1>1. b \in 0 .. Len(c)
  BY PrefixFound
<1>2. trimmed \in Seq(Characters)
  <2> HIDE DEF b
  <2> QED
    BY <1>1, DropFacts
<1>3. file_name(c) = SubSeq(trimmed, 1, n)
  BY DEF file_name, NameLength, PrefixWithout, Trimmed
<1>4. w \in 0 .. Len(trimmed)
  <2> HIDE DEF trimmed
  <2> QED
    BY <1>2, PrefixFound
<1> HIDE DEF w, trimmed
<1>5. Len(trimmed) \in Nat /\ \A i \in 1 .. Len(trimmed) : trimmed[i] \in Characters
  BY <1>2, LenProperties
<1>6. n \in Int /\ n <= DENTRY_NAME_LEN /\ n <= Len(trimmed)
  BY <1>4, <1>5, CharacterFacts DEF Lesser
<1> HIDE DEF n
<1>7. /\ SubSeq(trimmed, 1, n) \in Seq(Characters)
      /\ Len(SubSeq(trimmed, 1, n)) = IF 1 <= n THEN n - 1 + 1 ELSE 0
  <2>1. \A i \in 1 .. n : trimmed[i] \in Characters
    BY <1>5, <1>6
  <2> QED
    BY <2>1, <1>6, SubSeqProperties
<1> QED
  BY <1>3, <1>6, <1>7, CharacterFacts

\* The arguments of a command are characters of it, and fit into the PCB.
LEMMA ArgumentFacts ==
    ASSUME NEW c \in CommandLines, Len(file_name(c)) < DENTRY_NAME_LEN
    PROVE  /\ c \in Seq(Characters)
           /\ file_args(c) \in Seq(Characters)
           /\ Len(file_args(c)) \in Nat /\ Len(file_args(c)) < ARG_BUFF_SIZE
           /\ \A i \in 1 .. Len(file_args(c)) : file_args(c)[i] \in Characters
<1>1. c \in Seq(Characters) /\ Len(file_args(c)) < ARG_BUFF_SIZE
  BY CommandsAssumption
<1>2. PICK at, n \in Nat : at + n <= Len(c) /\ file_args(c) = SubSeq(c, at + 1, at + n)
  <2>1. PICK b, w, s, t \in Nat : SplitAt(c, b, w, s, t)
    BY <1>1, Parts
  <2> DEFINE at == b + w + s
  <2>2. at \in Nat /\ at + t <= Len(c) /\ file_args(c) = SubSeq(c, at + 1, at + t)
    BY <2>1 DEF SplitAt
  <2> HIDE DEF at
  <2> QED
    BY <2>2
<1>3. Len(c) \in Nat /\ \A i \in 1 .. Len(c) : c[i] \in Characters
  BY <1>1, LenProperties
<1>4. file_args(c) \in Seq(Characters)
  <2>1. /\ at + 1 \in Int /\ at + n \in Int
        /\ \A i \in at + 1 .. at + n : c[i] \in Characters
    BY <1>2, <1>3
  <2> QED
    BY <2>1, <1>2, SubSeqProperties
<1> QED
  BY <1>1, <1>4, LenProperties

----------------------------------------------------------------------------
(* The invariant: the PCB holds the arguments of the command that runs *)

PcbHoldsArguments ==
    LET text == file_args(command) IN
    /\ \A i \in 1 .. Len(text) : args[i] = text[i]
    /\ args[Len(text) + 1] = NUL

RepliesHoldArguments ==
    LET text == file_args(command) IN
    got # NothingGot =>
        /\ got.result = 0 => got.text = text
        /\ got.result # 0 => got.nbytes <= Len(text)

CommandsInv ==
    /\ args \in [1 .. ARG_BUFF_SIZE -> Characters \cup {NUL}]
    /\ launched = <<>> => got = NothingGot
    /\ launched # <<>> => /\ command \in CommandLines
                          /\ launched = file_name(command)
                          /\ Len(launched) < DENTRY_NAME_LEN
                          /\ PcbHoldsArguments
                          /\ RepliesHoldArguments

LEMMA LaunchKeepsInv ==
    ASSUME CommandsInv, NEW c \in CommandLines, Launch(c)
    PROVE  CommandsInv'
<1>1. c \in Seq(Characters)
  BY CommandsAssumption
<1>fname. PICK fname \in StackedNames(file_name(c)) :
         \E f \in Found(fname) : Executable(f) /\ launched' = f
  BY DEF Launch
<1>2. PICK f \in Found(fname) : Executable(f) /\ launched' = f
  BY <1>fname
<1>3. f = file_name(c)
  BY <1>1, <1>2, NameIsShort, FoundIsNamed
<1>4. Len(f) < DENTRY_NAME_LEN
  BY CommandsAssumption, <1>2 DEF Found, Files, Executable
<1> DEFINE text == file_args(c)
<1>5. /\ Len(text) \in Nat /\ Len(text) < ARG_BUFF_SIZE
      /\ \A i \in 1 .. Len(text) : text[i] \in Characters
  BY <1>3, <1>4, ArgumentFacts
<1> HIDE DEF text
<1>6. args' = [i \in 1 .. ARG_BUFF_SIZE |-> IF i <= Len(text) THEN text[i]
                                            ELSE IF i = Len(text) + 1 THEN NUL ELSE args[i]]
  BY DEF Launch, pcb_args, text
<1>7. args' \in [1 .. ARG_BUFF_SIZE -> Characters \cup {NUL}]
  BY <1>5, <1>6, CharacterFacts DEF CommandsInv
<1>8. /\ \A i \in 1 .. Len(text) : args'[i] = text[i]
      /\ args'[Len(text) + 1] = NUL
  BY <1>5, <1>6, CharacterFacts
<1>9. command' = c /\ got' = NothingGot
  BY DEF Launch, CommandsInv
<1>10. PcbHoldsArguments' /\ RepliesHoldArguments'
  BY <1>8, <1>9 DEF PcbHoldsArguments, RepliesHoldArguments, text
<1> QED
  BY <1>2, <1>3, <1>4, <1>7, <1>9, <1>10 DEF CommandsInv

LEMMA GetargsKeepsInv ==
    ASSUME CommandsInv, NEW nbytes \in Counts, getargs(nbytes)
    PROVE  CommandsInv'
<1> DEFINE text == file_args(command)
           n == Lesser(nbytes, ARG_BUFF_SIZE)
           length == strnlen(args, n)
<1>1. /\ launched # <<>> /\ UNCHANGED <<launched, command, args>>
      /\ got' = [nbytes |-> nbytes, result |-> IF length < nbytes THEN 0 ELSE -1,
                 text |-> SubSeq(args, 1, length)]
  BY DEF getargs
<1>2. /\ text \in Seq(Characters) /\ Len(text) \in Nat /\ Len(text) < ARG_BUFF_SIZE
      /\ \A i \in 1 .. Len(text) : text[i] \in Characters
  BY <1>1, ArgumentFacts DEF CommandsInv
<1>3. /\ \A i \in 1 .. Len(text) : args[i] = text[i]
      /\ args[Len(text) + 1] = NUL
  BY <1>1 DEF CommandsInv, PcbHoldsArguments
<1>4. nbytes \in Nat /\ ARG_BUFF_SIZE \in Nat
  BY CommandsAssumption
<1> HIDE DEF text, length
<1>5. n \in Nat
  BY <1>4 DEF Lesser
<1>6. ASSUME Len(text) < nbytes PROVE length = Len(text)
  <2>1. Len(text) \in 0 .. n
    BY <1>2, <1>4, <1>6 DEF Lesser
  <2>2. \A j \in 1 .. Len(text) : args[j] # NUL
    BY <1>2, <1>3, CharacterFacts
  <2> HIDE DEF n
  <2> QED
    BY <2>1, <2>2, <1>3, <1>5, StrnlenIs DEF length
<1>7. ASSUME ~(Len(text) < nbytes) PROVE length = nbytes
  <2>1. n = nbytes /\ n \in 0 .. n
    BY <1>2, <1>4, <1>7 DEF Lesser
  <2>2. \A j \in 1 .. nbytes : j \in 1 .. Len(text)
    BY <1>2, <1>4, <1>7
  <2>3. \A j \in 1 .. nbytes : args[j] # NUL
    BY <2>2, <1>2, <1>3, CharacterFacts
  <2> HIDE DEF n
  <2> QED
    BY <2>1, <2>3, <1>5, StrnlenIs DEF length
<1>8. ASSUME Len(text) < nbytes PROVE SubSeq(args, 1, length) = text
  <2>1. /\ \A i \in 1 .. Len(text) : args[i] \in Characters
        /\ Len(text) \in Int
    BY <1>2, <1>3
  <2> DEFINE p == SubSeq(args, 1, Len(text))
  <2>2. /\ p \in Seq(Characters) /\ Len(p) = IF 1 <= Len(text) THEN Len(text) - 1 + 1 ELSE 0
        /\ \A i \in 1 .. Len(text) - 1 + 1 : p[i] = args[1 + i - 1]
    BY <2>1, SubSeqProperties
  <2> HIDE DEF p
  <2>3. Len(p) = Len(text)
    BY <2>2, <1>2
  <2>4. ASSUME NEW i \in 1 .. Len(text) PROVE p[i] = text[i]
    <3>1. 1 + i - 1 = i /\ i \in 1 .. Len(text) - 1 + 1
      BY <1>2
    <3> QED
      BY <3>1, <2>2, <1>3
  <2>5. p = text
    BY <2>2, <2>3, <2>4, <1>2, SeqEqual
  <2> QED
    BY <2>5, <1>6, <1>8 DEF p
<1>9. /\ got'.nbytes = nbytes
      /\ got'.result = IF length < nbytes THEN 0 ELSE -1
      /\ got'.text = SubSeq(args, 1, length)
  BY <1>1
<1>10. ASSUME got'.result = 0 PROVE got'.text = text
  <2>1. length < nbytes
    BY <1>9, <1>10
  <2>2. Len(text) < nbytes
    BY <2>1, <1>4, <1>7
  <2> QED
    BY <2>2, <1>8, <1>9
<1>11. ASSUME got'.result # 0 PROVE got'.nbytes <= Len(text)
  <2>1. ~(length < nbytes)
    BY <1>9, <1>11
  <2>2. ~(Len(text) < nbytes)
    BY <2>1, <1>6
  <2> QED
    BY <2>2, <1>2, <1>4, <1>9
<1>12. RepliesHoldArguments'
  <2>1. file_args(command)' = text
    BY <1>1 DEF text
  <2> QED
    BY <2>1, <1>10, <1>11 DEF RepliesHoldArguments
<1>13. PcbHoldsArguments'
  BY <1>1 DEF CommandsInv, PcbHoldsArguments
<1> QED
  BY <1>1, <1>12, <1>13 DEF CommandsInv

LEMMA CommandsInvHolds == CommandsSpec => []CommandsInv
<1>1. CommandsInit => CommandsInv
  BY CharacterFacts DEF CommandsInit, CommandsInv
<1>2. CommandsInv /\ [CommandsNext]_commandVars => CommandsInv'
  <2> SUFFICES ASSUME CommandsInv, [CommandsNext]_commandVars PROVE CommandsInv'
    OBVIOUS
  <2>1. ASSUME NEW c \in CommandLines, Launch(c) PROVE CommandsInv'
    BY <2>1, LaunchKeepsInv
  <2>2. ASSUME UNCHANGED commandVars PROVE CommandsInv'
    BY <2>2 DEF CommandsInv, PcbHoldsArguments, RepliesHoldArguments, commandVars
  <2>3. ASSUME NEW nbytes \in Counts, getargs(nbytes) PROVE CommandsInv'
    BY <2>3, GetargsKeepsInv
  <2>4. CASE Exit
    BY <2>4 DEF Exit, CommandsInv
  <2> QED
    BY <2>1, <2>2, <2>3, <2>4 DEF CommandsNext, LaunchFails, GetargsRefused
<1> QED
  BY <1>1, <1>2, PTL DEF CommandsSpec

\* However long the words of a command and the names of files are, and whatever
\* the stack holds behind file_name[], execute() launches the file that the first
\* word names (LaunchesFirstWord of Commands; execute(), read_dentry_by_name()).
THEOREM FirstWordLaunched == CommandsSpec => []LaunchesFirstWord
<1>1. CommandsInv => LaunchesFirstWord
  <2> SUFFICES ASSUME CommandsInv, launched # <<>> PROVE LaunchesFirstWord
    BY DEF LaunchesFirstWord
  <2>1. /\ command \in CommandLines /\ launched = file_name(command)
        /\ Len(file_name(command)) < DENTRY_NAME_LEN
    BY DEF CommandsInv
  <2>2. Splits(command, launched, file_args(command)) /\ file_args(command) \in Ends(command)
    BY <2>1, ArgumentFacts, CommandSplits
  <2> QED
    BY <2>2 DEF LaunchesFirstWord
<1> QED
  BY <1>1, CommandsInvHolds, PTL

\* getargs() gives every program its own arguments or -1, whatever the processes
\* that had its PCB before left there (ArgumentsReachProgram of Commands;
\* pcb_init(), getargs()).
THEOREM ArgumentsAreOwn == CommandsSpec => []ArgumentsReachProgram
<1>1. CommandsInv => ArgumentsReachProgram
  <2> SUFFICES ASSUME CommandsInv, launched # <<>>, got # NothingGot
               PROVE  ArgumentsReachProgram
    BY DEF ArgumentsReachProgram
  <2>1. /\ command \in CommandLines /\ launched = file_name(command)
        /\ Len(file_name(command)) < DENTRY_NAME_LEN
    BY DEF CommandsInv
  <2>2. Splits(command, launched, file_args(command)) /\ file_args(command) \in Ends(command)
    BY <2>1, ArgumentFacts, CommandSplits
  <2>3. /\ got.result = 0 => got.text = file_args(command)
        /\ got.result # 0 => got.nbytes <= Len(file_args(command))
    BY DEF CommandsInv, RepliesHoldArguments
  <2> QED
    BY <2>2, <2>3 DEF ArgumentsReachProgram
<1> QED
  BY <1>1, CommandsInvHolds, PTL

----------------------------------------------------------------------------
(* Blocks *)

LEMMA BlockFacts ==
    ASSUME NEW b \in BlockCalls \cup {NoBlock}
    PROVE  /\ b.fn \in {"memset", "memcpy", "memmove"}
           /\ b.dest \in Nat /\ b.n \in Nat
           /\ b.dest + b.n <= SIZE
           /\ b.fn = "memset" => b.c \in Int
           /\ b.fn # "memset" => /\ b.src \in Nat
                                 /\ b.src + b.n <= SIZE
<1>0. SIZE \in Nat
  BY BlocksAssumption
<1>1. CASE b = NoBlock
  BY <1>0, <1>1 DEF NoBlock
<1>2. CASE b \in BlockCalls /\ b.fn = "memset"
  <2>1. /\ b \in [fn : {"memset"}, dest : 0 .. SIZE, c : Values, n : BlockLengths]
        /\ b.dest + b.n <= SIZE
    BY <1>2 DEF BlockCalls
  <2>2. b.dest \in 0 .. SIZE /\ b.c \in Values /\ b.n \in BlockLengths
    BY <2>1
  <2>3. b.c \in Int /\ b.n \in Nat
    BY <2>2, BlocksAssumption
  <2>4. b.dest \in Nat
    BY <1>0, <2>2
  <2> QED
    BY <1>2, <2>1, <2>3, <2>4
<1>3. CASE b \in BlockCalls /\ b.fn # "memset"
  <2>1. /\ b \in [fn : {"memcpy", "memmove"}, dest : 0 .. SIZE, src : 0 .. SIZE,
                      n : BlockLengths]
        /\ b.dest + b.n <= SIZE
        /\ b.src + b.n <= SIZE
    BY <1>3 DEF BlockCalls
  <2>2. /\ b.fn \in {"memcpy", "memmove"}
        /\ b.dest \in 0 .. SIZE /\ b.src \in 0 .. SIZE /\ b.n \in BlockLengths
    BY <2>1
  <2>3. b.n \in Nat
    BY <2>2, BlocksAssumption
  <2>4. b.dest \in Nat /\ b.src \in Nat
    BY <1>0, <2>2
  <2> QED
    BY <1>3, <2>1, <2>2, <2>3, <2>4
<1> QED
  BY <1>1, <1>2, <1>3

LEMMA LowByte == ASSUME NEW c \in Int PROVE c % 256 \in Bytes
BY DEF Bytes

LEMMA MovedType ==
    ASSUME BlocksTypeOK
    PROVE  /\ Moved \in [Addresses -> Bytes]
           /\ HalfMoved \in [Addresses -> Bytes]
<1> USE DEF BlocksTypeOK
<1>1. SUFFICES ASSUME NEW a \in Addresses,
                      a \in block.dest .. block.dest + block.n - 1,
                      block.fn # "memset"
               PROVE  before[block.src + (a - block.dest)] \in Bytes
  <2>1. block.fn = "memset" => block.c % 256 \in Bytes
    BY BlockFacts, LowByte
  <2>2. Moved \in [Addresses -> Bytes]
    BY <1>1, <2>1 DEF Moved
  <2> QED
    BY <2>2 DEF HalfMoved
<1>2. block.src + (a - block.dest) \in Addresses
  BY SMTT(20), <1>1, BlockFacts, BlocksAssumption DEF Addresses
<1> QED
  BY <1>2

\* Where the loops stand, in the terms of arithmetic alone.
LEMMA Standing ==
    ASSUME BlocksInv
    PROVE  /\ Left \in Nat /\ Left <= block.n
           /\ edi \in Int /\ esi \in Int
           /\ Downwards => edi = block.dest + Left - 1
           /\ ~Downwards => edi = block.dest + (block.n - Left)
           /\ block.dest \in Nat /\ block.n \in Nat /\ block.dest + block.n <= SIZE
           /\ block.fn # "memset" => /\ esi - edi = block.src - block.dest
                                     /\ block.src \in Nat
                                     /\ block.src + block.n <= SIZE
           /\ SIZE \in Nat
           /\ Downwards => block.fn # "memset" /\ block.src < block.dest
<1>1. ecx \in Nat /\ edx \in Nat /\ 4 * ecx + edx \in Nat
  BY DEF BlocksInv, BlocksTypeOK
<1>2. Left \in Nat
  BY <1>1 DEF BlocksInv, BlocksTypeOK, Left
<1>3. block \in BlockCalls \cup {NoBlock}
  BY DEF BlocksInv, BlocksTypeOK
<1>4. Downwards => block.fn # "memset" /\ block.src < block.dest
  BY DEF Downwards
<1> QED
  BY <1>2, <1>3, <1>4, BlockFacts, BlocksAssumption DEF BlocksInv, BlocksTypeOK

\* What is stored lies in memory and comes from memory.
LEMMA SourceFacts ==
    ASSUME BlocksInv, NEW width \in Nat, width <= Left, Downwards => width = 1,
           NEW i \in 0 .. width - 1
    PROVE  /\ Source(i) \in Bytes
           /\ block.fn # "memset" => esi + i \in Addresses
<1>1. block.fn # "memset" => esi + i \in Addresses
  <2>1. i \in Nat /\ i < width
    OBVIOUS
  <2>2. Downwards => i = 0 /\ width = 1
    BY <2>1
  <2>3. Left \in Nat /\ width <= Left
    BY Standing
  <2> SUFFICES ASSUME block.fn # "memset"
               PROVE  0 <= esi + i /\ esi + i < SIZE /\ esi + i \in Int
    BY Standing DEF Addresses
  <2>4. esi = block.src + (edi - block.dest)
    BY Standing
  <2> QED
    BY <2>1, <2>2, <2>3, <2>4, Standing
<1>2. block.fn = "memset" => block.c % 256 \in Bytes
  BY BlockFacts, LowByte DEF BlocksInv, BlocksTypeOK
<1> QED
  BY <1>1, <1>2 DEF Source, BlocksInv, BlocksTypeOK

LEMMA WriteType ==
    ASSUME BlocksInv, NEW width \in Nat, width <= Left, Downwards => width = 1,
           Write(width)
    PROVE  memory' \in [Addresses -> Bytes]
<1>1. ASSUME NEW a \in Addresses, a \in edi .. edi + width - 1
      PROVE  Source(a - edi) \in Bytes
  <2>1. a - edi \in 0 .. width - 1
    BY <1>1, Standing DEF Addresses
  <2> QED
    BY <2>1, SourceFacts
<1> QED
  BY <1>1 DEF Write, BlocksInv, BlocksTypeOK

\* Each byte that is stored is the one that was promised, for the loops have not yet
\* passed the byte it comes from.
LEMMA StoresPromised ==
    ASSUME BlocksInv, Provided, NEW width \in Nat, width <= Left, Downwards => width = 1,
           NEW a \in Addresses, a \in edi .. edi + width - 1
    PROVE  Source(a - edi) = Moved[a]
<1>1. a - edi \in 0 .. width - 1 /\ a \in block.dest .. block.dest + block.n - 1
  <2>1. a \in Int /\ edi <= a /\ a <= edi + width - 1 /\ edi \in Int
    BY Standing DEF Addresses
  <2>2. Downwards => a = edi
    BY <2>1
  <2> QED
    BY <2>1, <2>2, Standing
<1>0. a \in Int /\ a >= edi /\ (Downwards => a = edi)
  BY Standing DEF Addresses
<1>2. CASE block.fn = "memset"
  BY <1>1, <1>2 DEF Source, Moved
<1>3. CASE block.fn # "memset"
  <2> DEFINE from == esi + (a - edi)
  <2>1. from \in Addresses
    BY <1>1, <1>3, SourceFacts
  <2>2. from = block.src + (a - block.dest)
    BY <1>0, <1>3, Standing
  <2>3. from \notin Passed
    <3>1. CASE Downwards
      <4>1. from <= edi
        BY <1>0, <1>3, <2>2, <3>1, Standing
      <4> QED
        BY <3>1, <4>1, Standing DEF Passed, Addresses
    <3>2. CASE ~Downwards
      <4>1. block.dest <= block.src \/ block.src + block.n <= block.dest
        <5>1. block.fn \in {"memcpy", "memmove"}
          BY <1>3, BlockFacts DEF BlocksInv, BlocksTypeOK
        <5> QED
          BY <5>1, <3>2, <1>3, Standing DEF Provided, Downwards
      <4>2. ~(block.dest <= from /\ from <= edi - 1)
        <5>1. a < block.dest + block.n
          BY <1>0, <1>1, Standing
        <5> QED
          BY <1>0, <1>3, <2>2, <3>2, <4>1, <5>1, Standing
      <4> QED
        BY <2>1, <3>2, <4>2, Standing DEF Passed, Addresses
    <3> QED
      BY <3>1, <3>2
  <2>4. memory[from] = before[from]
    BY <2>1, <2>3 DEF BlocksInv, HalfMoved
  <2> QED
    BY <1>1, <1>3, <2>2, <2>4 DEF Source, Moved
<1> QED
  BY <1>2, <1>3

\* A turn of a loop passes the bytes it stores.
LEMMA TurnKeeps ==
    ASSUME BlocksInv, NEW width \in Nat, width <= Left, Downwards => width = 1,
           Write(width), UNCHANGED <<block, before>>,
           Downwards => edi' = edi - 1,
           ~Downwards => edi' = edi + width
    PROVE  Provided' => memory' = HalfMoved'
<1> SUFFICES ASSUME Provided'
             PROVE  memory' = HalfMoved'
  OBVIOUS
<1>0. Provided /\ Moved' = Moved /\ Downwards' = Downwards
  BY DEF Provided, Moved, Downwards
<1>1. memory' \in [Addresses -> Bytes]
  BY WriteType
<1>2. ASSUME NEW a \in Addresses
      PROVE  a \in Passed' <=> a \in Passed \/ a \in edi .. edi + width - 1
  <2>1. a \in Int /\ edi \in Int /\ block.dest \in Nat /\ block.n \in Nat
    BY BlocksAssumption, BlockFacts, Standing DEF BlocksInv, BlocksTypeOK, Addresses
  <2>2. CASE Downwards
    BY <1>0, <2>1, <2>2, Standing DEF Passed
  <2>3. CASE ~Downwards
    BY <1>0, <2>1, <2>3, Standing DEF Passed
  <2> QED
    BY <2>2, <2>3
<1>3. ASSUME NEW a \in Addresses
      PROVE  memory'[a] = IF a \in Passed' THEN Moved[a] ELSE before[a]
  <2>1. CASE a \in edi .. edi + width - 1
    <3>1. memory'[a] = Source(a - edi)
      BY <2>1 DEF Write
    <3> QED
      BY <1>0, <1>2, <2>1, <3>1, StoresPromised
  <2>2. CASE a \notin edi .. edi + width - 1
    <3>1. memory'[a] = memory[a]
      BY <2>2 DEF Write
    <3>2. memory[a] = IF a \in Passed THEN Moved[a] ELSE before[a]
      BY <1>0 DEF BlocksInv, HalfMoved
    <3> QED
      BY <1>2, <2>2, <3>1, <3>2
  <2> QED
    BY <2>1, <2>2
<1>4. HalfMoved' = [a \in Addresses |-> IF a \in Passed' THEN Moved[a] ELSE before[a]]
  BY <1>0 DEF HalfMoved
<1> QED
  BY <1>1, <1>3, <1>4
LEMMA BlocksInitInv == BlocksInit => BlocksInv
<1> SUFFICES ASSUME BlocksInit PROVE BlocksInv
  OBVIOUS
<1> USE DEF BlocksInit
<1>1. ~Downwards /\ Left = 0 /\ block.fn = "memset"
  BY DEF Downwards, NoBlock, Left
<1>2. BlocksTypeOK
  <2>1. memory \in [Addresses -> Bytes] /\ before \in [Addresses -> Bytes]
    BY BlocksAssumption
  <2>2. edi \in Int /\ esi \in Int /\ ecx \in Nat /\ edx \in Nat
    OBVIOUS
  <2>3. /\ block \in BlockCalls \cup {NoBlock} /\ DF \in BOOLEAN
        /\ step \in {"top", "aligned", "bottom", "go", "return", "caller"}
    OBVIOUS
  <2> HIDE DEF BlocksInit
  <2> QED
    BY <2>1, <2>2, <2>3 DEF BlocksTypeOK
<1>3. block.dest = 0 /\ block.n = 0
  BY DEF NoBlock
<1>4. memory = HalfMoved
  <2>1. Passed = {}
    BY <1>1, <1>3 DEF Passed
  <2> QED
    BY <1>2, <2>1 DEF HalfMoved, BlocksTypeOK
<1> QED
  BY <1>1, <1>2, <1>3, <1>4 DEF BlocksInv

\* At a call nothing has been passed.
LEMMA CallKeeps ==
    ASSUME BlocksInv, NEW b \in BlockCalls,
           CallMemset(b) \/ CallMemcpy(b) \/ CallMemmove(b)
    PROVE  BlocksInv'
<1>0. /\ Called(b)
      /\ b.fn = "memset" => CallMemset(b)
      /\ b.fn = "memcpy" => CallMemcpy(b)
      /\ b.fn = "memmove" => CallMemmove(b)
      /\ b.fn \in {"memset", "memcpy", "memmove"}
  BY DEF CallMemset, CallMemcpy, CallMemmove
<1>1. block' = b /\ before' = memory /\ memory' = memory /\ ecx' = b.n /\ edx' = edx
  BY <1>0 DEF Called
<1>2. /\ b.dest \in Nat /\ b.n \in Nat
      /\ b.fn # "memset" => b.src \in Nat
  <2>1. b \in BlockCalls \cup {NoBlock}
    OBVIOUS
  <2> QED
    BY <2>1, BlockFacts
<1>3. Downwards' <=> b.fn = "memmove" /\ b.src < b.dest
  BY <1>1 DEF Downwards
<1>4. step' = IF b.fn = "memmove" THEN "go" ELSE "top"
  BY <1>0 DEF CallMemset, CallMemcpy, CallMemmove
<1>5. Left' = b.n
  BY <1>1, <1>4 DEF Left
<1>6. /\ edi' = IF Downwards' THEN b.dest + b.n - 1 ELSE b.dest
      /\ b.fn = "memmove" => DF' = Downwards'
      /\ b.fn # "memset" => esi' = IF Downwards' THEN b.src + b.n - 1 ELSE b.src
      /\ b.fn = "memset" => esi' = esi
      /\ b.fn # "memmove" => DF' = DF
  <2>1. CASE b.fn = "memset"
    BY <1>0, <1>3, <2>1 DEF CallMemset
  <2>2. CASE b.fn = "memcpy"
    BY <1>0, <1>3, <2>2 DEF CallMemcpy
  <2>3. CASE b.fn = "memmove"
    <3>1. DF' = Downwards'
      BY <1>0, <1>3, <2>3 DEF CallMemmove, Downwards
    <3> QED
      BY <1>0, <2>3, <3>1 DEF CallMemmove
  <2> QED
    BY <1>0, <2>1, <2>2, <2>3
<1>7. edi' \in Int /\ esi' \in Int /\ DF' \in BOOLEAN
  <2>1. DF' \in BOOLEAN
    BY <1>3, <1>6 DEF BlocksInv, BlocksTypeOK
  <2>2. edi' \in Int
    BY <1>2, <1>6
  <2>3. esi' \in Int
    BY <1>2, <1>6 DEF BlocksInv, BlocksTypeOK
  <2> QED
    BY <2>1, <2>2, <2>3
<1>8. BlocksTypeOK'
  BY <1>1, <1>2, <1>4, <1>7 DEF BlocksInv, BlocksTypeOK
<1>9. memory' = HalfMoved'
  <2>1. Passed' = {}
    BY <1>1, <1>2, <1>6 DEF Passed
  <2> QED
    BY <1>8, <1>1, <2>1 DEF HalfMoved, BlocksTypeOK
<1>10. edi' = IF Downwards' THEN b.dest + b.n - 1 ELSE b.dest + (b.n - b.n)
  BY <1>2, <1>6
<1>11. b.fn # "memset" => esi' - edi' = b.src - b.dest
  BY <1>2, <1>6
<1> QED
  BY <1>1, <1>2, <1>4, <1>5, <1>6, <1>8, <1>9, <1>10, <1>11 DEF BlocksInv

\* A turn that stores width bytes on the way to the end.
LEMMA TurnInv ==
    ASSUME BlocksInv, NEW width \in Nat, width <= Left, Downwards => width = 1,
           Write(width), UNCHANGED <<block, before, step, DF>>, step # "caller",
           Advance(IF Downwards THEN -1 ELSE width),
           ecx' \in Nat, edx' \in Nat, Left' = Left - width
    PROVE  BlocksInv'
<1>1. Downwards' = Downwards /\ block' = block /\ step' = step /\ DF' = DF
  BY DEF Downwards
<1>2. /\ Downwards => edi' = edi - 1
      /\ ~Downwards => edi' = edi + width
      /\ block.fn # "memset" => esi' - edi' = esi - edi
      /\ edi' \in Int /\ esi' \in Int
  BY Standing DEF Advance
<1>3. BlocksTypeOK'
  <2>1. memory' \in [Addresses -> Bytes]
    BY WriteType
  <2> QED
    BY <1>1, <1>2, <2>1 DEF BlocksInv, BlocksTypeOK
<1>4. Provided' => memory' = HalfMoved'
  BY <1>2, TurnKeeps
<1>5. edi' = IF Downwards THEN block.dest + Left' - 1
                          ELSE block.dest + (block.n - Left')
  BY <1>2, Standing
<1>6. Left' <= block.n
  BY Standing
<1>7. block.fn # "memset" => esi' - edi' = block.src - block.dest
  BY <1>2, Standing
<1> QED
  BY <1>1, <1>3, <1>4, <1>5, <1>6, <1>7 DEF BlocksInv

LEMMA HeadByteInv == ASSUME BlocksInv, HeadByte PROVE BlocksInv'
<1>1. step = "top" /\ ecx \in Nat /\ ecx # 0 /\ ~Downwards /\ edx \in Nat
  BY DEF HeadByte, BlocksInv, BlocksTypeOK, Downwards
<1>2. step' = "top" /\ ecx' = ecx - 1 /\ edx' = edx
  BY <1>1 DEF HeadByte
<1>3. Left = ecx /\ Left' = ecx - 1
  BY <1>1, <1>2 DEF Left
<1>4. ecx' \in Nat /\ edx' \in Nat /\ 1 <= Left /\ Left' = Left - 1
  BY <1>1, <1>2, <1>3
<1> QED
  BY <1>1, <1>4, TurnInv DEF HeadByte

LEMMA WordInv == ASSUME BlocksInv, Word PROVE BlocksInv'
<1>1. step = "aligned" /\ ecx \in Nat /\ ecx # 0 /\ ~Downwards /\ edx \in Nat /\ ~DF
  BY DEF Word, BlocksInv, BlocksTypeOK, Downwards
<1>2. step' = "aligned" /\ ecx' = ecx - 1 /\ edx' = edx
  BY <1>1 DEF Word
<1>3. Left = 4 * ecx + edx /\ Left' = 4 * (ecx - 1) + edx
  BY <1>1, <1>2 DEF Left
<1>4. ecx' \in Nat /\ edx' \in Nat /\ 4 <= Left /\ Left' = Left - 4
  BY <1>1, <1>2, <1>3
<1> QED
  BY <1>1, <1>4, TurnInv DEF Word

LEMMA TailByteInv == ASSUME BlocksInv, TailByte PROVE BlocksInv'
<1>1. step = "bottom" /\ edx \in Nat /\ edx # 0 /\ ~Downwards /\ ecx \in Nat
  BY DEF TailByte, BlocksInv, BlocksTypeOK, Downwards
<1>2. step' = "bottom" /\ edx' = edx - 1 /\ ecx' = ecx
  BY <1>1 DEF TailByte
<1>3. Left = edx /\ Left' = edx - 1
  BY <1>1, <1>2 DEF Left
<1>4. ecx' \in Nat /\ edx' \in Nat /\ 1 <= Left /\ Left' = Left - 1
  BY <1>1, <1>2, <1>3
<1> QED
  BY <1>1, <1>4, TurnInv DEF TailByte

LEMMA MoveByteInv == ASSUME BlocksInv, MoveByte PROVE BlocksInv'
<1>1. step = "go" /\ ecx \in Nat /\ ecx # 0 /\ edx \in Nat /\ DF = Downwards
  BY DEF MoveByte, BlocksInv, BlocksTypeOK
<1>2. step' = "go" /\ ecx' = ecx - 1 /\ edx' = edx
  BY <1>1 DEF MoveByte
<1>3. Left = ecx /\ Left' = ecx - 1
  BY <1>1, <1>2 DEF Left
<1>4. ecx' \in Nat /\ edx' \in Nat /\ 1 <= Left /\ Left' = Left - 1
  BY <1>1, <1>2, <1>3
<1> QED
  BY <1>1, <1>4, TurnInv DEF MoveByte

\* The words and the bytes after them are all that is left.
LEMMA Quarters ==
    ASSUME NEW k \in Nat
    PROVE  k \div 4 \in Nat /\ k % 4 \in Nat /\ (k \div 4) * 4 + (k % 4) = k
<1>1. k \div 4 \in Nat
  BY SMT
<1>2. k % 4 \in Nat
  BY SMT
<1>3. (k \div 4) * 4 + (k % 4) = k
  BY SMT
<1> QED
  BY <1>1, <1>2, <1>3

\* A step that stores nothing leaves as much to be done.
LEMMA SameLeft ==
    ASSUME BlocksInv, UNCHANGED <<memory, block, before, edi, esi>>,
           Left' = Left, BlocksTypeOK',
           step' = "go" => block.fn = "memmove" /\ DF' = Downwards,
           step' \in {"top", "aligned", "bottom"} => block.fn # "memmove",
           step' = "aligned" => ~DF'
    PROVE  BlocksInv'
<1>1. /\ Downwards' = Downwards /\ Provided' = Provided /\ HalfMoved' = HalfMoved
  BY DEF Downwards, Provided, HalfMoved, Moved, Passed
<1> QED
  BY <1>1 DEF BlocksInv

LEMMA AlignedInv == ASSUME BlocksInv, Aligned PROVE BlocksInv'
<1>1. step = "top" /\ ecx \in Nat
  BY DEF Aligned, BlocksInv, BlocksTypeOK
<1>2. step' = "aligned" /\ ecx' = ecx \div 4 /\ edx' = ecx % 4 /\ DF' = FALSE
  BY DEF Aligned
<1>3. Left' = Left /\ ecx' \in Nat /\ edx' \in Nat
  BY <1>1, <1>2, Quarters DEF Left
<1>4. BlocksTypeOK'
  BY <1>2, <1>3 DEF Aligned, BlocksInv, BlocksTypeOK
<1> QED
  BY <1>1, <1>2, <1>3, <1>4, SameLeft DEF Aligned, BlocksInv

LEMMA WordsDoneInv == ASSUME BlocksInv, WordsDone PROVE BlocksInv'
<1>1. step = "aligned" /\ ecx = 0 /\ step' = "bottom" /\ edx' = edx /\ ecx' = ecx /\ edx \in Nat
  BY DEF WordsDone, BlocksInv, BlocksTypeOK
<1>2. Left' = Left
  BY <1>1 DEF Left
<1>3. BlocksTypeOK'
  BY <1>1 DEF WordsDone, BlocksInv, BlocksTypeOK
<1> QED
  BY <1>1, <1>2, <1>3, SameLeft DEF WordsDone, BlocksInv

LEMMA BlockDoneInv == ASSUME BlocksInv, BlockDone PROVE BlocksInv'
<1>1. step' = "return" /\ Left = 0
  BY DEF BlockDone, Left
<1>2. Left' = 0
  BY <1>1 DEF Left
<1>3. BlocksTypeOK'
  BY <1>1 DEF BlockDone, BlocksInv, BlocksTypeOK
<1> QED
  BY <1>1, <1>2, <1>3, SameLeft DEF BlockDone, BlocksInv

LEMMA CallerInv == ASSUME BlocksInv, Caller PROVE BlocksInv'
<1>1. ~Downwards' /\ Left' = 0 /\ block'.fn = "memset" /\ block'.dest = 0 /\ block'.n = 0
  BY DEF Caller, Downwards, NoBlock, Left
<1>2. BlocksTypeOK'
  BY BlocksAssumption DEF Caller, BlocksInv, BlocksTypeOK
<1>3. memory' = HalfMoved'
  <2>1. Passed' = {}
    BY <1>1 DEF Passed, Caller
  <2> QED
    BY <1>2, <2>1 DEF HalfMoved, BlocksTypeOK, Caller
<1> QED
  BY <1>1, <1>2, <1>3 DEF BlocksInv, Caller

LEMMA BlocksNextInv == BlocksInv /\ [BlocksNext]_blockVars => BlocksInv'
<1> SUFFICES ASSUME BlocksInv, [BlocksNext]_blockVars
             PROVE  BlocksInv'
  OBVIOUS
<1>1. ASSUME NEW b \in BlockCalls, CallMemset(b) \/ CallMemcpy(b) \/ CallMemmove(b)
      PROVE  BlocksInv'
  BY <1>1, CallKeeps
<1>2. CASE UNCHANGED blockVars
  BY <1>2 DEF blockVars, BlocksInv, BlocksTypeOK, Downwards, Provided, HalfMoved, Moved,
              Passed, Left
<1> QED
  BY <1>1, <1>2, HeadByteInv, AlignedInv, WordInv, WordsDoneInv, TailByteInv,
     MoveByteInv, BlockDoneInv, CallerInv DEF BlocksNext

\* Whatever the memory, the blocks and the calls before, memset(), memcpy() and
\* memmove() of lib.c leave memory as they promise: turn by turn the bytes the loops
\* have passed are those of the block and the others are what they were.
THEOREM BlocksMove == BlocksSpec => [](BlocksTypeOK /\ MemoryMoves)
<1>1. BlocksInv => BlocksTypeOK /\ MemoryMoves
  <2> SUFFICES ASSUME BlocksInv, step = "return", Provided
               PROVE  memory = Moved
    BY DEF BlocksInv, MemoryMoves
  <2>1. Left = 0
    BY DEF Left
  <2>2. ASSUME NEW a \in Addresses
        PROVE  a \in Passed <=> a \in block.dest .. block.dest + block.n - 1
    BY <2>1, Standing DEF Passed, Addresses
  <2>3. Moved \in [Addresses -> Bytes] /\ HalfMoved \in [Addresses -> Bytes]
    BY MovedType DEF BlocksInv
  <2>4. ASSUME NEW a \in Addresses
        PROVE  HalfMoved[a] = Moved[a]
    BY <2>2 DEF HalfMoved, Moved
  <2> QED
    BY <2>3, <2>4 DEF BlocksInv
<1> QED
  BY <1>1, BlocksInitInv, BlocksNextInv, PTL DEF BlocksSpec

----------------------------------------------------------------------------
(* The numerals of itoa() *)

LEMMA PowerFacts ==
    /\ Power \in [0 .. HEX_DIGITS -> Nat]
    /\ Power[0] = 1
    /\ \A n \in 1 .. HEX_DIGITS : Power[n] = 16 * Power[n - 1]
<1> DEFINE Is(g, m) == /\ g \in [0 .. m -> Nat]
                       /\ g[0] = 1
                       /\ \A n \in 1 .. m : g[n] = 16 * g[n - 1]
           without == {m \in 0 .. HEX_DIGITS : ~\E g : Is(g, m)}
<1>0. HEX_DIGITS \in Nat
  BY LibraryAssumption
<1>1. without = {}
  <2> SUFFICES ASSUME without # {} PROVE FALSE
    OBVIOUS
  <2>1. PICK m \in without : \A k \in without : m <= k
    <3>1. without \in SUBSET Nat
      BY <1>0
    <3> QED
      BY <3>1, LeastExists
  <2>2. m \in 0 .. HEX_DIGITS /\ ~\E g : Is(g, m)
    OBVIOUS
  <2>3. m # 0
    <3>1. Is([n \in 0 .. 0 |-> 1], 0)
      OBVIOUS
    <3> QED
      BY <2>2, <3>1
  <2>4. PICK g : Is(g, m - 1)
    <3>1. m - 1 \in 0 .. HEX_DIGITS /\ ~(m <= m - 1)
      BY <1>0, <2>2, <2>3
    <3>2. m - 1 \notin without
      BY <2>1, <3>1
    <3> HIDE DEF Is
    <3> QED
      BY <3>1, <3>2
  <2> DEFINE h == [n \in 0 .. m |-> IF n = m THEN 16 * g[m - 1] ELSE g[n]]
  <2>5. Is(h, m)
    BY <1>0, <2>2, <2>3, <2>4
  <2> QED
    BY <2>2, <2>5
<1>2. PICK g : Is(g, HEX_DIGITS)
  <2> HIDE DEF Is
  <2> QED
    BY <1>0, <1>1
<1> DEFINE Next16(f) == [n \in 0 .. HEX_DIGITS |-> IF n = 0 THEN 1 ELSE 16 * f[n - 1]]
<1>3. g = Next16(g)
  BY <1>0, <1>2
<1>4. Power = CHOOSE f : f = Next16(f)
  BY DEF Power
<1>5. Power = Next16(Power)
  BY <1>3, <1>4
<1>6. \A n \in 1 .. HEX_DIGITS : Power[n] = 16 * Power[n - 1]
  BY <1>0, <1>5
<1>7. Power[0] = 1
  BY <1>0, <1>5
<1> DEFINE differ == {n \in 0 .. HEX_DIGITS : Power[n] \notin Nat}
<1>8. differ = {}
  <2> SUFFICES ASSUME differ # {} PROVE FALSE
    OBVIOUS
  <2>1. PICK m \in differ : \A k \in differ : m <= k
    <3>1. differ \in SUBSET Nat
      BY <1>0
    <3> QED
      BY <3>1, LeastExists
  <2>2. m # 0 /\ m \in 0 .. HEX_DIGITS
    BY <1>7
  <2>3. Power[m - 1] \in Nat
    BY <1>0, <2>1, <2>2
  <2> QED
    BY <1>6, <2>1, <2>2, <2>3
<1>9. DOMAIN Power = 0 .. HEX_DIGITS /\ Power = [n \in 0 .. HEX_DIGITS |-> Power[n]]
  BY <1>5
<1> QED
  BY <1>6, <1>7, <1>8, <1>9

LEMMA DigitValueIs ==
    ASSUME NEW v \in 0 .. 15
    PROVE  DigitValue(lookup[v + 1]) = v
<1>1. ASSUME NEW u \in 0 .. 15, lookup[u + 1] = lookup[v + 1]
      PROVE  u = v
  BY <1>1 DEF lookup
<1> QED
  BY <1>1 DEF DigitValue

\* The value of a numeral by what each digit adds to it.
LEMMA ValueIs ==
    ASSUME NEW text \in Seq(Letters), NEW base \in Nat,
           NEW p \in [0 .. Len(text) -> Nat],
           p[0] = 0,
           \A i \in 1 .. Len(text) : p[i] = p[i - 1] * base + DigitValue(text[i])
    PROVE  ValuesOf(text, base)[Len(text)] = p[Len(text)]
<1> DEFINE By(f) == [i \in 0 .. Len(text) |->
                        IF i = 0 THEN 0 ELSE f[i - 1] * base + DigitValue(text[i])]
           value == ValuesOf(text, base)
<1>0. Len(text) \in Nat
  OBVIOUS
<1>1. p = By(p)
  BY <1>0
<1>2. value = CHOOSE f : f = By(f)
  BY DEF ValuesOf
<1>3. value = By(value)
  BY <1>1, <1>2
<1> HIDE DEF value
<1> DEFINE differ == {i \in 0 .. Len(text) : value[i] # p[i]}
<1>4. differ = {}
  <2> SUFFICES ASSUME differ # {} PROVE FALSE
    OBVIOUS
  <2>1. PICK m \in differ : \A k \in differ : m <= k
    <3>1. differ \in SUBSET Nat
      BY <1>0
    <3> QED
      BY <3>1, LeastExists
  <2>2. m \in 0 .. Len(text) /\ value[m] # p[m]
    OBVIOUS
  <2>3. m # 0
    BY <1>0, <1>3, <2>2
  <2>4. value[m - 1] = p[m - 1]
    BY <1>0, <2>1, <2>2, <2>3
  <2>5. value[m] = value[m - 1] * base + DigitValue(text[m])
    BY <1>0, <1>3, <2>2, <2>3
  <2> QED
    BY <1>0, <2>2, <2>3, <2>4, <2>5
<1> QED
  BY <1>0, <1>4 DEF value

LEMMA LookupFacts ==
    /\ \A v \in 0 .. 15 : lookup[v + 1] \in Letters
    /\ "0" = lookup[0 + 1]
    /\ "-" \in Letters /\ "%" \in Letters /\ "0" \in Letters
<1>1. \A v \in 0 .. 15 : lookup[v + 1] \in Letters
  <2> SUFFICES ASSUME NEW v \in 0 .. 15 PROVE lookup[v + 1] \in Letters
    OBVIOUS
  <2>1. v + 1 \in 1 .. 16
    OBVIOUS
  <2> HIDE DEF lookup
  <2> QED
    BY <2>1, LibraryAssumption
<1>2. "0" = lookup[0 + 1]
  BY DEF lookup
<1>3. "-" \in Letters /\ "%" \in Letters
  BY LibraryAssumption
<1> QED
  BY <1>1, <1>2, <1>3

LEMMA Reversed ==
    ASSUME NEW d \in Seq(Letters)
    PROVE  /\ strrev(d) \in Seq(Letters)
           /\ Len(strrev(d)) = Len(d)
           /\ \A i \in 1 .. Len(d) : strrev(d)[i] = d[Len(d) + 1 - i]
BY DEF strrev

\* Zeros and then the remainders of repeated division, the last one first, are a
\* numeral of the number that was divided.
LEMMA NumeralOf ==
    ASSUME NEW base \in {10, 16}, NEW z \in Nat, NEW d \in Seq(Letters),
           NEW q \in [0 .. Len(d) -> Nat], q[Len(d)] = 0,
           \A i \in 1 .. Len(d) : /\ q[i - 1] = q[i] * base + DigitValue(d[i])
                                  /\ \E v \in 0 .. base - 1 : d[i] = lookup[v + 1],
           NEW text \in Seq(Letters), Len(text) = z + Len(d), Len(text) > 0,
           \A i \in 1 .. z : text[i] = "0",
           \A i \in 1 .. Len(d) : text[z + i] = d[Len(d) + 1 - i]
    PROVE  Denotes(text, base, q[0])
<1> DEFINE n == Len(d)
           p == [j \in 0 .. z + n |-> IF j <= z THEN 0 ELSE q[n - (j - z)]]
<1>0. n \in Nat /\ Len(text) = z + n /\ base \in Nat
  OBVIOUS
<1>1. p \in [0 .. Len(text) -> Nat]
  <2>1. ASSUME NEW j \in 0 .. z + n, ~(j <= z)
        PROVE  q[n - (j - z)] \in Nat
    <3>1. n - (j - z) \in 0 .. n
      BY <1>0, <2>1
    <3> QED
      BY <3>1
  <2> QED
    BY <1>0, <2>1
<1>2. p[0] = 0
  BY <1>0
<1>3. ASSUME NEW i \in 1 .. Len(text)
      PROVE  p[i] = p[i - 1] * base + DigitValue(text[i])
  <2>1. CASE i <= z
    <3>1. p[i] = 0 /\ p[i - 1] = 0
      BY <1>0, <2>1
    <3>2. text[i] = lookup[0 + 1]
      BY <2>1, LookupFacts
    <3>3. DigitValue(text[i]) = 0
      BY <3>2, DigitValueIs
    <3> QED
      BY <1>0, <3>1, <3>3
  <2>2. CASE ~(i <= z)
    <3> DEFINE j == i - z
               m == n + 1 - j
    <3>1. j \in 1 .. n /\ m \in 1 .. n /\ i = z + j /\ m - 1 = n - (i - z)
      BY <1>0, <2>2
    <3>2. p[i] = q[m - 1]
      BY <1>0, <2>2, <3>1
    <3>3. p[i - 1] = q[m]
      <4>1. CASE j = 1
        BY <1>0, <3>1, <4>1
      <4>2. CASE j # 1
        <5>1. ~(i - 1 <= z) /\ i - 1 \in 0 .. z + n /\ n - ((i - 1) - z) = m
          BY <1>0, <3>1, <4>2
        <5> QED
          BY <5>1
      <4> QED
        BY <4>1, <4>2
    <3>4. text[i] = d[m]
      BY <3>1
    <3>5. q[m - 1] = q[m] * base + DigitValue(d[m])
      BY <3>1
    <3> QED
      BY <3>2, <3>3, <3>4, <3>5
  <2> QED
    BY <2>1, <2>2
<1>4. p[Len(text)] = q[0]
  <2>1. CASE n = 0
    BY <1>0, <2>1
  <2>2. CASE n # 0
    <3>1. ~(z + n <= z) /\ n - ((z + n) - z) = 0 /\ z + n \in 0 .. z + n
      BY <1>0, <2>2
    <3> QED
      BY <1>0, <3>1
  <2> QED
    BY <2>1, <2>2
<1>5. ValuesOf(text, base)[Len(text)] = q[0]
  <2> HIDE DEF p
  <2> QED
    BY <1>0, <1>1, <1>2, <1>3, <1>4, ValueIs
<1>6. ASSUME NEW i \in 1 .. Len(text)
      PROVE  \E v \in 0 .. base - 1 : text[i] = lookup[v + 1]
  <2>1. CASE i <= z
    <3>1. text[i] = lookup[0 + 1] /\ 0 \in 0 .. base - 1
      BY SMTT(20), <2>1, LookupFacts
    <3> QED
      BY <3>1
  <2>2. CASE ~(i <= z)
    <3>1. i - z \in 1 .. n /\ i = z + (i - z) /\ n + 1 - (i - z) \in 1 .. n
      BY <1>0, <2>2
    <3>2. text[i] = d[n + 1 - (i - z)]
      BY <3>1
    <3> QED
      BY <3>1, <3>2
  <2> QED
    BY <2>1, <2>2
<1>7. text # <<>>
  OBVIOUS
<1> QED
  BY <1>5, <1>6, <1>7 DEF Denotes

LEMMA Division ==
    ASSUME NEW base \in Nat \ {0}, NEW a \in Nat
    PROVE  /\ a \div base \in Nat /\ a % base \in 0 .. base - 1
           /\ (a \div base) * base + (a % base) = a
BY SMT

\* While itoa() divides: each quotient so far, with the digit that each division
\* left, and how many digits a word can still have.
Quotients(q, number) ==
    /\ q \in [0 .. Len(conv_buf) -> Nat]
    /\ q[0] = number
    /\ q[Len(conv_buf)] = newval
    /\ \A i \in 1 .. Len(conv_buf) :
          /\ q[i - 1] = q[i] * radix + DigitValue(conv_buf[i])
          /\ q[i - 1] > 0
          /\ \E v \in 0 .. radix - 1 : conv_buf[i] = lookup[v + 1]
    /\ radix = 16 => /\ Len(conv_buf) <= HEX_DIGITS
                     /\ newval < Power[HEX_DIGITS - Len(conv_buf)]

NumberTypeOK ==
    radix \in {10, 16} /\ newval \in Nat /\ conv_buf \in Seq(Letters)

LEMMA DigitKeeps ==
    ASSUME NumberTypeOK, Digit, NEW number, NEW q, Quotients(q, number)
    PROVE  /\ NumberTypeOK'
           /\ \E r : Quotients(r, number)'
<1> DEFINE n == Len(conv_buf)
           k == newval \div radix
           d == lookup[(newval % radix) + 1]
           r == [i \in 0 .. n + 1 |-> IF i = n + 1 THEN k ELSE q[i]]
<1>0. n \in Nat /\ radix \in {10, 16} /\ newval \in Nat /\ newval > 0
  BY DEF NumberTypeOK, Digit
<1> DEFINE rest == newval % radix
<1>1. k \in Nat /\ rest \in 0 .. radix - 1 /\ newval = k * radix + rest
  <2>1. radix \in Nat \ {0}
    BY <1>0
  <2> QED
    BY <1>0, <2>1, Division
<1>2. /\ newval' = k /\ radix' = radix /\ conv_buf' = Append(conv_buf, d)
  BY DEF Digit
<1> HIDE DEF rest
<1>3. rest \in 0 .. 15 /\ d = lookup[rest + 1]
  BY <1>0, <1>1 DEF rest
<1> HIDE DEF k, d
<1>4. d \in Letters /\ DigitValue(d) = rest
  BY <1>3, LookupFacts, DigitValueIs
<1>5. \E v \in 0 .. radix - 1 : d = lookup[v + 1]
  BY <1>1, <1>3
<1>6. newval = k * radix + DigitValue(d)
  BY <1>1, <1>4
<1>7. /\ conv_buf' \in Seq(Letters) /\ Len(conv_buf') = n + 1
      /\ conv_buf'[n + 1] = d
      /\ \A i \in 1 .. n : conv_buf'[i] = conv_buf[i]
  BY <1>2, <1>4 DEF NumberTypeOK
<1>8. r \in [0 .. n + 1 -> Nat] /\ r[0] = number /\ r[n + 1] = k
  <2>1. q \in [0 .. n -> Nat] /\ q[0] = number
    BY DEF Quotients
  <2> QED
    BY <1>0, <1>1, <2>1
<1>9. ASSUME NEW i \in 1 .. n + 1
      PROVE  /\ r[i - 1] = r[i] * radix + DigitValue(conv_buf'[i])
             /\ r[i - 1] > 0
             /\ \E v \in 0 .. radix - 1 : conv_buf'[i] = lookup[v + 1]
  <2>1. CASE i = n + 1
    <3>1. r[i - 1] = newval /\ r[i] = k
      <4>1. q[n] = newval
        BY DEF Quotients
      <4>2. r[n] = q[n] /\ i - 1 = n
        BY <1>0, <2>1
      <4> QED
        BY <1>8, <2>1, <4>1, <4>2
    <3> QED
      BY <1>0, <1>5, <1>6, <1>7, <2>1, <3>1
  <2>2. CASE i # n + 1
    <3>1. i \in 1 .. n /\ i \in 0 .. n + 1 /\ i - 1 \in 0 .. n + 1 /\ i - 1 # n + 1
      BY <1>0, <2>2
    <3>2. r[i] = q[i] /\ r[i - 1] = q[i - 1] /\ conv_buf'[i] = conv_buf[i]
      BY <1>7, <2>2, <3>1
    <3> QED
      BY <3>1, <3>2 DEF Quotients
  <2> QED
    BY <2>1, <2>2
<1>10. ASSUME radix = 16
       PROVE  n + 1 <= HEX_DIGITS /\ k < Power[HEX_DIGITS - (n + 1)]
  <2>0. HEX_DIGITS \in Nat
    BY LibraryAssumption
  <2>1. n <= HEX_DIGITS /\ newval < Power[HEX_DIGITS - n]
    BY <1>10 DEF Quotients
  <2>2. n # HEX_DIGITS
    <3>1. n = HEX_DIGITS => HEX_DIGITS - n = 0
      BY <1>0
    <3> QED
      BY <1>0, <2>1, <3>1, PowerFacts
  <2> DEFINE m == HEX_DIGITS - n
  <2>3. m \in 1 .. HEX_DIGITS /\ m - 1 = HEX_DIGITS - (n + 1) /\ n + 1 <= HEX_DIGITS
    BY <1>0, <2>0, <2>1, <2>2
  <2>4. Power[m] = 16 * Power[m - 1] /\ Power[m - 1] \in Nat
    <3>1. m - 1 \in 0 .. HEX_DIGITS
      BY <2>0, <2>3
    <3> HIDE DEF m
    <3> QED
      BY <2>3, <3>1, PowerFacts
  <2>5. rest \in Nat /\ newval = k * 16 + rest
    BY <1>1, <1>3, <1>10
  <2>6. ASSUME NEW b \in Nat, newval < 16 * b PROVE k < b
    BY <1>0, <1>1, <2>5, <2>6
  <2>7. k < Power[m - 1]
    BY <2>1, <2>4, <2>6
  <2> QED
    BY <2>3, <2>7
<1>11. NumberTypeOK'
  BY <1>0, <1>1, <1>2, <1>7 DEF NumberTypeOK
<1> HIDE DEF r, n
<1>12. PICK s : s = r
  OBVIOUS
<1>13. Len(conv_buf') = n + 1 /\ newval' = k /\ radix' = radix
  BY <1>2, <1>7
<1>14. Quotients(s, number)'
  BY <1>8, <1>9, <1>10, <1>12, <1>13 DEF Quotients
<1> QED
  BY <1>11, <1>14

\* When the last quotient is zero the digits are the numeral of the number.
LEMMA ItoaIs ==
    ASSUME NumberTypeOK, newval = 0, NEW number, NEW q, Quotients(q, number)
    PROVE  /\ itoa \in Seq(Letters) /\ itoa # <<>>
           /\ IsNumeral(itoa, radix, number)
           /\ radix = 16 => Len(itoa) <= HEX_DIGITS
           /\ \A z \in Nat : \A text \in Seq(Letters) :
                 /\ Len(text) = z + Len(itoa)
                 /\ \A i \in 1 .. z : text[i] = "0"
                 /\ \A i \in 1 .. Len(itoa) : text[z + i] = itoa[i]
                 => Denotes(text, radix, number)
<1> DEFINE n == Len(conv_buf)
           Padded == \A z \in Nat : \A text \in Seq(Letters) :
                         /\ Len(text) = z + Len(itoa)
                         /\ \A i \in 1 .. z : text[i] = "0"
                         /\ \A i \in 1 .. Len(itoa) : text[z + i] = itoa[i]
                         => Denotes(text, radix, number)
<1>0. n \in Nat /\ radix \in {10, 16} /\ conv_buf \in Seq(Letters)
  BY DEF NumberTypeOK
<1>1. /\ q \in [0 .. n -> Nat] /\ q[0] = number /\ q[n] = 0
      /\ \A i \in 1 .. n : /\ q[i - 1] = q[i] * radix + DigitValue(conv_buf[i])
                           /\ q[i - 1] > 0
                           /\ \E v \in 0 .. radix - 1 : conv_buf[i] = lookup[v + 1]
      /\ radix = 16 => n <= HEX_DIGITS
  BY DEF Quotients
<1>2. ASSUME NEW z \in Nat, NEW text \in Seq(Letters),
             Len(text) = z + n, Len(text) > 0,
             \A i \in 1 .. z : text[i] = "0",
             \A i \in 1 .. n : text[z + i] = conv_buf[n + 1 - i]
      PROVE  Denotes(text, radix, number)
  <2>1. q \in [0 .. Len(conv_buf) -> Nat] /\ q[Len(conv_buf)] = 0
    BY <1>1
  <2>2. \A i \in 1 .. Len(conv_buf) :
            /\ q[i - 1] = q[i] * radix + DigitValue(conv_buf[i])
            /\ \E v \in 0 .. radix - 1 : conv_buf[i] = lookup[v + 1]
    BY <1>1
  <2>3. Denotes(text, radix, q[0])
    BY ZenonT(40), <1>0, <1>2, <2>1, <2>2, NumeralOf
  <2> QED
    BY <1>1, <2>3
<1>3. CASE conv_buf = <<>>
  <2>1. n = 0 /\ itoa = <<"0">>
    BY <1>3 DEF itoa
  <2>2. itoa \in Seq(Letters) /\ Len(itoa) = 1 /\ itoa[1] = "0"
    BY <2>1, LookupFacts
  <2>3. ASSUME NEW z \in Nat, NEW text \in Seq(Letters), Len(text) = z + Len(itoa),
               \A i \in 1 .. z : text[i] = "0",
               \A i \in 1 .. Len(itoa) : text[z + i] = itoa[i]
        PROVE  Denotes(text, radix, number)
    <3>1. z + 1 \in Nat /\ Len(text) = (z + 1) + n /\ Len(text) > 0
      BY <2>1, <2>2, <2>3
    <3>2. ASSUME NEW i \in 1 .. z + 1 PROVE text[i] = "0"
      <4>1. text[z + 1] = "0"
        BY <2>2, <2>3
      <4>2. i = z + 1 \/ i \in 1 .. z
        OBVIOUS
      <4> QED
        BY <2>3, <4>1, <4>2
    <3>3. \A i \in 1 .. n : text[(z + 1) + i] = conv_buf[n + 1 - i]
      BY <2>1
    <3> QED
      BY <1>2, <3>1, <3>2, <3>3
  <2>4. Denotes(itoa, radix, number)
    <3>1. \A i \in 1 .. 0 : itoa[i] = "0"
      OBVIOUS
    <3>2. Len(itoa) = 0 + Len(itoa) /\ \A i \in 1 .. Len(itoa) : itoa[0 + i] = itoa[i]
      BY <2>2
    <3> QED
      BY <2>2, <2>3, <3>1, <3>2
  <2>5. HEX_DIGITS \in Nat /\ HEX_DIGITS >= 1
    BY LibraryAssumption
  <2>6. Padded
    BY <2>3, Zenon
  <2>7. itoa # <<>> /\ (radix = 16 => Len(itoa) <= HEX_DIGITS)
    <3>1. Len(itoa) <= HEX_DIGITS
      BY <2>2, <2>5
    <3>2. itoa # <<>>
      BY <2>1
    <3> QED
      BY <3>1, <3>2
  <2>8. IsNumeral(itoa, radix, number)
    BY <2>1, <2>4 DEF IsNumeral
  <2> HIDE DEF Padded
  <2> QED
    BY <2>2, <2>6, <2>7, <2>8, Zenon DEF Padded
<1>4. CASE conv_buf # <<>>
  <2>1. itoa = strrev(conv_buf) /\ n > 0
    BY <1>0, <1>4 DEF itoa
  <2>2. /\ itoa \in Seq(Letters) /\ Len(itoa) = n
        /\ \A i \in 1 .. n : itoa[i] = conv_buf[n + 1 - i]
    BY <1>0, <2>1, Reversed
  <2>3. ASSUME NEW z \in Nat, NEW text \in Seq(Letters), Len(text) = z + Len(itoa),
               \A i \in 1 .. z : text[i] = "0",
               \A i \in 1 .. Len(itoa) : text[z + i] = itoa[i]
        PROVE  Denotes(text, radix, number)
    <3>1. Len(text) = z + n /\ Len(text) > 0
      BY <1>0, <2>1, <2>2, <2>3
    <3>2. \A i \in 1 .. n : text[z + i] = conv_buf[n + 1 - i]
      BY <2>2, <2>3
    <3> QED
      BY <1>2, <2>3, <3>1, <3>2
  <2>4. Denotes(itoa, radix, number)
    <3>1. \A i \in 1 .. 0 : itoa[i] = "0"
      OBVIOUS
    <3>2. Len(itoa) = 0 + Len(itoa) /\ \A i \in 1 .. Len(itoa) : itoa[0 + i] = itoa[i]
      BY <1>0, <2>2
    <3> QED
      BY <2>2, <2>3, <3>1, <3>2
  <2>5. itoa[1] # "0"
    <3>1. n \in 1 .. n /\ 1 \in 1 .. n /\ n + 1 - 1 = n
      BY <1>0, <2>1
    <3>2. itoa[1] = conv_buf[n]
      BY <2>2, <3>1
    <3>3. DigitValue("0") = 0
      BY LookupFacts, DigitValueIs
    <3>4. /\ q[n - 1] = 0 * radix + DigitValue(conv_buf[n])
          /\ q[n - 1] > 0
      BY <1>1, <3>1
    <3>5. DigitValue(conv_buf[n]) # 0
      <4>1. PICK v \in 0 .. radix - 1 : conv_buf[n] = lookup[v + 1]
        BY <1>1, <3>1
      <4>2. DigitValue(conv_buf[n]) = v
        BY SMTT(20), <1>0, <4>1, DigitValueIs
      <4> QED
        BY <1>0, <3>4, <4>2
    <3> QED
      BY <3>2, <3>3, <3>5
  <2>6. Padded
    BY <2>3, Zenon
  <2>7. itoa # <<>> /\ (radix = 16 => Len(itoa) <= HEX_DIGITS)
    BY <1>0, <1>1, <2>1, <2>2
  <2>8. IsNumeral(itoa, radix, number)
    BY <2>4, <2>5 DEF IsNumeral
  <2> HIDE DEF Padded
  <2> QED
    BY <2>2, <2>6, <2>7, <2>8, Zenon DEF Padded
<1> QED
  BY <1>3, <1>4

----------------------------------------------------------------------------
(* Formats *)

It(k) == format.items[k]
Count == Len(format.items)

LEMMA FormatFacts ==
    ASSUME PrintfTypeOK
    PROVE  /\ Count \in Nat
           /\ format.text \in Seq(Letters) /\ Len(format.text) \in Nat
           /\ format.begins \in [1 .. Count + 1 -> 1 .. Len(format.text) + 1]
           /\ format.takes \in [1 .. Count + 1 -> Nat]
           /\ format.begins[1] = 1
           /\ format.begins[Count + 1] = Len(format.text) + 1
           /\ format.takes[1] = 1
<1>1. IsFormat(NoFormat)
  BY DEF IsFormat, NoFormat
<1>2. IsFormat(format)
  BY <1>1, LibraryAssumption DEF PrintfTypeOK
<1> QED
  BY <1>2 DEF IsFormat, Count

LEMMA ItemFacts ==
    ASSUME PrintfTypeOK, NEW k \in 1 .. Count
    PROVE  /\ IsItem(It(k))
           /\ Len(It(k).spelt) \in Nat /\ Len(It(k).spelt) > 0
           /\ format.begins[k] \in Nat /\ format.takes[k] \in Nat
           /\ format.begins[k] + Len(It(k).spelt) <= Len(format.text) + 1
           /\ format.begins[k + 1] = format.begins[k] + Len(It(k).spelt)
           /\ \A j \in 1 .. Len(It(k).spelt) :
                 format.text[format.begins[k] + j - 1] = It(k).spelt[j]
           /\ Conversion(It(k)) \in Conversions =>
                 /\ format.takes[k + 1] = format.takes[k] + 1
                 /\ format.args[format.takes[k]] = It(k).value
           /\ Conversion(It(k)) \notin Conversions => format.takes[k + 1] = format.takes[k]
<1>1. format \in Formats
  <2>1. format # NoFormat
    BY DEF Count, NoFormat
  <2> QED
    BY <2>1 DEF PrintfTypeOK
<1>2. IsFormat(format)
  BY <1>1, LibraryAssumption
<1>3. format.items \in Seq(Items)
  BY <1>2 DEF IsFormat
<1>4. It(k) \in Items
  BY <1>3 DEF It, Count
<1>5. IsItem(It(k))
  BY <1>4, LibraryAssumption
<1>6. Len(It(k).spelt) \in Nat /\ Len(It(k).spelt) > 0
  <2>1. It(k).spelt \in Seq(Letters) /\ (Len(It(k).spelt) = 1 \/ Len(It(k).spelt) > 1)
    BY <1>5 DEF IsItem
  <2> DEFINE spelt == It(k).spelt
  <2> HIDE DEF spelt
  <2>2. spelt \in Seq(Letters) /\ (Len(spelt) = 1 \/ Len(spelt) > 1)
    BY <2>1 DEF spelt
  <2>3. Len(spelt) \in Nat /\ Len(spelt) > 0
    BY <2>2
  <2> QED
    BY <2>3 DEF spelt
<1>7. k \in 1 .. Count + 1 /\ k + 1 \in 1 .. Count + 1
  BY SMTT(20), FormatFacts
<1>8. format.begins[k] \in Nat /\ format.takes[k] \in Nat
      /\ format.begins[k + 1] <= Len(format.text) + 1
  <2>1. format.begins[k] \in 1 .. Len(format.text) + 1
        /\ format.begins[k + 1] \in 1 .. Len(format.text) + 1
        /\ format.takes[k] \in Nat
    BY <1>7, FormatFacts
  <2> QED
    BY <2>1, FormatFacts
<1>9. /\ format.begins[k + 1] = format.begins[k] + Len(It(k).spelt)
      /\ \A j \in 1 .. Len(It(k).spelt) :
            format.text[format.begins[k] + j - 1] = It(k).spelt[j]
      /\ IF Conversion(It(k)) \in Conversions
         THEN /\ format.takes[k + 1] = format.takes[k] + 1
              /\ format.args[format.takes[k]] = It(k).value
         ELSE format.takes[k + 1] = format.takes[k]
  BY <1>2 DEF IsFormat, Count, It
<1> QED
  BY <1>5, <1>6, <1>8, <1>9

\* Where printf() is in its text, when k - 1 items are done.
Within(k) ==
    /\ label = "loop" => buf = format.begins[k]
    /\ label \in {"switch", "itoa"} =>
          /\ k <= Count
          /\ buf \in format.begins[k] + 1 .. format.begins[k] + Len(It(k).spelt) - 1
          /\ alternate <=> (buf > format.begins[k] + 1)
    /\ label = "itoa" =>
          /\ buf = format.begins[k] + Len(It(k).spelt) - 1
          /\ Conversion(It(k)) \in Numerical
          /\ radix = IF Conversion(It(k)) = "x" THEN 16 ELSE 10
          /\ negative = (Conversion(It(k)) = "d" /\ It(k).value < 0)
          /\ \E q : Quotients(q, IF negative THEN -It(k).value ELSE Unsigned(It(k).value))
    /\ label = "return" => k = Count + 1

\* What the items that are done have put on the console.
Reached(k, cut) ==
    /\ esp = format.takes[k]
    /\ cut \in [1 .. k -> Nat] /\ cut[1] = 0 /\ cut[k] = Len(shown)
    /\ \A j \in 1 .. k - 1 :
          /\ cut[j] <= cut[j + 1] /\ cut[j + 1] <= Len(shown)
          /\ Shows(Piece(shown, cut[j], cut[j + 1]), It(j))

PrintfInv ==
    /\ PrintfTypeOK
    /\ \E k \in 1 .. Count + 1 : Within(k) /\ \E cut : Reached(k, cut)

LEMMA CharIs ==
    ASSUME PrintfTypeOK, NEW k \in 1 .. Count + 1, Within(k),
           label \in {"loop", "switch", "itoa"}, label = "loop" => ~AtEnd
    PROVE  /\ k \in 1 .. Count
           /\ buf - format.begins[k] + 1 \in 1 .. Len(It(k).spelt)
           /\ Char = It(k).spelt[buf - format.begins[k] + 1]
<1>1. k \in 1 .. Count
  <2>1. CASE label = "loop"
    <3>1. k # Count + 1
      BY <2>1, FormatFacts DEF Within, AtEnd, PrintfTypeOK
    <3> QED
      BY <3>1, FormatFacts
  <2>2. CASE label # "loop"
    BY <2>2, FormatFacts DEF Within
  <2> QED
    BY <2>1, <2>2
<1>2. buf - format.begins[k] + 1 \in 1 .. Len(It(k).spelt)
  <2>1. CASE label = "loop"
    <3>1. buf = format.begins[k]
      BY <2>1 DEF Within
    <3> QED
      BY <1>1, <3>1, ItemFacts
  <2>2. CASE label # "loop"
    <3>1. buf \in format.begins[k] + 1 .. format.begins[k] + Len(It(k).spelt) - 1
      BY <2>2 DEF Within
    <3> QED
      BY SMTT(20), <1>1, <3>1, ItemFacts
  <2> QED
    BY <2>1, <2>2
<1> DEFINE j == buf - format.begins[k] + 1
<1>3. format.begins[k] + j - 1 = buf
  BY <1>1, ItemFacts DEF PrintfTypeOK
<1>4. format.text[format.begins[k] + j - 1] = It(k).spelt[j]
  <2> HIDE DEF j
  <2> QED
    BY <1>1, <1>2, ItemFacts DEF j
<1> QED
  BY <1>1, <1>2, <1>3, <1>4 DEF Char

\* At format_char_switch another "#" follows the "%" or the conversion is reached.
LEMMA SwitchIs ==
    ASSUME PrintfTypeOK, NEW k \in 1 .. Count + 1, Within(k), label = "switch"
    PROVE  /\ k \in 1 .. Count
           /\ Char = "#" => buf < format.begins[k] + Len(It(k).spelt) - 1
           /\ Char # "#" => /\ buf = format.begins[k] + Len(It(k).spelt) - 1
                            /\ Char = Conversion(It(k))
                            /\ alternate <=> (Len(It(k).spelt) > 2)
                            /\ Len(It(k).spelt) > 1
<1> DEFINE ending == Len(It(k).spelt)
           j == buf - format.begins[k] + 1
<1>1. k \in 1 .. Count /\ j \in 1 .. ending /\ Char = It(k).spelt[j]
  BY CharIs
<1>2. /\ buf \in format.begins[k] + 1 .. format.begins[k] + ending - 1
      /\ alternate <=> (buf > format.begins[k] + 1)
  BY DEF Within
<1>3. /\ format.begins[k] \in Nat /\ ending \in Nat /\ buf \in Nat
  BY <1>1, ItemFacts DEF PrintfTypeOK
<1>4. j >= 2 /\ ending > 1
  <2>1. buf \in format.begins[k] + 1 .. format.begins[k] + ending - 1
    BY <1>2
  <2>2. \A b \in Nat, l \in Nat : \A x \in b + 1 .. b + l - 1 : x - b + 1 >= 2 /\ l > 1
    OBVIOUS
  <2> HIDE DEF ending
  <2> QED
    BY <1>3, <2>1, <2>2
<1>5. /\ \A i \in 2 .. ending - 1 : It(k).spelt[i] = "#"
      /\ It(k).spelt[ending] # "#"
  BY <1>1, <1>3, <1>4, ItemFacts DEF IsItem
<1>6. CASE Char = "#"
  <2>1. j # ending
    BY <1>1, <1>5, <1>6
  <2> QED
    BY SMTT(20), <1>1, <1>3, <1>6, <2>1
<1>7. CASE Char # "#"
  <2>1. j = ending
    <3>1. j \notin 2 .. ending - 1
      BY <1>1, <1>5, <1>7
    <3> QED
      BY <1>1, <1>3, <1>4, <3>1
  <2>2. Char = Conversion(It(k))
    BY <1>1, <1>3, <1>4, <2>1 DEF Conversion
  <2>3. buf = format.begins[k] + ending - 1
    BY <1>3, <2>1
  <2>4. alternate <=> (ending > 2)
    <3>1. (buf > format.begins[k] + 1) <=> (ending > 2)
      BY <1>3, <2>3
    <3> QED
      BY <1>2, <3>1
  <2> QED
    BY <1>1, <1>4, <1>7, <2>2, <2>3, <2>4
<1> QED
  BY <1>6, <1>7

----------------------------------------------------------------------------
(* What printf() shows *)

LEMMA PieceOf ==
    ASSUME NEW a \in Seq(Letters), NEW b \in Seq(Letters)
    PROVE  /\ Piece(a \o b, Len(a), Len(a) + Len(b)) = b
           /\ \A i \in Nat, j \in Nat : i <= j /\ j <= Len(a) =>
                 Piece(a \o b, i, j) = Piece(a, i, j)
<1>1. /\ Len(a) \in Nat /\ Len(b) \in Nat
      /\ \A i \in 1 .. Len(a) : (a \o b)[i] = a[i]
      /\ \A i \in 1 .. Len(b) : (a \o b)[Len(a) + i] = b[i]
  OBVIOUS
<1> DEFINE c == a \o b
<1>2. Piece(c, Len(a), Len(a) + Len(b)) = b
  <2>1. (Len(a) + Len(b)) - Len(a) = Len(b)
    BY <1>1
  <2>2. Piece(c, Len(a), Len(a) + Len(b)) = [i \in 1 .. Len(b) |-> c[Len(a) + i]]
    BY <2>1 DEF Piece
  <2>3. [i \in 1 .. Len(b) |-> c[Len(a) + i]] = [i \in 1 .. Len(b) |-> b[i]]
    BY <1>1
  <2>4. b = [i \in 1 .. Len(b) |-> b[i]]
    OBVIOUS
  <2> QED
    BY <2>2, <2>3, <2>4
<1>3. ASSUME NEW i \in Nat, NEW j \in Nat, i <= j, j <= Len(a)
      PROVE  Piece(c, i, j) = Piece(a, i, j)
  <2>1. \A m \in 1 .. j - i : i + m \in 1 .. Len(a)
    BY <1>1, <1>3
  <2>2. \A m \in 1 .. j - i : c[i + m] = a[i + m]
    BY <1>1, <2>1
  <2> HIDE DEF c
  <2> QED
    BY <2>2 DEF Piece
<1> QED
  BY <1>2, <1>3

\* An item whose output is what it should show is done.
LEMMA ItemDone ==
    ASSUME PrintfTypeOK, NEW k \in 1 .. Count, NEW cut, Reached(k, cut),
           buf = format.begins[k] + Len(It(k).spelt) - 1,
           NEW text \in Seq(Letters), NEW arguments \in {0, 1}, Break(text, arguments),
           Shows(text, It(k)),
           format.takes[k + 1] = format.takes[k] + arguments
    PROVE  PrintfInv'
<1>1. /\ format' = format /\ shown' = shown \o text /\ buf' = buf + 1
      /\ esp' = esp + arguments /\ label' = "loop"
  BY DEF Break
<1>2. k + 1 \in 1 .. Count + 1 /\ Count' = Count /\ \A j : It(j)' = It(j)
  BY <1>1, FormatFacts DEF Count, It
<1>3. PrintfTypeOK'
  <2>1. shown' \in Seq(Letters) /\ buf' \in Nat /\ esp' \in Nat
    BY <1>1 DEF PrintfTypeOK
  <2> QED
    BY <1>1, <2>1 DEF PrintfTypeOK, Break
<1>4. Within(k + 1)'
  <2>1. buf' = format.begins[k + 1]
    <3> DEFINE b == format.begins[k]
               n == Len(It(k).spelt)
    <3>1. b \in Nat /\ n \in Nat /\ format.begins[k + 1] = b + n
      BY ItemFacts
    <3>2. buf' = buf + 1 /\ buf = b + n - 1
      BY <1>1
    <3> HIDE DEF b, n
    <3> QED
      BY <3>1, <3>2
  <2> QED
    BY <1>1, <2>1 DEF Within
<1> DEFINE m == Len(shown) + Len(text)
           next == [j \in 1 .. k + 1 |-> IF j = k + 1 THEN m ELSE cut[j]]
<1>5. /\ shown \in Seq(Letters) /\ Len(shown) \in Nat /\ Len(text) \in Nat
      /\ shown' \in Seq(Letters) /\ Len(shown') = m
  BY <1>1 DEF PrintfTypeOK
<1>6. /\ esp = format.takes[k]
      /\ cut \in [1 .. k -> Nat] /\ cut[1] = 0 /\ cut[k] = Len(shown)
      /\ \A j \in 1 .. k - 1 :
            /\ cut[j] <= cut[j + 1] /\ cut[j + 1] <= Len(shown)
            /\ Shows(Piece(shown, cut[j], cut[j + 1]), It(j))
  BY DEF Reached
<1>7. next \in [1 .. k + 1 -> Nat] /\ next[1] = 0 /\ next[k + 1] = m
      /\ \A j \in 1 .. k : next[j] = cut[j]
  BY SMTT(20), <1>5, <1>6
<1>8. ASSUME NEW j \in 1 .. k
      PROVE  /\ next[j] <= next[j + 1] /\ next[j + 1] <= m
             /\ Shows(Piece(shown', next[j], next[j + 1]), It(j))
  <2>1. CASE j = k
    <3>1. next[j] = Len(shown) /\ next[j + 1] = m
      BY <1>6, <1>7, <2>1
    <3>2. Piece(shown', Len(shown), m) = text
      BY <1>1, <1>5, PieceOf
    <3> QED
      BY <1>5, <2>1, <3>1, <3>2
  <2>2. CASE j # k
    <3>1. j \in 1 .. k - 1 /\ j + 1 \in 1 .. k
      BY <2>2
    <3>2. next[j] = cut[j] /\ next[j + 1] = cut[j + 1]
      BY <1>7, <3>1
    <3>3. cut[j] \in Nat /\ cut[j + 1] \in Nat
      BY <1>6, <3>1
    <3>4. cut[j] <= cut[j + 1] /\ cut[j + 1] <= Len(shown)
          /\ Shows(Piece(shown, cut[j], cut[j + 1]), It(j))
      BY <1>6, <3>1
    <3>5. Piece(shown', cut[j], cut[j + 1]) = Piece(shown, cut[j], cut[j + 1])
      BY SMTT(20), <1>1, <1>5, <3>3, <3>4, PieceOf
    <3> QED
      BY <1>5, <3>2, <3>3, <3>4, <3>5
  <2> QED
    BY <2>1, <2>2
<1>9. esp' = format.takes[k + 1]
  BY <1>1, <1>6
<1> HIDE DEF next
<1>10. PICK s : s = next
  OBVIOUS
<1>11. Reached(k + 1, s)'
  <2>1. (k + 1) - 1 = k
    OBVIOUS
  <2> QED
    BY <1>1, <1>2, <1>5, <1>7, <1>8, <1>9, <1>10, <2>1 DEF Reached
<1> QED
  BY <1>2, <1>3, <1>4, <1>11 DEF PrintfInv

\* A step inside an item, or of the caller, puts nothing.
LEMMA ItemGoesOn ==
    ASSUME NEW k \in 1 .. Count + 1, NEW cut, Reached(k, cut),
           UNCHANGED <<format, esp, shown>>, PrintfTypeOK', Within(k)'
    PROVE  PrintfInv'
<1>1. Count' = Count /\ \A j : It(j)' = It(j)
  BY DEF Count, It
<1>2. Reached(k, cut)'
  BY <1>1 DEF Reached
<1> QED
  BY <1>1, <1>2 DEF PrintfInv

----------------------------------------------------------------------------
(* The steps of printf() *)

LEMMA WordsFacts == Words \in Nat /\ Words >= 16
<1>1. HEX_DIGITS \in Nat /\ HEX_DIGITS >= 1
  BY LibraryAssumption
<1> DEFINE short == {n \in 1 .. HEX_DIGITS : Power[n] < 16}
<1>2. short = {}
  <2> SUFFICES ASSUME short # {} PROVE FALSE
    OBVIOUS
  <2>1. PICK m \in short : \A k \in short : m <= k
    <3>1. short \in SUBSET Nat
      BY <1>1
    <3> QED
      BY <3>1, LeastExists
  <2>2. m \in 1 .. HEX_DIGITS /\ Power[m] < 16
    OBVIOUS
  <2>3. Power[m] = 16 * Power[m - 1] /\ Power[m - 1] \in Nat
    <3>1. m - 1 \in 0 .. HEX_DIGITS
      BY <1>1, <2>2
    <3> QED
      BY <2>2, <3>1, PowerFacts
  <2>4. CASE m = 1
    <3>1. m - 1 = 0 /\ Power[0] = 1
      BY <2>4, PowerFacts
    <3> QED
      BY <2>2, <2>3, <3>1
  <2>5. CASE m # 1
    <3>1. m - 1 \in 1 .. HEX_DIGITS /\ ~(m <= m - 1)
      BY <1>1, <2>2, <2>5
    <3>2. m - 1 \notin short
      BY <2>1, <3>1
    <3>3. ~(Power[m - 1] < 16)
      BY <3>1, <3>2
    <3> QED
      BY <2>2, <2>3, <3>3
  <2> QED
    BY <2>4, <2>5
<1>3. Power[HEX_DIGITS] \in Nat /\ ~(Power[HEX_DIGITS] < 16)
  <2>1. HEX_DIGITS \in 0 .. HEX_DIGITS /\ HEX_DIGITS \in 1 .. HEX_DIGITS
    BY <1>1
  <2>2. HEX_DIGITS \notin short
    BY <1>2
  <2> QED
    BY <2>1, <2>2, PowerFacts
<1> QED
  BY <1>3 DEF Words

LEMMA Remainder ==
    ASSUME NEW b \in Nat \ {0}, NEW a \in Int
    PROVE  /\ a % b \in 0 .. b - 1
           /\ 0 <= a /\ a < b => a % b = a
<1>1. a % b \in 0 .. b - 1
  BY SMT
<1>2. ASSUME 0 <= a, a < b PROVE a % b = a
  <2>1. a \in Nat
    BY <1>2
  <2>2. a \div b \in Nat /\ a % b \in 0 .. b - 1 /\ (a \div b) * b + (a % b) = a
    BY <2>1, Division
  <2>3. a \div b = 0
    <3> DEFINE c == a \div b
               r == a % b
    <3>1. c \in Nat /\ r \in Nat /\ c * b + r = a
      BY <2>2
    <3> HIDE DEF c, r
    <3>2. c >= 1 => c * b >= b
      BY <3>1
    <3>3. ~(c >= 1)
      BY <1>2, <3>1, <3>2
    <3> QED
      BY <3>1, <3>3 DEF c
  <2>4. (a \div b) * b = 0
    BY <2>3
  <2> QED
    BY <2>2, <2>4
<1> QED
  BY <1>1, <1>2

LEMMA UnsignedIs ==
    ASSUME NEW a \in Int
    PROVE  /\ Unsigned(a) \in Nat /\ Unsigned(a) < Words
           /\ 0 <= a /\ a < Words => Unsigned(a) = a
BY WordsFacts, Remainder DEF Unsigned

LEMMA PrintfStarts ==
    ASSUME PrintfInv, NEW f \in Formats, Printf(f)
    PROVE  PrintfInv'
<1>1. /\ format' = f /\ buf' = 1 /\ esp' = 1 /\ label' = "loop" /\ shown' = <<>>
  BY DEF Printf
<1>2. PrintfTypeOK'
  BY <1>1 DEF Printf, PrintfInv, PrintfTypeOK
<1>3. /\ Count' \in Nat /\ format'.begins[1] = 1 /\ format'.takes[1] = 1
  <2>1. IsFormat(f)
    BY LibraryAssumption
  <2> QED
    BY <1>1, <2>1 DEF IsFormat, Count
<1>4. 1 \in 1 .. Count' + 1
  <2>1. \A c \in Nat : 1 \in 1 .. c + 1
    OBVIOUS
  <2> QED
    BY <1>3, <2>1
<1>5. Within(1)'
  BY <1>1, <1>3 DEF Within
<1> DEFINE cut == [j \in 1 .. 1 |-> 0]
<1>6. Reached(1, cut)'
  <2>1. cut \in [1 .. 1 -> Nat] /\ cut[1] = 0 /\ 1 .. 1 - 1 = {}
    OBVIOUS
  <2>2. esp' = format'.takes[1] /\ Len(shown') = 0
    BY <1>1, <1>3
  <2> HIDE DEF cut
  <2> QED
    BY <2>1, <2>2 DEF Reached
<1> QED
  BY <1>2, <1>4, <1>5, <1>6 DEF PrintfInv

LEMMA PrintfRests ==
    ASSUME format = NoFormat, buf = 1, esp = 1, alternate = FALSE, negative = FALSE,
           label = "caller", radix = 10, newval = 0, conv_buf = <<>>, shown = <<>>
    PROVE  PrintfInv
<1>1. PrintfTypeOK
  <2>1. conv_buf \in Seq(Letters) /\ shown \in Seq(Letters)
    OBVIOUS
  <2>2. /\ buf \in Nat /\ esp \in Nat /\ newval \in Nat
        /\ radix \in {10, 16}
    OBVIOUS
  <2>3. format \in Formats \cup {NoFormat}
    OBVIOUS
  <2>4. alternate \in BOOLEAN /\ negative \in BOOLEAN
        /\ label \in {"caller", "loop", "switch", "itoa", "return"}
    OBVIOUS
  <2> QED
    BY <2>1, <2>2, <2>3, <2>4 DEF PrintfTypeOK
<1>2. Count = 0 /\ format.takes[1] = 1
  BY DEF NoFormat, Count
<1>3. 1 \in 1 .. Count + 1 /\ Within(1)
  BY <1>2 DEF Within
<1> DEFINE cut == [j \in 1 .. 1 |-> 0]
<1>4. Reached(1, cut)
  <2>1. cut \in [1 .. 1 -> Nat] /\ cut[1] = 0 /\ 1 .. 1 - 1 = {}
    OBVIOUS
  <2>2. Len(shown) = 0
    OBVIOUS
  <2> HIDE DEF cut
  <2> QED
    BY <1>2, <2>1, <2>2 DEF Reached
<1> QED
  BY <1>1, <1>3, <1>4 DEF PrintfInv

LEMMA PrintfRestsAgain == ASSUME PrintfCaller PROVE PrintfInv'
<1>1. /\ format' = NoFormat /\ buf' = 1 /\ esp' = 1
      /\ alternate' = FALSE /\ negative' = FALSE /\ label' = "caller"
      /\ radix' = 10 /\ newval' = 0 /\ conv_buf' = <<>> /\ shown' = <<>>
  BY DEF PrintfCaller
<1>2. PrintfTypeOK'
  <2>1. conv_buf' \in Seq(Letters) /\ shown' \in Seq(Letters)
    BY <1>1
  <2>2. buf' \in Nat /\ esp' \in Nat /\ newval' \in Nat /\ radix' \in {10, 16}
    BY <1>1
  <2>3. format' \in Formats \cup {NoFormat}
    BY <1>1
  <2>4. alternate' \in BOOLEAN /\ negative' \in BOOLEAN
        /\ label' \in {"caller", "loop", "switch", "itoa", "return"}
    BY <1>1
  <2> QED
    BY <2>1, <2>2, <2>3, <2>4 DEF PrintfTypeOK
<1>3. Count' = 0 /\ format'.takes[1] = 1
  BY <1>1 DEF NoFormat, Count
<1>4. 1 \in 1 .. Count' + 1
  BY <1>3
<1>5. Within(1)'
  BY <1>1, <1>3 DEF Within
<1> DEFINE cut == [j \in 1 .. 1 |-> 0]
<1>6. Reached(1, cut)'
  <2>1. cut \in [1 .. 1 -> Nat] /\ cut[1] = 0 /\ 1 .. 1 - 1 = {}
    OBVIOUS
  <2>2. Len(shown') = 0
    BY <1>1
  <2> HIDE DEF cut
  <2> QED
    BY <1>1, <1>3, <2>1, <2>2 DEF Reached
<1> QED
  BY <1>2, <1>4, <1>5, <1>6 DEF PrintfInv

LEMMA OrdinaryInv == ASSUME PrintfInv, Ordinary PROVE PrintfInv'
<1>1. PrintfTypeOK /\ label = "loop" /\ ~AtEnd /\ Char # "%" /\ Break(<<Char>>, 0)
  BY DEF PrintfInv, Ordinary
<1>2. PICK k, cut : k \in 1 .. Count + 1 /\ Within(k) /\ Reached(k, cut)
  BY DEF PrintfInv
<1>3. /\ k \in 1 .. Count /\ buf - format.begins[k] + 1 \in 1 .. Len(It(k).spelt)
      /\ Char = It(k).spelt[buf - format.begins[k] + 1]
      /\ buf = format.begins[k]
  BY <1>1, <1>2, CharIs DEF Within
<1>4. IsItem(It(k)) /\ format.begins[k] \in Nat /\ Len(It(k).spelt) \in Nat
  BY <1>1, <1>3, ItemFacts
<1>5. Char = It(k).spelt[1]
  <2>1. buf - format.begins[k] + 1 = 1
    BY <1>3, <1>4
  <2> QED
    BY <1>3, <2>1
<1>6. Len(It(k).spelt) = 1 /\ It(k).spelt \in Seq(Letters)
  BY <1>1, <1>4, <1>5 DEF IsItem
<1>7. It(k).spelt = <<Char>> /\ Char \in Letters
  <2> DEFINE spelt == It(k).spelt
  <2> HIDE DEF spelt
  <2>1. spelt \in Seq(Letters) /\ Len(spelt) = 1 /\ Char = spelt[1]
    BY <1>5, <1>6 DEF spelt
  <2>2. spelt = <<spelt[1]>> /\ spelt[1] \in Letters
    BY <2>1
  <2> QED
    BY <2>1, <2>2 DEF spelt
<1>8. Conversion(It(k)) = "putc"
  BY <1>6 DEF Conversion
<1>9. Shows(<<Char>>, It(k))
  BY <1>7, <1>8 DEF Shows
<1>10. format.takes[k + 1] = format.takes[k] + 0
  <2>1. Conversion(It(k)) \notin Conversions
    BY <1>8 DEF Conversions, Numerical
  <2>2. format.takes[k + 1] = format.takes[k] /\ format.takes[k] \in Nat
    BY <1>1, <1>3, <2>1, ItemFacts
  <2> QED
    BY <2>2
<1>11. buf = format.begins[k] + Len(It(k).spelt) - 1
  BY <1>3, <1>4, <1>6
<1>12. <<Char>> \in Seq(Letters)
  BY <1>7
<1> QED
  BY <1>1, <1>2, <1>3, <1>9, <1>10, <1>11, <1>12, ItemDone

LEMMA PercentInv == ASSUME PrintfInv, Percent PROVE PrintfInv'
<1>1. /\ PrintfTypeOK /\ label = "loop" /\ ~AtEnd /\ Char = "%"
      /\ alternate' = FALSE /\ buf' = buf + 1 /\ label' = "switch"
      /\ UNCHANGED <<format, esp, shown>>
  BY DEF PrintfInv, Percent
<1>2. PICK k, cut : k \in 1 .. Count + 1 /\ Within(k) /\ Reached(k, cut)
  BY DEF PrintfInv
<1>3. /\ k \in 1 .. Count /\ buf - format.begins[k] + 1 \in 1 .. Len(It(k).spelt)
      /\ Char = It(k).spelt[buf - format.begins[k] + 1]
      /\ buf = format.begins[k]
  BY <1>1, <1>2, CharIs DEF Within
<1>4. IsItem(It(k)) /\ format.begins[k] \in Nat /\ Len(It(k).spelt) \in Nat
  BY <1>1, <1>3, ItemFacts
<1>5. Char = It(k).spelt[1]
  <2>1. buf - format.begins[k] + 1 = 1
    BY <1>3, <1>4
  <2> QED
    BY <1>3, <2>1
<1>6. Len(It(k).spelt) > 1
  BY <1>1, <1>4, <1>5 DEF IsItem
<1>7. PrintfTypeOK'
  <2>1. buf' \in Nat
    BY <1>1 DEF PrintfTypeOK
  <2> QED
    BY <1>1, <2>1 DEF Percent, PrintfTypeOK
<1>8. Within(k)'
  <2>1. Count' = Count /\ It(k)' = It(k)
    BY <1>1 DEF Count, It
  <2>2. /\ buf' \in format.begins[k] + 1 .. format.begins[k] + Len(It(k).spelt) - 1
        /\ ~(buf' > format.begins[k] + 1)
    BY <1>1, <1>3, <1>4, <1>6
  <2>3. k <= Count
    BY <1>3
  <2>4. alternate' <=> (buf' > format.begins[k] + 1)
    BY <1>1, <2>2
  <2> QED
    BY <1>1, <2>1, <2>2, <2>3, <2>4 DEF Within
<1> QED
  BY <1>1, <1>2, <1>7, <1>8, ItemGoesOn

LEMMA AlternateInv == ASSUME PrintfInv, Alternate PROVE PrintfInv'
<1>1. /\ PrintfTypeOK /\ label = "switch" /\ Char = "#"
      /\ alternate' = TRUE /\ buf' = buf + 1 /\ label' = "switch"
      /\ UNCHANGED <<format, esp, shown>>
  BY DEF PrintfInv, Alternate
<1>2. PICK k, cut : k \in 1 .. Count + 1 /\ Within(k) /\ Reached(k, cut)
  BY DEF PrintfInv
<1>3. k \in 1 .. Count /\ buf < format.begins[k] + Len(It(k).spelt) - 1
  BY <1>1, <1>2, SwitchIs
<1>4. format.begins[k] \in Nat /\ Len(It(k).spelt) \in Nat /\ buf \in Nat
  BY <1>1, <1>3, ItemFacts DEF PrintfTypeOK
<1>5. buf \in format.begins[k] + 1 .. format.begins[k] + Len(It(k).spelt) - 1
  BY <1>1, <1>2 DEF Within
<1>6. PrintfTypeOK'
  <2>1. buf' \in Nat
    BY <1>1, <1>4
  <2> QED
    BY <1>1, <2>1 DEF Alternate, PrintfTypeOK
<1>7. Within(k)'
  <2>1. Count' = Count /\ It(k)' = It(k)
    BY <1>1 DEF Count, It
  <2>2. /\ buf' \in format.begins[k] + 1 .. format.begins[k] + Len(It(k).spelt) - 1
        /\ buf' > format.begins[k] + 1
    <3>1. buf' = buf + 1
      BY <1>1
    <3> QED
      BY SMTT(20), <1>3, <1>4, <1>5, <3>1
  <2>3. k <= Count
    BY <1>3
  <2>4. alternate' <=> (buf' > format.begins[k] + 1)
    BY <1>1, <2>2
  <2> QED
    BY <1>1, <2>1, <2>2, <2>3, <2>4 DEF Within
<1> QED
  BY <1>1, <1>2, <1>6, <1>7, ItemGoesOn

\* The argument of a conversion is that of its item.
LEMMA ArgumentIs ==
    ASSUME PrintfTypeOK, NEW k \in 1 .. Count, NEW cut, Reached(k, cut),
           Conversion(It(k)) \in Conversions
    PROVE  Argument = It(k).value /\ format.takes[k + 1] = format.takes[k] + 1
<1>1. esp = format.takes[k]
  BY DEF Reached
<1> QED
  BY <1>1, ItemFacts DEF Argument

LEMMA NumberInv == ASSUME PrintfInv, Number PROVE PrintfInv'
<1>1. /\ PrintfTypeOK /\ label = "switch" /\ Char \in Numerical /\ label' = "itoa"
      /\ UNCHANGED <<format, buf, esp, alternate, shown>>
      /\ conv_buf' = <<>>
  BY DEF PrintfInv, Number
<1>2. PICK k, cut : k \in 1 .. Count + 1 /\ Within(k) /\ Reached(k, cut)
  BY DEF PrintfInv
<1>3. /\ k \in 1 .. Count
      /\ buf = format.begins[k] + Len(It(k).spelt) - 1
      /\ Char = Conversion(It(k))
  <2>1. Char # "#"
    BY <1>1 DEF Numerical
  <2> QED
    BY <1>1, <1>2, <2>1, SwitchIs
<1> DEFINE value == It(k).value
           number == IF negative' THEN -value ELSE Unsigned(value)
<1>4. Argument = value
  <2>1. Conversion(It(k)) \in Conversions
    BY <1>1, <1>3 DEF Conversions
  <2> QED
    BY <1>1, <1>2, <1>3, <2>1, ArgumentIs
<1>5. value \in Int /\ -Words <= 2 * value /\ value < Words
  <2>1. IsItem(It(k))
    BY <1>1, <1>3, ItemFacts
  <2> QED
    BY <1>1, <1>3, <2>1 DEF IsItem
<1>6. /\ negative' = (Char = "d" /\ value < 0)
      /\ radix' = IF Char = "x" THEN 16 ELSE 10
      /\ newval' = Unsigned(IF negative' THEN -value ELSE value)
  BY <1>4 DEF Number
<1>7. newval' = number /\ newval' \in Nat /\ newval' < Words
  <2>1. CASE negative'
    <3>1. value < 0
      BY <1>6, <2>1
    <3>2. -value \in Int /\ 0 <= -value /\ -value < Words
      BY <1>5, <3>1, WordsFacts
    <3>3. newval' = Unsigned(-value)
      BY <1>6, <2>1
    <3> HIDE DEF value
    <3> QED
      BY <2>1, <3>2, <3>3, UnsignedIs
  <2>2. CASE ~negative'
    <3>1. newval' = Unsigned(value)
      BY <1>6, <2>2
    <3> HIDE DEF value
    <3> QED
      BY <1>5, <2>2, <3>1, UnsignedIs
  <2> QED
    BY <2>1, <2>2
<1>8. radix' \in {10, 16} /\ negative' \in BOOLEAN
  BY <1>6
<1>9. PrintfTypeOK'
  <2>1. conv_buf' \in Seq(Letters)
    BY <1>1
  <2> QED
    BY <1>1, <1>7, <1>8, <2>1 DEF PrintfTypeOK
<1>10. PICK m : m = number
  OBVIOUS
<1>11. \E q : Quotients(q, m)'
  <2> DEFINE q == [i \in 0 .. 0 |-> newval']
  <2>1. q \in [0 .. 0 -> Nat] /\ q[0] = newval'
    BY <1>7
  <2> HIDE DEF q
  <2>2. PICK r : r = q
    OBVIOUS
  <2>3. Len(conv_buf') = 0
    BY <1>1
  <2>4. 0 <= HEX_DIGITS /\ newval' < Power[HEX_DIGITS - 0]
    <3>1. HEX_DIGITS \in Nat /\ HEX_DIGITS - 0 = HEX_DIGITS
      BY LibraryAssumption
    <3> QED
      BY <1>7, <3>1 DEF Words
  <2>5. m = newval'
    BY <1>7, <1>10
  <2> HIDE DEF number
  <2>6. Quotients(r, m)'
    BY <2>1, <2>2, <2>3, <2>4, <2>5 DEF Quotients
  <2> QED
    BY <2>6
<1>12. Within(k)'
  <2>1. Count' = Count /\ It(k)' = It(k)
    BY <1>1 DEF Count, It
  <2>2. /\ k <= Count
        /\ buf' \in format.begins[k] + 1 .. format.begins[k] + Len(It(k).spelt) - 1
        /\ alternate' <=> (buf' > format.begins[k] + 1)
    BY <1>1, <1>2, <1>3 DEF Within
  <2>3. buf' = format.begins[k] + Len(It(k).spelt) - 1
    BY <1>1, <1>3
  <2>4. /\ Conversion(It(k)) \in Numerical
        /\ radix' = IF Conversion(It(k)) = "x" THEN 16 ELSE 10
        /\ negative' = (Conversion(It(k)) = "d" /\ It(k).value < 0)
    BY <1>1, <1>3, <1>6
  <2>5. \E q : Quotients(q, IF negative THEN -It(k).value ELSE Unsigned(It(k).value))'
    <3>1. (IF negative THEN -It(k).value ELSE Unsigned(It(k).value))' = m
      BY <1>10, <2>1 DEF Unsigned
    <3> QED
      BY <1>11, <3>1 DEF Quotients
  <2>6. format' = format /\ label' = "itoa"
    BY <1>1
  <2> HIDE DEF Quotients
  <2> QED
    BY <2>1, <2>2, <2>3, <2>4, <2>5, <2>6 DEF Within
<1> QED
  BY <1>1, <1>2, <1>9, <1>12, ItemGoesOn

LEMMA DigitInv == ASSUME PrintfInv, Digit PROVE PrintfInv'
<1>1. /\ PrintfTypeOK /\ label = "itoa" /\ NumberTypeOK
      /\ UNCHANGED <<format, buf, esp, alternate, label, negative, radix, shown>>
  BY DEF PrintfInv, PrintfTypeOK, NumberTypeOK, Digit
<1>2. PICK k, cut : k \in 1 .. Count + 1 /\ Within(k) /\ Reached(k, cut)
  BY DEF PrintfInv
<1>3. PICK m : m = IF negative THEN -It(k).value ELSE Unsigned(It(k).value)
  OBVIOUS
<1>4. PICK q : Quotients(q, m)
  BY <1>1, <1>2, <1>3 DEF Within
<1>5. NumberTypeOK' /\ \E r : Quotients(r, m)'
  BY <1>1, <1>4, DigitKeeps
<1>6. PrintfTypeOK'
  BY <1>1, <1>5 DEF PrintfTypeOK, NumberTypeOK
<1>7. Within(k)'
  <2>1. Count' = Count /\ It(k)' = It(k)
    BY <1>1 DEF Count, It
  <2>2. (IF negative THEN -It(k).value ELSE Unsigned(It(k).value))' = m
    BY <1>1, <1>3, <2>1 DEF Unsigned
  <2>3. \E r : Quotients(r, IF negative THEN -It(k).value ELSE Unsigned(It(k).value))'
    BY <1>5, <2>2 DEF Quotients
  <2> HIDE DEF Quotients
  <2> QED
    BY <1>1, <1>2, <2>1, <2>3 DEF Within
<1> QED
  BY <1>1, <1>2, <1>6, <1>7, ItemGoesOn

LEMMA ItoaCharIs ==
    ASSUME PrintfTypeOK, NEW k \in 1 .. Count + 1, Within(k), label = "itoa"
    PROVE  /\ k \in 1 .. Count
           /\ Char = Conversion(It(k))
           /\ Len(It(k).spelt) > 1
           /\ alternate <=> Len(It(k).spelt) > 2
<1> DEFINE ending == Len(It(k).spelt)
           b == format.begins[k]
<1>1. k \in 1 .. Count /\ Char = It(k).spelt[buf - b + 1]
  BY CharIs
<1>2. b \in Nat /\ ending \in Nat
  BY <1>1, ItemFacts
<1>3. /\ buf \in b + 1 .. b + ending - 1 /\ buf = b + ending - 1
      /\ alternate <=> (buf > b + 1)
  BY DEF Within
<1>4. ending > 1 /\ buf - b + 1 = ending /\ (buf > b + 1 <=> ending > 2)
  <2> HIDE DEF b, ending
  <2> QED
    BY <1>2, <1>3
<1> QED
  BY <1>1, <1>3, <1>4 DEF Conversion

LEMMA Joined ==
    ASSUME NEW a \in Seq(Letters), NEW b \in Seq(Letters)
    PROVE  /\ a \o b \in Seq(Letters) /\ Len(a \o b) = Len(a) + Len(b)
           /\ \A i \in 1 .. Len(a) : (a \o b)[i] = a[i]
           /\ \A i \in 1 .. Len(b) : (a \o b)[Len(a) + i] = b[i]
OBVIOUS

\* With its sign and its padding the numeral is what the item should show.
LEMMA NumeralShows ==
    ASSUME PrintfTypeOK, NEW k \in 1 .. Count, Within(k), label = "itoa", newval = 0
    PROVE  /\ (Sign \o Padding) \o itoa \in Seq(Letters)
           /\ Shows((Sign \o Padding) \o itoa, It(k))
<1> DEFINE item == It(k)
           value == item.value
           text == (Sign \o Padding) \o itoa
<1>1. /\ Char = Conversion(item) /\ Conversion(item) \in Numerical
      /\ Len(item.spelt) > 1
      /\ alternate <=> Len(item.spelt) > 2
      /\ radix = IF Conversion(item) = "x" THEN 16 ELSE 10
      /\ negative = (Conversion(item) = "d" /\ value < 0)
  <2>1. k \in 1 .. Count + 1
    BY FormatFacts
  <2> QED
    BY <2>1, ItoaCharIs DEF Within
<1>2. PICK m : m = IF negative THEN -value ELSE Unsigned(value)
  OBVIOUS
<1>3. PICK q : Quotients(q, m)
  BY <1>2 DEF Within
<1>4. /\ itoa \in Seq(Letters) /\ itoa # <<>>
      /\ IsNumeral(itoa, radix, m)
      /\ radix = 16 => Len(itoa) <= HEX_DIGITS
      /\ \A z \in Nat : \A t \in Seq(Letters) :
            /\ Len(t) = z + Len(itoa)
            /\ \A i \in 1 .. z : t[i] = "0"
            /\ \A i \in 1 .. Len(itoa) : t[z + i] = itoa[i]
            => Denotes(t, radix, m)
  <2>1. NumberTypeOK
    BY DEF PrintfTypeOK, NumberTypeOK
  <2> HIDE DEF Quotients
  <2> QED
    BY <1>3, <2>1, ItoaIs
<1>5. value \in Int /\ value < Words
  <2>1. IsItem(item)
    BY ItemFacts
  <2> QED
    BY <1>1, <2>1 DEF IsItem
<1> HIDE DEF item, text
<1>6. CASE Conversion(item) = "x" /\ alternate
  <2>1. ~negative /\ Sign = <<>> /\ radix = 16 /\ m = Unsigned(value)
    BY <1>1, <1>2, <1>6 DEF Sign
  <2> DEFINE z == HEX_DIGITS - Len(itoa)
             zeros == [i \in 1 .. z |-> "0"]
  <2>2. z \in Nat /\ Len(itoa) \in Nat /\ z + Len(itoa) = HEX_DIGITS
    BY <1>4, <2>1, LibraryAssumption
  <2>3. Padding = zeros
    BY <1>1, <1>6 DEF Padding
  <2> HIDE DEF z
  <2>4. zeros \in Seq(Letters) /\ Len(zeros) = z /\ \A i \in 1 .. z : zeros[i] = "0"
    BY <2>2, LookupFacts
  <2> HIDE DEF zeros
  <2>5. text = zeros \o itoa
    BY <2>1, <2>3, <2>4 DEF text
  <2>6. /\ text \in Seq(Letters) /\ Len(text) = z + Len(itoa)
        /\ \A i \in 1 .. z : text[i] = "0"
        /\ \A i \in 1 .. Len(itoa) : text[z + i] = itoa[i]
    <3>1. /\ text \in Seq(Letters) /\ Len(text) = Len(zeros) + Len(itoa)
          /\ \A i \in 1 .. Len(zeros) : text[i] = zeros[i]
          /\ \A i \in 1 .. Len(itoa) : text[Len(zeros) + i] = itoa[i]
      BY <1>4, <2>4, <2>5, Joined
    <3> QED
      BY <2>4, <3>1
  <2>7. Denotes(text, 16, Unsigned(value))
    BY <1>4, <2>1, <2>2, <2>6
  <2>8. Shows(text, item)
    BY <1>1, <1>6, <2>2, <2>6, <2>7 DEF Shows
  <2> QED
    BY <2>6, <2>8 DEF item, text
<1>7. CASE ~(Conversion(item) = "x" /\ alternate) /\ ~negative
  <2>1. Sign = <<>> /\ Padding = <<>>
    BY <1>1, <1>7 DEF Sign, Padding
  <2>2. text = itoa
    BY <1>4, <2>1 DEF text
  <2>3. m = Unsigned(value)
    BY <1>2, <1>7 DEF item
  <2>4. Shows(text, item)
    <3>1. CASE Conversion(item) = "x"
      <4>1. Len(item.spelt) = 2
        <5>1. Len(item.spelt) \in Nat
          BY ItemFacts DEF item
        <5>2. ~(Len(item.spelt) > 2)
          BY <1>1, <1>7, <3>1
        <5>3. Len(item.spelt) > 1
          BY <1>1
        <5>4. \A n \in Nat : ~(n > 2) /\ n > 1 => n = 2
          OBVIOUS
        <5> QED
          BY <5>1, <5>2, <5>3, <5>4
      <4>2. IsNumeral(itoa, 16, Unsigned(value))
        BY <1>1, <1>4, <2>3, <3>1
      <4> QED
        BY <2>2, <3>1, <4>1, <4>2 DEF Shows
    <3>2. CASE Conversion(item) = "u"
      <4>1. IsNumeral(itoa, 10, Unsigned(value))
        BY <1>1, <1>4, <2>3, <3>2
      <4> QED
        BY <2>2, <3>2, <4>1 DEF Shows
    <3>3. CASE Conversion(item) = "d"
      <4>1. value >= 0
        <5>1. ~(value < 0)
          BY <1>1, <1>7, <3>3
        <5> QED
          BY <1>5, <5>1
      <4>2. m = value
        BY <1>5, <2>3, <4>1, UnsignedIs
      <4>3. IsNumeral(itoa, 10, value)
        BY <1>1, <1>4, <3>3, <4>2
      <4> QED
        BY <1>5, <2>2, <3>3, <4>1, <4>3 DEF Shows
    <3> QED
      BY <1>1, <3>1, <3>2, <3>3 DEF Numerical
  <2> QED
    BY <1>4, <2>2, <2>4 DEF item, text
<1>8. CASE negative
  <2>1. Conversion(item) = "d" /\ value < 0
    BY <1>1, <1>8
  <2>2. Sign = <<"-">> /\ Padding = <<>> /\ radix = 10
    BY <1>1, <1>8, <2>1 DEF Sign, Padding
  <2>3. text = <<"-">> \o itoa
    BY <1>4, <2>2 DEF text
  <2>4. <<"-">> \in Seq(Letters)
    BY LookupFacts
  <2>5. text \in Seq(Letters) /\ text # <<>> /\ text[1] = "-" /\ Tail(text) = itoa
    BY <1>4, <2>3, <2>4
  <2>6. m = -value
    BY <1>2, <1>8 DEF item
  <2>7. IsNumeral(Tail(text), 10, -value)
    BY <1>4, <2>2, <2>5, <2>6
  <2>8. Shows(text, item)
    BY <2>1, <2>5, <2>7 DEF Shows
  <2> QED
    BY <2>5, <2>8 DEF item, text
<1> QED
  BY <1>6, <1>7, <1>8

LEMMA PutsInv == ASSUME PrintfInv, Puts PROVE PrintfInv'
<1>1. /\ PrintfTypeOK /\ label = "itoa" /\ newval = 0
      /\ Break((Sign \o Padding) \o itoa, 1)
  BY DEF PrintfInv, Puts
<1>2. PICK k, cut : k \in 1 .. Count + 1 /\ Within(k) /\ Reached(k, cut)
  BY DEF PrintfInv
<1>3. k \in 1 .. Count
  BY <1>1, <1>2, ItoaCharIs
<1>4. buf = format.begins[k] + Len(It(k).spelt) - 1 /\ Conversion(It(k)) \in Conversions
  BY <1>1, <1>2 DEF Within, Conversions
<1>5. format.takes[k + 1] = format.takes[k] + 1
  BY <1>1, <1>3, <1>4, ItemFacts
<1> DEFINE text == (Sign \o Padding) \o itoa
<1>6. text \in Seq(Letters) /\ Shows(text, It(k))
  BY <1>1, <1>2, <1>3, NumeralShows
<1> HIDE DEF text
<1>7. PICK t : t = text
  OBVIOUS
<1>8. Break(t, 1)
  BY <1>1, <1>7 DEF text, Break
<1> QED
  BY <1>1, <1>2, <1>3, <1>4, <1>5, <1>6, <1>7, <1>8, ItemDone

\* The other conversions put their text at once.
LEMMA SwitchDone ==
    ASSUME PrintfInv, label = "switch", Char # "#", NEW text, NEW arguments,
           Break(text, arguments),
           arguments = IF Char \in Conversions THEN 1 ELSE 0,
           \A k \in 1 .. Count :
              IsItem(It(k)) /\ Conversion(It(k)) = Char
              /\ (Char \in Conversions => Argument = It(k).value)
              => text \in Seq(Letters) /\ Shows(text, It(k))
    PROVE  PrintfInv'
<1>1. PrintfTypeOK
  BY DEF PrintfInv
<1>2. PICK k, cut : k \in 1 .. Count + 1 /\ Within(k) /\ Reached(k, cut)
  BY DEF PrintfInv
<1>3. /\ k \in 1 .. Count
      /\ buf = format.begins[k] + Len(It(k).spelt) - 1
      /\ Char = Conversion(It(k))
  BY <1>1, <1>2, SwitchIs
<1>4. IsItem(It(k)) /\ (Char \in Conversions => Argument = It(k).value)
  BY <1>1, <1>2, <1>3, ArgumentIs, ItemFacts
<1>5. text \in Seq(Letters) /\ Shows(text, It(k))
  BY <1>3, <1>4
<1>6. format.takes[k + 1] = format.takes[k] + arguments /\ arguments \in {0, 1}
  <2>1. CASE Char \in Conversions
    BY <1>1, <1>3, <2>1, ItemFacts
  <2>2. CASE Char \notin Conversions
    <3>1. format.takes[k + 1] = format.takes[k] /\ format.takes[k] \in Nat
      BY <1>1, <1>3, <2>2, ItemFacts
    <3> QED
      BY <2>2, <3>1
  <2> QED
    BY <2>1, <2>2
<1> QED
  BY <1>1, <1>2, <1>3, <1>5, <1>6, ItemDone

LEMMA CharacterInv == ASSUME PrintfInv, Character PROVE PrintfInv'
<1>1. label = "switch" /\ Char = "c" /\ Break(<<Argument>>, 1)
  BY DEF Character
<1>2. PICK text : text = <<Argument>>
  OBVIOUS
<1>3. Break(text, 1)
  BY <1>1, <1>2 DEF Break
<1>4. ASSUME NEW k \in 1 .. Count, IsItem(It(k)), Conversion(It(k)) = Char,
             Argument = It(k).value
      PROVE  text \in Seq(Letters) /\ Shows(text, It(k))
  <2>1. It(k).value \in Letters
    BY <1>1, <1>4 DEF IsItem
  <2> QED
    BY <1>1, <1>2, <1>4, <2>1 DEF Shows
<1>5. Char # "#" /\ Char \in Conversions
  BY <1>1 DEF Conversions, Numerical
<1> QED
  BY <1>1, <1>3, <1>4, <1>5, SwitchDone

LEMMA StringInv == ASSUME PrintfInv, String PROVE PrintfInv'
<1>1. label = "switch" /\ Char = "s" /\ Break(Argument, 1)
  BY DEF String
<1>2. PICK text : text = Argument
  OBVIOUS
<1>3. Break(text, 1)
  BY <1>1, <1>2 DEF Break
<1>4. ASSUME NEW k \in 1 .. Count, IsItem(It(k)), Conversion(It(k)) = Char,
             Argument = It(k).value
      PROVE  text \in Seq(Letters) /\ Shows(text, It(k))
  <2>1. It(k).value \in Seq(Letters)
    BY <1>1, <1>4 DEF IsItem
  <2> QED
    BY <1>1, <1>2, <1>4, <2>1 DEF Shows
<1>5. Char # "#" /\ Char \in Conversions
  BY <1>1 DEF Conversions, Numerical
<1> QED
  BY <1>1, <1>3, <1>4, <1>5, SwitchDone

LEMMA LiteralInv == ASSUME PrintfInv, Literal PROVE PrintfInv'
<1>1. label = "switch" /\ Char = "%" /\ Break(<<"%">>, 0)
  BY DEF Literal
<1>2. <<"%">> \in Seq(Letters)
  BY LookupFacts
<1>3. ASSUME NEW k \in 1 .. Count, Conversion(It(k)) = Char
      PROVE  Shows(<<"%">>, It(k))
  BY <1>1, <1>3 DEF Shows
<1>4. Char # "#" /\ Char \notin Conversions
  BY <1>1 DEF Conversions, Numerical
<1> QED
  BY <1>1, <1>2, <1>3, <1>4, SwitchDone

LEMMA DefaultInv == ASSUME PrintfInv, Default PROVE PrintfInv'
<1>1. label = "switch" /\ Char \notin Conversions \cup {"#", "%"} /\ Break(<<>>, 0)
  BY DEF Default
<1>2. <<>> \in Seq(Letters)
  OBVIOUS
<1>3. PrintfTypeOK
  BY DEF PrintfInv
<1>4. PICK k, cut : k \in 1 .. Count + 1 /\ Within(k) /\ Reached(k, cut)
  BY DEF PrintfInv
<1>5. Char # "#" /\ Char \notin Conversions /\ Char # "%"
  BY <1>1
<1>6. /\ k \in 1 .. Count
      /\ buf = format.begins[k] + Len(It(k).spelt) - 1
      /\ Char = Conversion(It(k)) /\ Len(It(k).spelt) > 1
  BY <1>1, <1>3, <1>4, <1>5, SwitchIs
<1>7. Conversion(It(k)) # "putc"
  <2> DEFINE spelt == It(k).spelt
  <2>1. spelt \in Seq(Letters) /\ Len(spelt) > 1 /\ Char = spelt[Len(spelt)]
    BY <1>3, <1>6, ItemFacts DEF IsItem, Conversion
  <2> HIDE DEF spelt
  <2>2. Char \in Letters
    BY <2>1
  <2> QED
    BY <1>6, <2>2, LibraryAssumption
<1>8. Shows(<<>>, It(k))
  BY <1>5, <1>6, <1>7 DEF Shows, Conversions, Numerical
<1>9. format.takes[k + 1] = format.takes[k] + 0
  <2>1. format.takes[k + 1] = format.takes[k] /\ format.takes[k] \in Nat
    BY <1>3, <1>5, <1>6, ItemFacts
  <2> QED
    BY <2>1
<1> QED
  BY <1>1, <1>2, <1>3, <1>4, <1>6, <1>8, <1>9, ItemDone

LEMMA ReturnInv == ASSUME PrintfInv, Return PROVE PrintfInv'
<1>1. /\ PrintfTypeOK /\ label = "loop" /\ AtEnd /\ label' = "return"
      /\ UNCHANGED <<format, buf, esp, shown>>
  BY DEF PrintfInv, Return
<1>2. PICK k, cut : k \in 1 .. Count + 1 /\ Within(k) /\ Reached(k, cut)
  BY DEF PrintfInv
<1>3. k = Count + 1
  <2> SUFFICES ASSUME k # Count + 1 PROVE FALSE
    OBVIOUS
  <2>1. k \in 1 .. Count
    BY <1>1, <1>2, FormatFacts
  <2>2. buf = format.begins[k] /\ buf > Len(format.text)
    BY <1>1, <1>2 DEF Within, AtEnd
  <2>3. /\ format.begins[k] \in Nat /\ Len(It(k).spelt) \in Nat /\ Len(It(k).spelt) > 0
        /\ format.begins[k] + Len(It(k).spelt) <= Len(format.text) + 1
        /\ Len(format.text) \in Nat
    BY <1>1, <2>1, ItemFacts, FormatFacts
  <2> QED
    BY <2>2, <2>3
<1>4. PrintfTypeOK'
  BY <1>1 DEF Return, PrintfTypeOK
<1>5. Within(k)'
  <2>1. Count' = Count
    BY <1>1 DEF Count
  <2> QED
    BY <1>1, <1>3, <2>1 DEF Within
<1> QED
  BY <1>1, <1>2, <1>4, <1>5, ItemGoesOn

LEMMA PrintfNextInv == PrintfInv /\ [PrintfNext]_printfVars => PrintfInv'
<1> SUFFICES ASSUME PrintfInv, [PrintfNext]_printfVars
             PROVE  PrintfInv'
  OBVIOUS
<1>1. ASSUME NEW f \in Formats, Printf(f) PROVE PrintfInv'
  BY <1>1, PrintfStarts
<1>2. CASE PrintfCaller
  BY <1>2, PrintfRestsAgain
<1>3. CASE UNCHANGED printfVars
  <2>1. PICK k, cut : k \in 1 .. Count + 1 /\ Within(k) /\ Reached(k, cut)
    BY DEF PrintfInv
  <2>2. PrintfTypeOK'
    BY <1>3 DEF printfVars, PrintfInv, PrintfTypeOK
  <2>3. Within(k)'
    BY <1>3, <2>1 DEF printfVars, Within, Count, It, Quotients
  <2> QED
    BY <1>3, <2>1, <2>2, <2>3, ItemGoesOn DEF printfVars
<1> QED
  BY <1>1, <1>2, <1>3, OrdinaryInv, PercentInv, AlternateInv, NumberInv, DigitInv,
     PutsInv, CharacterInv, StringInv, LiteralInv, DefaultInv, ReturnInv DEF PrintfNext

\* For every width of a word, every format whose items lie in it one after the other,
\* and every argument, printf() of lib.c puts on the console what its items should
\* show, one after the other: the quotients of itoa() are kept with their digits, and
\* the output with the places where the items that are done end.
THEOREM PrintfKeepsItsWord == PrintfSpec => [](PrintfTypeOK /\ PrintfPrints)
<1>1. PrintfInit => PrintfInv
  BY PrintfRests DEF PrintfInit
<1>2. PrintfInv => PrintfTypeOK /\ PrintfPrints
  <2> SUFFICES ASSUME PrintfInv, label = "return"
               PROVE  PrintfPrints
    BY DEF PrintfInv, PrintfPrints
  <2>1. PrintfTypeOK
    BY DEF PrintfInv
  <2>2. PICK k, cut : k \in 1 .. Count + 1 /\ Within(k) /\ Reached(k, cut)
    BY DEF PrintfInv
  <2>3. k = Count + 1 /\ Count \in Nat /\ Len(shown) \in Nat
    BY <2>1, <2>2, FormatFacts DEF Within, PrintfTypeOK
  <2>4. /\ cut \in [1 .. k -> Nat] /\ cut[1] = 0 /\ cut[k] = Len(shown)
        /\ \A j \in 1 .. k - 1 :
              /\ cut[j] <= cut[j + 1] /\ cut[j + 1] <= Len(shown)
              /\ Shows(Piece(shown, cut[j], cut[j + 1]), It(j))
    BY <2>2 DEF Reached
  <2>5. cut \in [1 .. Count + 1 -> 0 .. Len(shown)]
    <3>1. ASSUME NEW j \in 1 .. Count + 1
          PROVE  cut[j] \in 0 .. Len(shown)
      <4>1. CASE j = 1
        BY <2>3, <2>4, <4>1
      <4>2. CASE j # 1
        <5>1. j - 1 \in 1 .. k - 1 /\ (j - 1) + 1 = j
          BY <2>3, <4>2
        <5>2. cut[j] <= Len(shown) /\ cut[j] \in Nat
          BY <2>3, <2>4, <5>1
        <5> QED
          BY <2>3, <5>2
      <4> QED
        BY <4>1, <4>2
    <3> QED
      BY <2>3, <2>4, <3>1
  <2>6. 1 .. k - 1 = 1 .. Count
    BY <2>3
  <2> QED
    BY <2>3, <2>4, <2>5, <2>6 DEF PrintfPrints, Count, It
<1> QED
  BY <1>1, <1>2, PrintfNextInv, PTL DEF PrintfSpec
=============================================================================
