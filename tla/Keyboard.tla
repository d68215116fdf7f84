------------------------------ MODULE Keyboard ------------------------------
(***************************************************************************)
(* The keyboard driver: how the bytes the keyboard sends become characters *)
(* and commands.  The driver knows the keys that are held only from the    *)
(* make and break codes it has read, keeps one flag for both keys of a     *)
(* kind, and reads a byte long after the key went down: bytes wait in the  *)
(* keyboard while the 8259 holds IRQ 1 back.                               *)
(*                                                                         *)
(* What a character or a command does to the terminal that is shown is the *)
(* business of TerminalInput (term_buffer), Display (the echo), Terminals  *)
(* and Scheduler (Alt+Fn, Ctrl+C).                                         *)
(***************************************************************************)
EXTENDS Integers, Sequences

CONSTANTS Keys,        \* the keys that are used
          QUEUE_SIZE   \* the bytes the keyboard keeps; nobody types further ahead

Kinds == {"shift", "ctrl", "alt"}
PairOf == [shift |-> {"left shift", "right shift"},
           ctrl |-> {"left ctrl", "right ctrl"},
           alt |-> {"left alt", "right alt"}]
Modifiers == UNION {PairOf[kind] : kind \in Kinds}
Lasting == Modifiers \cup {"caps lock"}   \* break codes of other keys do nothing

\* The keys special_chars() names, and examples of those it does not: letters,
\* keys whose upper character Caps Lock leaves alone, and one with no character.
FunctionKeys == {"F1", "F2", "F3"}
Letters == {"A", "C", "L"}
Symbols == {"1"}
AllKeys == Modifiers \cup FunctionKeys \cup Letters \cup Symbols
           \cup {"caps lock", "enter", "backspace", "tab", "escape"}

ASSUME KeyboardAssumption == Keys \subseteq AllKeys /\ QUEUE_SIZE \in Nat

VARIABLES
    shift_flag, control_flag, caps_flag, alt_flag,
    bytes,        \* sent by the keyboard, with what was held when they were
    kb_in_service,
    read,         \* the byte the handler took last
    effect,       \* and what it did with it
    held,         \* the modifier keys that are down
    locked,       \* Caps Lock was pressed an odd number of times
    blurred       \* kinds of which both keys have been down and one still is

flagVars == <<shift_flag, control_flag, caps_flag, alt_flag>>
handlerVars == <<kb_in_service, read, effect>>
userVars == <<held, locked, blurred>>
keyboardVars == <<shift_flag, control_flag, caps_flag, alt_flag, bytes,
                  kb_in_service, read, effect, held, locked, blurred>>

PRESSED == 1
CAPS_PRESSED == 2

----------------------------------------------------------------------------
(* The keyboard and its user *)

Holding(keys) == [kind \in Kinds |-> keys \cap PairOf[kind] # {}]

\* A byte is the make or break code of a key; the rest is what the user sees
\* when it is sent.  (The prefix 0xE0 of some keys is a byte that does nothing.)
Byte == [key : Keys, break : BOOLEAN, holding : [Kinds -> BOOLEAN],
         locked : BOOLEAN, blurred : SUBSET Kinds]

Send(key, break) ==
    /\ Len(bytes) < QUEUE_SIZE
    /\ bytes' = Append(bytes, [key |-> key, break |-> break, holding |-> Holding(held),
                               locked |-> locked, blurred |-> blurred])
    /\ UNCHANGED <<flagVars, handlerVars>>

\* A key goes down, or its make code repeats while it is down.
Press(key) ==
    /\ Send(key, FALSE)
    /\ held' = held \cup ({key} \cap Lasting)
    /\ locked' = (locked # (key = "caps lock"))
    /\ blurred' = blurred \cup
           {kind \in Kinds : key \in PairOf[kind] /\ PairOf[kind] \subseteq held'}

Release(key) ==
    /\ key \in held
    /\ Send(key, TRUE)
    /\ held' = held \ {key}
    /\ blurred' = {kind \in blurred : PairOf[kind] \cap held' # {}}
    /\ UNCHANGED locked

----------------------------------------------------------------------------
(* The driver *)

Plain(key) == [key |-> key, upper |-> FALSE]
Nothing == Plain("nothing")
NoTerminal == -1

\* What the handler does besides its flags: the character it stores and echoes,
\* the terminal it asks for, whether it marks the program and clears the screen.
Effect == [types : [key : AllKeys \cup {"space", "nothing"}, upper : BOOLEAN],
           asks : 0 .. 2 \cup {NoTerminal}, kills : BOOLEAN, clears : BOOLEAN]

Types(char) == [types |-> char, asks |-> NoTerminal, kills |-> FALSE, clears |-> FALSE]
NoEffect == Types(Nothing)

\* The rows of the table: plain, Shift, Caps Lock and both.
scan_code2(row, key) ==
    CASE key \in Letters -> [key |-> key, upper |-> row \in {1, 2}]
      [] key \in Symbols -> [key |-> key, upper |-> row \in {1, 3}]
      [] OTHER -> Nothing

\* Mutant: Shift and Caps Lock are or-ed, as flags of value 1 would be.
table_char_of_either(key) ==
    IF control_flag # 0 THEN Nothing
    ELSE scan_code2(IF shift_flag + caps_flag = 3 THEN 2 ELSE shift_flag + caps_flag, key)

\* The character of a key that special_chars() left to the table.
table_char(key) ==
    IF control_flag # 0 THEN Nothing ELSE scan_code2(shift_flag + caps_flag, key)

\* The terminal a function key asks for, while the Alt flag is set.
AltFunction(key) ==
    IF alt_flag # 0 THEN CASE key \in {"F1", "tab"} -> 0
                           [] key = "F2" -> 1
                           [] key = "F3" -> 2
    ELSE NoTerminal

\* The switch statement on a make code.  The case of Tab goes on into that of F1.
special_chars(key) ==
    CASE key = "C" /\ control_flag # 0 -> [NoEffect EXCEPT !.kills = TRUE]
      [] key = "L" /\ control_flag # 0 -> [NoEffect EXCEPT !.clears = TRUE]
      [] key \in {"enter", "backspace"} -> Types(Plain(key))
      [] key = "tab" -> [Types(Plain("space")) EXCEPT !.asks = AltFunction(key)]
      [] key \in FunctionKeys -> [NoEffect EXCEPT !.asks = AltFunction(key)]
      [] OTHER -> Types(table_char(key))

\* Mutant: break codes are ignored.
ModifierFlagSticks(flag, kind, key, break) ==
    IF key \in PairOf[kind] /\ ~break THEN PRESSED ELSE flag

\* A flag after the make or break code of one of the keys of its kind.
ModifierFlag(flag, kind, key, break) ==
    IF key \in PairOf[kind] THEN IF break THEN 0 ELSE PRESSED ELSE flag

\* Mutant: the break code toggles Caps Lock as well.
CapsFlagBothWays(flag, key, break) ==
    IF key = "caps lock" THEN IF flag # 0 THEN 0 ELSE CAPS_PRESSED ELSE flag

CapsFlag(flag, key, break) ==
    IF key = "caps lock" /\ ~break THEN IF flag # 0 THEN 0 ELSE CAPS_PRESSED ELSE flag

SetFlags(key, break) ==
    /\ shift_flag' = ModifierFlag(shift_flag, "shift", key, break)
    /\ control_flag' = ModifierFlag(control_flag, "ctrl", key, break)
    /\ alt_flag' = ModifierFlag(alt_flag, "alt", key, break)
    /\ caps_flag' = CapsFlag(caps_flag, key, break)

\* From IRQ 1 to sti().
KeyboardHandler ==
    /\ bytes # <<>>
    /\ ~kb_in_service
    /\ kb_in_service' = TRUE
    /\ bytes' = Tail(bytes)
    /\ read' = Head(bytes)
    /\ effect' = IF Head(bytes).break THEN NoEffect ELSE special_chars(Head(bytes).key)
    /\ SetFlags(Head(bytes).key, Head(bytes).break)
    /\ UNCHANGED userVars

\* send_eoi(KB_IRQ), in the same context as the sti() or not.
KeyboardEoi ==
    /\ kb_in_service
    /\ kb_in_service' = FALSE
    /\ UNCHANGED <<flagVars, bytes, read, effect, userVars>>

----------------------------------------------------------------------------

\* No byte was read yet.
NoByte == [key |-> "escape", break |-> TRUE, holding |-> Holding({}),
           locked |-> FALSE, blurred |-> {}]

KeyboardInit ==
    /\ shift_flag = 0 /\ control_flag = 0 /\ caps_flag = 0 /\ alt_flag = 0
    /\ bytes = <<>>
    /\ kb_in_service = FALSE
    /\ read = NoByte
    /\ effect = NoEffect
    /\ held = {}
    /\ locked = FALSE
    /\ blurred = {}

KeyboardNext ==
    \/ \E key \in Keys : Press(key)
    \/ \E key \in Keys : Release(key)
    \/ KeyboardHandler
    \/ KeyboardEoi

KeyboardSpec == KeyboardInit /\ [][KeyboardNext]_keyboardVars

KeyboardTypeOK ==
    /\ shift_flag \in {0, PRESSED}
    /\ control_flag \in {0, PRESSED}
    /\ alt_flag \in {0, PRESSED}
    /\ caps_flag \in {0, CAPS_PRESSED}
    /\ bytes \in Seq(Byte)
    /\ kb_in_service \in BOOLEAN
    /\ read \in Byte \cup {NoByte}
    /\ effect \in Effect
    /\ held \subseteq Keys \cap Lasting
    /\ locked \in BOOLEAN
    /\ blurred \subseteq Kinds

----------------------------------------------------------------------------

\* What the user meant by a byte, from the keys that were down when it was sent:
\* letters follow Shift or else Caps Lock, other keys Shift alone, nothing is
\* typed while Ctrl is down; Alt+Tab types a space and asks for terminal 0.
Upper(b) ==
    CASE b.key \in Letters -> b.holding["shift"] # b.locked
      [] OTHER -> b.holding["shift"]

TypedBy(b) ==
    CASE b.key \in {"enter", "backspace"} -> Plain(b.key)
      [] b.key = "tab" -> Plain("space")
      [] b.key \in Letters \cup Symbols /\ ~b.holding["ctrl"] ->
             [key |-> b.key, upper |-> Upper(b)]
      [] OTHER -> Nothing

AskedBy(b) ==
    CASE b.key \in {"F1", "tab"} /\ b.holding["alt"] -> 0
      [] b.key = "F2" /\ b.holding["alt"] -> 1
      [] b.key = "F3" /\ b.holding["alt"] -> 2
      [] OTHER -> NoTerminal

Meant(b) == [types |-> TypedBy(b),
             asks |-> AskedBy(b),
             kills |-> b.key = "C" /\ b.holding["ctrl"],
             clears |-> b.key = "L" /\ b.holding["ctrl"]]

\* However late a byte is read, and whatever was pressed and released since, the
\* handler does what the keys meant when it was sent.  The code keeps one flag
\* for two keys, so that it fails while the second key of a kind that has been
\* down together with the first still is: those times are left out.
DoesWhatWasMeant ==
    read.blurred = {} => effect = IF read.break THEN NoEffect ELSE Meant(read)

\* Even then no modifier acts that is not held: a program is marked and the screen
\* cleared only by Ctrl, a terminal asked for only by Alt.
OnlyHeldModifiersAct ==
    /\ effect.kills \/ effect.clears => read.holding["ctrl"]
    /\ effect.asks # NoTerminal => read.holding["alt"]

\* When the handler has caught up no modifier is stuck: none is taken for held
\* that the user has let go.
NoStuckModifier ==
    bytes = <<>> =>
        /\ shift_flag # 0 => Holding(held)["shift"]
        /\ control_flag # 0 => Holding(held)["ctrl"]
        /\ alt_flag # 0 => Holding(held)["alt"]
        /\ (caps_flag # 0) = locked

\* The inductive invariant of the proofs.  The flags agree with what the user saw
\* when the next byte was sent, or sees now; and reading a byte takes the flags
\* from what was seen at that byte to what was seen at the one after it.
Now == [holding |-> Holding(held), locked |-> locked, blurred |-> blurred]

Flags == [shift |-> shift_flag # 0, ctrl |-> control_flag # 0, alt |-> alt_flag # 0]

FlagsAgree(seen) ==
    /\ \A kind \in Kinds :
           /\ Flags[kind] => seen.holding[kind]
           /\ seen.holding[kind] => Flags[kind] \/ kind \in seen.blurred
    /\ (caps_flag # 0) = seen.locked

Leads(b, seen) ==
    /\ \A kind \in Kinds :
           /\ b.key \in PairOf[kind] /\ b.break =>
                  (seen.holding[kind] => kind \in seen.blurred)
           /\ b.key \in PairOf[kind] /\ ~b.break => seen.holding[kind]
           /\ b.key \notin PairOf[kind] =>
                  /\ seen.holding[kind] = b.holding[kind]
                  /\ kind \in seen.blurred <=> kind \in b.blurred
    /\ seen.locked = (b.locked # (b.key = "caps lock" /\ ~b.break))

BlurredKinds ==
    \A kind \in Kinds : /\ PairOf[kind] \subseteq held => kind \in blurred
                        /\ kind \in blurred => PairOf[kind] \cap held # {}

FlagsFollow ==
    /\ FlagsAgree(IF bytes = <<>> THEN Now ELSE Head(bytes))
    /\ \A i \in 1 .. Len(bytes) - 1 : Leads(bytes[i], bytes[i + 1])
    /\ bytes # <<>> => Leads(bytes[Len(bytes)], Now)
    /\ BlurredKinds

KeyboardInv == KeyboardTypeOK /\ FlagsFollow /\ DoesWhatWasMeant /\ OnlyHeldModifiersAct

\* keyboard.c says of control_flag "Can be up to two (for the right and left)", as
\* a count of the keys that are down: it is one, or none when the first is let go.
FlagForBothKeys == bytes = <<>> => (control_flag # 0) = Holding(held)["ctrl"]
=============================================================================
