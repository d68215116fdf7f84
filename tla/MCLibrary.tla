------------------------------ MODULE MCLibrary ------------------------------
(***************************************************************************)
(* What lib.c does for the rest of the kernel: the console of Console, the *)
(* command lines of Commands (every one of up to MaxLength characters),    *)
(* the blocks of Blocks and the printf() of Library; and the library of    *)
(* fish, Blink.                                                            *)
(* The parts share no state; they are behaviours of one specification that *)
(* "call" tells apart.                                                     *)
(***************************************************************************)
EXTENDS Console, Commands, Blocks, Library, Blink

CONSTANT MaxLength

VARIABLE call   \* the call of a library function that is looked at

Lines(n) == UNION {[1 .. k -> Characters] : k \in 0 .. n}

MCCommandLines == {c \in Lines(MaxLength) : Len(file_args(c)) < ARG_BUFF_SIZE}
MCPrograms == {<<"a">>, <<"a", "b">>}
MCDocuments == {<<"b", "a">>, <<"b", "b", "a">>}
MCDevices == {<<"b">>}

----------------------------------------------------------------------------
(* Memory: 12 bytes, all different *)

MCLengths == 0 .. 7
MCValues == {-1, 300}
MCContents == {[a \in 0 .. 11 |-> a]}

----------------------------------------------------------------------------
(* printf(): formats of two items *)

Item(spelt, value) == [spelt |-> spelt, value |-> value]

Unsigneds == {0, 10, 15, 16, Words - 1}
Signeds == {-(Words \div 2), -1, 0, 10, Words \div 2 - 1}

MCItems ==
    {Item(<<"z">>, 0), Item(<<"%", "%">>, 0), Item(<<"%", "q">>, 0),
     Item(<<"%", "c">>, "y"), Item(<<"%", "s">>, <<"%", "d">>)}
    \cup {Item(<<"%", "u">>, v) : v \in Unsigneds}
    \cup {Item(<<"%", "x">>, v) : v \in Unsigneds}
    \cup {Item(<<"%", "#", "x">>, v) : v \in Unsigneds}
    \cup {Item(<<"%", "d">>, v) : v \in Signeds}

Arguments(item) == IF Conversion(item) \in Conversions THEN <<item.value>> ELSE <<>>

Join(i, j) ==
    [text |-> i.spelt \o j.spelt,
     items |-> <<i, j>>,
     args |-> Arguments(i) \o Arguments(j),
     begins |-> <<1, 1 + Len(i.spelt), 1 + Len(i.spelt) + Len(j.spelt)>>,
     takes |-> <<1, 1 + Len(Arguments(i)), 1 + Len(Arguments(i)) + Len(Arguments(j))>>]

MCFormats == {Join(i, j) : i, j \in MCItems}
MCLetters == {lookup[i] : i \in 1 .. 16} \cup {"-", "%", "#", "z", "q", "y", "c", "s", "x", "u", "d"}

----------------------------------------------------------------------------
(* Blinkers: of two locations, any number of them at each; 1 and 2 are their  *)
(* characters.  Locations beyond the screen are in MCPrograms.                *)

Struct(location, on_length, off_length) ==
    [location |-> location, on_char |-> 1, off_char |-> 2,
     on_length |-> on_length, off_length |-> off_length]

MCStructs == {Struct(1, 1, 2), Struct(2, 1, 1)}

----------------------------------------------------------------------------

LibraryInit ==
    /\ CommandsInit
    /\ ConsoleInit
    /\ BlinkInit
    /\ BlocksInit
    /\ PrintfInit
    /\ call \in IF drawn THEN {"putc"}
               ELSE {"putc", "execute", "mp1_ioctl", "memmove", "printf"}

LibraryNext ==
    \/ /\ call = "putc" /\ ConsoleNext
       /\ UNCHANGED <<commandVars, blinkVars, blockVars, printfVars, call>>
    \/ /\ call = "execute" /\ CommandsNext
       /\ UNCHANGED <<consoleVars, blinkVars, blockVars, printfVars, call>>
    \/ /\ call = "mp1_ioctl" /\ BlinkNext
       /\ UNCHANGED <<consoleVars, commandVars, blockVars, printfVars, call>>
    \/ /\ call = "memmove" /\ BlocksNext
       /\ UNCHANGED <<consoleVars, commandVars, blinkVars, printfVars, call>>
    \/ /\ call = "printf" /\ PrintfNext
       /\ UNCHANGED <<consoleVars, commandVars, blinkVars, blockVars, call>>

LibrarySpec ==
    LibraryInit
    /\ [][LibraryNext]_<<consoleVars, commandVars, blinkVars, blockVars, printfVars, call>>
=============================================================================
