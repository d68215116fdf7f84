--------------------------- MODULE TerminalInput ---------------------------
(***************************************************************************)
(* The line discipline: keys typed at the terminal on the screen go into   *)
(* its term_buffer from the keyboard handler, and terminal_read() of the   *)
(* program of a terminal spins until Enter was pressed there, then copies  *)
(* the line out.  The handler and the copy run with interrupts off and are *)
(* one action each; the spin runs with interrupts on, and between the last *)
(* look at enter_flag and the cli() a key press or a tick may come in.     *)
(***************************************************************************)
EXTENDS Terminals, FiniteSets, Sequences

CONSTANTS BUFFER_SIZE,  \* length of a term_buffer
          Chars,        \* what keys type, Space among them
          Space, Newline,
          Sizes,        \* the nbytes of the reads programs make
          TypeAhead     \* keys are typed after Enter, before the line is read

ASSUME TerminalInputAssumption ==
    /\ BUFFER_SIZE \in Nat /\ 1 < BUFFER_SIZE
    /\ Space \in Chars
    /\ Newline \notin Chars
    /\ Sizes \subseteq Nat
    /\ TypeAhead \in BOOLEAN

VARIABLES
    term_buffer, char_idx, enter_flag,  \* fields of terminal_data[t]
    reader,    \* where the terminal's program is in terminal_read()
    request,   \* the nbytes of that call, 0 outside it
    got        \* the last terminal_read() that returned: where, and what

keyVars == <<term_buffer, char_idx, enter_flag>>
readVars == <<reader, request, got>>
inputVars == <<turnVars, keyVars, readVars>>

Cells == 0 .. BUFFER_SIZE - 1

InputTypeOK ==
    /\ TurnsTypeOK
    /\ term_buffer \in [Terms -> [Cells -> Chars \cup {Newline}]]
    /\ char_idx \in [Terms -> Cells]
    /\ enter_flag \in [Terms -> BOOLEAN]
    /\ reader \in [Terms -> {"idle", "spinning", "ready"}]
    /\ request \in [Terms -> Sizes \cup {0}]
    /\ got \in [to : Terms, bytes : 0 .. BUFFER_SIZE, text : Seq(Chars \cup {Newline})]

\* The buffers start zeroed; no read tells what they hold from spaces.
InputInit ==
    /\ TurnsInit
    /\ term_buffer = [t \in Terms |-> [i \in Cells |-> Space]]
    /\ char_idx = [t \in Terms |-> 0]
    /\ enter_flag = [t \in Terms |-> FALSE]
    /\ reader = [t \in Terms |-> "idle"]
    /\ request = [t \in Terms |-> 0]
    /\ got = [to |-> 0, bytes |-> 0, text |-> <<>>]

----------------------------------------------------------------------------
(* The keyboard handler: add_char_to_tbuff() *)

\* Keys go to the terminal on the screen.
KeyPressed ==
    /\ TypeAhead \/ ~enter_flag[visible_terminal]
    /\ UNCHANGED <<turnVars, readVars>>

Put(t, i, c) == term_buffer' = [term_buffer EXCEPT ![t][i] = c]

\* Mutant: the last cell is not kept for the newline.
KeyCharFillsBuffer ==
    /\ KeyPressed
    /\ char_idx[visible_terminal] < BUFFER_SIZE
    /\ \E c \in Chars : Put(visible_terminal, char_idx[visible_terminal], c)
    /\ char_idx' = [char_idx EXCEPT ![visible_terminal] = @ + 1]
    /\ UNCHANGED enter_flag

\* A character, or Tab, which types a space.  A full buffer ignores it.
KeyChar ==
    /\ KeyPressed
    /\ char_idx[visible_terminal] < BUFFER_SIZE - 1
    /\ \E c \in Chars : Put(visible_terminal, char_idx[visible_terminal], c)
    /\ char_idx' = [char_idx EXCEPT ![visible_terminal] = @ + 1]
    /\ UNCHANGED enter_flag

KeyEnter ==
    /\ KeyPressed
    /\ enter_flag' = [enter_flag EXCEPT ![visible_terminal] = TRUE]
    /\ Put(visible_terminal,
           IF char_idx[visible_terminal] >= BUFFER_SIZE THEN BUFFER_SIZE - 1
           ELSE char_idx[visible_terminal], Newline)
    /\ UNCHANGED char_idx

KeyBackspace ==
    /\ KeyPressed
    /\ char_idx[visible_terminal] > 0
    /\ Put(visible_terminal, char_idx[visible_terminal] - 1, Space)
    /\ char_idx' = [char_idx EXCEPT ![visible_terminal] = @ - 1]
    /\ UNCHANGED enter_flag

----------------------------------------------------------------------------
(* terminal_read() *)

\* The program calls it; interrupts are enabled.
StartRead ==
    /\ ProgramRuns
    /\ reader[active_terminal] = "idle"
    /\ reader' = [reader EXCEPT ![active_terminal] = "spinning"]
    /\ \E n \in Sizes : request' = [request EXCEPT ![active_terminal] = n]
    /\ UNCHANGED <<turnVars, keyVars, got>>

\* Mutant: the reader looks at the flag of the terminal on the screen.
SeeEnterOfShown ==
    /\ reader[active_terminal] = "spinning"
    /\ enter_flag[visible_terminal]
    /\ reader' = [reader EXCEPT ![active_terminal] = "ready"]
    /\ UNCHANGED <<turnVars, keyVars, request, got>>

\* The spin ends, and cli() follows.
SeeEnter ==
    /\ reader[active_terminal] = "spinning"
    /\ enter_flag[active_terminal]
    /\ reader' = [reader EXCEPT ![active_terminal] = "ready"]
    /\ UNCHANGED <<turnVars, keyVars, request, got>>

\* The copy loops stop after the first newline among the first n cells, or
\* after the last of these; a reader whose buffer is shorter than term_buffer
\* gets a newline there instead.
Reach(n) == IF n < BUFFER_SIZE THEN n ELSE BUFFER_SIZE

HasNewline(b, n) == \E k \in 0 .. Reach(n) - 1 : b[k] = Newline

\* The number of cells copied: those with no newline before them.
Copied(b, n) ==
    Cardinality({i \in 0 .. Reach(n) - 1 : \A k \in 0 .. i - 1 : b[k] # Newline})

Text(b, n) ==
    [i \in 1 .. Copied(b, n) |->
        IF i = n /\ n < BUFFER_SIZE THEN Newline ELSE b[i - 1]]

\* Without a newline in a whole term_buffer nothing sets read_bytes.
ReadBytes(b, n) ==
    IF HasNewline(b, n) \/ n < BUFFER_SIZE THEN Copied(b, n) ELSE 0

\* Mutant: the line stays in the buffer.
FinishReadKeepsIndex ==
    LET t == active_terminal
        n == request[t]
        b == term_buffer[t]
    IN  /\ reader[t] = "ready"
        /\ got' = [to |-> t, bytes |-> ReadBytes(b, n), text |-> Text(b, n)]
        /\ term_buffer' = [term_buffer EXCEPT ![t] =
               [i \in Cells |-> IF i < Copied(b, n) THEN Space ELSE b[i]]]
        /\ enter_flag' = [enter_flag EXCEPT ![t] = FALSE]
        /\ reader' = [reader EXCEPT ![t] = "idle"]
        /\ request' = [request EXCEPT ![t] = 0]
        /\ UNCHANGED <<turnVars, char_idx>>

\* From cli() to the return.
FinishRead ==
    LET t == active_terminal
        n == request[t]
        b == term_buffer[t]
    IN  /\ reader[t] = "ready"
        /\ got' = [to |-> t, bytes |-> ReadBytes(b, n), text |-> Text(b, n)]
        /\ term_buffer' = [term_buffer EXCEPT ![t] =
               [i \in Cells |-> IF i < Copied(b, n) THEN Space ELSE b[i]]]
        /\ char_idx' = [char_idx EXCEPT ![t] = 0]
        /\ enter_flag' = [enter_flag EXCEPT ![t] = FALSE]
        /\ reader' = [reader EXCEPT ![t] = "idle"]
        /\ request' = [request EXCEPT ![t] = 0]
        /\ UNCHANGED turnVars

----------------------------------------------------------------------------
(* The turns of the terminals *)

BootShell == Boot /\ UNCHANGED <<keyVars, readVars>>

AskTerminal == (\E t \in Terms : Ask(t)) /\ UNCHANGED <<keyVars, readVars>>

ScheduleProcess == Turn /\ UNCHANGED <<keyVars, readVars>>

\* Ctrl+C was pressed at the next terminal: its program dies, wherever it is in
\* terminal_read(), and the line stays for the next program.
ScheduleAndKill ==
    /\ Turn
    /\ Following \in started
    /\ reader' = [reader EXCEPT ![Following] = "idle"]
    /\ request' = [request EXCEPT ![Following] = 0]
    /\ UNCHANGED <<keyVars, got>>

InputNext ==
    \/ KeyChar
    \/ KeyEnter
    \/ KeyBackspace
    \/ StartRead
    \/ SeeEnter
    \/ FinishRead
    \/ BootShell
    \/ AskTerminal
    \/ ScheduleProcess
    \/ ScheduleAndKill

InputSpec == InputInit /\ [][InputNext]_inputVars

\* The PIT keeps ticking, and a turn lasts long enough for a reader to go on:
\* one that could continue in turn after turn does.
FairInput ==
    /\ InputSpec
    /\ WF_inputVars(ScheduleProcess \/ ScheduleAndKill)
    /\ \A t \in Terms : /\ SF_inputVars(active_terminal = t /\ SeeEnter)
                        /\ SF_inputVars(active_terminal = t /\ FinishRead)

----------------------------------------------------------------------------

\* A read returns the line that was typed at the reader's own terminal, as a
\* whole, once, with its newline: for users that wait for the line to be taken.
L == INSTANCE Lines WITH
        TerminalIds <- Terms,
        Limit <- BUFFER_SIZE - 1,
        line <- [t \in Terms |-> [i \in 1 .. char_idx[t] |-> term_buffer[t][i - 1]]],
        entered <- enter_flag

ImplementsLines == L!LinesSpec

\* A reader that found Enter pressed copies a line that is still complete: the
\* flag it saw, before interrupts and other terminals came in, still holds.
ReadyHasLine == \A t \in Terms : reader[t] = "ready" => enter_flag[t]

\* Once Enter was pressed the program that waits at that terminal gets its
\* line, unless Ctrl+C kills it.
LineDelivered ==
    \A t \in Terms : reader[t] # "idle" /\ enter_flag[t] ~> reader[t] = "idle"

\* terminal_driver.c says of what a read returns "buffer has to end in ENTER".
\* Keys typed after Enter overwrite the newline in term_buffer, and a reader
\* with a large buffer then gets all of it, and 0 as its length.
ReadsEndInEnter ==
    got.text # <<>> => got.text[Len(got.text)] = Newline
=============================================================================
