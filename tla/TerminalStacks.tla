--------------------------- MODULE TerminalStacks ---------------------------
(***************************************************************************)
(* What the kernel promises its users, without page directories, kernel    *)
(* stacks or parent pointers: every terminal holds a stack of programs, of *)
(* which only the top one runs; the terminals take turns on the CPU; the   *)
(* top program of the terminal whose turn it is may put another one on the *)
(* stack or leave it; Ctrl+C removes the top program of the terminal on the*)
(* screen when its turn comes; and the stack of a terminal that had its    *)
(* first turn is never empty again.                                        *)
(***************************************************************************)
EXTENDS Integers, Sequences

CONSTANTS Programs,       \* identities of running programs
          NumTerminals

VARIABLES stack,    \* the programs of each terminal, the running one last
          turn,     \* terminal whose turn it is
          shown,    \* terminal on the screen
          doomed    \* terminals at which Ctrl+C was pressed

svars == <<stack, turn, shown, doomed>>

TerminalIds == 0 .. NumTerminals - 1

Loaded(s) == {s[i] : i \in DOMAIN s}

\* Programs that no terminal holds.
Fresh == Programs \ UNION {Loaded(stack[t]) : t \in TerminalIds}

StacksInit ==
    /\ stack = [t \in TerminalIds |-> <<>>]
    /\ turn = 0
    /\ shown = 0
    /\ doomed = {}

Push(t) == \E p \in Fresh : stack' = [stack EXCEPT ![t] = Append(@, p)]

\* The top program leaves; the last one leaves a new shell behind, which may
\* take over its identity.
Pop(t) ==
    LET s == stack[t] IN
    \/ /\ Len(s) > 1
       /\ stack' = [stack EXCEPT ![t] = SubSeq(s, 1, Len(s) - 1)]
    \/ /\ Len(s) = 1
       /\ \E p \in Fresh \cup Loaded(s) : stack' = [stack EXCEPT ![t] = <<p>>]

Launch == Push(turn) /\ UNCHANGED <<turn, shown, doomed>>

Leave == Pop(turn) /\ UNCHANGED <<turn, shown, doomed>>

PressCtrlC == doomed' = doomed \cup {shown} /\ UNCHANGED <<stack, turn, shown>>

NextTurn == (turn + 1) % NumTerminals

TakeTurn ==
    /\ turn' = NextTurn
    /\ shown' \in {shown, NextTurn}
    /\ \/ /\ stack[NextTurn] = <<>>
          /\ Push(NextTurn)
          /\ UNCHANGED doomed
       \/ /\ stack[NextTurn] # <<>>
          /\ NextTurn \in doomed
          /\ Pop(NextTurn)
          /\ doomed' = doomed \ {NextTurn}
       \/ /\ stack[NextTurn] # <<>>
          /\ NextTurn \notin doomed
          /\ UNCHANGED <<stack, doomed>>

StacksNext == Launch \/ Leave \/ PressCtrlC \/ TakeTurn

StacksSpec == StacksInit /\ [][StacksNext]_svars
=============================================================================
