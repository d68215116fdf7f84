------------------------------- MODULE Lines -------------------------------
(***************************************************************************)
(* What a read of a terminal promises: the keys typed at a terminal make   *)
(* up a line, which can be edited until Enter completes it; a complete     *)
(* line is delivered once, to a program of that terminal, with the newline *)
(* at its end and cut to the size of the reader's buffer.                  *)
(***************************************************************************)
EXTENDS Integers, Sequences

CONSTANTS TerminalIds, Chars, Newline, Limit, Sizes

VARIABLES line,      \* the line being typed at each terminal
          entered,   \* it is complete
          got        \* the last line delivered, and to which terminal

linesVars == <<line, entered, got>>

LinesInit ==
    /\ line = [t \in TerminalIds |-> <<>>]
    /\ entered = [t \in TerminalIds |-> FALSE]
    /\ got = [to |-> 0, bytes |-> 0, text |-> <<>>]

Edit(t, l) ==
    /\ ~entered[t]
    /\ line' = [line EXCEPT ![t] = l]
    /\ UNCHANGED <<entered, got>>

\* What does not fit is not typed.
Type(t) == Len(line[t]) < Limit /\ \E c \in Chars : Edit(t, Append(line[t], c))

Erase(t) == line[t] # <<>> /\ Edit(t, SubSeq(line[t], 1, Len(line[t]) - 1))

Complete(t) ==
    /\ ~entered[t]
    /\ entered' = [entered EXCEPT ![t] = TRUE]
    /\ UNCHANGED <<line, got>>

\* The first n characters of a line, the last of them the newline.
Cut(s, n) == IF Len(s) <= n THEN s
             ELSE [i \in 1 .. n |-> IF i = n THEN Newline ELSE s[i]]

Deliver(t) ==
    /\ entered[t]
    /\ \E n \in Sizes :
           LET s == Cut(Append(line[t], Newline), n)
           IN  got' = [to |-> t, bytes |-> Len(s), text |-> s]
    /\ line' = [line EXCEPT ![t] = <<>>]
    /\ entered' = [entered EXCEPT ![t] = FALSE]

LinesNext == \E t \in TerminalIds : Type(t) \/ Erase(t) \/ Complete(t) \/ Deliver(t)

LinesSpec == LinesInit /\ [][LinesNext]_linesVars
=============================================================================
