------------------------------ MODULE Blinkers ------------------------------
(***************************************************************************)
(* What blink.S promises a program that animates the screen: a stack of    *)
(* blinkers, each of which shows its two characters in turn, for as many   *)
(* ticks as it was added with, until it is removed or takes over the       *)
(* rhythm of another.                                                      *)
(***************************************************************************)
EXTENDS Integers, Sequences, SequencesExt, FiniteSetsExt

CONSTANTS
    Capacity,    \* how many blinkers there can be
    Positions,   \* the cells of the screen
    Requests,    \* the blinkers programs ask for
    Asked        \* the positions they ask about

VARIABLES
    blinkers,    \* newest first
    shown,       \* the screen
    answer       \* of the last call: 0, or -1 when it failed

blinkersVars == <<blinkers, shown, answer>>

BlinkersInit ==
    /\ blinkers = <<>>
    /\ shown \in [Positions -> {0}]
    /\ answer = -1

Face(b) == IF b.lit THEN b.on ELSE b.off

\* The newest blinker of a list at a position.
Newest(list, at, k) == list[k].at = at /\ \A j \in 1 .. k - 1 : list[j].at # at
NoneAt(list, at) == \A k \in DOMAIN list : list[k].at # at

\* A call that does nothing.
Refuse == answer' = -1 /\ UNCHANGED <<shown, blinkers>>

Add(b) ==
    \/ /\ answer' = 0
       /\ b.at \in Positions
       /\ shown' = [shown EXCEPT ![b.at] = Face(b)]
       /\ Len(blinkers) < Capacity
       /\ blinkers' = <<b>> \o blinkers
    \/ (b.at \notin Positions \/ Len(blinkers) = Capacity) /\ Refuse

Stop(at) ==
    LET list == blinkers IN
    \/ /\ answer' = 0
       /\ UNCHANGED shown
       /\ \E k \in DOMAIN list : Newest(list, at, k) /\ blinkers' = RemoveAt(list, k)
    \/ NoneAt(list, at) /\ Refuse

Find(at) ==
    \/ answer' = 0 /\ UNCHANGED shown /\ ~NoneAt(blinkers, at) /\ UNCHANGED blinkers
    \/ NoneAt(blinkers, at) /\ Refuse

\* The newest at "to" goes on in step with that at "from".  Until its next change
\* it shows its second character, even where it should show its first.
Sync(from, to) ==
    LET list == blinkers IN
    \/ /\ answer' = 0
       /\ \E j, k \in DOMAIN list :
            /\ Newest(list, from, j) /\ Newest(list, to, k)
            /\ shown' = [shown EXCEPT ![to] = list[k].off]
            /\ blinkers' = [list EXCEPT ![k] =
                    [list[j] EXCEPT !.at = to, !.on = list[k].on, !.off = list[k].off]]
    \/ NoneAt(list, from) /\ Refuse
    \/ NoneAt(list, to) /\ Refuse

Due(b) == b.left <= 1

After(b) ==
    IF Due(b) THEN [b EXCEPT !.lit = ~b.lit, !.left = IF b.lit THEN b.off_for ELSE b.on_for]
    ELSE [b EXCEPT !.left = @ - 1]

\* Of several at a position the oldest of those that change is seen.
Tick ==
    LET list == blinkers
        next == [k \in DOMAIN list |-> After(list[k])]
        changing(c) == {k \in DOMAIN list : list[k].at = c /\ Due(list[k])}
    IN  /\ UNCHANGED answer
        /\ shown' = [c \in Positions |->
                        IF changing(c) = {} THEN shown[c] ELSE Face(next[Max(changing(c))])]
        /\ blinkers' = next

BlinkersNext ==
    \/ Tick
    \/ \E b \in Requests : Add(b)
    \/ \E at \in Asked : Stop(at) \/ Find(at)
    \/ \E from, to \in Asked : Sync(from, to)

BlinkersSpec == BlinkersInit /\ [][BlinkersNext]_blinkersVars
=============================================================================
