------------------------------ MODULE Streams ------------------------------
(***************************************************************************)
(* What the file system calls promise a program: every process has handles *)
(* of its own; opening a name gives the lowest unused handle and a stream  *)
(* with everything the name stands for; each read takes the next piece off *)
(* that stream and no other.  Two handles are the terminal for good.       *)
(***************************************************************************)
EXTENDS Integers, Sequences

CONSTANTS
    Processes,
    Handles,      \* the handles of a process
    Missing,      \* numbers that are not handles
    Requested,    \* the names programs ask for
    Catalog,      \* the stream each existing name stands for
    Counts,       \* how much programs read or write at a time
    NameLength

VARIABLES
    alive,    \* the processes
    streams,  \* the stream behind each handle of each process
    reply     \* the last call that returned, and what

streamVars == <<alive, streams, reply>>

Closed == [kind |-> "closed", rest |-> <<>>]
Input == [kind |-> "input", rest |-> <<>>]
Output == [kind |-> "output", rest |-> <<>>]
Standard == [h \in Handles |-> IF h = 0 THEN Input ELSE IF h = 1 THEN Output ELSE Closed]

Answer(call, p, h, value, taken) ==
    reply' = [call |-> call, pid |-> p, fd |-> h, value |-> value, taken |-> taken]

Smaller(m, n) == IF m <= n THEN m ELSE n

StreamsInit ==
    /\ alive = {}
    /\ streams = [p \in Processes |-> [h \in Handles |-> Closed]]
    /\ reply = [call |-> "none", pid |-> -1, fd |-> -1, value |-> 0, taken |-> <<>>]

Begin(p) ==
    /\ p \notin alive
    /\ alive' = alive \cup {p}
    /\ streams' = [streams EXCEPT ![p] = Standard]
    /\ UNCHANGED reply

End(p) ==
    /\ p \in alive
    /\ alive' = alive \ {p}
    /\ streams' = [streams EXCEPT ![p] = [h \in Handles |-> Closed]]
    /\ UNCHANGED reply

\* A call of p that fails changes no stream.
Fails(call, p, h) == Answer(call, p, h, -1, <<>>) /\ UNCHANGED <<alive, streams>>

Unused(p, h) == streams[p][h].kind = "closed"

OpenStream(p, name) ==
    \/ /\ name \in DOMAIN Catalog
       /\ \E h \in Handles :
            /\ Answer("open", p, h, h, <<>>)
            /\ Unused(p, h)
            /\ \A lower \in Handles : lower < h => ~Unused(p, lower)
            /\ streams' = [streams EXCEPT ![p] = [@ EXCEPT ![h] = Catalog[name]]]
       /\ UNCHANGED alive
    \/ /\ name \notin DOMAIN Catalog \/ \A h \in Handles : ~Unused(p, h)
       /\ Fails("open", p, -1)

CloseStream(p, h) ==
    IF streams[p][h].kind \in {"closed", "input", "output"}
    THEN Fails("close", p, h)
    ELSE /\ Answer("close", p, h, 0, <<>>)
         /\ streams' = [streams EXCEPT ![p] = [@ EXCEPT ![h] = Closed]]
         /\ UNCHANGED alive

\* The first k items of the stream are taken and the call returns value.
Take(p, h, k, value) ==
    LET s == streams[p][h] IN
    /\ Answer("read", p, h, value, SubSeq(s.rest, 1, k))
    /\ streams' = [streams EXCEPT ![p] =
                      [@ EXCEPT ![h] = [kind |-> s.kind,
                                        rest |-> SubSeq(s.rest, k + 1, Len(s.rest))]]]
    /\ UNCHANGED alive

\* What the terminal and the clock deliver is not the file system's business.
ReadStream(p, h, n) ==
    LET s == streams[p][h] IN
    \/ s.kind \in {"closed", "output"} /\ Fails("read", p, h)
    \/ s.kind = "file" /\ Take(p, h, Smaller(n, Len(s.rest)), Smaller(n, Len(s.rest)))
    \/ s.kind = "directory" /\ s.rest # <<>> /\ Take(p, h, 1, Smaller(n, NameLength))
    \/ s.kind = "directory" /\ s.rest = <<>> /\ Take(p, h, 0, 0)
    \/ /\ s.kind \in {"input", "clock"}
       /\ \E value \in 0 .. n : Answer("read", p, h, value, <<>>)
       /\ UNCHANGED <<alive, streams>>

WriteStream(p, h, n) ==
    \/ streams[p][h].kind # "output" /\ Fails("write", p, h)
    \/ /\ streams[p][h].kind \in {"output", "clock"}
       /\ Answer("write", p, h, n, <<>>)
       /\ UNCHANGED <<alive, streams>>

Call(p) ==
    \/ \E name \in Requested : OpenStream(p, name)
    \/ \E h \in Handles : CloseStream(p, h) \/ \E n \in Counts :
            ReadStream(p, h, n) \/ WriteStream(p, h, n)
    \/ \E h \in Missing, call \in {"close", "read", "write"} : Fails(call, p, h)

StreamsNext ==
    \/ \E p \in Processes : Begin(p) \/ End(p)
    \/ \E p \in alive : Call(p)

StreamsSpec == StreamsInit /\ [][StreamsNext]_streamVars
=============================================================================
