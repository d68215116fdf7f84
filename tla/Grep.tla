-------------------------------- MODULE Grep --------------------------------
(***************************************************************************)
(* ece391grep.c: prints the lines of every file of the directory that      *)
(* contain a word.  Files are read into a buffer of BUFSIZE bytes; a line  *)
(* that the buffer ends in is moved to its start before the next read.     *)
(*                                                                         *)
(* The buffer has one byte more, for a NUL behind the last line.  The code *)
(* also looks there for a newline, before anything was written there: what *)
(* the stack held is Junk, and a newline in it cuts a line in two, which   *)
(* cut remembers.                                                          *)
(***************************************************************************)
EXTENDS Shell, SequencesExt

CONSTANTS
    NL, NUL,     \* the bytes that end lines and strings
    Junk,        \* what the byte behind the buffer may hold
    Dotted       \* the names that begin with a dot

\* A word is a string of C, which ends at its first NUL.
ASSUME GrepAssumption ==
    /\ NL \in Bytes /\ NUL \in Bytes /\ Junk \subseteq Bytes
    /\ \A typed \in Sessions : \A c \in typed :
            c.program = "grep" => c.arg \in Seq(Bytes \ {NUL})

GrepOpensDir ==
    /\ Starts({"grep"})
    /\ Open(Pid, ".")
    /\ Calls("grep opens dir", loc)
    /\ UNCHANGED out

\* The next entry: at first, after a file, and after a name with a dot.
GrepReadsDir(dir, cut) ==
    /\ Read(Pid, dir, DENTRY_NAME_LEN)
    /\ Calls("grep reads dir", [dir |-> dir, cut |-> cut])
    /\ UNCHANGED out

GrepReadsFirst ==
    pc = "grep opens dir" /\ reply.value # -1 /\ GrepReadsDir(reply.value, FALSE)

GrepSkips ==
    /\ pc = "grep reads dir" /\ reply.value > 0 /\ Head(reply.taken) \in Dotted
    /\ GrepReadsDir(loc.dir, loc.cut)

GrepGoesOn ==
    pc = "grep closes" /\ reply.value # -1 /\ GrepReadsDir(loc.dir, loc.cut)

\* do_one_file(): opens the file the entry names.
GrepOpens ==
    /\ Runs(Pid) /\ pc = "grep reads dir" /\ reply.value > 0
    /\ Head(reply.taken) \notin Dotted
    /\ Open(Pid, Head(reply.taken))
    /\ Calls("grep opens", [dir |-> loc.dir, cut |-> loc.cut,
                             name |-> Head(reply.taken)])
    /\ UNCHANGED out

\* The first read; data is the buffer as it is found on the stack.
GrepReadsFile ==
    /\ pc = "grep opens" /\ reply.value # -1
    /\ Read(Pid, reply.value, BUFSIZE)
    /\ \E junk \in Junk :
            Calls("grep reads", [dir |-> loc.dir, cut |-> loc.cut, name |-> loc.name,
                                 fd |-> reply.value, last |-> 0, line_start |-> 0, cnt |-> 0,
                                 data |-> [i \in 0 .. BUFSIZE |-> junk]])
    /\ UNCHANGED out

GrepReadsOn ==
    /\ pc = "grep wants more"
    /\ Read(Pid, loc.fd, BUFSIZE - loc.last)
    /\ Calls("grep reads", loc)
    /\ UNCHANGED out

\* What was read lies behind what was left; the lines are looked at from the start.
GrepTakes ==
    /\ Runs(Pid) /\ pc = "grep reads" /\ reply.value # -1
    /\ Calls("grep scans",
             [loc EXCEPT !.data = [i \in 0 .. BUFSIZE |->
                                      IF i \in loc.last .. loc.last + Len(reply.taken) - 1
                                      THEN reply.taken[i - loc.last + 1] ELSE @[i]],
                         !.last = @ + reply.value,
                         !.cnt = reply.value,
                         !.line_start = 0])
    /\ UNCHANGED <<fdVars, out>>

\* Where the line ends: at a newline or with what was read.
LineEnd ==
    CHOOSE e \in loc.line_start .. loc.last :
        /\ e = loc.last \/ loc.data[e] = NL
        /\ \A k \in loc.line_start .. e - 1 : loc.data[k] # NL

\* strcpy(data, data + line_start): up to the first NUL.
MovedDown(data0) ==
    LET length == CHOOSE n \in 0 .. BUFSIZE - loc.line_start :
                    /\ data0[loc.line_start + n] = NUL
                    /\ \A k \in 0 .. n - 1 : data0[loc.line_start + k] # NUL
    IN  [i \in 0 .. BUFSIZE |-> IF i <= length THEN data0[loc.line_start + i] ELSE data0[i]]

Ended == [loc.data EXCEPT ![LineEnd] = NUL]

\* Mutant: the test for the end of the file the other way round.
PartialAtEnd == loc.data[LineEnd] # NL /\ loc.cnt = 0 /\ loc.line_start # 0

\* The buffer ends in the line.
Partial == loc.data[LineEnd] # NL /\ loc.cnt # 0 /\ loc.line_start # 0

GrepMovesDown ==
    /\ Runs(Pid) /\ pc = "grep scans" /\ Partial
    /\ Calls("grep wants more", [loc EXCEPT !.data = MovedDown(Ended),
                                            !.last = @ - loc.line_start])
    /\ UNCHANGED <<fdVars, out>>

\* The word stands at k in the line, which the NUL ends; the empty word at a NUL.
WordAt(k) ==
    /\ Ended[k] = IF cmd.arg = <<>> THEN NUL ELSE Head(cmd.arg)
    /\ \A i \in 1 .. Len(cmd.arg) : k + i <= LineEnd + 1 /\ Ended[k + i - 1] = cmd.arg[i]

Found == \E k \in loc.line_start .. LineEnd - 1 : WordAt(k)

\* The line as fdputs() prints it.
Line ==
    LET n == CHOOSE e \in loc.line_start .. LineEnd :
                Ended[e] = NUL /\ \A k \in loc.line_start .. e - 1 : Ended[k] # NUL
    IN  [i \in 1 .. n - loc.line_start |-> Ended[loc.line_start + i - 1]]

\* The line after this one, or the next read, or the end of the file.
NextLine ==
    LET ends == LineEnd + 1 >= loc.last
    IN  Calls(CASE ~ends -> "grep scans"
                [] ends /\ loc.cnt # 0 -> "grep wants more"
                [] ends /\ loc.cnt = 0 -> "grep at end",
              [loc EXCEPT !.data = Ended,
                          !.line_start = LineEnd + 1,
                          !.last = IF ends THEN 0 ELSE @,
                          !.cut = @ \/ (LineEnd = BUFSIZE /\ loc.data[BUFSIZE] = NL)])

GrepPrints ==
    /\ pc = "grep scans" /\ ~Partial /\ Found
    /\ Prints(<<[name |-> loc.name, line |-> Line]>>, Len(Line))
    /\ NextLine

GrepPasses ==
    /\ Runs(Pid) /\ pc = "grep scans" /\ ~Partial /\ ~Found
    /\ NextLine
    /\ UNCHANGED <<fdVars, out>>

GrepCloses ==
    /\ pc = "grep at end"
    /\ Close(Pid, loc.fd)
    /\ Calls("grep closes", loc)
    /\ UNCHANGED out

\* do_one_file() fails and main() with it; the descriptors are left to halt().
GrepFails ==
    /\ \E call \in {"grep reads dir", "grep opens", "grep reads", "grep closes"} : Got(call, -1)
    /\ Halt(3)

GrepEnds == Got("grep reads dir", 0) /\ Halt(0)

Grep ==
    \/ GrepOpensDir \/ GrepReadsFirst \/ GrepSkips \/ GrepGoesOn
    \/ GrepOpens \/ GrepReadsFile \/ GrepReadsOn \/ GrepTakes
    \/ GrepMovesDown \/ GrepPrints \/ GrepPasses
    \/ GrepCloses \/ GrepFails \/ GrepEnds
=============================================================================
