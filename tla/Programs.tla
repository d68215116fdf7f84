------------------------------ MODULE Programs ------------------------------
(***************************************************************************)
(* The shell with the programs of Shell, Grep, Syserr and Fish, and with   *)
(* one that makes any calls in any order.                                  *)
(***************************************************************************)
EXTENDS Grep, Syserr, Fish

\* fish and grep mean the same byte.
ASSUME ProgramsAssumption == NEWLINE = NL

programVars == <<fdVars, shellVars, blinkVars>>

ProgramsInit == ShellInit /\ BlinkInit

\* A program that opens a file and the directory and then makes any calls on the
\* other descriptors, with buffers that may not be mapped.
AnyOpens ==
    /\ Starts({"any"})
    /\ Open(Pid, cmd.arg)
    /\ Calls("any opens", loc)
    /\ UNCHANGED out

AnyOpensDir ==
    /\ pc = "any opens"
    /\ Open(Pid, ".")
    /\ Calls("any", loc)
    /\ UNCHANGED out

Free == (Fds \cup BadFds) \ {2, 3}

AnyCall ==
    /\ pc = "any"
    /\ \/ \E name \in Names : Open(Pid, name)
       \/ \E fd \in Free : Close(Pid, fd)
       \/ \E fd \in Free, n \in Counts : Read(Pid, fd, n) \/ Write(Pid, fd, n)
    /\ UNCHANGED shellVars

AnyHalts == pc = "any" /\ \E status \in {0, 1} : Halt(status)

AnyFaults ==
    /\ pc = "any"
    /\ FaultInCopy
    /\ shell' = "prompt"
    /\ said' = "exception"
    /\ pc' = "none"
    /\ UNCHANGED <<session, cmd, loc, out>>

\* What the programs that come to an end do without anybody typing.
ProgramSteps ==
    \/ Cat /\ UNCHANGED blinkVars
    \/ Grep /\ UNCHANGED blinkVars
    \/ (SyserrCalls \/ SyserrJudges \/ SyserrEnds) /\ UNCHANGED blinkVars
    \/ Fish
    \/ KernelReads /\ UNCHANGED blinkVars

OtherSteps ==
    \/ ShellSteps
    \/ SigtestFaults \/ SyserrChooses \/ SyserrRefuses
    \/ AnyOpens \/ AnyOpensDir \/ AnyCall \/ AnyHalts \/ AnyFaults

ProgramsNext == ProgramSteps \/ (OtherSteps /\ UNCHANGED blinkVars)

ProgramsSpec == ProgramsInit /\ [][ProgramsNext]_programVars

\* The process of a terminal gets its turns (EveryTerminalRuns of Scheduler) and
\* the kernel ends the calls it makes.
FairProgramsSpec == ProgramsSpec /\ WF_programVars(ProgramSteps)

\* A picture that opens and cannot be read to its end: add_frames() takes the -1 of
\* read() for a character and never ends.
Unreadable(name) ==
    /\ ~NoDentry(name)
    /\ FirstDentry(name).type = FILE_REGULAR
    /\ FileChecks(FirstDentry(name).inode) /\ ~GoodFile(FirstDentry(name).inode)

\* sigtest and syserr wait for a line, the program that makes any calls runs for
\* good, and fish never ends with such a picture.
MayStay ==
    \/ cmd.program = "any"
    \/ cmd.program \in {"sigtest", "syserr"} /\ pc = "start"
    \/ cmd.program = "fish" /\ \E frames \in Frames, i \in {1, 2} : Unreadable(frames[i])

\* The shell gets its terminal back from every program that does not wait for a
\* key: whatever the file system holds, no loop of the shell, cat, ls, grep, sigtest
\* and syserr over a file or the directory goes on for ever, nor does one of fish
\* when each of its pictures can be read or fails to open.
ShellComesBack == shell = "waiting" /\ ~MayStay ~> shell = "prompt"

\* mkfs makes "." the directory, which ls, grep and syserr open.
DotIsDirectory == NoDentry(".") \/ FirstDentry(".").type = FILE_DIRECTORY

----------------------------------------------------------------------------
(* What grep should print *)

\* The offsets in a file at which its lines begin.
LineStarts(inode) ==
    {k \in 0 .. inodes[inode].size - 1 : k = 0 \/ FileByte(inode, k - 1) = NL}

LineAt(inode, k) ==
    LET stops == {e \in k .. inodes[inode].size :
                    e = inodes[inode].size \/ FileByte(inode, e) = NL}
        e == CHOOSE e \in stops : \A other \in stops : e <= other
    IN  [i \in 1 .. e - k |-> FileByte(inode, k + i - 1)]

\* The empty word is in no line.
HasWord(line, word) ==
    word # <<>> /\ \E k \in 0 .. Len(line) - Len(word) : \A i \in 1 .. Len(word) : line[k + i] = word[i]

\* Files grep is made for: no NULs, and lines that fit into the buffer.
IsText(inode) ==
    /\ GoodFile(inode)
    /\ \A k \in 0 .. inodes[inode].size - 1 : FileByte(inode, k) # NUL
    /\ \A k \in LineStarts(inode) : Len(LineAt(inode, k)) <= BUFSIZE

\* The lines that contain a word.
Matches(inode, word) == {k \in LineStarts(inode) : HasWord(LineAt(inode, k), word)}

\* The entries of text files that grep looks at and that it finds by their names.
Texts ==
    {i \in 1 .. Len(dentries) :
        /\ dentries[i].type = FILE_REGULAR /\ IsText(dentries[i].inode)
        /\ dentries[i].name \notin Dotted
        /\ \A j \in 1 .. Len(dentries) : dentries[j].name = dentries[i].name => j = i}

\* The places of a file's lines in what was printed.
PrintedOf(output, name) == {k \in 1 .. Len(output) : output[k].name = name}

\* They are the lines before an offset that contain the word, each once and in order.
UpTo(output, word, de, offset) ==
    LET printed == PrintedOf(output, de.name)
        matches == {m \in Matches(de.inode, word) : m < offset}
    IN  \E from \in [printed -> matches] :
            /\ \A k \in printed : output[k].line = LineAt(de.inode, from[k])
            /\ \A j, k \in printed : j < k => from[j] < from[k]
            /\ \A m \in matches : \E k \in printed : from[k] = m

\* grep prints the lines of text files that contain the word, each once and in
\* their order, however the lines lie in its buffer and the buffer in the blocks;
\* all of them when it ends by itself.  Where the junk behind the buffer cut a line,
\* what it prints are still parts of lines that contain the word.
GrepPrintsMatchingLines ==
    cmd.program = "grep" =>
        \A i \in Texts :
            LET de == dentries[i]
                size == inodes[de.inode].size
            IN  /\ out # <<>> /\ ~loc.cut =>
                        \E offset \in 0 .. size : UpTo(out, cmd.arg, de, offset)
                /\ \A k \in PrintedOf(out, de.name) :
                        /\ HasWord(out[k].line, cmd.arg)
                        /\ \E m \in Matches(de.inode, cmd.arg) :
                                HasWord(LineAt(de.inode, m), out[k].line)
                /\ shell = "prompt" /\ said = "nothing" /\ ~loc.cut =>
                        UpTo(out, cmd.arg, de, size)

----------------------------------------------------------------------------
(* What fish should draw *)

InodeOf(frames, file) == FirstDentry(frames[file]).inode

\* How many lines of a file begin before an offset.
LinesBefore(inode, k) == Cardinality({j \in LineStarts(inode) : j < k})

\* The r-th line of a picture, which may have ended.
PictureRow(frames, file, r) ==
    LET inode == InodeOf(frames, file)
        starts == {k \in LineStarts(inode) : LinesBefore(inode, k) = r - 1}
    IN  IF starts = {} THEN <<>> ELSE LineAt(inode, CHOOSE k \in starts : TRUE)

\* The k-th character in the r-th line.
Ink(frames, file, r, k) ==
    LET line == PictureRow(frames, file, r) IN IF k <= Len(line) THEN line[k] ELSE BLANK

\* No line is longer than its file, and no file has more lines than bytes.
Paper(frames) ==
    LET size == inodes[InodeOf(frames, 1)].size + inodes[InodeOf(frames, 2)].size
    IN  (1 .. size) \X (1 .. size)

\* The places, in lines and columns, where one of the pictures is not blank.
Inked(frames) ==
    {p \in Paper(frames) : \E file \in {1, 2} : Ink(frames, file, p[1], p[2]) # BLANK}

CellOf(p) == (p[1] - 1) * COLUMNS + p[2] - 1 + OFFSET

\* Those of them that are on the screen, line by line.
OnScreen(frames) == {p \in Inked(frames) : CellOf(p) < CELLS}
Earlier(p, q) == p[1] < q[1] \/ (p[1] = q[1] /\ p[2] < q[2])
Rank(places, q) == Cardinality({p \in places : Earlier(p, q)})

Woven(frames) ==
    LET seen == OnScreen(frames)
        place(n) == CHOOSE p \in seen : Rank(seen, p) = n - 1
    IN  [n \in 1 .. Cardinality(seen) |->
            LET p == place(n) IN
            [location |-> CellOf(p), on_char |-> Ink(frames, 1, p[1], p[2]),
             off_char |-> Ink(frames, 2, p[1], p[2])]]

\* For all the files that there are.
Pictures ==
    [frames \in {f \in Frames : \A file \in {1, 2} : ~NoDentry(f[file])} |-> Woven(frames)]

\* What fish is given: pictures that can be read, none with ink beyond the locations of
\* 16 bits, and with fewer blinkers than blink_array has slots.
FramesArePictures ==
    \A frames \in Frames :
        /\ \A file \in {1, 2} :
                \/ NoDentry(frames[file])
                \/ /\ FirstDentry(frames[file]).type = FILE_REGULAR
                   /\ GoodFile(InodeOf(frames, file))
        /\ (\A file \in {1, 2} : ~NoDentry(frames[file])) =>
                /\ \A p \in Inked(frames) : CellOf(p) \in Halfwords
                /\ Cardinality(OnScreen(frames)) < SLOTS

\* What is placed on the screen, the first first.
Placed ==
    LET list == Reverse(List) IN
    [k \in 1 .. Len(list) |->
        [location |-> blink_array[list[k]].location,
         on_char |-> blink_array[list[k]].on_char, off_char |-> blink_array[list[k]].off_char]]

PlacedExtra == [location |-> EXTRA, on_char |-> Extra.on_char, off_char |-> Extra.off_char]

Weaves == {"fish looks", "fish reads", "fish ends row"}
Blinks == {"fish waits", "fish ticks"}

\* Where only one of the blinkers is.
Single(blinkers, k) ==
    /\ blinkers[k].location # EXTRA
    /\ \A j \in DOMAIN blinkers \ {k} : blinkers[j].location # blinkers[k].location

\* What fish placed and what is seen, when these are woven.
Draws(woven) ==
    /\ pc \in Weaves => IsPrefix(Placed, woven)
    /\ pc \in Blinks =>
        /\ Placed = IF loc.act \in {2, 3} THEN Append(woven, PlacedExtra) ELSE woven
        /\ \E lit \in BOOLEAN : \A k \in DOMAIN woven :
                Single(woven, k) => vmem[woven[k].location] =
                                        IF lit THEN woven[k].on_char ELSE woven[k].off_char
    /\ pc = "fish ends" => Placed = woven

\* add_frames() places exactly the cells that are not blank in both pictures, line
\* by line, though it reads a character of each file at a time and one may end
\* before the other, in a line or a column; the one more blinker comes and goes
\* without touching them; and what is seen is always one of the two pictures.
FishWeaves == cmd.program = "fish" => Draws(Pictures[loc.frames])
=============================================================================
