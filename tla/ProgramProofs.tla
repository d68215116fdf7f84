---------------------------- MODULE ProgramProofs ----------------------------
(***************************************************************************)
(* Proofs about Programs: the shell and the programs it starts, for any    *)
(* image, any sizes of blocks and buffers and any commands.                *)
(*                                                                         *)
(* What the programs rely on is what their last call left behind, so the   *)
(* inductive invariant says, for each place pc a program can be at, what   *)
(* its variables and the reply it is about to look at are.                 *)
(***************************************************************************)
EXTENDS Programs, FileDescriptorProofs, FiniteSetTheorems, WellFoundedInduction

\* A new process's descriptors.
Standing(p) ==
    \A fd \in Fds : IF fd < 2 THEN fds[p][fd] = StdInOut(fd) ELSE ~fds[p][fd].open

Typed(c) ==
    /\ c.program # "grep" => c.arg \in Names
    /\ c.program = "grep" => c.arg \in Seq(Bytes \ {NUL})

\* The shell waits for one program, or nothing runs but itself; its own
\* descriptors stay those it started with.
ShellInv ==
    /\ shell \in {"off", "prompt", "waiting"}
    /\ live = IF shell = "off" THEN {} ELSE IF shell = "prompt" THEN {ShellPid}
              ELSE {ShellPid, Pid}
    /\ shell # "waiting" => pc = "none"
    /\ shell # "off" => Standing(ShellPid)
    /\ reader \in {Nobody, Pid}
    /\ \A c \in session \cup {cmd} : Typed(c)

\* No read_data() of the program is in its loop at these calls.
Quiet ==
    {"start", "cat opens", "grep opens dir", "grep opens",
     "fish opens rtc", "fish opens first", "fish opens second"}

\* What open() returned is a descriptor or -1.
OpenInv0 ==
    pc \in Quiet =>
        /\ reader = Nobody
        /\ IF pc = "start" THEN Standing(Pid) ELSE reply.value \in Fds \cup {-1}

\* A read of at most n bytes is in its loop, or returned no more.
Reads(n) ==
    IF reader = Nobody THEN reply.value <= n ELSE rd.length <= n

CatLocals ==
    /\ pc \in {"cat reads", "cat writes"} => loc.fd \in Fds
    /\ pc = "cat reads" => Reads(BUFSIZE)

\* The buffer of grep, and how much of it is filled.
Buffered ==
    /\ DOMAIN loc = {"dir", "cut", "name", "fd", "last", "line_start", "cnt", "data"}
    /\ DOMAIN loc.data = 0 .. BUFSIZE
    /\ loc.fd \in Fds
    /\ loc.last \in 0 .. BUFSIZE

GrepLocals ==
    /\ pc \in {"grep reads dir", "grep opens", "grep reads", "grep scans", "grep wants more",
               "grep at end", "grep closes"} => loc.dir \in Fds
    /\ pc \in {"grep reads", "grep scans", "grep wants more", "grep at end"} => Buffered
    /\ pc = "grep reads" => Reads(BUFSIZE - loc.last)
    /\ pc = "grep scans" => loc.line_start \in 0 .. loc.last

\* A call of a test: what it names or numbers exists.
Proper(request) ==
    /\ request.call \in {"open", "close", "read", "write", "vidmap", "number"}
    /\ request.call = "open" => request.name \in Names
    /\ request.call \in {"close", "read", "write"} => request.number \in Fds \cup BadFds

AllTests ==
    {err_fd(-1), err_fd(MAX_FILE_DESCRIPTORS), err_open_lots, err_open,
     err_unopened, err_vidmap, err_stdin_out, err_syscall_num}

SyserrLocals ==
    pc = "syserr begins" =>
        /\ DOMAIN loc = {"tests", "done", "failing", "fail"}
        /\ loc.tests \in Seq(AllTests)
        /\ loc.done \in Nat

FishLocals ==
    /\ pc \in {"fish opens rtc", "fish opens first", "fish opens second"} =>
            loc.frames \in Frames
    /\ pc \in {"fish opens first", "fish opens second", "fish looks", "fish reads",
               "fish ends row", "fish waits", "fish ticks", "fish ends"} =>
            loc.rtc \in Fds \cup {-1}
    /\ pc = "fish opens second" => loc.fd0 \in Fds
    /\ pc \in {"fish looks", "fish reads", "fish ends row"} =>
            /\ loc.fd \in Fds \X Fds
            /\ loc.file \in 1 .. 3
            /\ DOMAIN loc = {"frames", "rtc", "fd", "file", "c", "eof", "row", "col"}
    /\ pc = "fish reads" => loc.file <= 2
    /\ pc \in {"fish waits", "fish ticks", "fish ends"} =>
            DOMAIN loc = {"frames", "rtc", "act", "i"}

ProgLocals == OpenInv0 /\ CatLocals /\ GrepLocals /\ SyserrLocals /\ FishLocals

ProgInv == FdInv /\ ShellInv /\ ProgLocals

----------------------------------------------------------------------------
(* The calls a program makes *)

LEMMA PidsAre ==
    /\ Pid \in Pids /\ ShellPid \in Pids /\ Pid # ShellPid /\ Pid # Nobody /\ ShellPid # Nobody
    /\ Fds \subseteq Nat /\ 0 \in Fds /\ 1 \in Fds /\ 2 \in Fds /\ -1 \in BadFds
    /\ 0 .. BUFSIZE \subseteq Counts /\ BUFSIZE \in Nat /\ DENTRY_NAME_LEN \in 0 .. BUFSIZE
BY ShellAssumption, DescriptorsAssumption, ImageAssumption DEF Pid, ShellPid, Nobody, Fds, BadFds

\* A step of a program that makes a call, or none.
Call ==
    \/ \E name : Open(Pid, name)
    \/ \E fd \in Fds \cup BadFds : Close(Pid, fd)
    \/ \E fd \in Fds \cup BadFds, n \in Counts : Read(Pid, fd, n)
    \/ \E fd \in Fds \cup BadFds, n \in Nat : Write(Pid, fd, n)
    \/ Runs(Pid) /\ UNCHANGED fdVars

LEMMA SetDescFrame ==
    ASSUME fds \in Tables, NEW p \in Pids, NEW fd \in Fds, NEW d, SetDesc(p, fd, d)
    PROVE  \A q \in Pids \ {p} : fds'[q] = fds[q]
BY DEF SetDesc, Tables

\* open(), close() and read() touch no descriptor of another process.
LEMMA CallFrame ==
    ASSUME FdInv, Call
    PROVE  /\ FdInv'
           /\ Pid \in live /\ reader = Nobody
           /\ live' = live /\ reader' \in {Nobody, Pid}
           /\ fds'[ShellPid] = fds[ShellPid]
<1>0. fds \in Tables /\ Pid \in Pids /\ ShellPid \in Pids \ {Pid}
  BY PidsAre DEF FdInv, FdTypeOK, Tables
<1> DEFINE Framed == /\ Pid \in live /\ reader = Nobody
                     /\ live' = live /\ reader' \in {Nobody, Pid}
                     /\ fds'[ShellPid] = fds[ShellPid]
<1>1. ASSUME NEW name, Open(Pid, name) PROVE Framed
  <2>1. CASE UNCHANGED fds
    BY <1>1, <2>1 DEF Open, Runs
  <2>2. CASE \E i \in 1 .. Len(dentries), fd \in Fds : OpenDentry(Pid, fd, dentries[i])
    <3>1. PICK i \in 1 .. Len(dentries), fd \in Fds : OpenDentry(Pid, fd, dentries[i])
      BY <2>2
    <3>2. UNCHANGED fds \/ \E d : SetDesc(Pid, fd, d)
      BY <3>1 DEF OpenDentry, file_open, file_open_fails, dir_open, rtc_open
    <3> QED
      BY <1>0, <1>1, <2>1, <3>2, SetDescFrame DEF Open, Runs
  <2> QED
    BY <1>1, <2>1, <2>2 DEF Open
<1>2. ASSUME NEW fd \in Fds \cup BadFds, Close(Pid, fd) PROVE Framed
  <2>1. UNCHANGED fds \/ (fd \in Fds /\ SetDesc(Pid, fd, Shut(fds[Pid][fd])))
    BY <1>2 DEF Close
  <2> QED
    BY <1>0, <1>2, <2>1, SetDescFrame DEF Close, Runs
<1>3. ASSUME NEW fd \in Fds \cup BadFds, NEW n \in Counts, Read(Pid, fd, n) PROVE Framed
  <2>1. CASE dir_read(Pid, fd, n)
    <3>1. \/ UNCHANGED <<live, fds, reader>>
          \/ /\ fd \in Fds /\ SetDesc(Pid, fd, [fds[Pid][fd] EXCEPT !.pos = @ + 1])
             /\ UNCHANGED <<live, reader>>
      BY <2>1 DEF dir_read, JustReturns, Reaches
    <3>2. Pid \in live /\ reader = Nobody
      BY <2>1 DEF dir_read, Reaches, Runs
    <3> QED
      BY <1>0, <3>1, <3>2, SetDescFrame
  <2>2. CASE ~dir_read(Pid, fd, n)
    BY <1>3, <2>2
       DEF Read, NotOpen, TerminalRead, RtcRead, file_read, Reaches, Runs, JustReturns
  <2> QED
    BY <2>1, <2>2
<1>4. ASSUME NEW fd \in Fds \cup BadFds, NEW n \in Nat, Write(Pid, fd, n) PROVE Framed
  BY <1>4 DEF Write, NotOpen, Reaches, Runs, JustReturns
<1>5. ASSUME Runs(Pid), UNCHANGED fdVars PROVE Framed
  BY <1>5 DEF Runs, fdVars
<1>6. Framed
  BY <1>1, <1>2, <1>3, <1>4, <1>5 DEF Call
<1>7. FdInv'
  <2>1. ASSUME UNCHANGED fdVars PROVE FdInv'
    BY <2>1, FdNextInv
  <2> QED
    BY <1>0, <2>1, OpenInv, CloseInv, ReadInv, WriteInv DEF Call
<1> QED
  BY <1>6, <1>7

LEMMA CallShell ==
    ASSUME FdInv, ShellInv, Call, UNCHANGED <<session, shell, cmd>>
    PROVE  FdInv' /\ ShellInv' /\ shell = "waiting"
<1>1. /\ FdInv' /\ Pid \in live /\ live' = live /\ reader' \in {Nobody, Pid}
      /\ fds'[ShellPid] = fds[ShellPid]
  BY CallFrame
<1>2. shell = "waiting"
  BY <1>1, PidsAre DEF ShellInv
<1>3. Standing(ShellPid)'
  BY <1>1, <1>2 DEF ShellInv, Standing
<1> QED
  BY <1>1, <1>2, <1>3 DEF ShellInv, Typed

\* What open() and read() leave for the next step.
LEMMA OpenReturns ==
    ASSUME NEW p, NEW name, Open(p, name)
    PROVE  reader' = Nobody /\ reply'.value \in Fds \cup {-1}
BY DEF Open, Runs, OpenDentry, Returns

LEMMA QuietCalls ==
    /\ \A fd : Close(Pid, fd) => reader' = Nobody
    /\ \A fd, n : Write(Pid, fd, n) => reader' = Nobody
BY DEF Close, Write, NotOpen, Reaches, Runs, JustReturns

LEMMA ReadReturns ==
    ASSUME FdInv, NEW fd \in Fds \cup BadFds, NEW n \in Nat, Read(Pid, fd, n)
    PROVE  IF reader' = Nobody THEN reply'.value <= n ELSE rd'.length <= n
<1>0. Pid \in Pids /\ Pid # Nobody /\ fds \in Tables
  BY PidsAre DEF FdInv, FdTypeOK, Tables
<1> USE <1>0
<1>1. CASE NotOpen("read", Pid, fd)
  BY <1>1 DEF NotOpen, JustReturns, Runs, Returns
<1>2. CASE TerminalRead(Pid, fd, n)
  <2>1. \E count \in -1 .. n : JustReturns("read", Pid, fd, count, <<>>)
    BY <1>2 DEF TerminalRead
  <2>2. reader = Nobody
    BY <1>2 DEF TerminalRead, Reaches, Runs
  <2> QED
    BY <2>1, <2>2 DEF JustReturns, Returns
<1>3. CASE RtcRead(Pid, fd)
  BY <1>3 DEF RtcRead, JustReturns, Reaches, Runs, Returns
<1>4. CASE dir_read(Pid, fd, n)
  <2>1. Least(n, DENTRY_NAME_LEN) <= n
    BY ImageAssumption, LeastIs
  <2>2. reader' = Nobody /\ (reply'.value = 0 \/ reply'.value = Least(n, DENTRY_NAME_LEN))
    BY <1>4 DEF dir_read, JustReturns, Reaches, Runs, Returns
  <2> QED
    BY <2>1, <2>2
<1>5. CASE file_read(Pid, fd, n)
  <2> DEFINE d == fds[Pid][fd]
  <2>1. d \in FileDesc /\ reader = Nobody
    BY <1>5 DEF file_read, Reaches, Runs, Tables
  <2>2. CASE JustReturns("read", Pid, fd, IF get_inode(d.inode) THEN 0 ELSE -1, <<>>)
    BY <2>1, <2>2 DEF JustReturns, Returns
  <2>3. CASE /\ get_inode(d.inode) /\ d.pos < inodes[d.inode].size
             /\ reader' = Pid
             /\ rd'.length = Least(n, inodes[d.inode].size - d.pos)
    <3>1. inodes[d.inode].size \in Nat /\ d.pos \in Nat
      BY <2>1, <2>3, ImageAssumption DEF get_inode, FileDesc
    <3>2. inodes[d.inode].size - d.pos \in Nat
      BY <2>3, <3>1
    <3> HIDE DEF d
    <3>3. Least(n, inodes[d.inode].size - d.pos) <= n
      BY <3>2, LeastIs
    <3> QED
      BY <2>3, <3>3
  <2> QED
    BY <1>5, <2>2, <2>3 DEF file_read
<1> QED
  BY <1>1, <1>2, <1>3, <1>4, <1>5 DEF Read

\* What the passes of read_data() leave of a read of at most n bytes.
LEMMA KernelReadsKeeps ==
    ASSUME FdInv, ShellInv, KernelReads
    PROVE  /\ FdInv' /\ ShellInv' /\ reader = Pid
           /\ \A n \in Nat : Reads(n) => Reads(n)'
<1>0. /\ fds \in Tables /\ ShellPid \in Pids \ {Pid} /\ reader = Pid /\ Pid \in live
      /\ rd \in Locals /\ Pid # Nobody /\ Pid \in Pids
  BY PidsAre DEF FdInv, FdTypeOK, Tables, ShellInv, KernelReads, CopyBlock, CopyBadBlock, FinishRead
<1>f. rd.fd \in Fds /\ rd.length \in Nat
  BY <1>0 DEF Locals
<1>1. FdInv'
  BY CopyBlockInv, CopyBadBlockInv, FinishReadInv DEF KernelReads
<1>2. fds'[ShellPid] = fds[ShellPid] /\ live' = live /\ reader' \in {Nobody, Pid}
  <2>1. CASE CopyBlock \/ CopyBadBlock
    BY <1>0, <2>1 DEF CopyBlock, CopyBadBlock
  <2>2. CASE FinishRead
    BY <1>0, <1>f, <2>2, SetDescFrame DEF FinishRead
  <2> QED
    BY <2>1, <2>2 DEF KernelReads
<1>3. ShellInv'
  BY <1>2 DEF KernelReads, shellVars, ShellInv, Standing, Typed
<1>4. ASSUME NEW n \in Nat, Reads(n) PROVE Reads(n)'
  <2>1. rd.length <= n
    BY <1>0, <1>4 DEF Reads
  <2>2. CASE CopyBlock
    BY <1>0, <2>1, <2>2 DEF Reads, CopyBlock, memcpy_block, Locals
  <2>3. CASE CopyBadBlock
    BY <2>3 DEF Reads, CopyBadBlock, Returns
  <2>4. CASE FinishRead
    BY <1>f, <2>1, <2>4 DEF Reads, FinishRead, Returns
  <2> QED
    BY <2>2, <2>3, <2>4 DEF KernelReads
<1> QED
  BY <1>0, <1>1, <1>3, <1>4

----------------------------------------------------------------------------
(* Each program keeps its variables; the others' do not matter *)

CatPcs == {"cat opens", "cat reads", "cat writes"}
GrepPcs == {"grep opens dir", "grep reads dir", "grep opens", "grep reads", "grep scans",
            "grep wants more", "grep at end", "grep closes"}
FishPcs == {"fish opens rtc", "fish opens first", "fish opens second", "fish looks",
            "fish reads", "fish ends row", "fish waits", "fish ticks", "fish ends"}

LEMMA OneProgram ==
    /\ pc' \in CatPcs /\ OpenInv0' /\ CatLocals' => ProgLocals'
    /\ pc' \in GrepPcs /\ OpenInv0' /\ GrepLocals' => ProgLocals'
    /\ pc' = "syserr begins" /\ SyserrLocals' => ProgLocals'
    /\ pc' \in FishPcs /\ OpenInv0' /\ FishLocals' => ProgLocals'
    /\ pc' \in {"none", "any opens", "any"} => ProgLocals'
    /\ pc' = "start" /\ OpenInv0' => ProgLocals'
BY DEF ProgLocals, OpenInv0, Quiet, CatLocals, GrepLocals, SyserrLocals, FishLocals, CatPcs, GrepPcs,
       FishPcs

LEMMA ProgInitInv == ProgramsInit => ProgInv
<1> SUFFICES ASSUME ProgramsInit PROVE ProgInv
  OBVIOUS
<1>1. FdInv
  BY FdInitInv DEF ProgramsInit, ShellInit
<1>2. ShellInv
  BY ShellAssumption
     DEF ProgramsInit, ShellInit, FdInit, ShellInv, NoCommand, Typed
<1>3. ProgLocals
  BY DEF ProgramsInit, ShellInit, ProgLocals, OpenInv0, Quiet, CatLocals, GrepLocals, SyserrLocals,
         FishLocals
<1> QED
  BY <1>1, <1>2, <1>3 DEF ProgInv

\* A process is created with the descriptors of one.
LEMMA Initialised ==
    ASSUME fds \in Tables, NEW p \in Pids, pcb_init(p)
    PROVE  /\ fds' \in Tables /\ Standing(p)'
           /\ \A q \in Pids \ {p} : fds'[q] = fds[q]
<1>1. fds' \in Tables
  BY ShutType, StdInOutType DEF Tables, pcb_init
<1>2. \A fd \in Fds : fds'[p][fd] = IF fd < 2 THEN StdInOut(fd) ELSE Shut(fds[p][fd])
  BY DEF Tables, pcb_init
<1>3. \A d \in FileDesc : ~Shut(d).open
  BY DEF Shut, FileDesc
<1>4. Standing(p)'
  BY <1>2, <1>3 DEF Standing, Tables, StdInOut
<1> QED
  BY <1>1, <1>4 DEF pcb_init, Tables

\* The program of a terminal ends and the shell goes on.
LEMMA Ends ==
    ASSUME ProgInv, NEW status, EndsWith(status)
    PROVE  ProgInv'
<1>1. /\ FdInv /\ ShellInv /\ fds \in Tables /\ Pid \in Pids /\ ShellPid \in Pids \ {Pid}
      /\ Exit(Pid)
  BY PidsAre DEF ProgInv, FdInv, FdTypeOK, Tables, EndsWith
<1>2. FdInv'
  BY <1>1, ExitInv
<1>3. /\ Pid \in live /\ live' = live \ {Pid} /\ fds'[ShellPid] = fds[ShellPid]
      /\ reader' = Nobody
  BY <1>1 DEF Exit, Runs, kill_current_proc, Tables
<1>4. shell = "waiting"
  BY <1>1, <1>3 DEF ShellInv
<1>5. ShellInv'
  <2>1. Standing(ShellPid)'
    BY <1>1, <1>3, <1>4 DEF ShellInv, Standing
  <2> QED
    BY <1>1, <1>3, <1>4, <2>1 DEF ShellInv, Typed, EndsWith
<1>6. ProgLocals'
  BY OneProgram DEF EndsWith
<1> QED
  BY <1>2, <1>5, <1>6 DEF ProgInv

LEMMA ShellStepsKeep ==
    ASSUME ProgInv, ShellSteps
    PROVE  ProgInv'
<1>0. /\ FdInv /\ ShellInv /\ fds \in Tables /\ Pid \in Pids /\ ShellPid \in Pids
      /\ Pid # ShellPid
  BY PidsAre DEF ProgInv, FdInv, FdTypeOK, Tables
<1>1. ASSUME Boot PROVE ProgInv'
  <2>1. Launch(ShellPid) /\ shell = "off" /\ live = {}
    BY <1>0, <1>1 DEF Boot, ShellInv
  <2>2. FdInv'
    BY <1>0, <2>1, LaunchInv
  <2>3. Standing(ShellPid)' /\ live' = {ShellPid} /\ reader' = Nobody
    BY <1>0, <2>1, Initialised DEF Launch
  <2>4. pc = "none" /\ pc' = "none"
    BY <1>0, <1>1, <2>1 DEF ShellInv, Boot
  <2>5. ShellInv'
    BY <1>0, <1>1, <2>3, <2>4, ShellAssumption, GrepAssumption DEF Boot, ShellInv, Typed
  <2>6. ProgLocals'
    BY <2>4, OneProgram
  <2> QED
    BY <2>2, <2>5, <2>6 DEF ProgInv
<1>2. ASSUME NEW c \in session, UnknownCommand(c) PROVE ProgInv'
  <2>1. UNCHANGED fdVars /\ pc = "none" /\ pc' = "none"
    BY <1>0, <1>2 DEF UnknownCommand, ShellInv
  <2>2. FdInv'
    BY <1>0, <2>1, FdNextInv
  <2>3. ShellInv'
    BY <1>0, <1>2, <2>1 DEF UnknownCommand, ShellInv, Typed, Standing, fdVars
  <2>4. ProgLocals'
    BY <2>1, OneProgram
  <2> QED
    BY <2>2, <2>3, <2>4 DEF ProgInv
<1>3. ASSUME NEW c \in session, Execute(c) PROVE ProgInv'
  <2>1. Launch(Pid) /\ shell = "prompt" /\ live = {ShellPid}
    BY <1>0, <1>3 DEF Execute, ShellInv
  <2>2. FdInv'
    BY <1>0, <2>1, LaunchInv
  <2>3. /\ Standing(Pid)' /\ live' = {ShellPid, Pid} /\ reader' = Nobody
        /\ fds'[ShellPid] = fds[ShellPid]
    BY <1>0, <2>1, Initialised DEF Launch
  <2>4. ShellInv'
    BY <1>0, <1>3, <2>1, <2>3 DEF Execute, ShellInv, Typed, Standing
  <2>5. ProgLocals'
    BY <1>3, <2>3, OneProgram DEF Execute, OpenInv0, Quiet
  <2> QED
    BY <2>2, <2>4, <2>5 DEF ProgInv
<1>4. ASSUME ShellRestarts PROVE ProgInv'
  <2>1. /\ pcb_init(ShellPid) /\ shell = "prompt" /\ pc = "none" /\ pc' = "none"
        /\ reader = Nobody
    BY <1>0, <1>4, PidsAre DEF ShellRestarts, ShellInv, shellVars, FdInv, FdTypeOK
  <2>2. fds' \in Tables /\ Standing(ShellPid)'
    BY <1>0, <2>1, Initialised
  <2>3. FdInv'
    BY <1>0, <1>4, <2>1, <2>2, QuietStep DEF ShellRestarts, FdInv, FdTypeOK
  <2>4. ShellInv'
    BY <1>0, <1>4, <2>1, <2>2 DEF ShellRestarts, shellVars, ShellInv, Typed
  <2>5. ProgLocals'
    BY <2>1, OneProgram
  <2> QED
    BY <2>3, <2>4, <2>5 DEF ProgInv
<1>5. ASSUME KilledByCtrlC PROVE ProgInv'
  BY <1>5, Ends DEF KilledByCtrlC
<1> QED
  BY <1>1, <1>2, <1>3, <1>4, <1>5 DEF ShellSteps

\* A program whose call is one of Call keeps the invariant if its variables are right.
LEMMA CallKeeps ==
    ASSUME ProgInv, Call, UNCHANGED <<session, shell, cmd>>, ProgLocals'
    PROVE  ProgInv'
BY CallShell DEF ProgInv

LEMMA CatKeeps ==
    ASSUME ProgInv, Cat
    PROVE  ProgInv'
<1>0. /\ FdInv /\ OpenInv0 /\ CatLocals /\ Chunk \in Counts /\ BUFSIZE \in Nat
      /\ Chunk \in Nat /\ Chunk <= BUFSIZE
  BY PidsAre DEF ProgInv, ProgLocals, Chunk
<1>1. ASSUME CatOpens PROVE ProgInv'
  <2>1. ProgLocals'
    BY <1>1, OpenReturns, OneProgram DEF CatOpens, Calls, CatPcs, OpenInv0, Quiet, CatLocals
  <2> QED
    BY <1>1, <2>1, CallKeeps DEF CatOpens, Calls, Call
<1>2. ASSUME CannotOpen PROVE ProgInv'
  BY <1>2, Ends DEF CannotOpen, Halt
<1>3. ASSUME CatReadsFirst PROVE ProgInv'
  <2>1. reply.value \in Fds /\ Read(Pid, reply.value, Chunk)
    BY <1>0, <1>3 DEF CatReadsFirst, OpenInv0, Quiet
  <2>2. IF reader' = Nobody THEN reply'.value <= Chunk ELSE rd'.length <= Chunk
    BY <1>0, <2>1, ReadReturns
  <2>3. Reads(BUFSIZE)'
    <3>1. FdInv'
      BY <1>0, <2>1, ReadInv, PidsAre
    <3>2. rd'.length \in Nat /\ reply'.value \in Nat \cup {-1}
      BY <3>1 DEF FdInv, FdTypeOK, Locals
    <3> QED
      BY <1>0, <2>2, <3>2 DEF Reads
  <2>4. ProgLocals'
    BY <1>3, <2>1, <2>3, OneProgram
       DEF CatReadsFirst, Calls, CatPcs, OpenInv0, Quiet, CatLocals
  <2> QED
    BY <1>0, <1>3, <2>1, <2>4, CallKeeps DEF CatReadsFirst, Calls, Call
<1>4. ASSUME CatWrites PROVE ProgInv'
  <2>1. Write(Pid, 1, reply.value) /\ reply.value \in Nat /\ 1 \in Fds
    <3>1. reply.value \in Nat \cup {-1} /\ reply.value > 0
      BY <1>0, <1>4 DEF CatWrites, FdInv, FdTypeOK
    <3>2. reply.value \in Nat
      BY <3>1
    <3>3. Write(Pid, 1, reply.value)
      BY <1>4 DEF CatWrites, Prints
    <3> QED
      BY <3>2, <3>3, PidsAre
  <2>2. ProgLocals'
    BY <1>0, <1>4, <2>1, OneProgram DEF CatWrites, Calls, CatPcs, OpenInv0, Quiet, CatLocals
  <2> QED
    BY <1>4, <2>1, <2>2, CallKeeps DEF CatWrites, Calls, Call
<1>5. ASSUME CatReads PROVE ProgInv'
  <2>1. loc.fd \in Fds /\ Read(Pid, loc.fd, Chunk)
    BY <1>0, <1>5 DEF CatReads, CatLocals
  <2>2. IF reader' = Nobody THEN reply'.value <= Chunk ELSE rd'.length <= Chunk
    BY <1>0, <2>1, ReadReturns
  <2>3. Reads(BUFSIZE)'
    <3>1. FdInv'
      BY <1>0, <2>1, ReadInv, PidsAre
    <3>2. rd'.length \in Nat /\ reply'.value \in Nat \cup {-1}
      BY <3>1 DEF FdInv, FdTypeOK, Locals
    <3> QED
      BY <1>0, <2>2, <3>2 DEF Reads
  <2>4. ProgLocals'
    BY <1>5, <2>1, <2>3, OneProgram DEF CatReads, Calls, CatPcs, OpenInv0, Quiet, CatLocals
  <2> QED
    BY <1>0, <1>5, <2>1, <2>4, CallKeeps DEF CatReads, Calls, Call
<1>6. ASSUME CatFails \/ CatEnds PROVE ProgInv'
  BY <1>6, Ends DEF CatFails, CatEnds, Halt
<1> QED
  BY <1>1, <1>2, <1>3, <1>4, <1>5, <1>6 DEF Cat

----------------------------------------------------------------------------
(* grep stays in its buffer *)

LEMMA LeastExists ==
    ASSUME NEW T \in SUBSET Nat, T # {}
    PROVE  \E k \in T : \A j \in T : k <= j
<1> DEFINE R == {ss \in Nat \X Nat : ss[1] < ss[2]}
<1>1. IsWellFoundedOn(R, Nat)
  BY NatLessThanWellFounded DEF OpToRel
<1>2. PICK k \in T : \A j \in T : <<j, k>> \notin R
  <2> HIDE DEF R
  <2> QED
    BY <1>1, WFMin
<1>3. ASSUME NEW j \in T PROVE k <= j
  <2>1. <<j, k>> \notin R
    <3> HIDE DEF R
    <3> QED
      BY <1>2
  <2> QED
    BY <2>1
<1> QED
  BY <1>3

\* A line ends in what was read, at the first newline.
LEMMA LineEndIs ==
    ASSUME loc.last \in Nat, loc.line_start \in 0 .. loc.last
    PROVE  /\ LineEnd \in loc.line_start .. loc.last
           /\ LineEnd = loc.last \/ loc.data[LineEnd] = NL
           /\ \A k \in loc.line_start .. LineEnd - 1 : loc.data[k] # NL
<1> DEFINE T == {e \in loc.line_start .. loc.last : e = loc.last \/ loc.data[e] = NL}
<1>1. T \in SUBSET Nat /\ loc.last \in T
  OBVIOUS
<1>2. PICK e \in T : \A k \in T : e <= k
  <2> HIDE DEF T
  <2> QED
    BY <1>1, LeastExists
<1>3. \A k \in loc.line_start .. e - 1 : loc.data[k] # NL
  <2> SUFFICES ASSUME NEW k \in loc.line_start .. e - 1, loc.data[k] = NL PROVE FALSE
    OBVIOUS
  <2>1. k \in T
    OBVIOUS
  <2> QED
    BY <1>2, <2>1
<1>4. \E f \in loc.line_start .. loc.last :
        /\ f = loc.last \/ loc.data[f] = NL
        /\ \A k \in loc.line_start .. f - 1 : loc.data[k] # NL
  BY <1>3
<1> QED
  BY <1>4 DEF LineEnd

\* The line that is printed is part of the buffer.
LEMMA LineIs ==
    ASSUME Buffered, BUFSIZE \in Nat, loc.line_start \in 0 .. loc.last
    PROVE  Len(Line) \in 0 .. BUFSIZE
<1>1. loc.last \in 0 .. BUFSIZE /\ LineEnd \in loc.line_start .. loc.last
  BY LineEndIs DEF Buffered
<1>2. Ended[LineEnd] = NUL
  BY <1>1 DEF Ended, Buffered
<1> DEFINE T == {e \in loc.line_start .. LineEnd : Ended[e] = NUL}
<1>3. T \in SUBSET Nat /\ LineEnd \in T
  BY <1>1, <1>2
<1>4. PICK e \in T : \A k \in T : e <= k
  <2> HIDE DEF T
  <2> QED
    BY <1>3, LeastExists
<1>5. \A k \in loc.line_start .. e - 1 : Ended[k] # NUL
  <2> SUFFICES ASSUME NEW k \in loc.line_start .. e - 1, Ended[k] = NUL PROVE FALSE
    OBVIOUS
  <2>1. k \in T
    BY <1>1
  <2> QED
    BY <1>1, <1>4, <2>1
<1> DEFINE n == CHOOSE f \in loc.line_start .. LineEnd :
                   Ended[f] = NUL /\ \A k \in loc.line_start .. f - 1 : Ended[k] # NUL
<1>6. n \in loc.line_start .. LineEnd
  BY <1>5
<1>7. Line = [i \in 1 .. n - loc.line_start |-> Ended[loc.line_start + i - 1]]
  BY DEF Line
<1> HIDE DEF n
<1>8. n - loc.line_start \in Nat
  BY <1>1, <1>6
<1>9. Len(Line) = n - loc.line_start
  BY <1>7, <1>8, SMT
<1> QED
  BY <1>1, <1>6, <1>8, <1>9

\* Whatever comes after a line, the buffer is in order.
LEMMA NextLineKeeps ==
    ASSUME Buffered, loc.dir \in Fds, BUFSIZE \in Nat, loc.line_start \in 0 .. loc.last, NextLine
    PROVE  /\ pc' \in {"grep scans", "grep wants more", "grep at end"}
           /\ GrepLocals'
           /\ UNCHANGED <<session, shell, said, cmd>>
<1>1. loc.last \in 0 .. BUFSIZE /\ LineEnd \in loc.line_start .. loc.last
  BY LineEndIs DEF Buffered
<1> DEFINE ends == LineEnd + 1 >= loc.last
<1>2. /\ pc' = IF ~ends THEN "grep scans"
              ELSE IF loc.cnt # 0 THEN "grep wants more" ELSE "grep at end"
      /\ loc' = [loc EXCEPT !.data = Ended, !.line_start = LineEnd + 1,
                            !.last = IF ends THEN 0 ELSE @,
                            !.cut = @ \/ (LineEnd = BUFSIZE /\ loc.data[BUFSIZE] = NL)]
      /\ UNCHANGED <<session, shell, said, cmd>>
  BY DEF NextLine, Calls
<1> HIDE DEF ends
<1>3. /\ loc'.data = Ended /\ loc'.line_start = LineEnd + 1 /\ loc'.fd = loc.fd
      /\ loc'.dir = loc.dir /\ loc'.last = IF ends THEN 0 ELSE loc.last
      /\ DOMAIN loc' = DOMAIN loc
  BY <1>2 DEF Buffered
<1>4. DOMAIN Ended = 0 .. BUFSIZE
  BY DEF Ended, Buffered
<1>5. Buffered'
  BY <1>1, <1>3, <1>4 DEF Buffered
<1>6. pc' = "grep scans" => loc'.line_start \in 0 .. loc'.last
  <2>1. ~ends => LineEnd + 1 \in 0 .. loc.last
    BY <1>1 DEF ends
  <2> QED
    BY <1>2, <1>3, <2>1
<1> QED
  BY <1>2, <1>3, <1>5, <1>6 DEF GrepLocals

\* A read of the program at pc, into its variables or not.
LEMMA GrepReadsDirKeeps ==
    ASSUME ProgInv, NEW dir \in Fds, NEW cut, GrepReadsDir(dir, cut)
    PROVE  ProgInv'
<1>1. DENTRY_NAME_LEN \in Counts
  BY PidsAre
<1>2. Call
  BY <1>1 DEF GrepReadsDir, Call
<1>3. pc' = "grep reads dir" /\ loc' = [dir |-> dir, cut |-> cut]
      /\ UNCHANGED <<session, shell, cmd>>
  BY DEF GrepReadsDir, Calls
<1>4. GrepLocals' /\ OpenInv0'
  BY <1>3 DEF GrepLocals, OpenInv0, Quiet
<1>5. ProgLocals'
  BY <1>3, <1>4, OneProgram DEF GrepPcs
<1> QED
  BY <1>2, <1>3, <1>5, CallKeeps

LEMMA GrepKeeps ==
    ASSUME ProgInv, Grep
    PROVE  ProgInv'
<1>b. BUFSIZE \in Nat
  BY PidsAre
<1>0. /\ FdInv /\ OpenInv0 /\ GrepLocals /\ reply.value \in Nat \cup {-1}
      /\ 0 .. BUFSIZE \subseteq Counts
  BY PidsAre DEF ProgInv, ProgLocals, FdInv, FdTypeOK
\* A step to one of these, which is no step of open().
<1>a. ASSUME Call, UNCHANGED <<session, shell, cmd>>, GrepLocals',
             pc' \in GrepPcs \ {"grep opens dir", "grep opens"}
      PROVE  ProgInv'
  <2>1. OpenInv0'
    BY <1>a DEF OpenInv0, Quiet, GrepPcs
  <2> QED
    BY <1>a, <2>1, OneProgram, CallKeeps
<1>1. ASSUME GrepOpensDir PROVE ProgInv'
  <2>1. pc' = "grep opens dir" /\ Open(Pid, ".")
    BY <1>1 DEF GrepOpensDir, Calls
  <2>2. OpenInv0' /\ GrepLocals'
    BY <2>1, OpenReturns DEF OpenInv0, Quiet, GrepLocals
  <2>3. ProgLocals'
    BY <2>1, <2>2, OneProgram DEF GrepPcs
  <2> QED
    BY <1>1, <2>1, <2>3, CallKeeps DEF GrepOpensDir, Calls, Call
<1>2. ASSUME GrepReadsFirst PROVE ProgInv'
  <2>1. reply.value \in Fds
    BY <1>0, <1>b, <1>2 DEF GrepReadsFirst, OpenInv0, Quiet
  <2> QED
    BY <1>2, <2>1, GrepReadsDirKeeps DEF GrepReadsFirst
<1>3. ASSUME GrepSkips \/ GrepGoesOn PROVE ProgInv'
  <2>1. loc.dir \in Fds
    BY <1>0, <1>b, <1>3 DEF GrepSkips, GrepGoesOn, GrepLocals
  <2> QED
    BY <1>3, <2>1, GrepReadsDirKeeps DEF GrepSkips, GrepGoesOn
<1>4. ASSUME GrepOpens PROVE ProgInv'
  <2>1. pc' = "grep opens" /\ Open(Pid, Head(reply.taken)) /\ loc.dir \in Fds
        /\ loc'.dir = loc.dir
    BY <1>0, <1>b, <1>4 DEF GrepOpens, Calls, GrepLocals
  <2>2. OpenInv0' /\ GrepLocals'
    BY <2>1, OpenReturns DEF OpenInv0, Quiet, GrepLocals
  <2>3. ProgLocals'
    BY <2>1, <2>2, OneProgram DEF GrepPcs
  <2> QED
    BY <1>4, <2>1, <2>3, CallKeeps DEF GrepOpens, Calls, Call
<1>5. ASSUME GrepReadsFile PROVE ProgInv'
  <2>1. /\ reply.value \in Fds /\ Read(Pid, reply.value, BUFSIZE) /\ loc.dir \in Fds
        /\ UNCHANGED <<session, shell, cmd>>
    BY <1>0, <1>b, <1>5 DEF GrepReadsFile, OpenInv0, Quiet, GrepLocals, Calls
  <2>2. PICK junk \in Junk :
          loc' = [dir |-> loc.dir, cut |-> loc.cut, name |-> loc.name,
                  fd |-> reply.value, last |-> 0, line_start |-> 0, cnt |-> 0,
                  data |-> [i \in 0 .. BUFSIZE |-> junk]]
    BY <1>5 DEF GrepReadsFile, Calls
  <2>3. pc' = "grep reads"
    BY <1>5 DEF GrepReadsFile, Calls
  <2>4. Buffered' /\ loc'.last = 0 /\ loc'.dir \in Fds
    BY <1>0, <1>b, <2>1, <2>2 DEF Buffered
  <2>5. IF reader' = Nobody THEN reply'.value <= BUFSIZE ELSE rd'.length <= BUFSIZE
    BY <1>0, <1>b, <2>1, ReadReturns
  <2>6. BUFSIZE - loc'.last = BUFSIZE
    BY <1>0, <1>b, <2>4
  <2>7. GrepLocals'
    BY <2>3, <2>4, <2>5, <2>6 DEF GrepLocals, Reads
  <2>8. Call
    BY <1>0, <1>b, <2>1 DEF Call
  <2> QED
    BY <1>a, <2>1, <2>3, <2>7, <2>8 DEF GrepPcs
<1>6. ASSUME GrepReadsOn PROVE ProgInv'
  <2>1. /\ pc' = "grep reads" /\ loc' = loc /\ Buffered /\ loc.dir \in Fds
        /\ Read(Pid, loc.fd, BUFSIZE - loc.last) /\ UNCHANGED <<session, shell, cmd>>
    BY <1>0, <1>b, <1>6 DEF GrepReadsOn, Calls, GrepLocals
  <2>l. loc.last \in 0 .. BUFSIZE /\ loc.fd \in Fds
    BY <2>1 DEF Buffered
  <2>2. BUFSIZE - loc.last \in 0 .. BUFSIZE /\ BUFSIZE - loc.last \in Nat
    BY <1>b, <2>l
  <2>3. IF reader' = Nobody THEN reply'.value <= BUFSIZE - loc.last
        ELSE rd'.length <= BUFSIZE - loc.last
    BY <1>0, <1>b, <2>1, <2>2, <2>l, ReadReturns
  <2>4. GrepLocals'
    BY <2>1, <2>3 DEF GrepLocals, Reads, Buffered
  <2>5. Call
    BY <1>0, <1>b, <2>1, <2>2, <2>l DEF Call
  <2> QED
    BY <1>a, <2>1, <2>4, <2>5 DEF GrepPcs
<1>7. ASSUME GrepTakes PROVE ProgInv'
  <2>1. /\ pc' = "grep scans" /\ Buffered /\ loc.dir \in Fds /\ reader = Nobody
        /\ reply.value <= BUFSIZE - loc.last /\ reply.value # -1
    BY <1>0, <1>b, <1>7 DEF GrepTakes, Calls, GrepLocals, Runs, Reads
  <2>2. /\ loc'.last = loc.last + reply.value /\ loc'.line_start = 0 /\ loc'.fd = loc.fd
        /\ loc'.dir = loc.dir /\ DOMAIN loc'.data = 0 .. BUFSIZE /\ DOMAIN loc' = DOMAIN loc
    BY <1>7, <2>1 DEF GrepTakes, Calls, Buffered
  <2>3. reply.value \in Nat /\ loc.last \in 0 .. BUFSIZE
    BY <1>0, <1>b, <2>1 DEF Buffered
  <2>p. reply.value <= BUFSIZE - loc.last /\ loc'.last = loc.last + reply.value
    BY <2>1, <2>2
  <2>4. loc'.last \in 0 .. BUFSIZE /\ loc'.line_start \in 0 .. loc'.last
    <3>1. loc.last + reply.value \in 0 .. BUFSIZE
      BY <1>b, <2>3, <2>p
    <3> QED
      BY <2>2, <3>1
  <2>5. Buffered'
    BY <2>1, <2>2, <2>4 DEF Buffered
  <2>6. GrepLocals'
    BY <2>1, <2>2, <2>4, <2>5 DEF GrepLocals
  <2> QED
    BY <1>a, <1>7, <2>1, <2>6 DEF GrepPcs, GrepTakes, Calls, Call
<1>8. ASSUME GrepMovesDown PROVE ProgInv'
  <2>1. /\ pc' = "grep wants more" /\ Buffered /\ loc.dir \in Fds
        /\ loc.line_start \in 0 .. loc.last
    BY <1>0, <1>b, <1>8 DEF GrepMovesDown, Calls, GrepLocals
  <2>2. /\ loc'.last = loc.last - loc.line_start /\ loc'.fd = loc.fd /\ loc'.dir = loc.dir
        /\ DOMAIN loc'.data = 0 .. BUFSIZE /\ DOMAIN loc' = DOMAIN loc
    BY <1>8, <2>1 DEF GrepMovesDown, Calls, Buffered, MovedDown
  <2>3. loc'.last \in 0 .. BUFSIZE
    <3>1. loc.last \in 0 .. BUFSIZE /\ loc.line_start \in 0 .. loc.last
      BY <2>1 DEF Buffered
    <3>2. loc.last - loc.line_start \in 0 .. BUFSIZE
      BY <1>b, <3>1
    <3> QED
      BY <2>2, <3>2
  <2>4. GrepLocals'
    BY <2>1, <2>2, <2>3 DEF GrepLocals, Buffered
  <2> QED
    BY <1>a, <1>8, <2>1, <2>4 DEF GrepPcs, GrepMovesDown, Calls, Call
<1>9. ASSUME GrepPrints \/ GrepPasses PROVE ProgInv'
  <2>1. /\ NextLine /\ Buffered /\ loc.dir \in Fds /\ loc.line_start \in 0 .. loc.last
    BY <1>0, <1>b, <1>9 DEF GrepPrints, GrepPasses, GrepLocals
  <2>2. /\ pc' \in {"grep scans", "grep wants more", "grep at end"} /\ GrepLocals'
        /\ UNCHANGED <<session, shell, cmd>>
    BY <1>0, <1>b, <2>1, NextLineKeeps
  <2>3. Call
    <3>1. CASE GrepPrints
      <4>1. Write(Pid, 1, Len(Line))
        BY <3>1 DEF GrepPrints, Prints
      <4>2. Len(Line) \in 0 .. BUFSIZE
        BY <1>0, <1>b, <2>1, LineIs
      <4>3. Len(Line) \in Nat
        BY <1>0, <1>b, <4>2
      <4> QED
        BY <4>1, <4>3, PidsAre DEF Call
    <3>2. CASE GrepPasses
      BY <3>2 DEF GrepPasses, Call
    <3> QED
      BY <1>9, <3>1, <3>2
  <2> QED
    BY <1>a, <2>2, <2>3 DEF GrepPcs
<1>10. ASSUME GrepCloses PROVE ProgInv'
  <2>1. /\ pc' = "grep closes" /\ loc' = loc /\ loc.dir \in Fds /\ loc.fd \in Fds
        /\ Close(Pid, loc.fd) /\ UNCHANGED <<session, shell, cmd>>
    BY <1>0, <1>b, <1>10 DEF GrepCloses, Calls, GrepLocals, Buffered
  <2>2. GrepLocals'
    BY <2>1 DEF GrepLocals
  <2> QED
    BY <1>a, <2>1, <2>2 DEF GrepPcs, Call
<1>11. ASSUME GrepFails \/ GrepEnds PROVE ProgInv'
  BY <1>11, Ends DEF GrepFails, GrepEnds, Halt
<1> QED
  BY <1>1, <1>2, <1>3, <1>4, <1>5, <1>6, <1>7, <1>8, <1>9, <1>10, <1>11 DEF Grep

----------------------------------------------------------------------------
(* The tests of syserr *)

Requests ==
    {r \in [call : {"open", "close", "read", "write", "vidmap", "number"}, number : Int,
             name : Names \cup Pointers] : Proper(r)}

LEMMA RequestsAre ==
    /\ \A call \in {"close", "read", "write"}, fd \in Fds \cup BadFds : Request(call, fd) \in Requests
    /\ \A n \in Int : Request("number", n) \in Requests
    /\ \A name \in Names : Naming("open", name) \in Requests
    /\ \A pointer \in Pointers : Naming("vidmap", pointer) \in Requests
<1>1. "." \in Names /\ Fds \cup BadFds \subseteq Int
  BY ShellAssumption, DescriptorsAssumption DEF Fds, BadFds
<1>2. \A call \in {"close", "read", "write"}, fd \in Fds \cup BadFds : Request(call, fd) \in Requests
  BY <1>1 DEF Request, Requests, Proper
<1>3. \A n \in Int : Request("number", n) \in Requests
  BY <1>1 DEF Request, Requests, Proper
<1>4. \A name \in Names : Naming("open", name) \in Requests
  BY DEF Naming, Requests, Proper
<1>5. \A pointer \in Pointers : Naming("vidmap", pointer) \in Requests
  BY DEF Naming, Requests, Proper
<1> QED
  BY <1>2, <1>3, <1>4, <1>5

LEMMA OnIs ==
    ASSUME NEW call, NEW descriptors \in Seq(Int),
           \A i \in 1 .. Len(descriptors) : Request(call, descriptors[i]) \in Requests
    PROVE  On(call, descriptors) \in Seq(Requests) /\ Len(On(call, descriptors)) = Len(descriptors)
BY DEF On

LEMMA FromToIs ==
    ASSUME NEW a \in Fds, NEW b \in Fds, a <= b + 1
    PROVE  /\ FromTo(a, b) \in Seq(Int) /\ Len(FromTo(a, b)) = b - a + 1
           /\ \A i \in 1 .. b - a + 1 : FromTo(a, b)[i] = a + i - 1
           /\ \A i \in 1 .. b - a + 1 : FromTo(a, b)[i] \in Fds
<1>1. Fds = 0 .. MAX_FILE_DESCRIPTORS - 1 /\ MAX_FILE_DESCRIPTORS \in Nat
  BY DescriptorsAssumption DEF Fds
<1>2. a \in Nat /\ b \in Nat /\ b <= MAX_FILE_DESCRIPTORS - 1
  BY <1>1
<1>3. b - a + 1 \in Nat
  BY <1>2
<1> QED
  BY <1>1, <1>2, <1>3 DEF FromTo

\* Every member of a finite set is named once.
LEMMA OnAllIs ==
    ASSUME NEW names, IsFiniteSet(names), NEW call,
           \A name \in names : Naming(call, name) \in Requests
    PROVE  /\ OnAll(call, names) \in Seq(Requests)
           /\ \A i \in 1 .. Len(OnAll(call, names)) :
                \E name \in names : OnAll(call, names)[i] = Naming(call, name)
<1>1. PICK n \in Nat : ExistsBijection(1 .. n, names)
  BY FS_NatBijection
<1>2. Cardinality(names) = n
  BY <1>1, FS_CountingElements
<1>3. PICK f \in [1 .. n -> names] : IsInjective(f)
  BY <1>1 DEF ExistsBijection, Bijection, Injection
<1>4. SetToSeq(names) \in [1 .. n -> names]
  BY <1>2, <1>3 DEF SetToSeq
<1>5. OnAll(call, names) = [i \in 1 .. n |-> Naming(call, SetToSeq(names)[i])]
  BY <1>2 DEF OnAll
<1> QED
  BY <1>4, <1>5

LEMMA TestsAre ==
    /\ \A t \in AllTests : t.calls \in Seq(Requests)
    /\ Tests \in Seq(AllTests)
<1> DEFINE last == MAX_FILE_DESCRIPTORS - 1
<1>0. /\ 0 \in Fds /\ 1 \in Fds /\ 2 \in Fds /\ last \in Fds /\ last \in Nat
      /\ -1 \in BadFds /\ MAX_FILE_DESCRIPTORS \in BadFds /\ 2 <= last + 1 /\ "." \in Names
  BY ShellAssumption, DescriptorsAssumption DEF Fds, BadFds
<1> HIDE DEF last
<1>1. \A fd \in BadFds : err_fd(fd).calls \in Seq(Requests)
  BY RequestsAre DEF err_fd, AllFail
<1>2. ASSUME NEW call \in {"close", "read", "write"}, NEW a \in {0, 2}
      PROVE  On(call, FromTo(a, last)) \in Seq(Requests)
  <2>1. a \in Fds /\ a <= last + 1
    BY <1>0
  <2>2. FromTo(a, last) \in Seq(Int)
        /\ \A i \in 1 .. Len(FromTo(a, last)) : FromTo(a, last)[i] \in Fds
    BY <1>0, <2>1, FromToIs
  <2> QED
    BY <2>2, OnIs, RequestsAre
<1>3. err_open_lots.calls \in Seq(Requests)
  <2>1. [i \in 1 .. last |-> Naming("open", ".")] \in Seq(Requests)
    BY <1>0, RequestsAre
  <2> QED
    BY <1>2, <2>1 DEF err_open_lots, last
<1>4. err_open.calls \in Seq(Requests)
  BY SyserrAssumption, OnAllIs, RequestsAre DEF err_open, AllFail
<1>5. err_unopened.calls \in Seq(Requests)
  BY <1>2 DEF err_unopened, AllFail, last
<1>6. err_vidmap.calls \in Seq(Requests)
  <2>1. IsFiniteSet(Pointers \ UserPage)
    BY SyserrAssumption, FS_Subset
  <2> QED
    BY <2>1, OnAllIs, RequestsAre DEF err_vidmap, AllFail
<1>7. err_stdin_out.calls \in Seq(Requests)
  BY <1>0, RequestsAre DEF err_stdin_out, AllFail
<1>8. err_syscall_num.calls \in Seq(Requests)
  <2> DEFINE numbers == <<11, -1, 0>>
  <2>1. numbers \in Seq(Int)
    OBVIOUS
  <2>2. err_syscall_num.calls = On("number", numbers)
    BY DEF err_syscall_num, AllFail
  <2> HIDE DEF numbers
  <2> QED
    BY <2>1, <2>2, OnIs, RequestsAre
<1>9. Tests \in Seq(AllTests)
  BY DEF Tests, AllTests
<1> QED
  BY <1>0, <1>1, <1>3, <1>4, <1>5, <1>6, <1>7, <1>8, <1>9 DEF AllTests

\* The call of a test that syserr is at.
LEMMA RequestIs ==
    SyserrLocals /\ SyserrCalls => Test \in AllTests /\ Test.calls[loc.done + 1] \in Requests
<1>s. SUFFICES ASSUME SyserrLocals, SyserrCalls
               PROVE  Test \in AllTests /\ Test.calls[loc.done + 1] \in Requests
  OBVIOUS
<1> DEFINE tests == loc.tests
           calls == Test.calls
           k == loc.done + 1
<1>1. tests \in Seq(AllTests) /\ tests # <<>>
  BY <1>s DEF SyserrLocals, SyserrCalls
<1>n. loc.done \in Nat
  BY <1>s DEF SyserrLocals, SyserrCalls
<1>l. loc.done < Len(calls)
  BY <1>s DEF SyserrCalls
<1>2. Test \in AllTests
  <2>1. Test = Head(tests)
    BY DEF Test
  <2> HIDE DEF tests
  <2>2. Head(tests) \in AllTests
    BY <1>1
  <2> QED
    BY <2>1, <2>2
<1>3. calls \in Seq(Requests)
  BY <1>2, TestsAre
<1>4. k \in 1 .. Len(calls)
  <2> HIDE DEF calls
  <2>1. Len(calls) \in Nat
    BY <1>3
  <2> QED
    BY <1>l, <1>n, <2>1
<1>5. calls[k] \in Requests
  <2> HIDE DEF calls, k
  <2> QED
    BY <1>3, <1>4
<1> QED
  BY <1>2, <1>5

LEMMA SyserrKeeps ==
    ASSUME ProgInv, Syserr
    PROVE  ProgInv'
<1>0. SyserrLocals /\ BUFSIZE \in Counts /\ BUFSIZE \in Nat
  BY PidsAre DEF ProgInv, ProgLocals
<1>1. ASSUME SyserrChooses PROVE ProgInv'
  <2>1. PICK select \in 0 .. Len(Tests) :
          loc' = [tests |-> IF select = 0 THEN Tests ELSE <<Tests[select]>>,
                  done |-> 0, failing |-> 0, fail |-> 0]
    BY <1>1 DEF SyserrChooses, Calls
  <2>2. pc' = "syserr begins"
    BY <1>1 DEF SyserrChooses, Calls
  <2>3. (IF select = 0 THEN Tests ELSE <<Tests[select]>>) \in Seq(AllTests)
    BY TestsAre
  <2>4. SyserrLocals'
    BY <2>1, <2>2, <2>3 DEF SyserrLocals
  <2>5. ProgLocals'
    BY <2>2, <2>4, OneProgram
  <2> QED
    BY <1>1, <2>5, CallKeeps DEF SyserrChooses, Starts, Calls, Call
<1>2. ASSUME SyserrRefuses \/ SyserrEnds PROVE ProgInv'
  BY <1>2, Ends DEF SyserrRefuses, SyserrEnds, Halt
<1>3. ASSUME SyserrCalls PROVE ProgInv'
  <2> DEFINE tests == loc.tests
             request == Test.calls[loc.done + 1]
  <2>1. /\ pc = "syserr begins" /\ pc' = "syserr begins" /\ UNCHANGED <<session, shell, cmd>>
        /\ DOMAIN loc = {"tests", "done", "failing", "fail"}
    BY <1>0, <1>3 DEF SyserrCalls, SyserrLocals
  <2>n. loc.done \in Nat /\ tests \in Seq(AllTests)
    BY <1>0, <1>3 DEF SyserrCalls, SyserrLocals
  <2>4. request \in Requests
    BY <1>0, <1>3, RequestIs
  <2>5. Does(request)
    BY <1>3 DEF SyserrCalls
  <2>6. Call
    <3> HIDE DEF request
    <3> QED
      BY <1>0, <2>4, <2>5 DEF Does, Requests, Proper, Call
  <2>7. loc'.tests = tests /\ loc'.done = loc.done + 1 /\ DOMAIN loc' = DOMAIN loc
    BY <1>3, <2>1 DEF SyserrCalls
  <2>8. SyserrLocals'
    <3> HIDE DEF request, tests
    <3>1. loc'.done \in Nat
      BY <2>n, <2>7
    <3>2. loc'.tests \in Seq(AllTests')
      BY <2>n, <2>7 DEF tests
    <3> QED
      BY <2>1, <2>7, <3>1, <3>2 DEF SyserrLocals
  <2>9. ProgLocals'
    BY <2>1, <2>8, OneProgram
  <2> HIDE DEF request, tests
  <2> QED
    BY <2>1, <2>6, <2>9, CallKeeps
<1>4. ASSUME SyserrJudges PROVE ProgInv'
  <2> DEFINE tests == loc.tests
  <2>1. /\ pc' = "syserr begins" /\ loc'.tests = Tail(tests)
        /\ DOMAIN loc' = {"tests", "done", "failing", "fail"}
    BY <1>0, <1>4 DEF SyserrJudges, SyserrLocals, Calls
  <2>d. loc'.done = 0
    BY <1>0, <1>4 DEF SyserrJudges, SyserrLocals, Calls
  <2>t. tests \in Seq(AllTests) /\ tests # <<>>
    BY <1>0, <1>4 DEF SyserrJudges, SyserrLocals
  <2>2. SyserrLocals'
    <3> HIDE DEF tests
    <3>1. Tail(tests) \in Seq(AllTests)
      BY <2>t
    <3>2. loc'.tests \in Seq(AllTests)
      BY <2>1, <3>1
    <3>3. loc'.done \in Nat
      BY <2>d
    <3>4. DOMAIN loc' = {"tests", "done", "failing", "fail"}
      BY <2>1
    <3> QED
      BY <3>2, <3>3, <3>4 DEF SyserrLocals
  <2>3. ProgLocals'
    BY <2>1, <2>2, OneProgram
  <2> QED
    BY <1>4, <2>3, CallKeeps DEF SyserrJudges, Calls, Call
<1> QED
  BY <1>1, <1>2, <1>3, <1>4 DEF Syserr

----------------------------------------------------------------------------
(* fish, the program that makes any calls, and the kernel *)

LEMMA FishKeeps ==
    ASSUME ProgInv, Fish
    PROVE  ProgInv'
<1>n. 1 \in Counts /\ INT_SIZE \in Counts /\ INT_SIZE \in Nat
  <2>1. 1 \in Counts /\ INT_SIZE \in Counts
    BY FishAssumption
  <2> QED
    BY <2>1, DescriptorsAssumption
<1>0. FdInv /\ OpenInv0 /\ FishLocals /\ -1 \in BadFds
  BY PidsAre DEF ProgInv, ProgLocals
<1>a. ASSUME Call, UNCHANGED <<session, shell, cmd>>, FishLocals',
             pc' \in FishPcs \ {"fish opens rtc", "fish opens first", "fish opens second"}
      PROVE  ProgInv'
  <2>1. OpenInv0'
    BY <1>a DEF OpenInv0, Quiet, FishPcs
  <2> QED
    BY <1>a, <2>1, OneProgram, CallKeeps
<1>b. ASSUME NEW name, Open(Pid, name), UNCHANGED <<session, shell, cmd>>, FishLocals',
             pc' \in {"fish opens rtc", "fish opens first", "fish opens second"}
      PROVE  ProgInv'
  <2>1. OpenInv0'
    BY <1>b, OpenReturns DEF OpenInv0, Quiet
  <2> QED
    BY <1>b, <2>1, OneProgram, CallKeeps DEF FishPcs, Call
<1>c. ASSUME Runs(Pid), UNCHANGED fdVars PROVE Call
  BY <1>c DEF Call
<1>1. ASSUME FishBegins PROVE ProgInv'
  <2>1. PICK frames \in Frames : Calls("fish opens rtc", [frames |-> frames])
    BY <1>1 DEF FishBegins
  <2>2. FishLocals'
    BY <2>1 DEF Calls, FishLocals
  <2> QED
    BY <1>1, <1>b, <2>1, <2>2 DEF FishBegins, Calls
<1>2. ASSUME FishOpensFirst PROVE ProgInv'
  <2>1. reply.value \in Fds \cup {-1} /\ loc.frames \in Frames
    BY <1>0, <1>2 DEF FishOpensFirst, OpenInv0, Quiet, FishLocals
  <2>2. FishLocals'
    BY <1>2, <2>1 DEF FishOpensFirst, Calls, FishLocals
  <2> QED
    BY <1>2, <1>b, <2>2 DEF FishOpensFirst, Calls
<1>3. ASSUME FishOpensSecond PROVE ProgInv'
  <2>1. /\ reply.value \in Fds /\ loc.frames \in Frames /\ loc.rtc \in Fds \cup {-1}
    BY <1>0, <1>3 DEF FishOpensSecond, OpenInv0, Quiet, FishLocals
  <2>2. FishLocals'
    BY <1>3, <2>1 DEF FishOpensSecond, Calls, FishLocals
  <2> QED
    BY <1>3, <1>b, <2>2 DEF FishOpensSecond, Calls
<1>4. ASSUME FishCannotOpen \/ FishEnds PROVE ProgInv'
  BY <1>4, Ends DEF FishCannotOpen, FishEnds, Halt
<1>5. ASSUME FishLooks PROVE ProgInv'
  <2>1. /\ reply.value \in Fds /\ loc.fd0 \in Fds /\ loc.rtc \in Fds \cup {-1}
    BY <1>0, <1>5 DEF FishLooks, OpenInv0, Quiet, FishLocals
  <2>l. /\ loc' = [frames |-> loc.frames, rtc |-> loc.rtc,
                   fd |-> <<loc.fd0, reply.value>>, file |-> 1,
                   c |-> <<NoNewline, NoNewline>>, eof |-> <<FALSE, FALSE>>,
                   row |-> 0, col |-> 0]
        /\ pc' = "fish looks"
    BY <1>5 DEF FishLooks, Calls
  <2>f. loc'.rtc = loc.rtc /\ loc'.fd = <<loc.fd0, reply.value>> /\ loc'.file = 1
    BY <2>l
  <2>d. DOMAIN loc' = {"frames", "rtc", "fd", "file", "c", "eof", "row", "col"}
    BY <2>l
  <2>2. FishLocals'
    <3>1. loc'.fd \in Fds \X Fds /\ loc'.file \in 1 .. 3 /\ loc'.rtc \in Fds \cup {-1}
      BY <2>1, <2>f
    <3> QED
      BY <2>l, <2>d, <3>1 DEF FishLocals
  <2> QED
    BY <1>5, <1>a, <1>c, <2>2 DEF FishLooks, Calls, FishPcs
\* While the pictures are read.
<1> DEFINE Weaving == /\ loc.rtc \in Fds \cup {-1}
                      /\ loc.fd \in Fds \X Fds
                      /\ loc.file \in 1 .. 3
                      /\ DOMAIN loc = {"frames", "rtc", "fd", "file", "c", "eof", "row", "col"}
<1>w. pc \in {"fish looks", "fish reads", "fish ends row"} => Weaving
  BY <1>0 DEF FishLocals
<1>d. ASSUME Weaving, DOMAIN loc' = DOMAIN loc, loc'.rtc = loc.rtc, loc'.fd = loc.fd,
             loc'.file \in 1 .. 3, pc' \in {"fish looks", "fish reads", "fish ends row"},
             pc' = "fish reads" => loc'.file <= 2
      PROVE  FishLocals'
  BY <1>d DEF FishLocals
<1>f. ASSUME Weaving, loc.file <= 2
      PROVE  loc.fd[loc.file] \in Fds /\ loc.file + 1 \in 1 .. 3
  <2>1. loc.file \in {1, 2}
    BY <1>f
  <2> QED
    BY <1>f, <2>1
<1>6. ASSUME FishReads PROVE ProgInv'
  <2>1. Weaving /\ loc.fd[loc.file] \in Fds /\ loc.file <= 2
    BY <1>6, <1>w, <1>f DEF FishReads
  <2>2. loc' = loc /\ pc' = "fish reads" /\ UNCHANGED <<session, shell, cmd>>
    BY <1>6 DEF FishReads, Calls
  <2>3. FishLocals'
    BY <1>d, <2>1, <2>2
  <2>4. Call
    BY <1>n, <1>6, <2>1 DEF FishReads, Call
  <2> HIDE DEF Weaving
  <2> QED
    BY <1>a, <2>2, <2>3, <2>4 DEF FishPcs
<1>7. ASSUME FishSkips PROVE ProgInv'
  <2>1. Weaving /\ loc.file + 1 \in 1 .. 3
    BY <1>7, <1>w, <1>f DEF FishSkips
  <2>2. /\ DOMAIN loc' = DOMAIN loc /\ loc'.rtc = loc.rtc /\ loc'.fd = loc.fd
        /\ loc'.file = loc.file + 1 /\ pc' = "fish looks"
    BY <1>7, <2>1 DEF FishSkips, Calls
  <2>3. FishLocals'
    BY <1>d, <2>1, <2>2
  <2> QED
    BY <1>7, <1>a, <1>c, <2>2, <2>3 DEF FishPcs, FishSkips, Calls
<1>8. ASSUME FishTakes PROVE ProgInv'
  <2>0. pc = "fish reads" => loc.file <= 2
    BY <1>0 DEF FishLocals
  <2>1. Weaving /\ loc.file + 1 \in 1 .. 3
    BY <1>8, <1>w, <1>f, <2>0 DEF FishTakes
  <2>2. /\ DOMAIN loc' = DOMAIN loc /\ loc'.rtc = loc.rtc /\ loc'.fd = loc.fd
        /\ loc'.file = loc.file + 1 /\ pc' = "fish looks"
    BY <1>8, <2>1 DEF FishTakes, Calls
  <2>3. FishLocals'
    BY <1>d, <2>1, <2>2
  <2> QED
    BY <1>8, <1>a, <1>c, <2>2, <2>3 DEF FishPcs, FishTakes, Calls
<1>9. ASSUME FishPlaces PROVE ProgInv'
  <2>1. Weaving
    BY <1>9, <1>w DEF FishPlaces
  <2>2. /\ DOMAIN loc' = DOMAIN loc /\ loc'.rtc = loc.rtc /\ loc'.fd = loc.fd
        /\ pc' = "fish looks"
    BY <1>9, <2>1 DEF FishPlaces, Calls
  <2>e. loc'.file = 1
    BY <1>9, <2>1 DEF FishPlaces, Calls
  <2>f. loc'.file \in 1 .. 3
    BY <2>e
  <2>3. FishLocals'
    BY <1>d, <2>1, <2>2, <2>f
  <2> QED
    BY <1>9, <1>a, <1>c, <2>2, <2>3 DEF FishPcs, FishPlaces, Calls
<1>10. ASSUME FishEndsRow PROVE ProgInv'
  <2>1. Weaving
    BY <1>10, <1>w DEF FishEndsRow
  <2>2. /\ DOMAIN loc' = DOMAIN loc /\ loc'.rtc = loc.rtc /\ loc'.fd = loc.fd
        /\ pc' = "fish ends row"
    BY <1>10, <2>1 DEF FishEndsRow, Calls
  <2>e. loc'.file = 1
    BY <1>10, <2>1 DEF FishEndsRow, Calls
  <2>f. loc'.file \in 1 .. 3
    BY <2>e
  <2>3. FishLocals'
    BY <1>d, <2>1, <2>2, <2>f
  <2> QED
    BY <1>10, <1>a, <1>c, <2>2, <2>3 DEF FishPcs, FishEndsRow, Calls
<1>11. ASSUME FishCloses PROVE ProgInv'
  <2>1. Weaving /\ loc.fd[loc.file] \in Fds /\ loc.file + 1 \in 1 .. 3
    BY <1>11, <1>w, <1>f DEF FishCloses
  <2>2. /\ DOMAIN loc' = DOMAIN loc /\ loc'.rtc = loc.rtc /\ loc'.fd = loc.fd
        /\ loc'.file = loc.file + 1 /\ pc' = "fish ends row"
        /\ UNCHANGED <<session, shell, cmd>>
    BY <1>11, <2>1 DEF FishCloses, Calls
  <2>3. FishLocals'
    BY <1>d, <2>1, <2>2
  <2>4. Call
    BY <1>11, <2>1 DEF FishCloses, Call
  <2> HIDE DEF Weaving
  <2> QED
    BY <1>a, <2>2, <2>3, <2>4 DEF FishPcs
<1>12. ASSUME FishGoesOn PROVE ProgInv'
  <2>1. Weaving /\ loc.file + 1 \in 1 .. 3
    BY <1>12, <1>w, <1>f DEF FishGoesOn
  <2>2. /\ DOMAIN loc' = DOMAIN loc /\ loc'.rtc = loc.rtc /\ loc'.fd = loc.fd
        /\ loc'.file = loc.file + 1 /\ pc' = "fish ends row"
    BY <1>12, <2>1 DEF FishGoesOn, Calls
  <2>3. FishLocals'
    BY <1>d, <2>1, <2>2
  <2> QED
    BY <1>12, <1>a, <1>c, <2>2, <2>3 DEF FishPcs, FishGoesOn, Calls
<1>13. ASSUME FishNextRow PROVE ProgInv'
  <2>1. Weaving
    BY <1>13, <1>w DEF FishNextRow
  <2>2. /\ DOMAIN loc' = DOMAIN loc /\ loc'.rtc = loc.rtc /\ loc'.fd = loc.fd
        /\ pc' = "fish looks"
    BY <1>13, <2>1 DEF FishNextRow, Calls
  <2>e. loc'.file = 1
    BY <1>13, <2>1 DEF FishNextRow, Calls
  <2>f. loc'.file \in 1 .. 3
    BY <2>e
  <2>3. FishLocals'
    BY <1>d, <2>1, <2>2, <2>f
  <2> QED
    BY <1>13, <1>a, <1>c, <2>2, <2>3 DEF FishPcs, FishNextRow, Calls
<1> HIDE DEF Weaving
<1>14. ASSUME FishSetsRate PROVE ProgInv'
  <2>1. /\ loc.rtc \in Fds \cup {-1} /\ Write(Pid, loc.rtc, INT_SIZE)
        /\ UNCHANGED <<session, shell, cmd>>
    BY <1>0, <1>14 DEF FishSetsRate, FishLocals, Calls
  <2>2. FishLocals' /\ pc' = "fish waits"
    BY <1>14, <2>1 DEF FishSetsRate, Calls, FishLocals
  <2>3. Call
    BY <1>0, <1>n, <2>1 DEF Call
  <2> QED
    BY <1>a, <2>1, <2>2, <2>3 DEF FishPcs
<1>15. ASSUME FishWaits PROVE ProgInv'
  <2>1. /\ loc.rtc \in Fds \cup {-1} /\ Read(Pid, loc.rtc, INT_SIZE)
        /\ UNCHANGED <<session, shell, cmd>>
    BY <1>0, <1>15 DEF FishWaits, FishLocals, Calls
  <2>2. FishLocals' /\ pc' = "fish ticks"
    BY <1>0, <1>15 DEF FishWaits, Calls, FishLocals
  <2>3. Call
    BY <1>0, <1>n, <2>1 DEF Call
  <2> QED
    BY <1>a, <2>1, <2>2, <2>3 DEF FishPcs
<1>16. ASSUME FishTicks \/ FishActs PROVE ProgInv'
  <2>1. loc.rtc \in Fds \cup {-1} /\ DOMAIN loc = {"frames", "rtc", "act", "i"}
    BY <1>0, <1>16 DEF FishTicks, FishActs, FishLocals
  <2>2. loc'.rtc = loc.rtc /\ DOMAIN loc' = DOMAIN loc /\ pc' = "fish waits"
    BY <1>16, <2>1 DEF FishTicks, FishActs, Calls
  <2>3. FishLocals'
    BY <2>1, <2>2 DEF FishLocals
  <2> QED
    BY <1>16, <1>a, <1>c, <2>2, <2>3 DEF FishPcs, FishTicks, FishActs, Calls
<1>17. ASSUME FishClosesRtc PROVE ProgInv'
  <2>1. /\ loc.rtc \in Fds \cup {-1} /\ Close(Pid, loc.rtc) /\ UNCHANGED <<session, shell, cmd>>
    BY <1>0, <1>17 DEF FishClosesRtc, FishLocals, Calls
  <2>2. FishLocals' /\ pc' = "fish ends"
    BY <1>0, <1>17 DEF FishClosesRtc, Calls, FishLocals
  <2>3. Call
    BY <1>0, <1>n, <2>1 DEF Call
  <2> QED
    BY <1>a, <2>1, <2>2, <2>3 DEF FishPcs
<1> QED
  BY <1>1, <1>2, <1>3, <1>4, <1>5, <1>6, <1>7, <1>8, <1>9, <1>10, <1>11, <1>12, <1>13, <1>14,
     <1>15, <1>16, <1>17 DEF Fish

LEMMA AnyKeeps ==
    ASSUME ProgInv, AnyOpens \/ AnyOpensDir \/ AnyCall \/ AnyHalts \/ AnyFaults
    PROVE  ProgInv'
<1>0. FdInv /\ ShellInv /\ Free \subseteq Fds \cup BadFds /\ Counts \subseteq Nat
  BY DescriptorsAssumption DEF ProgInv, Free
<1>1. CASE AnyOpens \/ AnyOpensDir
  <2>1. ProgLocals'
    BY <1>1, OneProgram DEF AnyOpens, AnyOpensDir, Calls
  <2> QED
    BY <1>1, <2>1, CallKeeps DEF AnyOpens, AnyOpensDir, Calls, Call
<1>2. CASE AnyCall
  <2>1. Call
    BY <1>0, <1>2 DEF AnyCall, Call
  <2>2. pc' = "any" /\ UNCHANGED <<session, shell, cmd>>
    BY <1>2 DEF AnyCall, shellVars
  <2>3. ProgLocals'
    BY <2>2, OneProgram
  <2> QED
    BY <2>1, <2>2, <2>3, CallKeeps
<1>3. CASE AnyHalts
  BY <1>3, Ends DEF AnyHalts, Halt
<1>4. CASE AnyFaults
  <2>1. /\ fds \in Tables /\ reader = Pid /\ Pid \in Pids /\ ShellPid \in Pids \ {Pid}
        /\ Pid \in live /\ FaultInCopy /\ Pid # Nobody
    BY <1>0, <1>4, PidsAre DEF AnyFaults, FaultInCopy, ShellInv, FdInv, FdTypeOK, Tables
  <2>2. FdInv'
    BY <1>0, <2>1, FaultInCopyInv
  <2>3. /\ live' = live \ {Pid} /\ fds'[ShellPid] = fds[ShellPid] /\ reader' = Nobody
    BY <2>1 DEF FaultInCopy, kill_current_proc, Tables
  <2>4. shell = "waiting"
    BY <1>0, <2>1, PidsAre DEF ShellInv
  <2>5. Standing(ShellPid)'
    BY <1>0, <2>3, <2>4 DEF ShellInv, Standing
  <2>6. ShellInv'
    BY <1>0, <1>4, <2>1, <2>3, <2>4, <2>5 DEF ShellInv, Typed, AnyFaults
  <2>7. ProgLocals'
    BY <1>4, OneProgram DEF AnyFaults
  <2> QED
    BY <2>2, <2>6, <2>7 DEF ProgInv
<1> QED
  BY <1>1, <1>2, <1>3, <1>4

\* No program loses what it knows while the kernel reads for it.
LEMMA KernelKeeps ==
    ASSUME ProgInv, KernelReads
    PROVE  ProgInv'
<1>0. /\ FdInv /\ ShellInv /\ ProgLocals /\ BUFSIZE \in Nat /\ UNCHANGED <<pc, loc>>
  BY PidsAre DEF ProgInv, KernelReads, shellVars
<1>1. /\ FdInv' /\ ShellInv' /\ reader = Pid /\ Pid # Nobody
      /\ \A n \in Nat : Reads(n) => Reads(n)'
  BY <1>0, PidsAre, KernelReadsKeeps
<1>2. OpenInv0'
  BY <1>0, <1>1 DEF ProgLocals, OpenInv0
<1>3. CatLocals'
  <2>1. Reads(BUFSIZE) => Reads(BUFSIZE)'
    BY <1>0, <1>1
  <2> QED
    BY <1>0, <2>1 DEF ProgLocals, CatLocals
<1>4. GrepLocals'
  <2>1. ASSUME pc = "grep reads"
        PROVE  Reads(BUFSIZE - loc.last)'
    <3>1. Buffered /\ Reads(BUFSIZE - loc.last)
      BY <1>0, <2>1 DEF ProgLocals, GrepLocals
    <3>2. loc.last \in 0 .. BUFSIZE
      BY <3>1 DEF Buffered
    <3>b. BUFSIZE \in Nat
      BY <1>0
    <3>3. BUFSIZE - loc.last \in Nat
      BY <3>b, <3>2
    <3>4. PICK n \in Nat : n = BUFSIZE - loc.last
      BY <3>3
    <3>5. Reads(n)'
      BY <1>1, <3>1, <3>4
    <3> QED
      BY <1>0, <3>4, <3>5 DEF Reads
  <2> QED
    BY <1>0, <2>1 DEF ProgLocals, GrepLocals, Buffered
<1>5. SyserrLocals'
  BY <1>0 DEF ProgLocals, SyserrLocals
<1>6. FishLocals'
  BY <1>0 DEF ProgLocals, FishLocals
<1> QED
  BY <1>1, <1>2, <1>3, <1>4, <1>5, <1>6 DEF ProgInv, ProgLocals

LEMMA ProgNextInv == ProgInv /\ [ProgramsNext]_programVars => ProgInv'
<1> SUFFICES ASSUME ProgInv, [ProgramsNext]_programVars PROVE ProgInv'
  OBVIOUS
<1>1. CASE UNCHANGED programVars
  <2>1. UNCHANGED <<fdVars, live, fds, reader, rd, reply, session, shell, cmd, pc, loc>>
    BY <1>1 DEF programVars, fdVars, shellVars
  <2>2. FdInv'
    BY <2>1, FdNextInv DEF ProgInv
  <2>3. ShellInv'
    BY <2>1 DEF ProgInv, ShellInv, Standing, Typed
  <2>4. ProgLocals'
    BY <2>1, ZenonT(60)
       DEF ProgInv, ProgLocals, OpenInv0, CatLocals, GrepLocals, SyserrLocals, FishLocals, Reads,
           Buffered, Standing
  <2> QED
    BY <2>2, <2>3, <2>4 DEF ProgInv
<1>2. CASE ProgramSteps
  BY <1>2, CatKeeps, GrepKeeps, SyserrKeeps, FishKeeps, KernelKeeps DEF ProgramSteps, Syserr
<1>3. CASE OtherSteps
  <2>1. SigtestFaults => ProgInv'
    BY Ends DEF SigtestFaults
  <2> QED
    BY <1>3, <2>1, ShellStepsKeep, SyserrKeeps, AnyKeeps DEF OtherSteps, Syserr
<1> QED
  BY <1>1, <1>2, <1>3 DEF ProgramsNext

\* Whatever the shell and its programs do, on any image: a read that was asked for
\* puts nothing but the next piece of its file into the program's buffer, across
\* the restarts of the shell, Ctrl+C and faults (syscalls.c, fs.c, ece391*.c).
THEOREM ProgramsReadTheirFiles == ProgramsSpec => []CopyIsPrefix
<1>1. ProgInv => CopyIsPrefix
  BY DEF ProgInv, FdInv
<1> QED
  BY <1>1, ProgInitInv, ProgNextInv, PTL DEF ProgramsSpec

\* grep never goes behind its buffer: what it asks for and what it was given fit,
\* and lines begin in it (ece391grep.c).
THEOREM GrepStaysInBuffer == ProgramsSpec => []GrepLocals
<1>1. ProgInv => GrepLocals
  BY DEF ProgInv, ProgLocals
<1> QED
  BY <1>1, ProgInitInv, ProgNextInv, PTL DEF ProgramsSpec

----------------------------------------------------------------------------
(* cat and ls print what they were asked for *)

\* The program cat or ls looks at a descriptor of n things of its file taken.
CatDesc(d, n) ==
    LET de == FirstDentry(File) IN
    /\ d.open
    /\ File \in Openable
    /\ n \in 0 .. Items(de)
    /\ de.type = FILE_REGULAR =>
            d.ftable = "regular" /\ d.inode = de.inode /\ d.pos = n /\ get_inode(de.inode)
    /\ de.type = FILE_DIRECTORY => d.ftable = "dir" /\ d.pos = n
    /\ de.type = FILE_RTC => d.ftable = "rtc"

\* The k things of the file behind the first n.
CatPart(n, k) == [i \in 1 .. k |-> Item(FirstDentry(File), n + i)]

\* s is the next part of the file behind the first n things.
CatPiece(s, n) == Len(s) \in Nat /\ s = CatPart(n, Len(s))

CatWritten ==
    /\ CatPiece(out, 0)
    /\ out # <<>> => Len(out) <= Items(FirstDentry(File))

\* What cat knows when read() has returned, and while it copies.
CatHasRead ==
    IF reply.value = -1 THEN ~Readable(File)
    ELSE /\ CatPiece(reply.taken, Len(out))
         /\ File \in Openable
         /\ Len(out) + Len(reply.taken) <= Items(FirstDentry(File))
         /\ reply.value = 0 => Len(out) = Items(FirstDentry(File))
         /\ reply.value > 0 => CatDesc(fds[Pid][loc.fd], Len(out) + Len(reply.taken))

CatIsReading == rd.fd = loc.fd /\ rd.length > 0 /\ CatDesc(fds[Pid][loc.fd], Len(out))

CatOpened ==
    IF reply.value = -1 THEN ~Readable(File) ELSE CatDesc(fds[Pid][reply.value], 0)

CatInv ==
    cmd.program \in {"cat", "ls"} =>
        /\ pc \in {"none", "start"} \cup CatPcs
        /\ shell # "off"
        /\ pc # "none" <=> shell = "waiting"
        /\ CatWritten
        /\ pc \in {"start", "cat opens"} => out = <<>>
        /\ pc = "cat opens" => CatOpened
        /\ pc = "cat reads" => IF reader = Pid THEN CatIsReading ELSE CatHasRead
        /\ pc = "cat writes" => reader = Nobody /\ CatDesc(fds[Pid][loc.fd], Len(out))
        /\ shell = "prompt" =>
                /\ said = "nothing" => File \in Openable /\ Len(out) = Items(FirstDentry(File))
                /\ said = "abnormally" => ~Readable(File)
        /\ shell = "waiting" => said = "nothing"

LEMMA CatFile ==
    ASSUME ShellInv, cmd.program \in {"cat", "ls"}
    PROVE  File \in Names /\ Chunk \in Nat /\ Chunk > 0
BY ShellAssumption, ImageAssumption DEF ShellInv, Typed, File, Chunk

LEMMA CatOpensIt ==
    ASSUME FdInv, ShellInv, Standing(Pid), cmd.program \in {"cat", "ls"}, Open(Pid, File)
    PROVE  IF reply'.value = -1 THEN ~Readable(File) ELSE CatDesc(fds'[Pid][reply'.value], 0)
<1>0. /\ fds \in Tables /\ Pid \in Pids /\ 2 \in Fds /\ Fds \subseteq Nat
      /\ -1 \notin Fds /\ Len(dentries) \in Nat
  BY PidsAre, ImageAssumption DEF FdInv, FdTypeOK, Tables, Fds
<1>1. CASE NoDentry(File) \/ \A fd \in Fds : fds[Pid][fd].open
  <2>1. ~fds[Pid][2].open
    BY <1>0 DEF Standing
  <2>2. NoDentry(File)
    BY <1>0, <1>1, <2>1
  <2>3. ~Readable(File)
    BY <2>2 DEF Readable, Openable
  <2>4. reply'.value = -1
    <3>1. ASSUME NEW i \in 1 .. Len(dentries), read_dentry_by_name(File, i) PROVE FALSE
      BY <2>2, <3>1 DEF NoDentry, read_dentry_by_name
    <3> QED
      BY <3>1 DEF Open, Returns
  <2> QED
    BY <2>3, <2>4
<1>2. CASE \E i \in 1 .. Len(dentries), fd \in Fds :
            read_dentry_by_name(File, i) /\ alloc_fd(Pid, fd) /\ OpenDentry(Pid, fd, dentries[i])
  <2>1. PICK i \in 1 .. Len(dentries), fd \in Fds :
            read_dentry_by_name(File, i) /\ alloc_fd(Pid, fd) /\ OpenDentry(Pid, fd, dentries[i])
    BY <1>2
  <2> DEFINE de == dentries[i]
  <2>2. FirstDentry(File) = de /\ ~NoDentry(File) /\ de.inode \in Nat /\ fds[Pid][fd] \in FileDesc
    BY <1>0, <2>1, FirstDentryIs, DentryType DEF Dentry, Tables
  <2>3. File \in Names
    BY CatFile
  <2>4. CASE de.type = FILE_REGULAR /\ FileChecks(de.inode)
    <3>1. file_open(Pid, fd, de.inode) /\ reply'.value = fd
      BY <2>1, <2>4 DEF OpenDentry, Returns, FILE_REGULAR, FILE_DIRECTORY, FILE_RTC
    <3>2. fds'[Pid][fd] = Opened("regular", de.inode)
      BY <1>0, <3>1 DEF file_open, SetDesc, Tables
    <3>3. get_inode(de.inode) /\ inodes[de.inode].size \in Nat
      BY <2>2, <2>4, ImageAssumption DEF FileChecks, get_inode
    <3>4. 0 \in 0 .. Items(de)
      BY <2>4, <3>3 DEF Items
    <3>5. CatDesc(Opened("regular", de.inode), 0)
      BY <2>2, <2>3, <2>4, <3>3, <3>4
         DEF CatDesc, Opened, Openable, FILE_REGULAR, FILE_DIRECTORY, FILE_RTC
    <3> QED
      BY <1>0, <3>1, <3>2, <3>5
  <2>5. CASE de.type = FILE_REGULAR /\ ~FileChecks(de.inode)
    <3>1. reply'.value = -1
      BY <2>1, <2>5 DEF OpenDentry, Returns, FILE_REGULAR, FILE_DIRECTORY, FILE_RTC
    <3>2. ~GoodFile(de.inode)
      BY <2>2, <2>5, GoodFilePasses
    <3> QED
      BY <2>2, <2>5, <3>1, <3>2 DEF Readable
  <2>6. CASE de.type = FILE_DIRECTORY
    <3>1. dir_open(Pid, fd, de.inode) /\ reply'.value = fd
      BY <2>1, <2>6 DEF OpenDentry, Returns, FILE_REGULAR, FILE_DIRECTORY, FILE_RTC
    <3>2. fds'[Pid][fd] = Opened("dir", de.inode)
      BY <1>0, <3>1 DEF dir_open, SetDesc, Tables
    <3>4. 0 \in 0 .. Items(de)
      BY <1>0, <2>6 DEF Items, FILE_REGULAR, FILE_DIRECTORY
    <3>5. CatDesc(Opened("dir", de.inode), 0)
      BY <2>2, <2>3, <2>6, <3>4
         DEF CatDesc, Opened, Openable, FILE_REGULAR, FILE_DIRECTORY, FILE_RTC
    <3> QED
      BY <1>0, <3>1, <3>2, <3>5
  <2>7. CASE de.type = FILE_RTC
    <3>1. rtc_open(Pid, fd) /\ reply'.value = fd
      BY <2>1, <2>7 DEF OpenDentry, Returns, FILE_REGULAR, FILE_DIRECTORY, FILE_RTC
    <3> DEFINE d == [fds[Pid][fd] EXCEPT !.open = TRUE, !.ftable = "rtc"]
    <3>2. fds'[Pid][fd] = d
      BY <1>0, <3>1 DEF rtc_open, SetDesc, Tables
    <3>3. d.open /\ d.ftable = "rtc"
      BY <2>2 DEF FileDesc
    <3>4. 0 \in 0 .. Items(de)
      BY <2>7 DEF Items, FILE_REGULAR, FILE_DIRECTORY, FILE_RTC
    <3> HIDE DEF d
    <3>5. CatDesc(d, 0)
      BY <2>2, <2>3, <2>7, <3>3, <3>4
         DEF CatDesc, Openable, FILE_REGULAR, FILE_DIRECTORY, FILE_RTC
    <3> QED
      BY <1>0, <3>1, <3>2, <3>5
  <2>8. CASE de.type \notin {FILE_REGULAR, FILE_DIRECTORY, FILE_RTC}
    <3>1. reply'.value = -1
      BY <2>1, <2>8 DEF OpenDentry, Returns
    <3> QED
      BY <2>2, <2>8, <3>1 DEF Readable, Openable
  <2> QED
    BY <2>4, <2>5, <2>6, <2>7, <2>8
<1> QED
  BY <1>1, <1>2 DEF Open

\* The next read takes the next part of the file, or finds its end.
LEMMA CatReadsIt ==
    ASSUME FdInv, ShellInv, cmd.program \in {"cat", "ls"}, NEW fd \in Fds,
           CatDesc(fds[Pid][fd], Len(out)), Read(Pid, fd, Chunk),
           loc'.fd = fd, UNCHANGED <<out, cmd>>
    PROVE  IF reader' = Pid THEN CatIsReading' ELSE CatHasRead'
<1> DEFINE d == fds[Pid][fd]
           n == Len(out)
           de == FirstDentry(File)
<1>0. /\ fds \in Tables /\ Pid \in Pids /\ d \in FileDesc /\ Pid # Nobody
      /\ File \in Names /\ Chunk \in Nat /\ Chunk > 0
      /\ Len(dentries) \in Nat /\ DENTRY_NAME_LEN \in Nat \ {0}
  BY PidsAre, CatFile, ImageAssumption DEF FdInv, FdTypeOK, Tables
<1>1. /\ d.open /\ File \in Openable /\ n \in 0 .. Items(de)
      /\ de.type = FILE_REGULAR =>
            d.ftable = "regular" /\ d.inode = de.inode /\ d.pos = n /\ get_inode(de.inode)
      /\ de.type = FILE_DIRECTORY => d.ftable = "dir" /\ d.pos = n
      /\ de.type = FILE_RTC => d.ftable = "rtc"
  BY DEF CatDesc
<1>2. de.type \in {FILE_REGULAR, FILE_DIRECTORY, FILE_RTC}
  BY <1>1 DEF Openable
<1>p. /\ File' = File /\ de' = de /\ out' = out
      /\ \A e, k : CatDesc(e, k)' = CatDesc(e, k)
      /\ \A k, j : CatPart(k, j)' = CatPart(k, j)
  BY DEF File, CatDesc, Openable, CatPart
<1>q. Len(<<>>) = 0 /\ CatPart(n, 0) = <<>>
  BY DEF CatPart
\* It found the end.
<1>3. ASSUME reply'.value = 0, reply'.taken = <<>>, reader' = Nobody, n = Items(de)
      PROVE  CatHasRead'
  <2>1. CatPiece(<<>>, n)
    BY <1>q DEF CatPiece
  <2>2. CatPiece(reply.taken, Len(out))'
    BY <1>p, <1>3, <2>1 DEF CatPiece
  <2>3. n + Len(reply'.taken) = n
    BY <1>1, <1>3, <1>q
  <2> QED
    BY <1>1, <1>3, <1>p, <2>2, <2>3 DEF CatHasRead, Openable
<1>4. CASE de.type = FILE_REGULAR
  <2>1. file_read(Pid, fd, Chunk) /\ reader = Nobody
    BY <1>1, <1>4 DEF Read, NotOpen, TerminalRead, RtcRead, dir_read, file_read, Reaches, Runs
  <2>2. Items(de) = inodes[de.inode].size /\ inodes[de.inode].size \in Nat /\ d.inode = de.inode
    BY <1>0, <1>1, <1>4, ImageAssumption DEF Items, FileDesc, get_inode
  <2>3. CASE d.pos >= inodes[d.inode].size
            /\ JustReturns("read", Pid, fd, IF get_inode(d.inode) THEN 0 ELSE -1, <<>>)
    <3>1. n = Items(de)
      BY <1>1, <1>4, <2>2, <2>3
    <3>2. reply'.value = 0 /\ reply'.taken = <<>> /\ reader' = Nobody
      BY <1>1, <1>4, <2>1, <2>2, <2>3 DEF JustReturns, Returns
    <3> QED
      BY <1>0, <1>3, <3>1, <3>2
  <2>4. CASE /\ d.pos < inodes[d.inode].size /\ reader' = Pid
             /\ rd' = [fd |-> fd, length |-> Least(Chunk, inodes[d.inode].size - d.pos), count |-> 0,
                       blocknum |-> d.pos \div DATA_BLOCK_SIZE,
                       blockoffset |-> d.pos % DATA_BLOCK_SIZE]
             /\ UNCHANGED fds
    <3>1. inodes[d.inode].size - d.pos > 0
      BY <1>1, <1>4, <2>2, <2>4
    <3>2. Least(Chunk, inodes[d.inode].size - d.pos) > 0
      BY <1>0, <3>1 DEF Least
    <3>3. rd'.fd = fd /\ rd'.length > 0
      BY <2>4, <3>2
    <3>4. CatDesc(fds'[Pid][loc'.fd], Len(out'))
      BY <1>p, <2>4
    <3>5. CatDesc(fds[Pid][loc.fd], Len(out))'
      BY <1>p, <3>4 DEF CatDesc, File, Openable
    <3> QED
      BY <2>4, <3>3, <3>5 DEF CatIsReading
  <2> QED
    BY <1>1, <1>4, <2>1, <2>3, <2>4 DEF file_read
<1>5. CASE de.type = FILE_DIRECTORY
  <2>1. dir_read(Pid, fd, Chunk) /\ reader = Nobody
    BY <1>1, <1>5, <1>2 DEF Read, NotOpen, TerminalRead, RtcRead, dir_read, file_read, Reaches, Runs
  <2>2. Items(de) = Len(dentries)
    BY <1>5 DEF Items, FILE_REGULAR, FILE_DIRECTORY
  <2>3. CASE HasDentry(d.pos)
    <3> DEFINE e == [d EXCEPT !.pos = d.pos + 1]
               s == <<dentries[n + 1].name>>
    <3>1. /\ SetDesc(Pid, fd, e) /\ reader' = Nobody
          /\ reply'.value = Least(Chunk, DENTRY_NAME_LEN)
          /\ reply'.taken = s
      BY <1>1, <1>5, <2>1, <2>3 DEF dir_read, Returns
    <3>2. fds'[Pid][fd] = e
      BY <1>0, <3>1 DEF SetDesc, Tables
    <3>3. e.open /\ e.ftable = "dir" /\ e.pos = n + 1
      BY <1>0, <1>1, <1>5 DEF FileDesc
    <3>4. n + 1 \in 0 .. Items(de) /\ n \in Nat
      BY <1>0, <1>1, <1>5, <2>2, <2>3 DEF HasDentry
    <3>5. CatDesc(e, n + 1)
      <4> HIDE DEF e
      <4> QED
        BY <1>1, <1>5, <3>3, <3>4 DEF CatDesc, FILE_REGULAR, FILE_DIRECTORY, FILE_RTC
    <3>6. CatPart(n, 1) = s /\ Len(s) = 1
      <4>1. Item(de, n + 1) = dentries[n + 1].name
        BY <1>5 DEF Item, FILE_REGULAR, FILE_DIRECTORY
      <4>2. CatPart(n, 1) = [i \in 1 .. 1 |-> Item(de, n + i)]
        BY DEF CatPart
      <4>3. [i \in 1 .. 1 |-> Item(de, n + i)] = <<Item(de, n + 1)>>
        <5> HIDE DEF n, de
        <5> QED
          BY SMT
      <4> QED
        BY <4>1, <4>2, <4>3
    <3>7. CatPiece(s, n)
      BY <3>6 DEF CatPiece
    <3>8. CatPiece(reply.taken, Len(out))'
      BY <1>p, <3>1, <3>7 DEF CatPiece
    <3>9. reply'.value > 0 /\ reply'.value \in Nat
      BY <1>0, <3>1 DEF Least
    <3>10. n + Len(reply'.taken) = n + 1
      BY <3>1, <3>6
    <3>11. CatDesc(fds[Pid][loc.fd], Len(out) + Len(reply.taken))'
      <4>1. CatDesc(fds'[Pid][loc'.fd], Len(out') + Len(reply'.taken))
        BY <1>p, <3>2, <3>5, <3>10
      <4> QED
        BY <4>1 DEF CatDesc, File, Openable
    <3>12. reader' # Pid /\ reply'.value # -1 /\ reply'.value # 0
      BY <1>0, <3>1, <3>9
    <3>13. Len(out') + Len(reply'.taken) <= Items(FirstDentry(File'))
      BY <1>0, <1>p, <2>2, <3>4, <3>10
    <3> HIDE DEF e, s
    <3> QED
      BY <1>1, <1>p, <3>8, <3>11, <3>12, <3>13 DEF CatHasRead, Openable
  <2>4. CASE ~HasDentry(d.pos)
    <3>1. n = Items(de)
      BY <1>0, <1>1, <1>5, <2>2, <2>4 DEF HasDentry
    <3>2. reply'.value = 0 /\ reply'.taken = <<>> /\ reader' = Nobody
      BY <2>1, <2>4 DEF dir_read, JustReturns, Returns
    <3> QED
      BY <1>0, <1>3, <3>1, <3>2
  <2> QED
    BY <2>3, <2>4
<1>6. CASE de.type = FILE_RTC
  <2>1. RtcRead(Pid, fd) /\ reader = Nobody
    BY <1>1, <1>6 DEF Read, NotOpen, TerminalRead, RtcRead, dir_read, file_read, Reaches, Runs
  <2>2. reply'.value = 0 /\ reply'.taken = <<>> /\ reader' = Nobody
    BY <2>1 DEF RtcRead, JustReturns, Returns
  <2>3. Items(de) = 0
    BY <1>6 DEF Items, FILE_REGULAR, FILE_DIRECTORY, FILE_RTC
  <2>4. n = Items(de)
    BY <1>1, <2>3
  <2> QED
    BY <1>0, <1>3, <2>2, <2>4
<1> QED
  BY <1>2, <1>4, <1>5, <1>6

\* A finished part joins what was written.
LEMMA CatParts ==
    ASSUME NEW n \in Nat, NEW s, CatPiece(s, n), CatPiece(out, 0), n = Len(out)
    PROVE  CatPiece(out \o s, 0) /\ Len(out \o s) = n + Len(s)
<1> DEFINE f(i) == Item(FirstDentry(File), i)
           m == Len(s)
<1>1. m \in Nat /\ s = [i \in 1 .. m |-> f(n + i)] /\ out = [i \in 1 .. n |-> f(0 + i)]
  BY DEF CatPiece, CatPart
<1> HIDE DEF m, f
<1>2. /\ Len([i \in 1 .. n |-> f(0 + i)] \o [i \in 1 .. m |-> f(n + i)]) = n + m
      /\ [i \in 1 .. n |-> f(0 + i)] \o [i \in 1 .. m |-> f(n + i)] = [i \in 1 .. n + m |-> f(0 + i)]
  <2>1. /\ Len([i \in 1 .. n |-> f(0 + i)]) = n
        /\ Len([i \in 1 .. m |-> f(n + i)]) = m
    BY <1>1, SMT
  <2> QED
    BY <1>1, <2>1, SMT
<1>3. Len(out \o s) = n + m /\ out \o s = [i \in 1 .. n + m |-> f(0 + i)]
  BY <1>1, <1>2
<1>4. n + m \in Nat
  BY <1>1
<1> QED
  BY <1>3, <1>4 DEF CatPiece, CatPart, f, m

\* The kernel copies for cat.
LEMMA CatKernel ==
    ASSUME FdInv, ShellInv, cmd.program \in {"cat", "ls"}, CatIsReading, KernelReads,
           loc.fd \in Fds
    PROVE  IF reader' = Pid THEN CatIsReading' ELSE CatHasRead'
<1> DEFINE d == fds[Pid][loc.fd]
           n == Len(out)
           de == FirstDentry(File)
<1>0. /\ fds \in Tables /\ Pid \in Pids /\ Pid # Nobody /\ rd \in Locals /\ d \in FileDesc
      /\ File \in Names
  BY PidsAre, CatFile DEF FdInv, FdTypeOK, Tables
<1>1. /\ reader = Pid /\ Reading = d /\ rd.fd = loc.fd
  BY PidsAre DEF KernelReads, CopyBlock, CopyBadBlock, FinishRead, ShellInv, Reading, CatIsReading
<1>2. /\ d.ftable = "regular" /\ get_inode(d.inode) /\ d.pos + rd.length <= inodes[d.inode].size
      /\ \A i \in 1 .. rd.count : buf[i] = FileByte(d.inode, d.pos + i - 1)
      /\ buf \in [1 .. rd.count -> Bytes]
  BY <1>0, <1>1 DEF FdInv, FdTypeOK, CopyIsPrefix
<1>3. /\ File \in Openable /\ de.type = FILE_REGULAR /\ d.inode = de.inode /\ d.pos = n
      /\ n \in 0 .. Items(de) /\ rd.length > 0
  BY <1>2 DEF CatIsReading, CatDesc, Openable
<1>p. /\ File' = File /\ de' = de /\ out' = out /\ loc' = loc /\ cmd' = cmd
  BY DEF File, KernelReads, shellVars
<1>4. CASE CopyBlock
  <2>1. reader' = Pid /\ rd'.fd = rd.fd /\ rd'.length = rd.length /\ fds' = fds
    BY <1>0, <1>1, <1>4 DEF CopyBlock, memcpy_block, Locals
  <2> QED
    BY <1>p, <2>1 DEF CatIsReading, CatDesc, File, Openable
<1>5. CASE CopyBadBlock
  <2>1. ~GoodFile(de.inode)
    BY <1>1, <1>3, <1>5, NoBadBlock
  <2>2. ~Readable(File)
    BY <1>3, <2>1 DEF Readable
  <2>3. reply'.value = -1 /\ reader' = Nobody
    BY <1>5 DEF CopyBadBlock, Returns
  <2> QED
    BY <1>0, <1>p, <2>2, <2>3 DEF CatHasRead, Readable, Openable
<1>6. CASE FinishRead
  <2> DEFINE e == [d EXCEPT !.pos = d.pos + rd.count]
  <2>1. /\ reader' = Nobody /\ reply'.value = rd.count /\ reply'.taken = buf
        /\ rd.count = rd.length /\ SetDesc(Pid, loc.fd, e)
    BY <1>1, <1>6 DEF FinishRead, Returns
  <2>i. Items(de) = inodes[d.inode].size
    <3>1. Items(de) = inodes[de.inode].size
      BY <1>3 DEF Items, FILE_REGULAR, FILE_DIRECTORY
    <3>2. d.inode = de.inode
      BY <1>3
    <3> QED
      BY <3>1, <3>2
  <2>2. rd.count \in Nat /\ rd.count > 0 /\ n \in Nat /\ Items(de) \in Nat
    <3>1. Items(de) \in Nat
      <4>1. d.inode \in Nat /\ n_inodes \in Nat /\ d.inode < n_inodes
        BY <1>0, <1>2, ImageAssumption DEF FileDesc, get_inode
      <4>2. d.inode \in 0 .. n_inodes - 1
        <5> HIDE DEF d
        <5> QED
          BY <4>1
      <4> QED
        BY <2>i, <4>2, ImageAssumption
    <3>2. rd.count \in Nat
      BY <1>0 DEF Locals
    <3> HIDE DEF d, n, de
    <3> QED
      BY <1>3, <2>1, <3>1, <3>2
  <2>3. fds'[Pid][loc.fd] = e
    BY <1>0, <2>1 DEF SetDesc, Tables
  <2>4. e.open /\ e.ftable = "regular" /\ e.inode = de.inode /\ e.pos = n + rd.count
    BY <1>0, <1>2, <1>3 DEF FileDesc, CatIsReading, CatDesc
  <2>5. n + rd.count \in 0 .. Items(de)
    <3>1. n + rd.length <= Items(de)
      BY <1>2, <1>3, <2>i
    <3> HIDE DEF n, de
    <3> QED
      BY <2>1, <2>2, <3>1
  <2>6. CatDesc(e, n + rd.count)
    <3> HIDE DEF e
    <3> QED
      BY <1>2, <1>3, <2>4, <2>5 DEF CatDesc, FILE_REGULAR, FILE_DIRECTORY, FILE_RTC
  <2>7. CatPiece(buf, n) /\ Len(buf) = rd.count
    <3>1. Len(buf) = rd.count
      BY <1>2, <2>2, SMT
    <3>2. ASSUME NEW i \in 1 .. rd.count PROVE buf[i] = Item(de, n + i)
      <4>1. buf[i] = FileByte(de.inode, n + i - 1)
        BY <1>2, <1>3
      <4> QED
        BY <1>3, <4>1 DEF Item
    <3>3. buf = [i \in 1 .. rd.count |-> Item(de, n + i)]
      BY <1>2, <3>2
    <3> QED
      BY <2>2, <3>1, <3>3 DEF CatPiece, CatPart
  <2>8. CatPiece(reply.taken, Len(out))'
    BY <1>p, <2>1, <2>7 DEF CatPiece, CatPart
  <2>9. CatDesc(fds[Pid][loc.fd], Len(out) + Len(reply.taken))'
    <3>1. CatDesc(fds'[Pid][loc'.fd], Len(out') + Len(reply'.taken))
      BY <1>p, <2>1, <2>3, <2>6, <2>7
    <3> QED
      BY <1>p, <3>1 DEF CatDesc, File, Openable
  <2>10. Len(out') + Len(reply'.taken) <= Items(FirstDentry(File'))
    <3>1. Len(out') + Len(reply'.taken) = n + rd.count
      BY <1>p, <2>1, <2>7
    <3> HIDE DEF n
    <3> QED
      BY <1>p, <2>2, <2>5, <3>1
  <2>11. reader' # Pid /\ reply'.value # -1 /\ reply'.value # 0
    BY <1>0, <2>1, <2>2
  <2> HIDE DEF e
  <2> QED
    BY <1>3, <1>p, <2>8, <2>9, <2>10, <2>11 DEF CatHasRead, Openable
<1> QED
  BY <1>4, <1>5, <1>6 DEF KernelReads

\* A step of another program, or one that shows nothing to cat.
LEMMA CatStays ==
    /\ UNCHANGED cmd /\ cmd.program \notin {"cat", "ls"} => CatInv'
    /\ CatInv /\ UNCHANGED <<fds, reader, rd, reply, shellVars>> => CatInv'
<1>1. UNCHANGED cmd /\ cmd.program \notin {"cat", "ls"} => CatInv'
  BY DEF CatInv
<1>2. ASSUME CatInv, UNCHANGED <<fds, reader, rd, reply, shellVars>> PROVE CatInv'
  BY <1>2, ZenonT(60)
     DEF CatInv, shellVars, CatWritten, CatPiece, CatPart, CatOpened, CatHasRead, CatIsReading,
         CatDesc, File, Openable, Readable
<1> QED
  BY <1>1, <1>2

\* The program ends.
LEMMA CatEndsWith ==
    ASSUME CatInv, cmd.program \in {"cat", "ls"}, NEW status \in Nat, EndsWith(status),
           status = 0 => File \in Openable /\ Len(out) = Items(FirstDentry(File)),
           status \notin {0, 256} => ~Readable(File)
    PROVE  CatInv'
<1>1. /\ pc' = "none" /\ shell' = "prompt" /\ said' = Message(status)
      /\ UNCHANGED <<cmd, loc, out>>
  BY DEF EndsWith
<1>2. File' = File /\ CatWritten'
  BY <1>1 DEF CatInv, CatWritten, CatPiece, CatPart, File
<1>3. said' = "nothing" => status = 0
  BY <1>1 DEF Message
<1>4. said' = "abnormally" => status \notin {0, 256}
  BY <1>1 DEF Message
<1> QED
  BY <1>1, <1>2, <1>3, <1>4, ZenonT(60) DEF CatInv, Readable, Openable, CatPcs

LEMMA CatStep ==
    ASSUME ProgInv, CatInv, cmd.program \in {"cat", "ls"}, Cat
    PROVE  CatInv'
<1>0. /\ FdInv /\ ShellInv /\ OpenInv0 /\ CatLocals /\ Pid # Nobody
      /\ pc \in {"none", "start"} \cup CatPcs /\ CatWritten
      /\ pc # "none" => shell = "waiting" /\ said = "nothing"
  BY PidsAre DEF ProgInv, ProgLocals, CatInv
<1>e. Len(<<>>) = 0
  OBVIOUS
\* A call that is made leaves these to show.
<1>c. ASSUME NEW call \in CatPcs, pc # "none", pc' = call, UNCHANGED <<session, shell, said, cmd>>,
             CatWritten',
             call = "cat opens" => out' = <<>> /\ CatOpened',
             call = "cat reads" => IF reader' = Pid THEN CatIsReading' ELSE CatHasRead',
             call = "cat writes" => reader' = Nobody /\ CatDesc(fds[Pid][loc.fd], Len(out))'
      PROVE  CatInv'
  BY <1>0, <1>c DEF CatInv, CatPcs
<1>1. CASE CatOpens
  <2>1. /\ Standing(Pid) /\ Open(Pid, File) /\ out = <<>> /\ pc = "start" /\ pc' = "cat opens"
        /\ UNCHANGED <<session, shell, said, cmd, out>>
    BY <1>0, <1>1 DEF CatOpens, Starts, Calls, OpenInv0, Quiet, CatInv
  <2>2. IF reply'.value = -1 THEN ~Readable(File) ELSE CatDesc(fds'[Pid][reply'.value], 0)
    BY <1>0, <2>1, CatOpensIt
  <2>3. CatOpened'
    BY <2>1, <2>2 DEF CatOpened, CatDesc, File, Readable, Openable
  <2>4. CatWritten'
    BY <1>0, <2>1 DEF CatWritten, CatPiece, CatPart, File
  <2> QED
    BY <1>c, <2>1, <2>3, <2>4 DEF CatPcs
<1>2. CASE CannotOpen
  <2>1. pc = "cat opens" /\ reply.value = -1 /\ EndsWith(2)
    <3>1. 2 % 256 = 2
      BY SMT
    <3> QED
      BY <1>0, <1>2, <3>1 DEF CannotOpen, Got, Halt, CatPcs
  <2>2. 2 \in Nat /\ 2 # 0
    OBVIOUS
  <2>3. ~Readable(File)
    BY <2>1 DEF CatInv, CatOpened
  <2> QED
    BY <2>1, <2>2, <2>3, CatEndsWith
<1>3. CASE CatReadsFirst
  <2>1. /\ pc = "cat opens" /\ reply.value \in Fds /\ Read(Pid, reply.value, Chunk)
        /\ pc' = "cat reads" /\ loc' = [fd |-> reply.value] /\ out = <<>>
        /\ CatDesc(fds[Pid][reply.value], 0)
        /\ UNCHANGED <<session, shell, said, cmd, out>>
    BY <1>0, <1>3 DEF CatReadsFirst, Calls, OpenInv0, Quiet, CatInv, CatOpened
  <2>2. loc'.fd = reply.value
    BY <2>1
  <2>3. CatDesc(fds[Pid][reply.value], Len(out))
    BY <1>e, <2>1
  <2>4. IF reader' = Pid THEN CatIsReading' ELSE CatHasRead'
    BY <1>0, <2>1, <2>2, <2>3, CatReadsIt
  <2>5. CatWritten'
    BY <1>0, <2>1 DEF CatWritten, CatPiece, CatPart, File
  <2> QED
    BY <1>c, <2>1, <2>4, <2>5 DEF CatPcs
<1>4. CASE CatWrites
  <2>1. /\ pc = "cat reads" /\ reader = Nobody /\ reply.value > 0 /\ Write(Pid, 1, reply.value)
        /\ out' = out \o reply.taken /\ pc' = "cat writes" /\ loc' = loc
        /\ UNCHANGED <<session, shell, said, cmd>>
    BY <1>4 DEF CatWrites, Runs, Prints, Calls
  <2>2. UNCHANGED fds /\ reader' = Nobody
    BY <2>1 DEF Write, NotOpen, Reaches, Runs, JustReturns
  <2>3. CatHasRead /\ reply.value # -1
    <3>1. CatHasRead
      BY <1>0, <2>1 DEF CatInv
    <3>2. reply.value \in Nat \cup {-1} /\ reply.value > 0
      BY <1>0, <2>1 DEF FdInv, FdTypeOK
    <3>3. reply.value # -1
      BY <3>2
    <3> QED
      BY <3>1, <3>3
  <2>4. /\ CatPiece(reply.taken, Len(out))
        /\ CatDesc(fds[Pid][loc.fd], Len(out) + Len(reply.taken))
        /\ Len(out) + Len(reply.taken) <= Items(FirstDentry(File))
    BY <2>1, <2>3 DEF CatHasRead
  <2>5. CatPiece(out, 0) /\ Len(out) \in Nat
    BY <1>0 DEF CatWritten, CatPiece
  <2>6. /\ CatPiece(out \o reply.taken, 0)
        /\ Len(out \o reply.taken) = Len(out) + Len(reply.taken)
    BY <2>4, <2>5, CatParts
  <2>7. CatWritten'
    BY <2>1, <2>4, <2>6 DEF CatWritten, CatPiece, CatPart, File
  <2>8. CatDesc(fds[Pid][loc.fd], Len(out))'
    BY <2>1, <2>2, <2>4, <2>6 DEF CatDesc, File, Openable
  <2> QED
    BY <1>c, <2>1, <2>2, <2>7, <2>8 DEF CatPcs
<1>5. CASE CatReads
  <2>1. /\ pc = "cat writes" /\ Read(Pid, loc.fd, Chunk) /\ pc' = "cat reads" /\ loc' = loc
        /\ loc.fd \in Fds /\ CatDesc(fds[Pid][loc.fd], Len(out))
        /\ UNCHANGED <<session, shell, said, cmd, out>>
    BY <1>0, <1>5 DEF CatReads, Calls, CatLocals, CatInv
  <2>2. IF reader' = Pid THEN CatIsReading' ELSE CatHasRead'
    BY <1>0, <2>1, CatReadsIt
  <2>3. CatWritten'
    BY <1>0, <2>1 DEF CatWritten, CatPiece, CatPart, File
  <2> QED
    BY <1>c, <2>1, <2>2, <2>3 DEF CatPcs
<1>6. CASE CatFails
  <2>1. pc = "cat reads" /\ reader = Nobody /\ reply.value = -1 /\ EndsWith(3)
    <3>1. 3 % 256 = 3
      BY SMT
    <3> QED
      BY <1>6, <3>1 DEF CatFails, Got, Runs, Halt
  <2>2. 3 \in Nat /\ 3 # 0
    OBVIOUS
  <2>3. ~Readable(File)
    BY <1>0, <2>1 DEF CatInv, CatHasRead
  <2> QED
    BY <2>1, <2>2, <2>3, CatEndsWith
<1>7. CASE CatEnds
  <2>1. pc = "cat reads" /\ reader = Nobody /\ reply.value = 0 /\ EndsWith(0)
    <3>1. 0 % 256 = 0
      BY SMT
    <3> QED
      BY <1>7, <3>1 DEF CatEnds, Got, Runs, Halt
  <2>2. 0 \in Nat /\ 0 # -1
    OBVIOUS
  <2>3. File \in Openable /\ Len(out) = Items(FirstDentry(File))
    BY <1>0, <2>1, <2>2 DEF CatInv, CatHasRead
  <2> QED
    BY <2>1, <2>2, <2>3, CatEndsWith
<1> QED
  BY <1>1, <1>2, <1>3, <1>4, <1>5, <1>6, <1>7 DEF Cat

LEMMA CatShellSteps ==
    ASSUME ProgInv, CatInv, ShellSteps
    PROVE  CatInv'
<1>0. ShellInv
  BY DEF ProgInv
<1>e. /\ CatPiece(<<>>, 0)
      /\ out' = <<>> => CatWritten'
  <2>1. Len(<<>>) = 0
    OBVIOUS
  <2>2. CatPart(0, 0) = <<>>
    BY DEF CatPart
  <2>3. CatPiece(<<>>, 0)
    BY <2>1, <2>2 DEF CatPiece
  <2>4. ASSUME out' = <<>> PROVE CatWritten'
    <3>1. CatPart(0, 0)' = <<>>
      BY DEF CatPart
    <3> QED
      BY <2>1, <2>4, <3>1 DEF CatPiece, CatWritten
  <2> QED
    BY <2>3, <2>4
<1>1. CASE Boot
  <2>1. shell = "off" /\ UNCHANGED cmd
    BY <1>1 DEF Boot
  <2> QED
    BY <2>1, CatStays DEF CatInv
<1>2. ASSUME NEW c \in session, UnknownCommand(c) PROVE CatInv'
  <2>1. /\ said' = "no such command" /\ out' = <<>> /\ shell' = "prompt" /\ pc' = "none"
    BY <1>0, <1>2 DEF UnknownCommand, ShellInv
  <2> QED
    BY <1>e, <2>1 DEF CatInv, CatPcs
<1>3. ASSUME NEW c \in session, Execute(c) PROVE CatInv'
  <2>1. /\ said' = "nothing" /\ out' = <<>> /\ shell' = "waiting" /\ pc' = "start"
    BY <1>3 DEF Execute
  <2> QED
    BY <1>e, <2>1 DEF CatInv, CatPcs
<1>4. CASE ShellRestarts
  <2>1. shell = "prompt" /\ pc = "none" /\ UNCHANGED shellVars
    BY <1>0, <1>4 DEF ShellRestarts, ShellInv
  <2> QED
    BY <2>1
       DEF CatInv, shellVars, CatWritten, CatPiece, CatPart, File, Openable, Readable, CatPcs
<1>5. CASE KilledByCtrlC
  <2>1. EndsWith(256) /\ UNCHANGED cmd
    BY <1>5 DEF KilledByCtrlC, EndsWith
  <2>2. 256 \in Nat /\ 256 # 0
    BY SMT
  <2> QED
    BY <2>1, <2>2, CatEndsWith, CatStays
<1> QED
  BY <1>1, <1>2, <1>3, <1>4, <1>5 DEF ShellSteps

LEMMA CatNextInv == ProgInv /\ CatInv /\ [ProgramsNext]_programVars => CatInv'
<1> SUFFICES ASSUME ProgInv, CatInv, [ProgramsNext]_programVars PROVE CatInv'
  OBVIOUS
<1>0. /\ FdInv /\ ShellInv /\ OpenInv0 /\ CatLocals /\ Pid # Nobody
  BY PidsAre DEF ProgInv, ProgLocals
<1>1. CASE UNCHANGED programVars
  BY <1>1, CatStays DEF programVars, fdVars
<1>2. CASE ShellSteps
  BY <1>2, CatShellSteps
<1>3. CASE Cat
  <2>1. CannotOpen => UNCHANGED cmd
    BY DEF CannotOpen, Halt, EndsWith
  <2>2. CatFails \/ CatEnds => UNCHANGED cmd
    BY DEF CatFails, CatEnds, Halt, EndsWith
  <2>3. UNCHANGED cmd
    BY <1>3, <2>1, <2>2 DEF Cat, CatOpens, CatReadsFirst, CatWrites, CatReads, Calls
  <2> QED
    BY <1>3, <2>3, CatStays, CatStep
<1>4. CASE KernelReads
  <2>1. reader = Pid /\ UNCHANGED shellVars
    BY <1>0, <1>4 DEF KernelReads, CopyBlock, CopyBadBlock, FinishRead, ShellInv
  <2>2. CASE cmd.program \in {"cat", "ls"}
    <3>1. pc = "cat reads"
      <4>1. shell = "waiting"
        BY <1>0, <2>1, PidsAre DEF ShellInv, FdInv, FdTypeOK
      <4>2. pc # "none"
        BY <1>0, <1>4, <2>1, <2>2, <4>1 DEF CatInv
      <4> QED
        BY <1>0, <2>1, <2>2, <4>2 DEF CatInv, CatPcs, OpenInv0, Quiet
    <3>2. CatIsReading /\ loc.fd \in Fds
      BY <1>0, <2>1, <2>2, <3>1 DEF CatInv, CatLocals
    <3>3. IF reader' = Pid THEN CatIsReading' ELSE CatHasRead'
      BY <1>0, <1>4, <2>2, <3>2, CatKernel
    <3>4. CatWritten'
      BY <2>1, <2>2 DEF CatInv, shellVars, CatWritten, CatPiece, CatPart, File
    <3> QED
      BY <2>1, <2>2, <3>1, <3>3, <3>4 DEF CatInv, shellVars, CatPcs
  <2>3. CASE cmd.program \notin {"cat", "ls"}
    BY <2>1, <2>3, CatStays DEF shellVars
  <2> QED
    BY <2>2, <2>3
\* Every other step is one of a program that is not cat.
<1>5. ASSUME Grep PROVE CatInv'
  <2>1. cmd.program \notin {"cat", "ls"}
    BY <1>5
       DEF Grep, GrepOpensDir, Starts, CatInv, CatPcs, GrepReadsFirst, GrepSkips, GrepGoesOn,
           GrepOpens, GrepReadsFile, GrepReadsOn, GrepTakes, GrepMovesDown, GrepPrints, GrepPasses,
           GrepCloses, GrepFails, GrepEnds, Got
  <2>2. GrepFails \/ GrepEnds => UNCHANGED cmd
    BY DEF GrepFails, GrepEnds, Halt, EndsWith
  <2>3. UNCHANGED cmd
    BY <1>5, <2>2
       DEF Grep, GrepOpensDir, GrepReadsFirst, GrepSkips, GrepGoesOn, GrepReadsDir,
           GrepOpens, GrepReadsFile, GrepReadsOn, GrepTakes, GrepMovesDown, GrepPrints, GrepPasses,
           GrepCloses, Calls, NextLine
  <2> QED
    BY <2>1, <2>3, CatStays
<1>6. ASSUME Syserr PROVE CatInv'
  <2>1. cmd.program \notin {"cat", "ls"}
    BY <1>6
       DEF Syserr, SyserrChooses, SyserrRefuses, SyserrCalls, SyserrJudges, SyserrEnds, Starts,
           CatInv, CatPcs
  <2>2. SyserrRefuses \/ SyserrEnds => UNCHANGED cmd
    BY DEF SyserrRefuses, SyserrEnds, Halt, EndsWith
  <2>3. UNCHANGED cmd
    BY <1>6, <2>2 DEF Syserr, SyserrChooses, SyserrCalls, SyserrJudges, Calls
  <2> QED
    BY <2>1, <2>3, CatStays
<1>7. ASSUME Fish PROVE CatInv'
  <2>1. cmd.program \notin {"cat", "ls"} /\ UNCHANGED cmd
    <3>1. FishEnds \/ FishCannotOpen => UNCHANGED cmd
      BY DEF FishEnds, FishCannotOpen, Halt, EndsWith
    <3>2. UNCHANGED cmd
      BY <1>7, <3>1
         DEF Fish, FishBegins, FishOpensFirst, FishOpensSecond, FishLooks, FishReads, FishSkips,
             FishTakes, FishPlaces, FishEndsRow, FishCloses, FishGoesOn, FishNextRow, FishSetsRate,
             FishWaits, FishTicks, FishActs, FishClosesRtc, Calls
    <3>3. cmd.program \notin {"cat", "ls"}
      BY <1>7
         DEF Fish, FishBegins, FishOpensFirst, FishOpensSecond, FishLooks, FishReads, FishSkips,
             FishTakes, FishPlaces, FishEndsRow, FishCloses, FishGoesOn, FishNextRow, FishSetsRate,
             FishWaits, FishTicks, FishActs, FishClosesRtc, FishEnds, FishCannotOpen, Got, Starts,
             CatInv, CatPcs
    <3> QED
      BY <3>2, <3>3
  <2> QED
    BY <2>1, CatStays
<1>8. ASSUME AnyOpens \/ AnyOpensDir \/ AnyCall \/ AnyHalts \/ AnyFaults \/ SigtestFaults
      PROVE  CatInv'
  <2>1. cmd.program \notin {"cat", "ls"}
    BY <1>8
       DEF AnyOpens, AnyOpensDir, AnyCall, AnyHalts, AnyFaults, SigtestFaults, Starts, CatInv, CatPcs
  <2>2. AnyHalts \/ SigtestFaults => UNCHANGED cmd
    BY DEF AnyHalts, SigtestFaults, Halt, EndsWith
  <2>3. UNCHANGED cmd
    BY <1>8, <2>2 DEF AnyOpens, AnyOpensDir, AnyCall, AnyFaults, Calls, shellVars
  <2> QED
    BY <2>1, <2>3, CatStays
<1> QED
  BY <1>1, <1>2, <1>3, <1>4, <1>5, <1>6, <1>7, <1>8
     DEF ProgramsNext, ProgramSteps, OtherSteps, Syserr

\* cat prints its file and ls the directory on any image, in blocks and buffers of
\* any size: what was written is always the beginning of it, all of it when the
\* program ends by itself, and it fails only for what cannot be read
\* (ece391cat.c, ece391ls.c, fs.c).
THEOREM CatPrints == ProgramsSpec => []CatPrintsFile
<1>1. ProgramsInit => CatInv
  BY DEF ProgramsInit, ShellInit, NoCommand, CatInv
<1>2. ProgInv /\ CatInv => CatPrintsFile
  <2> SUFFICES ASSUME ProgInv, CatInv, cmd.program \in {"cat", "ls"} PROVE CatPrintsFile
    BY DEF CatPrintsFile
  <2>1. CatPiece(out, 0) /\ Len(out) \in Nat
    BY DEF CatInv, CatWritten, CatPiece
  <2>2. ASSUME NEW i \in 1 .. Len(out) PROVE out[i] = Item(FirstDentry(File), i)
    <3>1. out[i] = CatPart(0, Len(out))[i]
      BY <2>1 DEF CatPiece
    <3>2. CatPart(0, Len(out))[i] = Item(FirstDentry(File), 0 + i)
      BY DEF CatPart
    <3>3. 0 + i = i
      BY <2>1
    <3> QED
      BY <3>1, <3>2, <3>3
  <2>3. out # <<>> => Len(out) <= Items(FirstDentry(File))
    BY DEF CatInv, CatWritten
  <2>4. /\ shell = "prompt" /\ said = "nothing" =>
                File \in Openable /\ Len(out) = Items(FirstDentry(File))
        /\ said = "abnormally" => ~Readable(File)
    BY DEF CatInv, ProgInv, ShellInv
  <2> QED
    BY <2>2, <2>3, <2>4 DEF CatPrintsFile
<1> QED
  BY <1>1, <1>2, CatNextInv, ProgInitInv, ProgNextInv, PTL DEF ProgramsSpec

----------------------------------------------------------------------------
(* The programs on streams *)

\* Every step is one of FileDescriptors, but for the shell that starts again in its
\* PCB, which its descriptors show nothing of, and for grep, which opens whatever
\* read() gave it.
FdStep == [FdNext]_fdVars \/ ShellRestarts \/ GrepOpens

LEMMA CallsAre ==
    /\ \A name \in Names : Open(Pid, name) => FdNext
    /\ \A fd \in Fds \cup BadFds : Close(Pid, fd) => FdNext
    /\ \A fd \in Fds \cup BadFds, n \in Counts : Read(Pid, fd, n) \/ Write(Pid, fd, n) => FdNext
    /\ \A status : EndsWith(status) => FdNext
    /\ UNCHANGED fdVars => [FdNext]_fdVars
BY PidsAre DEF FdNext, EndsWith

LEMMA CatCalls ==
    ASSUME ProgInv, Cat
    PROVE  FdStep
<1>0. /\ FdInv /\ ShellInv /\ OpenInv0 /\ CatLocals
      /\ 0 .. BUFSIZE \subseteq Counts /\ Chunk \in Counts /\ 1 \in Fds
  BY PidsAre DEF ProgInv, ProgLocals, Chunk
<1>b. BUFSIZE \in Nat
  BY PidsAre
<1>1. CASE CatOpens
  <2>1. File \in Names /\ Open(Pid, File)
    BY <1>0, <1>1, CatFile DEF CatOpens, Starts
  <2> QED
    BY <2>1, CallsAre DEF FdStep
<1>2. CASE CannotOpen \/ CatFails \/ CatEnds
  BY <1>2, CallsAre DEF CannotOpen, CatFails, CatEnds, Halt, FdStep
<1>3. CASE CatReadsFirst
  <2>1. reply.value \in Fds /\ Read(Pid, reply.value, Chunk)
    BY <1>0, <1>3 DEF CatReadsFirst, OpenInv0, Quiet
  <2> QED
    BY <1>0, <2>1, CallsAre DEF FdStep
<1>4. CASE CatWrites
  <2>1. /\ pc = "cat reads" /\ reader = Nobody /\ reply.value > 0 /\ Write(Pid, 1, reply.value)
        /\ reply.value \in Nat \cup {-1}
    BY <1>0, <1>4 DEF CatWrites, Runs, Prints, FdInv, FdTypeOK
  <2>2. reply.value <= BUFSIZE
    BY <1>0, <2>1 DEF CatLocals, Reads
  <2>3. reply.value \in 0 .. BUFSIZE
    <3>1. reply.value \in Nat \cup {-1} /\ reply.value > 0
      BY <2>1
    <3> QED
      BY <1>b, <2>2, <3>1
  <2> QED
    BY <1>0, <2>1, <2>3, CallsAre DEF FdStep
<1>5. CASE CatReads
  <2>1. loc.fd \in Fds /\ Read(Pid, loc.fd, Chunk)
    BY <1>0, <1>5 DEF CatReads, CatLocals
  <2> QED
    BY <1>0, <2>1, CallsAre DEF FdStep
<1> QED
  BY <1>1, <1>2, <1>3, <1>4, <1>5 DEF Cat

LEMMA GrepCalls ==
    ASSUME ProgInv, Grep
    PROVE  FdStep
<1>0. /\ FdInv /\ ShellInv /\ OpenInv0 /\ GrepLocals
      /\ 0 .. BUFSIZE \subseteq Counts /\ DENTRY_NAME_LEN \in Counts /\ 1 \in Fds
  BY PidsAre DEF ProgInv, ProgLocals
<1>b. BUFSIZE \in Nat
  BY PidsAre
<1>c. BUFSIZE \in Counts
  BY <1>0, <1>b
<1>1. CASE GrepOpensDir
  BY <1>1, ShellAssumption, CallsAre DEF GrepOpensDir, FdStep
<1>2. CASE GrepReadsFirst
  <2>1. reply.value \in Fds /\ Read(Pid, reply.value, DENTRY_NAME_LEN)
    BY <1>0, <1>2 DEF GrepReadsFirst, GrepReadsDir, OpenInv0, Quiet
  <2> QED
    BY <1>0, <2>1, CallsAre DEF FdStep
<1>3. CASE GrepSkips \/ GrepGoesOn
  <2>1. loc.dir \in Fds /\ Read(Pid, loc.dir, DENTRY_NAME_LEN)
    BY <1>0, <1>3 DEF GrepSkips, GrepGoesOn, GrepReadsDir, GrepLocals
  <2> QED
    BY <1>0, <2>1, CallsAre DEF FdStep
<1>4. CASE GrepOpens
  BY <1>4 DEF FdStep
<1>5. CASE GrepReadsFile
  <2>1. reply.value \in Fds /\ Read(Pid, reply.value, BUFSIZE)
    BY <1>0, <1>5 DEF GrepReadsFile, OpenInv0, Quiet
  <2> QED
    BY <1>c, <2>1, CallsAre DEF FdStep
<1>6. CASE GrepReadsOn
  <2>1. Buffered /\ Read(Pid, loc.fd, BUFSIZE - loc.last)
    BY <1>0, <1>6 DEF GrepReadsOn, GrepLocals
  <2>2. loc.last \in 0 .. BUFSIZE /\ loc.fd \in Fds
    BY <2>1 DEF Buffered
  <2>3. BUFSIZE - loc.last \in 0 .. BUFSIZE
    BY <1>b, <2>2
  <2> QED
    BY <1>0, <2>1, <2>2, <2>3, CallsAre DEF FdStep
<1>7. CASE GrepTakes \/ GrepMovesDown \/ GrepPasses
  BY <1>7, CallsAre DEF GrepTakes, GrepMovesDown, GrepPasses, FdStep
<1>8. CASE GrepPrints
  <2>1. Buffered /\ loc.line_start \in 0 .. loc.last /\ Write(Pid, 1, Len(Line))
    BY <1>0, <1>8 DEF GrepPrints, Prints, GrepLocals
  <2>2. Len(Line) \in 0 .. BUFSIZE
    BY <1>b, <2>1, LineIs
  <2> QED
    BY <1>0, <2>1, <2>2, CallsAre DEF FdStep
<1>9. CASE GrepCloses
  <2>1. loc.fd \in Fds /\ Close(Pid, loc.fd)
    BY <1>0, <1>9 DEF GrepCloses, GrepLocals, Buffered
  <2> QED
    BY <2>1, CallsAre DEF FdStep
<1>10. CASE GrepFails \/ GrepEnds
  BY <1>10, CallsAre DEF GrepFails, GrepEnds, Halt, FdStep
<1> QED
  BY <1>1, <1>2, <1>3, <1>4, <1>5, <1>6, <1>7, <1>8, <1>9, <1>10 DEF Grep

LEMMA SyserrCallsAre ==
    ASSUME ProgInv, Syserr
    PROVE  FdStep
<1>0. SyserrLocals /\ BUFSIZE \in Counts
  <2>1. 0 .. BUFSIZE \subseteq Counts /\ BUFSIZE \in Nat
    BY PidsAre
  <2> QED
    BY <2>1 DEF ProgInv, ProgLocals
<1>1. CASE SyserrChooses \/ SyserrJudges
  BY <1>1, CallsAre DEF SyserrChooses, SyserrJudges, FdStep
<1>2. CASE SyserrRefuses \/ SyserrEnds
  BY <1>2, CallsAre DEF SyserrRefuses, SyserrEnds, Halt, FdStep
<1>3. CASE SyserrCalls
  <2> DEFINE request == Test.calls[loc.done + 1]
  <2>1. request \in Requests /\ Does(request)
    BY <1>0, <1>3, RequestIs DEF SyserrCalls
  <2> HIDE DEF request
  <2>2. Proper(request)
    BY <2>1 DEF Requests
  <2> QED
    BY <1>0, <2>1, <2>2, CallsAre DEF Does, Proper, FdStep
<1> QED
  BY <1>1, <1>2, <1>3 DEF Syserr

LEMMA FishCalls ==
    ASSUME ProgInv, Fish
    PROVE  FdStep
<1>0. FdInv /\ OpenInv0 /\ FishLocals /\ -1 \in BadFds /\ 1 \in Counts /\ INT_SIZE \in Counts
  BY PidsAre, FishAssumption DEF ProgInv, ProgLocals
<1>1. CASE FishBegins
  BY <1>1, FishAssumption, CallsAre DEF FishBegins, FdStep
<1>2. CASE FishOpensFirst \/ FishOpensSecond
  <2>1. loc.frames \in Frames
    BY <1>0, <1>2 DEF FishOpensFirst, FishOpensSecond, FishLocals
  <2>2. loc.frames[1] \in Names /\ loc.frames[2] \in Names
    BY <2>1, FishAssumption
  <2> QED
    BY <1>2, <2>2, CallsAre DEF FishOpensFirst, FishOpensSecond, FdStep
<1>3. CASE FishCannotOpen \/ FishEnds
  BY <1>3, CallsAre DEF FishCannotOpen, FishEnds, Halt, FdStep
<1>4. CASE FishReads \/ FishCloses
  <2>1. loc.fd \in Fds \X Fds /\ loc.file \in 1 .. 3 /\ loc.file <= 2
    BY <1>0, <1>4 DEF FishReads, FishCloses, FishLocals
  <2>2. loc.file \in {1, 2}
    BY <2>1
  <2>3. loc.fd[loc.file] \in Fds
    BY <2>1, <2>2
  <2> QED
    BY <1>0, <1>4, <2>3, CallsAre DEF FishReads, FishCloses, FdStep
<1>5. CASE FishSetsRate \/ FishWaits \/ FishClosesRtc
  <2>1. loc.rtc \in Fds \cup BadFds
    BY <1>0, <1>5 DEF FishSetsRate, FishWaits, FishClosesRtc, FishLocals
  <2> QED
    BY <1>0, <1>5, <2>1, CallsAre DEF FishSetsRate, FishWaits, FishClosesRtc, FdStep
<1>6. CASE \/ FishLooks \/ FishSkips \/ FishTakes \/ FishPlaces \/ FishEndsRow \/ FishGoesOn
           \/ FishNextRow \/ FishTicks \/ FishActs
  BY <1>6, CallsAre
     DEF FishLooks, FishSkips, FishTakes, FishPlaces, FishEndsRow, FishGoesOn, FishNextRow, FishTicks,
         FishActs, FdStep
<1> QED
  BY <1>1, <1>2, <1>3, <1>4, <1>5, <1>6 DEF Fish

LEMMA ProgramCalls ==
    ASSUME ProgInv, [ProgramsNext]_programVars
    PROVE  FdStep
<1>0. ShellInv
  BY DEF ProgInv
<1>1. CASE UNCHANGED programVars
  BY <1>1, CallsAre DEF programVars, FdStep
<1>2. CASE ShellSteps
  <2>1. Boot \/ (\E c \in session : UnknownCommand(c) \/ Execute(c)) => [FdNext]_fdVars
    BY PidsAre, CallsAre DEF Boot, UnknownCommand, Execute, FdNext
  <2>2. KilledByCtrlC => FdNext
    BY CallsAre DEF KilledByCtrlC
  <2> QED
    BY <1>2, <2>1, <2>2 DEF ShellSteps, FdStep
<1>3. CASE KernelReads
  BY <1>3 DEF KernelReads, FdNext, FdStep
<1>4. CASE SigtestFaults \/ AnyHalts
  BY <1>4, CallsAre DEF SigtestFaults, AnyHalts, Halt, FdStep
<1>5. CASE AnyOpens
  BY <1>0, <1>5, CallsAre DEF AnyOpens, Starts, FdStep, ProgInv, ShellInv, Typed
<1>6. CASE AnyOpensDir
  BY <1>6, ShellAssumption, CallsAre DEF AnyOpensDir, FdStep
<1>7. CASE AnyCall
  <2>1. Free \subseteq Fds \cup BadFds
    BY DEF Free
  <2> QED
    BY <1>7, <2>1, CallsAre DEF AnyCall, FdStep
<1>8. CASE AnyFaults
  BY <1>8 DEF AnyFaults, FdNext, FdStep
<1> QED
  BY <1>1, <1>2, <1>3, <1>4, <1>5, <1>6, <1>7, <1>8, CatCalls, GrepCalls, SyserrCallsAre, FishCalls
     DEF ProgramsNext, ProgramSteps, OtherSteps, Syserr

\* The shell that starts again has the descriptors it started with.
LEMMA RestartKeepsStreams ==
    ASSUME ProgInv, ShellRestarts
    PROVE  /\ UNCHANGED <<live, reply, reader>>
           /\ DescriptorsSound => DescriptorsSound'
           /\ AllStreams' = AllStreams
<1>0. /\ fds \in Tables /\ ShellPid \in Pids /\ Standing(ShellPid) /\ shell = "prompt"
      /\ live = {ShellPid}
  BY PidsAre DEF ProgInv, FdInv, FdTypeOK, Tables, ShellInv, ShellRestarts
<1>1. /\ pcb_init(ShellPid) /\ UNCHANGED <<live, reply, reader>>
  BY DEF ShellRestarts
<1>2. /\ Standing(ShellPid)' /\ fds' \in Tables
      /\ \A p \in Pids \ {ShellPid} : fds'[p] = fds[p]
  BY <1>0, <1>1, Initialised
\* Each of its descriptors is as it was, or closed before and after.
<1>3. ASSUME NEW p \in Pids, NEW fd \in Fds
      PROVE  \/ fds'[p][fd] = fds[p][fd]
             \/ ~fds'[p][fd].open /\ ~fds[p][fd].open
  BY <1>0, <1>2, <1>3 DEF Standing
<1>4. ASSUME NEW p \in Pids, NEW fd \in Fds
      PROVE  StreamOf(fds'[p][fd]) = StreamOf(fds[p][fd])
  <2>1. /\ fds[p][fd] \in FileDesc /\ fds'[p][fd] \in FileDesc
    BY <1>0, <1>2 DEF Tables
  <2> QED
    BY <1>3, <2>1, StreamKinds
<1>5. AllStreams' = AllStreams
  <2>1. AllStreams' = [p \in Pids |-> [fd \in Fds |-> StreamOf(fds'[p][fd])]]
    BY DEF AllStreams, StreamOf, RestOfFile, RestOfDir, FileByte
  <2> QED
    BY <1>4, <2>1 DEF AllStreams
<1>6. ASSUME DescriptorsSound PROVE DescriptorsSound'
  BY <1>1, <1>3, <1>6 DEF DescriptorsSound, SoundDesc, GoodFile, get_inode, get_block
<1> QED
  BY <1>1, <1>5, <1>6

\* open() keeps the descriptors sound whatever it is given.
LEMMA OpenKeepsSound ==
    ASSUME WellFormed, StreamsInv, NEW name, Open(Pid, name)
    PROVE  DescriptorsSound'
<1>1. Pid \in live /\ live' = live
  BY DEF Open, Runs
<1>2. CASE UNCHANGED fds
  BY <1>1, <1>2, SameTableSound DEF StreamsInv
<1>3. CASE \E i \in 1 .. Len(dentries), fd \in Fds : OpenDentry(Pid, fd, dentries[i])
  BY <1>1, <1>3, OpenDentrySound
<1> QED
  BY <1>2, <1>3 DEF Open

LEMMA ProgramsSoundNext ==
    ASSUME WellFormed, ProgInv, DescriptorsSound, [ProgramsNext]_programVars
    PROVE  DescriptorsSound'
<1>1. FdStep /\ StreamsInv
  BY ProgramCalls DEF StreamsInv, ProgInv
<1>2. CASE [FdNext]_fdVars
  BY <1>1, <1>2, StreamsNextInv DEF StreamsInv
<1>3. CASE GrepOpens
  BY <1>1, <1>3, OpenKeepsSound DEF GrepOpens
<1>4. CASE ShellRestarts
  BY <1>4, RestartKeepsStreams
<1> QED
  BY <1>1, <1>2, <1>3, <1>4 DEF FdStep

\* On an image without numbers out of range no program finds an open descriptor it
\* cannot use, and none that the last program left open (syscalls.c, processes.c).
THEOREM ProgramsKeepDescriptorsSound ==
    ASSUME WellFormed
    PROVE  ProgramsSpec => []DescriptorsSound
<1>1. ProgramsInit => DescriptorsSound
  BY StreamsInitInv DEF ProgramsInit, ShellInit, StreamsInv
<1>2. ProgInv /\ DescriptorsSound /\ [ProgramsNext]_programVars => DescriptorsSound'
  BY ProgramsSoundNext
<1> QED
  BY <1>1, <1>2, ProgInitInv, ProgNextInv, PTL DEF ProgramsSpec

----------------------------------------------------------------------------
(* grep opens names: what it reads of its directory is one *)

DirOpen(fd) == fd \in Fds /\ fds[Pid][fd].open /\ fds[Pid][fd].ftable = "dir"

DirInv ==
    /\ pc = "grep opens dir" => reply.value = -1 \/ DirOpen(reply.value)
    /\ pc \in GrepPcs \ {"grep opens dir"} => DirOpen(loc.dir)
    /\ pc \in GrepPcs \ {"grep reads"} => reader = Nobody
    /\ pc = "grep reads dir" /\ reply.value > 0 => Head(reply.taken) \in Names
    /\ pc = "grep opens" => reply.value # loc.dir
    /\ pc \in {"grep reads", "grep scans", "grep wants more", "grep at end"} => loc.fd # loc.dir
    /\ pc = "grep reads" /\ reader = Pid => rd.fd = loc.fd

\* Calls leave the other descriptors of the program as they are.
LEMMA OpenFrame ==
    ASSUME fds \in Tables, NEW name, Open(Pid, name), NEW g \in Fds, fds[Pid][g].open
    PROVE  fds'[Pid][g] = fds[Pid][g] /\ reply'.value # g
<1>0. Pid \in Pids /\ Fds \subseteq Nat /\ -1 \notin Fds
  BY PidsAre DEF Fds
<1>1. CASE \E i \in 1 .. Len(dentries), fd \in Fds :
            alloc_fd(Pid, fd) /\ OpenDentry(Pid, fd, dentries[i])
  <2>1. PICK i \in 1 .. Len(dentries), fd \in Fds :
            alloc_fd(Pid, fd) /\ OpenDentry(Pid, fd, dentries[i])
    BY <1>1
  <2>2. g # fd
    BY <2>1 DEF alloc_fd
  <2>3. UNCHANGED fds \/ \E d : SetDesc(Pid, fd, d)
    BY <2>1 DEF OpenDentry, file_open, file_open_fails, dir_open, rtc_open
  <2>4. reply'.value \in {fd, -1}
    BY <2>1 DEF OpenDentry, Returns
  <2> QED
    BY <1>0, <2>2, <2>3, <2>4 DEF SetDesc, Tables
<1>2. CASE Returns("open", Pid, -1, -1, <<>>) /\ UNCHANGED fds
  BY <1>0, <1>2 DEF Returns
<1> QED
  BY <1>1, <1>2 DEF Open

LEMMA CloseFrame ==
    ASSUME fds \in Tables, NEW fd, Close(Pid, fd), NEW g \in Fds \ {fd}
    PROVE  fds'[Pid][g] = fds[Pid][g]
<1>1. UNCHANGED fds \/ (fd \in Fds /\ SetDesc(Pid, fd, Shut(fds[Pid][fd])))
  BY DEF Close
<1> QED
  BY <1>1, PidsAre DEF SetDesc, Tables

LEMMA ReadFrame ==
    ASSUME fds \in Tables, NEW fd, NEW n, Read(Pid, fd, n), NEW g \in Fds \ {fd}
    PROVE  fds'[Pid][g] = fds[Pid][g] /\ (reader' = Pid => rd'.fd = fd)
<1>0. Pid \in Pids /\ Pid # Nobody
  BY PidsAre
<1>1. CASE dir_read(Pid, fd, n)
  <2>1. reader' = Nobody
    BY <1>1 DEF dir_read, JustReturns, Reaches, Runs
  <2>2. UNCHANGED fds \/ (fd \in Fds /\ SetDesc(Pid, fd, [fds[Pid][fd] EXCEPT !.pos = @ + 1]))
    BY <1>1 DEF dir_read, JustReturns, Reaches
  <2> QED
    BY <1>0, <2>1, <2>2 DEF SetDesc, Tables
<1>2. CASE file_read(Pid, fd, n)
  BY <1>0, <1>2 DEF file_read, JustReturns, Reaches, Runs
<1>3. CASE NotOpen("read", Pid, fd) \/ TerminalRead(Pid, fd, n) \/ RtcRead(Pid, fd)
  BY <1>0, <1>3 DEF NotOpen, TerminalRead, RtcRead, JustReturns, Reaches, Runs
<1> QED
  BY <1>1, <1>2, <1>3 DEF Read

LEMMA DirReadIs ==
    ASSUME fds \in Tables, NEW fd, DirOpen(fd), NEW n, Read(Pid, fd, n)
    PROVE  /\ reader' = Nobody
           /\ fds'[Pid][fd].open /\ fds'[Pid][fd].ftable = "dir"
           /\ reply'.value > 0 => Head(reply'.taken) \in Names
<1> DEFINE d == fds[Pid][fd]
<1>0. Pid \in Pids /\ Len(dentries) \in Nat /\ fd \in Fds /\ d \in FileDesc /\ d.ftable = "dir"
  BY PidsAre, ImageAssumption DEF DirOpen, Tables
<1>1. dir_read(Pid, fd, n)
  BY DEF DirOpen, Read, NotOpen, TerminalRead, RtcRead, file_read, Reaches
<1>2. reader' = Nobody
  BY <1>1 DEF dir_read, JustReturns, Reaches, Runs
<1>3. CASE HasDentry(d.pos)
  <2>1. SetDesc(Pid, fd, [d EXCEPT !.pos = d.pos + 1]) /\ reply'.taken = <<dentries[d.pos + 1].name>>
    BY <1>1, <1>3 DEF dir_read, Returns
  <2>2. fds'[Pid][fd].open /\ fds'[Pid][fd].ftable = "dir"
    BY <1>0, <2>1 DEF DirOpen, SetDesc, Tables, FileDesc
  <2>3. Head(reply'.taken) \in Names
    <3>1. d.pos + 1 \in 1 .. Len(dentries)
      <4>1. d.pos \in Nat /\ d.pos < Len(dentries)
        BY <1>0, <1>3 DEF FileDesc, HasDentry
      <4> QED
        BY <1>0, <4>1
    <3>2. dentries[d.pos + 1] \in Dentry
      BY <3>1, DentryType
    <3>3. dentries[d.pos + 1].name \in Names
      BY <3>2 DEF Dentry
    <3> QED
      BY <2>1, <3>3
  <2> QED
    BY <1>2, <2>2, <2>3
<1>4. CASE ~HasDentry(d.pos)
  <2>1. reply'.value = 0 /\ UNCHANGED fds
    BY <1>1, <1>4 DEF dir_read, JustReturns, Returns
  <2> QED
    BY <1>2, <2>1 DEF DirOpen
<1> QED
  BY <1>3, <1>4

\* What "." opens.
LEMMA DotOpens ==
    ASSUME DotIsDirectory, fds \in Tables, Open(Pid, ".")
    PROVE  \/ reply'.value = -1
           \/ /\ reply'.value \in Fds
              /\ fds'[Pid][reply'.value].open /\ fds'[Pid][reply'.value].ftable = "dir"
              /\ fds'[Pid][reply'.value].pos = 0
<1>0. Pid \in Pids
  BY PidsAre
<1>1. CASE Returns("open", Pid, -1, -1, <<>>)
  BY <1>1 DEF Returns
<1>2. CASE \E i \in 1 .. Len(dentries), fd \in Fds :
            read_dentry_by_name(".", i) /\ OpenDentry(Pid, fd, dentries[i])
  <2>1. PICK i \in 1 .. Len(dentries), fd \in Fds :
            read_dentry_by_name(".", i) /\ OpenDentry(Pid, fd, dentries[i])
    BY <1>2
  <2>2. dentries[i].type = FILE_DIRECTORY
    BY <2>1, FirstDentryIs DEF DotIsDirectory
  <2>3. dir_open(Pid, fd, dentries[i].inode) /\ reply'.value = fd
    BY <2>1, <2>2 DEF OpenDentry, Returns, FILE_REGULAR, FILE_DIRECTORY, FILE_RTC
  <2>4. fds'[Pid][fd] = Opened("dir", dentries[i].inode)
    BY <1>0, <2>3 DEF dir_open, SetDesc, Tables
  <2> QED
    BY <2>3, <2>4 DEF Opened
<1> QED
  BY <1>1, <1>2 DEF Open

LEMMA DirKeeps ==
    ASSUME DotIsDirectory, ProgInv, DirInv, Grep
    PROVE  DirInv'
<1>0. /\ fds \in Tables /\ OpenInv0 /\ GrepLocals /\ Pid # Nobody /\ -1 \notin Fds
  BY PidsAre DEF ProgInv, ProgLocals, FdInv, FdTypeOK, Tables, Fds
\* A step that makes no call.
<1>a. ASSUME UNCHANGED fdVars, Runs(Pid), DirOpen(loc.dir), loc'.dir = loc.dir,
             pc' \in {"grep scans", "grep wants more", "grep at end"}, loc'.fd # loc'.dir
      PROVE  DirInv'
  BY <1>a DEF DirInv, DirOpen, GrepPcs, fdVars, Runs
\* The directory is read again.
<1>b. ASSUME NEW dir, DirOpen(dir), NEW cut, GrepReadsDir(dir, cut) PROVE DirInv'
  <2>1. pc' = "grep reads dir" /\ loc'.dir = dir /\ Read(Pid, dir, DENTRY_NAME_LEN)
    BY <1>b DEF GrepReadsDir, Calls
  <2>2. /\ reader' = Nobody /\ fds'[Pid][dir].open /\ fds'[Pid][dir].ftable = "dir"
        /\ reply'.value > 0 => Head(reply'.taken) \in Names
    BY <1>0, <1>b, <2>1, DirReadIs
  <2> QED
    BY <1>b, <2>1, <2>2 DEF DirInv, DirOpen, GrepPcs
\* A file is read.
<1>c. ASSUME NEW fd \in Fds, NEW n, Read(Pid, fd, n), DirOpen(loc.dir), fd # loc.dir,
             pc' = "grep reads", loc'.dir = loc.dir, loc'.fd = fd
      PROVE  DirInv'
  <2>1. fds'[Pid][loc.dir] = fds[Pid][loc.dir] /\ (reader' = Pid => rd'.fd = fd)
    BY <1>0, <1>c, ReadFrame, ZenonT(60) DEF DirOpen
  <2> QED
    BY <1>c, <2>1 DEF DirInv, DirOpen, GrepPcs
<1>1. CASE GrepOpensDir
  <2>1. pc' = "grep opens dir" /\ Open(Pid, ".")
    BY <1>1 DEF GrepOpensDir, Calls
  <2>2. reader' = Nobody
    BY <2>1, OpenReturns
  <2>3. \/ reply'.value = -1
        \/ /\ reply'.value \in Fds
           /\ fds'[Pid][reply'.value].open /\ fds'[Pid][reply'.value].ftable = "dir"
    BY <1>0, <2>1, DotOpens
  <2> QED
    BY <2>1, <2>2, <2>3 DEF DirInv, DirOpen, GrepPcs
<1>2. CASE GrepReadsFirst
  <2>1. DirOpen(reply.value) /\ GrepReadsDir(reply.value, FALSE)
    BY <1>2 DEF GrepReadsFirst, DirInv
  <2> QED
    BY <1>b, <2>1
<1>3. CASE GrepSkips \/ GrepGoesOn
  <2>1. DirOpen(loc.dir) /\ GrepReadsDir(loc.dir, loc.cut)
    BY <1>3 DEF GrepSkips, GrepGoesOn, DirInv, GrepPcs
  <2> QED
    BY <1>b, <2>1
<1>4. CASE GrepOpens
  <2>1. /\ pc' = "grep opens" /\ Open(Pid, Head(reply.taken)) /\ DirOpen(loc.dir)
        /\ loc'.dir = loc.dir
    BY <1>4 DEF GrepOpens, Calls, DirInv, GrepPcs
  <2>2. reader' = Nobody
    BY <2>1, OpenReturns
  <2>3. fds'[Pid][loc.dir] = fds[Pid][loc.dir] /\ reply'.value # loc.dir
    BY <1>0, <2>1, OpenFrame DEF DirOpen
  <2> QED
    BY <2>1, <2>2, <2>3 DEF DirInv, DirOpen, GrepPcs
<1>5. CASE GrepReadsFile
  <2>1. /\ reply.value \in Fds /\ Read(Pid, reply.value, BUFSIZE) /\ DirOpen(loc.dir)
        /\ reply.value # loc.dir
    BY <1>0, <1>5 DEF GrepReadsFile, OpenInv0, Quiet, DirInv, GrepPcs
  <2>2. pc' = "grep reads" /\ loc'.dir = loc.dir /\ loc'.fd = reply.value
    <3>1. PICK junk \in Junk :
            loc' = [dir |-> loc.dir, cut |-> loc.cut, name |-> loc.name,
                    fd |-> reply.value, last |-> 0, line_start |-> 0, cnt |-> 0,
                    data |-> [i \in 0 .. BUFSIZE |-> junk]]
      BY <1>5 DEF GrepReadsFile, Calls
    <3>2. loc'.dir = loc.dir /\ loc'.fd = reply.value
      BY <3>1
    <3> QED
      BY <1>5, <3>2 DEF GrepReadsFile, Calls
  <2> QED
    BY <1>c, <2>1, <2>2
<1>6. CASE GrepReadsOn
  <2>1. /\ loc.fd \in Fds /\ Read(Pid, loc.fd, BUFSIZE - loc.last) /\ DirOpen(loc.dir)
        /\ loc.fd # loc.dir /\ pc' = "grep reads" /\ loc' = loc
    BY <1>0, <1>6 DEF GrepReadsOn, Calls, GrepLocals, Buffered, DirInv, GrepPcs
  <2> QED
    BY <1>c, <2>1
<1>7. CASE GrepTakes \/ GrepMovesDown
  <2>1. /\ DirOpen(loc.dir) /\ loc.fd # loc.dir
        /\ DOMAIN loc = {"dir", "cut", "name", "fd", "last", "line_start", "cnt", "data"}
    BY <1>0, <1>7 DEF GrepTakes, GrepMovesDown, GrepLocals, Buffered, DirInv, GrepPcs
  <2>2. /\ loc'.dir = loc.dir /\ loc'.fd = loc.fd /\ pc' \in {"grep scans", "grep wants more"}
        /\ UNCHANGED fdVars /\ Runs(Pid)
    BY <1>7, <2>1 DEF GrepTakes, GrepMovesDown, Calls
  <2> QED
    BY <1>a, <2>1, <2>2
<1>8. CASE GrepPrints \/ GrepPasses
  <2>1. /\ DirOpen(loc.dir) /\ loc.fd # loc.dir /\ reader = Nobody /\ NextLine
        /\ DOMAIN loc = {"dir", "cut", "name", "fd", "last", "line_start", "cnt", "data"}
    BY <1>0, <1>8 DEF GrepPrints, GrepPasses, GrepLocals, Buffered, DirInv, GrepPcs
  <2>2. /\ loc'.dir = loc.dir /\ loc'.fd = loc.fd
        /\ pc' \in {"grep scans", "grep wants more", "grep at end"}
    <3>1. pc' \in {"grep scans", "grep wants more", "grep at end"}
      BY <2>1 DEF NextLine, Calls
    <3>2. loc'.dir = loc.dir /\ loc'.fd = loc.fd
      BY <2>1 DEF NextLine, Calls
    <3> QED
      BY <3>1, <3>2
  <2>3. UNCHANGED fds /\ reader' = Nobody
    BY <1>8, <2>1
       DEF GrepPrints, GrepPasses, Prints, Write, NotOpen, Reaches, JustReturns, Runs, fdVars
  <2> QED
    BY <2>1, <2>2, <2>3 DEF DirInv, DirOpen, GrepPcs
<1>9. CASE GrepCloses
  <2>1. /\ loc.fd # loc.dir /\ Close(Pid, loc.fd) /\ DirOpen(loc.dir)
        /\ pc' = "grep closes" /\ loc' = loc
    BY <1>9 DEF GrepCloses, Calls, DirInv, GrepPcs
  <2>2. reader' = Nobody /\ fds'[Pid][loc.dir] = fds[Pid][loc.dir]
    BY <1>0, <2>1, QuietCalls, CloseFrame, ZenonT(60) DEF DirOpen
  <2> QED
    BY <2>1, <2>2 DEF DirInv, DirOpen, GrepPcs
<1>10. CASE GrepFails \/ GrepEnds
  BY <1>10 DEF GrepFails, GrepEnds, Halt, EndsWith, DirInv, GrepPcs
<1> QED
  BY <1>1, <1>2, <1>3, <1>4, <1>5, <1>6, <1>7, <1>8, <1>9, <1>10 DEF Grep

\* Every step that is not grep's leads to a place that is not in grep.
LEMMA DirNextInv ==
    ASSUME DotIsDirectory, ProgInv, DirInv, [ProgramsNext]_programVars
    PROVE  DirInv'
<1>0. /\ fds \in Tables /\ ShellInv /\ Pid # Nobody /\ Pid \in Pids /\ ShellPid # Pid
      /\ reader \in {Nobody, Pid}
  BY PidsAre DEF ProgInv, FdInv, FdTypeOK, Tables, ShellInv
<1>a. pc' \notin GrepPcs => DirInv'
  BY DEF DirInv, GrepPcs
<1>e. \A status : EndsWith(status) => DirInv'
  BY <1>a DEF EndsWith, GrepPcs
<1>1. CASE UNCHANGED programVars
  <2>1. UNCHANGED <<fds, reader, rd, reply, pc, loc>>
    BY <1>1 DEF programVars, fdVars, shellVars
  <2> QED
    BY <2>1 DEF DirInv, DirOpen
<1>2. CASE ShellSteps
  <2>1. pc' \in {"none", "start"} \/ DirInv'
    BY <1>0, <1>2, <1>e, PidsAre
       DEF ShellSteps, Boot, UnknownCommand, Execute, ShellRestarts, KilledByCtrlC, shellVars, ShellInv
  <2> QED
    BY <1>a, <2>1 DEF GrepPcs
<1>3. CASE Cat
  BY <1>3, <1>a, <1>e
     DEF Cat, CatOpens, CannotOpen, CatReadsFirst, CatWrites, CatReads, CatFails, CatEnds, Halt,
         Calls, GrepPcs
<1>4. CASE KernelReads
  <2>1. reader = Pid /\ UNCHANGED <<pc, loc>>
    BY <1>0, <1>4 DEF KernelReads, CopyBlock, CopyBadBlock, FinishRead, shellVars
  <2>2. CASE pc = "grep reads"
    <3>1. rd.fd = loc.fd /\ loc.fd # loc.dir /\ DirOpen(loc.dir)
      BY <2>1, <2>2 DEF DirInv, GrepPcs
    <3>2. fds'[Pid][loc.dir] = fds[Pid][loc.dir]
      BY <1>0, <1>4, <2>1, <3>1 DEF KernelReads, CopyBlock, CopyBadBlock, FinishRead, SetDesc, Tables,
         DirOpen
    <3>3. reader' = Pid => rd'.fd = rd.fd
      <4>1. rd \in Locals
        BY DEF ProgInv, FdInv, FdTypeOK
      <4> QED
        BY <1>0, <1>4, <4>1 DEF KernelReads, CopyBlock, CopyBadBlock, FinishRead, memcpy_block, Locals
    <3> QED
      BY <2>1, <2>2, <3>1, <3>2, <3>3 DEF DirInv, DirOpen, GrepPcs
  <2>3. CASE pc # "grep reads"
    <3>1. pc \notin GrepPcs
      BY <1>0, <2>1, <2>3 DEF DirInv
    <3> QED
      BY <1>a, <2>1, <3>1
  <2> QED
    BY <2>2, <2>3
<1>5. CASE Syserr
  BY <1>5, <1>a, <1>e
     DEF Syserr, SyserrChooses, SyserrRefuses, SyserrCalls, SyserrJudges, SyserrEnds, Halt,
         Calls, GrepPcs
<1>6. CASE Fish
  BY <1>6, <1>a, <1>e
     DEF Fish, FishBegins, FishOpensFirst, FishOpensSecond, FishCannotOpen, FishLooks, FishReads,
         FishSkips, FishTakes, FishPlaces, FishEndsRow, FishCloses, FishGoesOn, FishNextRow,
         FishSetsRate, FishWaits, FishTicks, FishActs, FishClosesRtc, FishEnds, Halt, Calls, GrepPcs
<1>7. CASE AnyOpens \/ AnyOpensDir \/ AnyCall \/ AnyHalts \/ AnyFaults \/ SigtestFaults
  BY <1>7, <1>a, <1>e
     DEF AnyOpens, AnyOpensDir, AnyCall, AnyHalts, AnyFaults, SigtestFaults, Halt, Calls, GrepPcs,
         shellVars
<1> QED
  BY <1>1, <1>2, <1>3, <1>4, <1>5, <1>6, <1>7, DirKeeps
     DEF ProgramsNext, ProgramSteps, OtherSteps, Syserr

\* On a well-formed image every program works on streams of its own: whatever the
\* shell and the programs do, what open(), read(), write() and close() return is what
\* Streams promises, and a program that follows another one in the same PCB sees
\* nothing of it (syscalls.c, fs.c, processes.c, ece391*.c).
THEOREM ProgramsSeeStreams ==
    ASSUME WellFormed, DotIsDirectory
    PROVE  ProgramsSpec => ImplementsStreams
<1> DEFINE Inv == ProgInv /\ DescriptorsSound /\ DirInv
<1>1. ProgramsInit => Inv /\ S!StreamsInit
  BY StreamsInitInv, ProgInitInv, InitRefines
     DEF ProgramsInit, ShellInit, StreamsInv, DirInv, GrepPcs
<1>2. Inv /\ [ProgramsNext]_programVars => Inv'
  BY ProgramsSoundNext, ProgNextInv, DirNextInv
<1>3. Inv /\ [ProgramsNext]_programVars => [S!StreamsNext]_(S!streamVars)
  <2> SUFFICES ASSUME Inv, [ProgramsNext]_programVars
               PROVE  S!StreamsNext \/ UNCHANGED S!streamVars
    OBVIOUS
  <2>1. FdStep /\ StreamsInv
    BY ProgramCalls DEF StreamsInv, ProgInv
  <2>2. CASE ShellRestarts
    BY <2>2, RestartKeepsStreams DEF S!streamVars
  <2>3. GrepOpens => FdNext
    <3>1. GrepOpens => Head(reply.taken) \in Names
      BY DEF GrepOpens, DirInv
    <3> QED
      BY <3>1, CallsAre DEF GrepOpens
  <2> QED
    BY <2>1, <2>2, <2>3, NextRefines DEF FdStep
<1> QED
  BY <1>1, <1>2, <1>3, PTL DEF ProgramsSpec, ImplementsStreams, S!StreamsSpec

----------------------------------------------------------------------------
(* The tests of syserr pass *)

\* The image has an entry ".", the directory.
DotIsThere == ~NoDentry(".") /\ DotIsDirectory

\* The number of the call of open() that finds no descriptor.
LastFd == MAX_FILE_DESCRIPTORS - 1

\* A call that must fail while nothing but the terminal is open.
MustFail(r) ==
    \/ r.call = "open" /\ NoDentry(r.name)
    \/ r.call \in {"read", "write"} /\ r.number \in BadFds \cup (Fds \ {0, 1})
    \/ r.call = "close" /\ r.number \in BadFds \cup Fds
    \/ r.call = "read" /\ r.number = 1
    \/ r.call = "write" /\ r.number = 0
    \/ r.call \in {"vidmap", "number"} /\ Refuses(r)

\* In the test that opens the directory until it cannot, and closes it as often:
\* these descriptors are open behind the calls done.
LotsOpen(done, failing) ==
    /\ \A fd \in Fds :
            IF fd < 2 THEN fds[Pid][fd] = StdInOut(fd)
            ELSE IF done - LastFd + 2 <= fd /\ fd < done + 2
                 THEN fds[Pid][fd].open /\ fds[Pid][fd].ftable = "dir"
                 ELSE ~fds[Pid][fd].open
    /\ failing = IF done >= LastFd THEN 1 ELSE 0

Hopeless == {r \in Requests : MustFail(r)}

\* The test syserr is at has gone well so far.
SysTests ==
    /\ reader = Nobody
    /\ loc.fail = 0
    /\ IF loc.tests = <<>> THEN Standing(Pid)
       ELSE /\ loc.done <= Len(Test.calls)
            /\ IF Test = err_open_lots THEN LotsOpen(loc.done, loc.failing)
               ELSE Standing(Pid) /\ loc.failing = loc.done

SysInv ==
    cmd.program = "syserr" =>
        /\ pc \in {"none", "start", "syserr begins"}
        /\ said # "abnormally"
        /\ pc = "syserr begins" => SysTests

LEMMA HopelessAre ==
    /\ \A call \in {"read", "write"}, fd \in BadFds \cup (Fds \ {0, 1}) :
            Request(call, fd) \in Hopeless
    /\ \A fd \in BadFds \cup Fds : Request("close", fd) \in Hopeless
    /\ Request("read", 1) \in Hopeless /\ Request("write", 0) \in Hopeless
    /\ \A n \in {11, -1, 0} : Request("number", n) \in Hopeless
    /\ \A name \in Absent : Naming("open", name) \in Hopeless
    /\ \A pointer \in Pointers \ UserPage : Naming("vidmap", pointer) \in Hopeless
<1>0. 0 \in Fds /\ 1 \in Fds
  BY PidsAre
<1>1. \A call \in {"read", "write"}, fd \in BadFds \cup (Fds \ {0, 1}) :
          Request(call, fd) \in Hopeless
  BY RequestsAre DEF Request, Hopeless, MustFail
<1>2. \A fd \in BadFds \cup Fds : Request("close", fd) \in Hopeless
  BY RequestsAre DEF Request, Hopeless, MustFail
<1>3. Request("read", 1) \in Hopeless /\ Request("write", 0) \in Hopeless
  BY <1>0, RequestsAre DEF Request, Hopeless, MustFail
<1>4. ASSUME NEW n \in {11, -1, 0} PROVE Request("number", n) \in Hopeless
  <2>1. n \in Int /\ BadNumber(n)
    BY DEF BadNumber
  <2>2. Request("number", n) \in Requests
    BY <2>1, RequestsAre
  <2>3. MustFail(Request("number", n))
    BY <2>1 DEF Request, MustFail, Refuses
  <2> QED
    BY <2>2, <2>3 DEF Hopeless
<1>5. \A name \in Absent : Naming("open", name) \in Hopeless
  BY SyserrAssumption, RequestsAre DEF Naming, Hopeless, MustFail
<1>6. \A pointer \in Pointers \ UserPage : Naming("vidmap", pointer) \in Hopeless
  BY RequestsAre DEF Naming, Hopeless, MustFail, Refuses, BadPointer
<1> QED
  BY <1>1, <1>2, <1>3, <1>4, <1>5, <1>6

LEMMA OnHopeless ==
    ASSUME NEW call, NEW descriptors \in Seq(Int),
           \A i \in 1 .. Len(descriptors) : Request(call, descriptors[i]) \in Hopeless
    PROVE  On(call, descriptors) \in Seq(Hopeless)
BY DEF On

LEMMA OnAllHopeless ==
    ASSUME NEW names, IsFiniteSet(names), NEW call,
           \A name \in names : Naming(call, name) \in Hopeless
    PROVE  OnAll(call, names) \in Seq(Hopeless)
<1>1. \A name \in names : Naming(call, name) \in Requests
  BY DEF Hopeless
<1>2. /\ OnAll(call, names) \in Seq(Requests)
      /\ \A i \in 1 .. Len(OnAll(call, names)) :
            \E name \in names : OnAll(call, names)[i] = Naming(call, name)
  BY <1>1, OnAllIs
<1> DEFINE s == OnAll(call, names)
<1>3. \A i \in 1 .. Len(s) : s[i] \in Hopeless
  BY <1>2
<1> HIDE DEF s
<1>4. s \in Seq(Requests)
  BY <1>2 DEF s
<1>5. s \in Seq(Hopeless)
  BY <1>3, <1>4
<1> QED
  BY <1>5 DEF s

\* Every call of every test but one must fail, and is counted.
LEMMA TestsMustFail ==
    \A t \in AllTests \ {err_open_lots} :
        t.calls \in Seq(Hopeless) /\ t.checked = Len(t.calls) /\ t.failing = Len(t.calls)
<1> DEFINE Fails(t) ==
      t.calls \in Seq(Hopeless) /\ t.checked = Len(t.calls) /\ t.failing = Len(t.calls)
<1>a. ASSUME NEW calls \in Seq(Hopeless) PROVE Fails(AllFail(calls))
  BY DEF AllFail
<1>0. /\ 0 \in Fds /\ 2 \in Fds /\ LastFd \in Fds /\ LastFd \in Nat
      /\ -1 \in BadFds /\ MAX_FILE_DESCRIPTORS \in BadFds /\ 2 <= LastFd + 1
  BY ShellAssumption, DescriptorsAssumption DEF Fds, BadFds, LastFd
<1>1. ASSUME NEW fd \in BadFds PROVE Fails(err_fd(fd))
  <2>1. <<Request("read", fd), Request("write", fd), Request("close", fd)>> \in Seq(Hopeless)
    BY HopelessAre
  <2> HIDE DEF Fails
  <2> QED
    BY <2>1, <1>a DEF err_fd
<1>2. ASSUME NEW call, NEW a \in {0, 2},
             \A fd \in Fds : fd >= a => Request(call, fd) \in Hopeless
      PROVE  On(call, FromTo(a, LastFd)) \in Seq(Hopeless)
  <2>1. a \in Fds /\ a <= LastFd + 1 /\ a \in Nat
    BY <1>0
  <2> DEFINE s == FromTo(a, LastFd)
  <2>2. /\ s \in Seq(Int) /\ Len(s) = LastFd - a + 1
        /\ \A i \in 1 .. LastFd - a + 1 : s[i] = a + i - 1 /\ s[i] \in Fds
    BY <1>0, <2>1, FromToIs
  <2> HIDE DEF s
  <2>3. \A i \in 1 .. Len(s) : s[i] >= a /\ s[i] \in Fds
    BY <1>0, <2>1, <2>2, SMTT(30)
  <2>4. \A i \in 1 .. Len(s) : Request(call, s[i]) \in Hopeless
    BY <1>2, <2>3
  <2> QED
    BY <2>2, <2>4, OnHopeless DEF s
<1>3. Fails(err_open)
  <2>1. OnAll("open", Absent) \in Seq(Hopeless)
    BY SyserrAssumption, HopelessAre, OnAllHopeless
  <2> HIDE DEF Fails
  <2> QED
    BY <2>1, <1>a DEF err_open
<1>4. Fails(err_unopened)
  <2>1. On("close", FromTo(0, LastFd)) \in Seq(Hopeless)
    BY <1>2, HopelessAre
  <2>2. \A fd \in Fds : fd >= 2 => fd \in Fds \ {0, 1}
    BY PidsAre
  <2>3. /\ On("read", FromTo(2, LastFd)) \in Seq(Hopeless)
        /\ On("write", FromTo(2, LastFd)) \in Seq(Hopeless)
    BY <1>2, <2>2, HopelessAre
  <2>4. (On("close", FromTo(0, LastFd)) \o On("read", FromTo(2, LastFd)))
        \o On("write", FromTo(2, LastFd)) \in Seq(Hopeless)
    BY <2>1, <2>3
  <2> HIDE DEF Fails
  <2> QED
    BY <2>4, <1>a DEF err_unopened, LastFd
<1>5. Fails(err_vidmap)
  <2>1. IsFiniteSet(Pointers \ UserPage)
    BY SyserrAssumption, FS_Subset
  <2>2. OnAll("vidmap", Pointers \ UserPage) \in Seq(Hopeless)
    BY <2>1, HopelessAre, OnAllHopeless
  <2> HIDE DEF Fails
  <2> QED
    BY <2>2, <1>a DEF err_vidmap
<1>6. Fails(err_stdin_out)
  <2>1. <<Request("write", 0), Request("read", 1)>> \in Seq(Hopeless)
    BY HopelessAre
  <2> HIDE DEF Fails
  <2> QED
    BY <2>1, <1>a DEF err_stdin_out
<1>7. Fails(err_syscall_num)
  <2> DEFINE numbers == <<11, -1, 0>>
  <2>1. numbers \in Seq(Int) /\ \A i \in 1 .. Len(numbers) : numbers[i] \in {11, -1, 0}
    OBVIOUS
  <2>2. err_syscall_num = AllFail(On("number", numbers))
    BY DEF err_syscall_num
  <2> HIDE DEF numbers
  <2>3. On("number", numbers) \in Seq(Hopeless)
    BY <2>1, HopelessAre, OnHopeless
  <2> HIDE DEF Fails
  <2> QED
    BY <2>2, <2>3, <1>a
<1> HIDE DEF Fails
<1>8. \A t \in AllTests \ {err_open_lots} : Fails(t)
  BY <1>0, <1>1, <1>3, <1>4, <1>5, <1>6, <1>7 DEF AllTests
<1> QED
  BY <1>8 DEF Fails

\* A call that must fail does, and changes nothing.
LEMMA HopelessFails ==
    ASSUME fds \in Tables, Standing(Pid), NEW r \in Hopeless, Does(r)
    PROVE  UNCHANGED fds /\ reader' = Nobody /\ Failed(r)
<1>0. /\ Pid \in Pids /\ 0 \in Fds /\ 1 \in Fds /\ Fds \subseteq Nat
      /\ \A fd \in BadFds : fd \notin Fds
  BY PidsAre, DescriptorsAssumption DEF Fds, BadFds
<1>s. /\ \A fd \in Fds \ {0, 1} : ~fds[Pid][fd].open
      /\ \A fd \in {0, 1} : fds[Pid][fd] = StdInOut(fd)
  <2>1. \A fd \in Fds \ {0, 1} : ~(fd < 2)
    BY <1>0
  <2>2. 0 < 2 /\ 1 < 2
    OBVIOUS
  <2> QED
    BY <1>0, <2>1, <2>2 DEF Standing
<1>t. \A fd \in {0, 1} : /\ fds[Pid][fd].open /\ fds[Pid][fd].ftable = "stdinout"
                         /\ fds[Pid][fd].inode = fd
  BY <1>s DEF StdInOut
<1>1. CASE r.call = "open"
  <2>1. NoDentry(r.name) /\ Open(Pid, r.name)
    BY <1>1 DEF Hopeless, MustFail, Does, Refuses
  <2>2. Returns("open", Pid, -1, -1, <<>>) /\ UNCHANGED <<fds, reader>> /\ reader = Nobody
    BY <2>1 DEF Open, Runs, read_dentry_by_name, NoDentry
  <2> QED
    BY <1>1, <2>2 DEF Returns, Failed
<1>2. CASE r.call = "close"
  <2>1. Close(Pid, r.number) /\ r.number \in BadFds \cup Fds
    BY <1>2 DEF Hopeless, MustFail, Does, Refuses
  <2>2. ~(r.number \in Fds /\ fds[Pid][r.number].open /\ CanClose(fds[Pid][r.number].ftable))
    BY <1>0, <1>s, <1>t, <2>1 DEF CanClose
  <2>3. Returns("close", Pid, r.number, -1, <<>>) /\ UNCHANGED <<fds, reader>> /\ reader = Nobody
    BY <2>1, <2>2 DEF Close, Runs
  <2> QED
    BY <1>2, <2>3 DEF Returns, Failed
<1>3. CASE r.call = "read"
  <2>1. /\ Read(Pid, r.number, BUFSIZE)
        /\ r.number = 1 \/ r.number \in BadFds \cup (Fds \ {0, 1})
    BY <1>3 DEF Hopeless, MustFail, Does, Refuses
  <2>2. JustReturns("read", Pid, r.number, -1, <<>>) /\ reader = Nobody
    BY <1>0, <1>s, <1>t, <2>1
       DEF Read, NotOpen, TerminalRead, RtcRead, dir_read, file_read, Reaches, Runs
  <2> QED
    BY <1>3, <2>2 DEF JustReturns, Returns, Failed
<1>4. CASE r.call = "write"
  <2>1. /\ Write(Pid, r.number, BUFSIZE)
        /\ r.number = 0 \/ r.number \in BadFds \cup (Fds \ {0, 1})
    BY <1>4 DEF Hopeless, MustFail, Does, Refuses
  <2>2. JustReturns("write", Pid, r.number, -1, <<>>) /\ reader = Nobody
    BY <1>0, <1>s, <1>t, <2>1 DEF Write, NotOpen, Reaches, Runs
  <2> QED
    BY <1>4, <2>2 DEF JustReturns, Returns, Failed
<1>5. CASE r.call \in {"vidmap", "number"}
  BY <1>5 DEF Hopeless, MustFail, Does, Refuses, Failed, Runs, fdVars
<1> QED
  BY <1>1, <1>2, <1>3, <1>4, <1>5 DEF Hopeless, Requests

----------------------------------------------------------------------------
(* The test that opens all there is *)

LEMMA LastFdIs ==
    LastFd \in Nat /\ LastFd >= 2 /\ Fds = 0 .. LastFd /\ LastFd \in Fds /\ 2 \in Fds
BY ShellAssumption, DescriptorsAssumption DEF LastFd, Fds

LEMMA LotsIs ==
    /\ Len(err_open_lots.calls) = LastFd + (LastFd - 1)
    /\ err_open_lots.checked = LastFd
    /\ err_open_lots.failing = 1
    /\ \A i \in 1 .. LastFd : err_open_lots.calls[i] = Naming("open", ".")
    /\ \A i \in LastFd + 1 .. LastFd + (LastFd - 1) :
            err_open_lots.calls[i] = Request("close", i - LastFd + 1)
<1> DEFINE opens == [i \in 1 .. LastFd |-> Naming("open", ".")]
           numbers == FromTo(2, LastFd)
           closes == On("close", numbers)
<1>0. LastFd \in Nat /\ LastFd >= 2 /\ LastFd \in Fds /\ 2 \in Fds
  BY LastFdIs
<1>1. opens \in Seq(Requests) /\ Len(opens) = LastFd
      /\ \A i \in 1 .. LastFd : opens[i] = Naming("open", ".")
  BY <1>0, ShellAssumption, RequestsAre
<1>2. /\ numbers \in Seq(Int) /\ Len(numbers) = LastFd - 1
      /\ \A i \in 1 .. LastFd - 1 : numbers[i] = i + 1 /\ numbers[i] \in Fds
  <2>0. 2 <= LastFd + 1
    BY <1>0
  <2>1. /\ FromTo(2, LastFd) \in Seq(Int) /\ Len(FromTo(2, LastFd)) = LastFd - 2 + 1
        /\ \A i \in 1 .. LastFd - 2 + 1 : FromTo(2, LastFd)[i] = 2 + i - 1
        /\ \A i \in 1 .. LastFd - 2 + 1 : FromTo(2, LastFd)[i] \in Fds
    <3> HIDE DEF numbers
    <3> QED
      BY <1>0, <2>0, FromToIs, Zenon
  <2>2. LastFd - 2 + 1 = LastFd - 1 /\ \A i \in 1 .. LastFd - 1 : 2 + i - 1 = i + 1
    BY <1>0
  <2>3. /\ numbers \in Seq(Int) /\ Len(numbers) = LastFd - 2 + 1
        /\ \A i \in 1 .. LastFd - 2 + 1 : numbers[i] = 2 + i - 1 /\ numbers[i] \in Fds
    BY <2>1, Zenon DEF numbers
  <2> HIDE DEF numbers
  <2> QED
    BY <2>2, <2>3
<1>3. /\ closes \in Seq(Requests) /\ Len(closes) = LastFd - 1
      /\ \A i \in 1 .. LastFd - 1 : closes[i] = Request("close", i + 1)
  <2> HIDE DEF numbers
  <2> QED
    BY <1>0, <1>2, RequestsAre DEF On
<1>4. err_open_lots = [calls |-> opens \o closes, checked |-> LastFd, failing |-> 1]
  BY DEF err_open_lots, LastFd
<1> HIDE DEF opens, closes
<1>5. Len(opens \o closes) = LastFd + (LastFd - 1)
  BY <1>1, <1>3
<1>6. \A i \in 1 .. LastFd : (opens \o closes)[i] = Naming("open", ".")
  BY <1>0, <1>1, <1>3
<1>7. ASSUME NEW i \in LastFd + 1 .. LastFd + (LastFd - 1)
      PROVE  (opens \o closes)[i] = Request("close", i - LastFd + 1)
  <2>1. i - LastFd \in 1 .. LastFd - 1 /\ i \in Len(opens) + 1 .. Len(opens) + Len(closes)
    BY <1>0, <1>1, <1>3
  <2>2. (opens \o closes)[i] = closes[i - LastFd]
    BY <1>0, <1>1, <1>3, <2>1
  <2> QED
    BY <1>3, <2>1, <2>2
<1> QED
  BY <1>4, <1>5, <1>6, <1>7

\* The directory is opened once more.
LEMMA LotsOpens ==
    ASSUME DotIsThere, fds \in Tables, NEW n \in Nat, n < LastFd, NEW f, LotsOpen(n, f),
           Open(Pid, ".")
    PROVE  /\ reader' = Nobody
           /\ reply'.value = -1 <=> n + 1 = LastFd
           /\ reply'.value = -1 => LotsOpen(n + 1, f + 1)'
           /\ reply'.value # -1 => LotsOpen(n + 1, f)'
<1>0. /\ LastFd \in Nat /\ LastFd >= 2 /\ Fds = 0 .. LastFd /\ Pid \in Pids
      /\ Len(dentries) \in Nat
  BY LastFdIs, PidsAre, ImageAssumption
<1>1. \A fd \in Fds : fd < 2 => fds[Pid][fd] = StdInOut(fd) /\ fds[Pid][fd].open
  BY <1>0 DEF LotsOpen, StdInOut
<1>2. \A fd \in Fds : ~(fd < 2) => (fds[Pid][fd].open <=> fd < n + 2)
                                 /\ (fd < n + 2 => fds[Pid][fd].ftable = "dir")
  <2>1. \A fd \in Fds : n - LastFd + 2 <= fd \/ fd < 2
    BY <1>0
  <2> QED
    BY <2>1 DEF LotsOpen
<1>3. f = 0
  BY <1>0 DEF LotsOpen
<1>4. CASE n + 1 = LastFd
  <2>1. \A fd \in Fds : fds[Pid][fd].open /\ (~(fd < 2) => fds[Pid][fd].ftable = "dir")
    <3>1. \A fd \in Fds : fd < n + 2
      BY <1>0, <1>4
    <3> QED
      BY <1>1, <1>2, <3>1
  <2>2. reader' = Nobody /\ reply'.value = -1 /\ UNCHANGED fds
    BY <2>1 DEF Open, Runs, alloc_fd, Returns
  <2>3. \A fd \in Fds : ~(fd < 2) => (n + 1) - LastFd + 2 <= fd /\ fd < (n + 1) + 2
    BY <1>0, <1>4
  <2>4. f + 1 = IF n + 1 >= LastFd THEN 1 ELSE 0
    BY <1>0, <1>3, <1>4
  <2>5. LotsOpen(n + 1, f + 1)'
    BY <1>1, <2>1, <2>2, <2>3, <2>4 DEF LotsOpen
  <2> QED
    BY <1>4, <2>2, <2>5
<1>5. CASE n + 1 # LastFd
  <2> DEFINE new == n + 2
  <2>1. new \in Fds /\ ~(new < 2)
    BY <1>0, <1>5
  <2>2. ~fds[Pid][new].open
    <3>1. ~(new < n + 2)
      BY <1>0
    <3> QED
      BY <1>2, <2>1, <3>1
  <2>3. PICK i \in 1 .. Len(dentries), fd \in Fds :
            read_dentry_by_name(".", i) /\ alloc_fd(Pid, fd) /\ OpenDentry(Pid, fd, dentries[i])
    BY <2>1, <2>2 DEF Open, DotIsThere
  <2>4. fd = new
    <3>1. ~(fd < n + 2)
      BY <1>1, <1>2, <2>3 DEF alloc_fd
    <3>2. ~(new < fd)
      BY <2>1, <2>2, <2>3 DEF alloc_fd
    <3> QED
      BY <1>0, <3>1, <3>2
  <2>5. dentries[i].type = FILE_DIRECTORY
    BY <2>3, FirstDentryIs DEF DotIsThere, DotIsDirectory
  <2>6. dir_open(Pid, new, dentries[i].inode) /\ reply'.value = new
    BY <2>3, <2>4, <2>5 DEF OpenDentry, Returns, FILE_REGULAR, FILE_DIRECTORY, FILE_RTC
  <2>7. reader' = Nobody
    BY DEF Open, Runs
  <2>8. /\ fds'[Pid][new].open /\ fds'[Pid][new].ftable = "dir"
        /\ \A g \in Fds \ {new} : fds'[Pid][g] = fds[Pid][g]
    BY <1>0, <2>1, <2>6 DEF dir_open, SetDesc, Tables, Opened
  <2>9. reply'.value # -1 /\ f = IF n + 1 >= LastFd THEN 1 ELSE 0
    BY <1>0, <1>3, <1>5, <2>6
  <2>10. \A g \in Fds : /\ ~(g < 2) => (n + 1) - LastFd + 2 <= g
                        /\ g < (n + 1) + 2 <=> g < n + 2 \/ g = new
    BY <1>0
  <2>11. LotsOpen(n + 1, f)'
    <3>1. ASSUME NEW g \in Fds, g < 2 PROVE fds'[Pid][g] = StdInOut(g)
      BY <1>1, <2>1, <2>8, <3>1
    <3>2. ASSUME NEW g \in Fds, ~(g < 2), g < (n + 1) + 2
          PROVE  fds'[Pid][g].open /\ fds'[Pid][g].ftable = "dir"
      BY <1>2, <2>8, <2>10, <3>2
    <3>3. ASSUME NEW g \in Fds, ~(g < 2), ~(g < (n + 1) + 2) PROVE ~fds'[Pid][g].open
      BY <1>2, <2>8, <2>10, <3>3
    <3> QED
      BY <2>9, <2>10, <3>1, <3>2, <3>3 DEF LotsOpen
  <2> QED
    BY <1>5, <2>7, <2>9, <2>11
<1> QED
  BY <1>4, <1>5

\* The next of the descriptors is closed.
LEMMA LotsCloses ==
    ASSUME fds \in Tables, NEW n \in Nat, LastFd <= n, n < LastFd + (LastFd - 1), NEW f,
           LotsOpen(n, f), Close(Pid, n - LastFd + 2)
    PROVE  /\ reader' = Nobody
           /\ LotsOpen(n + 1, f)'
<1>0. LastFd \in Nat /\ LastFd >= 2 /\ Fds = 0 .. LastFd /\ Pid \in Pids
  BY LastFdIs, PidsAre
<1> DEFINE old == n - LastFd + 2
<1>1. old \in Fds /\ ~(old < 2) /\ old < n + 2
  BY <1>0
<1>2. fds[Pid][old].open /\ fds[Pid][old].ftable = "dir"
  <2>1. n - LastFd + 2 <= old
    BY <1>0
  <2> HIDE DEF old
  <2> QED
    BY <1>1, <2>1 DEF LotsOpen
<1>3. Close(Pid, old)
  OBVIOUS
<1>b. \A g \in Fds : /\ ~(g < 2) => g < n + 2 /\ g < (n + 1) + 2
                     /\ (n + 1) - LastFd + 2 <= g <=> old <= g /\ g # old
  BY <1>0
<1>c. \A g \in Fds : n - LastFd + 2 <= g <=> old <= g
  OBVIOUS
<1>f. n >= LastFd /\ n + 1 >= LastFd
  BY <1>0
<1> HIDE DEF old
<1>4. reader' = Nobody /\ SetDesc(Pid, old, Shut(fds[Pid][old]))
  BY <1>1, <1>2, <1>3 DEF Close, CanClose, Runs
<1>5. ~fds'[Pid][old].open /\ \A g \in Fds \ {old} : fds'[Pid][g] = fds[Pid][g]
  <2>1. fds[Pid][old] \in FileDesc
    BY <1>0, <1>1 DEF Tables
  <2> QED
    BY <1>0, <1>1, <1>4, <2>1 DEF SetDesc, Tables, Shut, FileDesc
<1>6. LotsOpen(n + 1, f)'
  <2>1. ASSUME NEW g \in Fds, g < 2 PROVE fds'[Pid][g] = StdInOut(g)
    BY <1>1, <1>5, <2>1 DEF LotsOpen
  <2>2. ASSUME NEW g \in Fds, ~(g < 2), (n + 1) - LastFd + 2 <= g
        PROVE  fds'[Pid][g].open /\ fds'[Pid][g].ftable = "dir"
    BY <1>5, <1>b, <1>c, <2>2 DEF LotsOpen
  <2>3. ASSUME NEW g \in Fds, ~(g < 2), ~((n + 1) - LastFd + 2 <= g) PROVE ~fds'[Pid][g].open
    BY <1>5, <1>b, <1>c, <2>3 DEF LotsOpen
  <2>4. f = 1
    BY <1>f DEF LotsOpen
  <2> QED
    BY <1>b, <1>f, <2>1, <2>2, <2>3, <2>4 DEF LotsOpen
<1> QED
  BY <1>4, <1>6

\* Before the first call of the test and after the last one nothing is open.
LEMMA LotsStanding ==
    /\ Standing(Pid) => LotsOpen(0, 0)
    /\ \A f : LotsOpen(LastFd + (LastFd - 1), f) => Standing(Pid) /\ f = 1
<1>0. LastFd \in Nat /\ LastFd >= 2 /\ Fds = 0 .. LastFd
  BY LastFdIs
<1>1. Standing(Pid) => LotsOpen(0, 0)
  <2>1. \A fd \in Fds : ~(fd < 2) => ~(fd < 0 + 2)
    BY <1>0
  <2>2. ~(0 >= LastFd)
    BY <1>0
  <2> QED
    BY <2>1, <2>2 DEF Standing, LotsOpen
<1>2. \A f : LotsOpen(LastFd + (LastFd - 1), f) => Standing(Pid) /\ f = 1
  <2> DEFINE n == LastFd + (LastFd - 1)
  <2>1. \A fd \in Fds : ~(n - LastFd + 2 <= fd)
    BY <1>0
  <2>2. n >= LastFd
    BY <1>0
  <2> HIDE DEF n
  <2>3. \A f : LotsOpen(n, f) => Standing(Pid) /\ f = 1
    BY <2>1, <2>2 DEF Standing, LotsOpen
  <2> QED
    BY <2>3 DEF n
<1> QED
  BY <1>1, <1>2

----------------------------------------------------------------------------
(* Every test passes *)

\* A test that begins.
LEMMA SysBegins ==
    ASSUME Standing(Pid)', reader' = Nobody, loc'.fail = 0, loc'.done = 0, loc'.failing = 0,
           loc'.tests \in Seq(AllTests)
    PROVE  SysTests'
<1>1. CASE loc'.tests = <<>>
  BY <1>1 DEF SysTests
<1>2. CASE loc'.tests # <<>>
  <2> DEFINE tests == loc'.tests
             t == Head(tests)
  <2>1. t \in AllTests
    <3>1. tests \in Seq(AllTests) /\ tests # <<>>
      BY <1>2
    <3> HIDE DEF tests
    <3> QED
      BY <3>1
  <2>2. Test' = t
    BY DEF Test
  <2> HIDE DEF t
  <2>3. 0 <= Len(t.calls)
    <3>1. t.calls \in Seq(Requests)
      BY <2>1, TestsAre
    <3> QED
      BY <3>1
  <2>4. LotsOpen(loc.done, loc.failing)'
    <3>1. LotsOpen(0, 0)'
      BY LotsStanding, LastFdIs DEF Standing, LotsOpen
    <3> QED
      BY <3>1 DEF LotsOpen
  <2> QED
    BY <1>2, <2>2, <2>3, <2>4 DEF SysTests
<1> QED
  BY <1>1, <1>2

LEMMA SysCalls ==
    ASSUME DotIsThere, ProgInv, SysInv, cmd.program = "syserr", SyserrCalls
    PROVE  SysTests'
<1> DEFINE tests == loc.tests
           t == Test
<1>0. /\ SyserrLocals /\ SysTests /\ fds \in Tables
  BY DEF ProgInv, ProgLocals, FdInv, FdTypeOK, Tables, SysInv, SyserrCalls
<1>1. PICK n \in Nat : n = loc.done
  BY <1>0 DEF SyserrLocals, SyserrCalls
<1>2. PICK f : f = loc.failing
  OBVIOUS
<1>3. PICK r \in Requests : r = t.calls[n + 1]
  BY <1>0, <1>1, RequestIs
<1>4. t \in AllTests /\ t.calls \in Seq(Requests) /\ n < Len(t.calls) /\ tests # <<>>
  BY <1>0, <1>1, RequestIs, TestsAre DEF SyserrCalls
<1>5. DOMAIN loc = {"tests", "done", "failing", "fail"}
  BY <1>0 DEF SyserrLocals, SyserrCalls
<1>6. /\ loc'.tests = tests /\ loc'.fail = loc.fail /\ loc'.done = n + 1
      /\ loc'.failing = IF n < t.checked /\ Failed(r) THEN f + 1 ELSE f
  BY <1>1, <1>2, <1>3, <1>5 DEF SyserrCalls
<1>7. Test' = t
  BY <1>6 DEF Test
<1>8. Does(r)
  BY <1>1, <1>3 DEF SyserrCalls
<1>9. loc.fail = 0 /\ IF t = err_open_lots THEN LotsOpen(n, f) ELSE Standing(Pid) /\ f = n
  BY <1>0, <1>1, <1>2, <1>4 DEF SysTests
<1> HIDE DEF tests, t
<1>10. n + 1 <= Len(t.calls) /\ n + 1 \in 1 .. Len(t.calls)
  <2>1. Len(t.calls) \in Nat
    BY <1>4
  <2> QED
    BY <1>4, <2>1
<1>11. CASE t # err_open_lots
  <2>1. t.calls \in Seq(Hopeless) /\ t.checked = Len(t.calls)
    BY <1>4, <1>11, TestsMustFail
  <2>2. r \in Hopeless
    BY <1>3, <1>10, <2>1
  <2>3. UNCHANGED fds /\ reader' = Nobody /\ Failed(r)
    BY <1>0, <1>8, <1>9, <1>11, <2>2, HopelessFails
  <2>4. loc'.failing = loc'.done
    BY <1>4, <1>6, <1>9, <1>11, <2>1, <2>3
  <2>5. Standing(Pid)'
    BY <1>9, <1>11, <2>3 DEF Standing
  <2>6. loc'.done <= Len(t.calls)
    BY <1>6, <1>10
  <2> QED
    BY <1>4, <1>6, <1>7, <1>9, <1>11, <2>3, <2>4, <2>5, <2>6 DEF SysTests
<1>12. CASE t = err_open_lots
  <2>0. LastFd \in Nat /\ LastFd >= 2 /\ t.checked = LastFd
        /\ Len(t.calls) = LastFd + (LastFd - 1)
    BY <1>12, LastFdIs, LotsIs
  <2>1. reader' = Nobody /\ LotsOpen(loc.done, loc.failing)'
    <3>1. CASE n < LastFd
      <4>1. r = Naming("open", ".")
        BY <1>3, <1>12, <2>0, <3>1, LotsIs
      <4>2. Open(Pid, ".")
        BY <1>8, <4>1 DEF Does, Naming
      <4>3. Failed(r) <=> reply'.value = -1
        BY <4>1 DEF Failed, Naming
      <4>4. /\ reader' = Nobody
            /\ reply'.value = -1 => LotsOpen(n + 1, f + 1)'
            /\ reply'.value # -1 => LotsOpen(n + 1, f)'
        BY <1>0, <1>9, <1>12, <3>1, <4>2, LotsOpens
      <4>5. PICK g : g = loc'.failing
        OBVIOUS
      <4>6. g = IF reply'.value = -1 THEN f + 1 ELSE f
        BY <1>6, <2>0, <3>1, <4>3, <4>5
      <4>7. LotsOpen(n + 1, g)'
        BY <4>4, <4>6
      <4> QED
        BY <1>6, <4>4, <4>5, <4>7 DEF LotsOpen
    <3>2. CASE ~(n < LastFd)
      <4>1. n + 1 \in LastFd + 1 .. LastFd + (LastFd - 1) /\ n < LastFd + (LastFd - 1)
            /\ LastFd <= n /\ n + 1 - LastFd + 1 = n - LastFd + 2
        BY <1>4, <2>0, <3>2
      <4>2. r = Request("close", n - LastFd + 2)
        <5>1. \A i \in LastFd + 1 .. LastFd + (LastFd - 1) :
                err_open_lots.calls[i] = Request("close", i - LastFd + 1)
          BY LotsIs
        <5>2. PICK i \in LastFd + 1 .. LastFd + (LastFd - 1) : i = n + 1
          BY <4>1
        <5>3. err_open_lots.calls[i] = Request("close", i - LastFd + 1)
          BY <5>1
        <5> QED
          <6>1. r = err_open_lots.calls[i]
            BY <1>3, <1>12, <5>2
          <6>2. i - LastFd + 1 = n - LastFd + 2
            BY <1>1, <2>0, <5>2
          <6> QED
            BY <5>3, <6>1, <6>2
      <4>3. Close(Pid, n - LastFd + 2)
        BY <1>8, <4>2 DEF Does, Request
      <4>4. reader' = Nobody /\ LotsOpen(n + 1, f)'
        BY <1>0, <1>9, <1>12, <4>1, <4>3, LotsCloses
      <4>5. loc'.failing = f
        BY <1>6, <2>0, <3>2
      <4> QED
        BY <1>6, <4>4, <4>5 DEF LotsOpen
    <3> QED
      BY <3>1, <3>2
  <2>2. loc'.done <= Len(t.calls)
    BY <1>6, <1>10
  <2> QED
    BY <1>4, <1>6, <1>7, <1>9, <1>12, <2>1, <2>2 DEF SysTests, tests
<1> QED
  BY <1>11, <1>12

\* A test that has made all its calls has gone well.
LEMMA SysJudges ==
    ASSUME ProgInv, SysInv, cmd.program = "syserr", SyserrJudges
    PROVE  SysTests'
<1> DEFINE tests == loc.tests
           t == Test
<1>0. SyserrLocals /\ SysTests
  BY DEF ProgInv, ProgLocals, SysInv, SyserrJudges
<1>1. /\ tests \in Seq(AllTests) /\ tests # <<>>
      /\ DOMAIN loc = {"tests", "done", "failing", "fail"} /\ loc.done = Len(t.calls)
  BY <1>0 DEF SyserrLocals, SyserrJudges
<1>2. t \in AllTests
  <2>1. t = Head(tests)
    BY DEF Test
  <2> HIDE DEF tests
  <2> QED
    BY <1>1, <2>1
<1>3. PICK n : n = loc.done
  OBVIOUS
<1>4. PICK f : f = loc.failing
  OBVIOUS
<1>5. /\ loc.fail = 0 /\ reader = Nobody
      /\ IF t = err_open_lots THEN LotsOpen(n, f) ELSE Standing(Pid) /\ f = n
  BY <1>0, <1>1, <1>3, <1>4 DEF SysTests
<1>6. Standing(Pid) /\ f = t.failing
  <2>1. CASE t = err_open_lots
    <3>1. n = LastFd + (LastFd - 1) /\ t.failing = 1
      BY <1>1, <1>3, <2>1, LotsIs
    <3> QED
      BY <1>5, <2>1, <3>1, LotsStanding
  <2>2. CASE t # err_open_lots
    BY <1>1, <1>2, <1>3, <1>5, <2>2, TestsMustFail
  <2> QED
    BY <2>1, <2>2
<1>7. /\ loc'.tests = Tail(tests) /\ loc'.done = 0 /\ loc'.failing = 0
      /\ loc'.fail = 0 /\ UNCHANGED <<fds, reader>>
  BY <1>1, <1>4, <1>5, <1>6 DEF SyserrJudges, Calls, fdVars
<1>8. loc'.tests \in Seq(AllTests)
  <2> HIDE DEF tests
  <2>1. Tail(tests) \in Seq(AllTests)
    BY <1>1
  <2> QED
    BY <1>7, <2>1
<1>9. Standing(Pid)'
  BY <1>6, <1>7 DEF Standing
<1> QED
  BY <1>5, <1>7, <1>8, <1>9, SysBegins

\* A step of another program, or one that shows nothing to syserr.
LEMMA SysStays ==
    /\ cmd'.program # "syserr" => SysInv'
    /\ SysInv /\ UNCHANGED <<fds, reader, shellVars>> => SysInv'
    /\ SysInv /\ UNCHANGED <<cmd, said>> /\ pc' \in {"none", "start"} => SysInv'
<1>1. ASSUME SysInv, UNCHANGED <<fds, reader, shellVars>> PROVE SysInv'
  <2>1. Test' = Test
    BY <1>1 DEF Test, shellVars
  <2> QED
    BY <1>1, <2>1 DEF SysInv, shellVars, SysTests, Standing, LotsOpen
<1> QED
  BY <1>1 DEF SysInv

LEMMA SysNextInv ==
    ASSUME DotIsThere, ProgInv, SysInv, [ProgramsNext]_programVars
    PROVE  SysInv'
<1>0. /\ ShellInv /\ OpenInv0 /\ SyserrLocals
  BY DEF ProgInv, ProgLocals
\* A program of another name, or an end that syserr cannot tell from its own.
<1>a. UNCHANGED cmd /\ cmd.program # "syserr" => SysInv'
  BY SysStays
<1>e. EndsWith(0) \/ EndsWith(256) => SysInv'
  <2>1. ASSUME NEW status \in {0, 256}, EndsWith(status) PROVE SysInv'
    <3>1. UNCHANGED cmd /\ pc' = "none" /\ said' # "abnormally"
      BY <2>1 DEF EndsWith, Message
    <3> QED
      BY <3>1 DEF SysInv
  <2> QED
    BY <2>1
<1>1. CASE UNCHANGED programVars
  BY <1>1, SysStays DEF programVars, fdVars
<1>2. CASE ShellSteps
  <2>1. ASSUME Boot PROVE SysInv'
    <3>1. pc = "none" /\ UNCHANGED <<cmd, said, pc>>
      BY <1>0, <2>1 DEF Boot, ShellInv
    <3> QED
      BY <3>1, SysStays
  <2>2. ASSUME NEW c \in session, UnknownCommand(c) \/ Execute(c) PROVE SysInv'
    <3>1. pc' \in {"none", "start"} /\ said' # "abnormally"
      BY <1>0, <2>2 DEF UnknownCommand, Execute, ShellInv
    <3> QED
      BY <3>1 DEF SysInv
  <2>3. ASSUME ShellRestarts PROVE SysInv'
    <3>1. pc = "none" /\ UNCHANGED <<cmd, said, pc>>
      BY <1>0, <2>3 DEF ShellRestarts, ShellInv, shellVars
    <3> QED
      BY <3>1, SysStays
  <2> QED
    BY <1>2, <1>e, <2>1, <2>2, <2>3 DEF ShellSteps, KilledByCtrlC
<1>3. ASSUME SyserrChooses PROVE SysInv'
  <2>1. PICK select \in 0 .. Len(Tests) :
          loc' = [tests |-> IF select = 0 THEN Tests ELSE <<Tests[select]>>,
                  done |-> 0, failing |-> 0, fail |-> 0]
    BY <1>3 DEF SyserrChooses, Calls
  <2>2. (IF select = 0 THEN Tests ELSE <<Tests[select]>>) \in Seq(AllTests)
    BY TestsAre
  <2>3. /\ loc'.tests \in Seq(AllTests) /\ loc'.done = 0 /\ loc'.failing = 0 /\ loc'.fail = 0
    BY <2>1, <2>2
  <2>4. /\ pc = "start" /\ pc' = "syserr begins" /\ UNCHANGED <<fds, reader, said, cmd>>
        /\ reader = Nobody
    BY <1>3 DEF SyserrChooses, Starts, Runs, Calls, fdVars
  <2>5. Standing(Pid)'
    BY <1>0, <2>4 DEF OpenInv0, Quiet, Standing
  <2>6. SysTests'
    BY <2>3, <2>4, <2>5, SysBegins
  <2> QED
    BY <2>4, <2>6 DEF SysInv
<1>4. ASSUME SyserrCalls \/ SyserrJudges PROVE SysInv'
  <2>1. UNCHANGED <<cmd, said>> /\ pc = "syserr begins" /\ pc' = "syserr begins"
    BY <1>4 DEF SyserrCalls, SyserrJudges, Calls
  <2>2. cmd.program = "syserr" => SysTests'
    BY <1>4, SysCalls, SysJudges
  <2> QED
    BY <2>1, <2>2 DEF SysInv
<1>5. ASSUME SyserrRefuses \/ SyserrEnds PROVE SysInv'
  <2>1. CASE cmd.program = "syserr"
    <3>1. 0 % 256 = 0
      BY SMT
    <3>2. EndsWith(0)
      BY <1>5, <2>1, <3>1 DEF SyserrRefuses, SyserrEnds, Halt, SysInv, SysTests
    <3> QED
      BY <1>e, <3>2
  <2>2. CASE cmd.program # "syserr"
    BY <1>5, <1>a, <2>2 DEF SyserrRefuses, SyserrEnds, Halt, EndsWith
  <2> QED
    BY <2>1, <2>2
<1>6. ASSUME KernelReads PROVE SysInv'
  <2>1. reader # Nobody /\ UNCHANGED shellVars
    BY <1>6 DEF KernelReads, CopyBlock, CopyBadBlock, FinishRead
  <2>2. CASE pc = "syserr begins"
    <3>1. cmd.program # "syserr"
      BY <2>1, <2>2 DEF SysInv, SysTests
    <3> QED
      BY <1>a, <2>1, <3>1 DEF shellVars
  <2>3. CASE pc # "syserr begins"
    BY <2>1, <2>3 DEF SysInv, shellVars
  <2> QED
    BY <2>2, <2>3
\* Every other step is one of another program.
<1>7. ASSUME Cat PROVE SysInv'
  <2>1. cmd.program # "syserr"
    BY <1>7
       DEF Cat, CatOpens, CannotOpen, CatReadsFirst, CatWrites, CatReads, CatFails, CatEnds, Starts,
           Got, SysInv
  <2>2. CannotOpen \/ CatFails \/ CatEnds => UNCHANGED cmd
    BY DEF CannotOpen, CatFails, CatEnds, Halt, EndsWith
  <2>3. UNCHANGED cmd
    BY <1>7, <2>2 DEF Cat, CatOpens, CatReadsFirst, CatWrites, CatReads, Calls
  <2> QED
    BY <1>a, <2>1, <2>3
<1>8. ASSUME Grep PROVE SysInv'
  <2>1. cmd.program # "syserr"
    BY <1>8
       DEF Grep, GrepOpensDir, Starts, SysInv, GrepReadsFirst, GrepSkips, GrepGoesOn,
           GrepOpens, GrepReadsFile, GrepReadsOn, GrepTakes, GrepMovesDown, GrepPrints, GrepPasses,
           GrepCloses, GrepFails, GrepEnds, Got
  <2>2. GrepFails \/ GrepEnds => UNCHANGED cmd
    BY DEF GrepFails, GrepEnds, Halt, EndsWith
  <2>3. UNCHANGED cmd
    BY <1>8, <2>2
       DEF Grep, GrepOpensDir, GrepReadsFirst, GrepSkips, GrepGoesOn, GrepReadsDir,
           GrepOpens, GrepReadsFile, GrepReadsOn, GrepTakes, GrepMovesDown, GrepPrints, GrepPasses,
           GrepCloses, Calls, NextLine
  <2> QED
    BY <1>a, <2>1, <2>3
<1>9. ASSUME Fish PROVE SysInv'
  <2>1. FishEnds \/ FishCannotOpen => UNCHANGED cmd
    BY DEF FishEnds, FishCannotOpen, Halt, EndsWith
  <2>2. UNCHANGED cmd
    BY <1>9, <2>1
       DEF Fish, FishBegins, FishOpensFirst, FishOpensSecond, FishLooks, FishReads, FishSkips,
           FishTakes, FishPlaces, FishEndsRow, FishCloses, FishGoesOn, FishNextRow, FishSetsRate,
           FishWaits, FishTicks, FishActs, FishClosesRtc, Calls
  <2>3. cmd.program # "syserr"
    BY <1>9
       DEF Fish, FishBegins, FishOpensFirst, FishOpensSecond, FishLooks, FishReads, FishSkips,
           FishTakes, FishPlaces, FishEndsRow, FishCloses, FishGoesOn, FishNextRow, FishSetsRate,
           FishWaits, FishTicks, FishActs, FishClosesRtc, FishEnds, FishCannotOpen, Got, Starts,
           SysInv
  <2> QED
    BY <1>a, <2>2, <2>3
<1>10. ASSUME AnyOpens \/ AnyOpensDir \/ AnyCall \/ AnyHalts \/ AnyFaults \/ SigtestFaults
       PROVE  SysInv'
  <2>1. cmd.program # "syserr"
    BY <1>10
       DEF AnyOpens, AnyOpensDir, AnyCall, AnyHalts, AnyFaults, SigtestFaults, Starts, SysInv
  <2>2. AnyHalts \/ SigtestFaults => UNCHANGED cmd
    BY DEF AnyHalts, SigtestFaults, Halt, EndsWith
  <2>3. UNCHANGED cmd
    BY <1>10, <2>2 DEF AnyOpens, AnyOpensDir, AnyCall, AnyFaults, Calls, shellVars
  <2> QED
    BY <1>a, <2>1, <2>3
<1> QED
  BY <1>1, <1>2, <1>3, <1>4, <1>5, <1>6, <1>7, <1>8, <1>9, <1>10
     DEF ProgramsNext, ProgramSteps, OtherSteps

\* syserr never reports a failure, for any sizes of the descriptor table and of the
\* program's page, any names that do not exist, and whatever ran before it, as long as
\* the image has a directory entry "." (ece391syserr.c, syscalls.c).
THEOREM SyserrAlwaysPasses ==
    ASSUME DotIsThere
    PROVE  ProgramsSpec => []SyserrPasses
<1>1. ProgramsInit => SysInv
  BY DEF ProgramsInit, ShellInit, NoCommand, SysInv
<1>2. SysInv => SyserrPasses
  BY DEF SysInv, SyserrPasses
<1>3. ProgInv /\ SysInv /\ [ProgramsNext]_programVars => SysInv'
  BY SysNextInv
<1> QED
  BY <1>1, <1>2, <1>3, ProgInitInv, ProgNextInv, PTL DEF ProgramsSpec

----------------------------------------------------------------------------
(* grep prints the lines with the word *)

Size(inode) == inodes[inode].size
SizeOf(p) == Size(dentries[p].inode)
ByteOf(p, k) == FileByte(dentries[p].inode, k)

\* What was printed when grep is at an offset of the p-th entry: all of those before
\* and nothing of those behind.
Progress(output, word, p, offset) ==
    \A i \in Texts :
        UpTo(output, word, dentries[i],
             IF i < p THEN SizeOf(i) ELSE IF i = p THEN offset ELSE 0)

\* Where grep looks for a line if nothing was cut: at the start of one, or at the
\* newline of one that just filled the buffer.
Aligned(p, offset) ==
    \/ offset = 0 \/ offset = SizeOf(p)
    \/ ByteOf(p, offset - 1) = NL \/ ByteOf(p, offset) = NL

\* A descriptor of a text file.
TextDesc(p, d) ==
    /\ d.open /\ d.ftable = "regular"
    /\ d.inode = dentries[p].inode
    /\ d.pos \in 0 .. SizeOf(p)

\* What l.data holds from a on are the bytes of the file from offset on.
Holds(p, offset, l, a) == \A k \in a .. l.last - 1 : l.data[k] = ByteOf(p, offset + (k - a))

\* Before a read: the part of a line that was moved down.
Kept(p, offset, d, l) ==
    /\ TextDesc(p, d)
    /\ l.last \in 0 .. BUFSIZE - 1
    /\ offset + l.last = d.pos
    /\ Holds(p, offset, l, 0)

\* The read copies as much as there is and as the buffer has room for.
IsCopying(p, offset, d, l, r) ==
    /\ Kept(p, offset, d, l)
    /\ r.fd = l.fd
    /\ r.length = Least(BUFSIZE - l.last, SizeOf(p) - d.pos)

HasCopied(p, offset, d, l, r) ==
    /\ TextDesc(p, d)
    /\ l.last \in 0 .. BUFSIZE - 1
    /\ r.value \in 0 .. BUFSIZE - l.last
    /\ offset + l.last + r.value = d.pos
    /\ Holds(p, offset, l, 0)
    /\ Len(r.taken) = r.value
    /\ \A j \in 1 .. r.value : r.taken[j] = ByteOf(p, offset + l.last + (j - 1))
    /\ l.last + r.value < BUFSIZE => d.pos = SizeOf(p)

\* The lines of the buffer are looked at; it is full unless the file has ended.
Scans(p, offset, d, l) ==
    /\ TextDesc(p, d)
    /\ l.last \in 0 .. BUFSIZE
    /\ l.line_start \in 0 .. l.last
    /\ offset + (l.last - l.line_start) = d.pos
    /\ Holds(p, offset, l, l.line_start)
    /\ l.last < BUFSIZE => d.pos = SizeOf(p)
    /\ l.cnt = 0 => l.last < BUFSIZE

\* grep is at an offset of the p-th entry.
AtFile(p, offset) ==
    /\ fds[Pid][loc.dir].pos = p
    /\ loc.name = dentries[p].name
    /\ ~loc.cut => Progress(out, cmd.arg, p, offset)
    /\ p \in Texts =>
        /\ ~loc.cut => Aligned(p, offset)
        /\ pc = "grep reads" =>
                IF reader = Pid THEN IsCopying(p, offset, fds[Pid][loc.fd], loc, rd)
                ELSE reply.value # -1 => HasCopied(p, offset, fds[Pid][loc.fd], loc, reply)
        /\ pc = "grep scans" => Scans(p, offset, fds[Pid][loc.fd], loc)
        /\ pc = "grep wants more" => Kept(p, offset, fds[Pid][loc.fd], loc)

\* grep has opened the file of the p-th entry, or not.
HasOpened(p) ==
    /\ fds[Pid][loc.dir].pos = p
    /\ loc.name = dentries[p].name
    /\ ~loc.cut => Progress(out, cmd.arg, p, 0)
    /\ p \in Texts /\ reply.value # -1 =>
            fds[Pid][reply.value] = Opened("regular", dentries[p].inode)

\* It has the name of the p-th entry.
HasName(p) ==
    /\ fds[Pid][loc.dir].pos = p
    /\ Head(reply.taken) = dentries[p].name
    /\ ~loc.cut => Progress(out, cmd.arg, p, 0)

\* It is done with the p-th entry.
IsDone(p) ==
    /\ fds[Pid][loc.dir].pos = p
    /\ ~loc.cut => Progress(out, cmd.arg, p + 1, 0)

\* Of each text, the lines up to some place were printed.
Somewhere(output, word) ==
    \A i \in Texts : \E offset \in 0 .. SizeOf(i) : UpTo(output, word, dentries[i], offset)

AllPrinted == \A i \in Texts : UpTo(out, cmd.arg, dentries[i], SizeOf(i))

\* Whatever was printed of a text is part of a line with the word.
Pieces(output, word) ==
    \A i \in Texts : \A k \in PrintedOf(output, dentries[i].name) :
        /\ HasWord(output[k].line, word)
        /\ \E m \in Matches(dentries[i].inode, word) :
                HasWord(LineAt(dentries[i].inode, m), output[k].line)

\* What was printed is a sequence.
IsOutput(s) == Len(s) \in Nat /\ s = [k \in 1 .. Len(s) |-> s[k]]

GrepInv ==
    cmd.program = "grep" =>
        /\ pc \in {"none", "start"} \cup GrepPcs
        /\ shell # "off"
        /\ pc # "none" <=> shell = "waiting"
        /\ IsOutput(out) /\ Pieces(out, cmd.arg)
        /\ out # <<>> /\ ~loc.cut => Somewhere(out, cmd.arg)
        /\ pc \in {"start", "grep opens dir"} => out = <<>>
        /\ pc = "grep opens dir" /\ reply.value # -1 => fds[Pid][reply.value].pos = 0
        /\ pc = "grep reads dir" =>
                /\ reply.value > 0 => \E p \in 1 .. Len(dentries) : HasName(p)
                /\ reply.value = 0 /\ ~loc.cut => AllPrinted
        /\ pc = "grep opens" => \E p \in 1 .. Len(dentries) : HasOpened(p)
        /\ pc \in {"grep reads", "grep scans", "grep wants more"} =>
                \E p \in 1 .. Len(dentries), offset \in Nat : AtFile(p, offset)
        /\ pc \in {"grep at end", "grep closes"} => \E p \in 1 .. Len(dentries) : IsDone(p)
        /\ shell = "prompt" /\ said = "nothing" /\ ~loc.cut => AllPrinted
        /\ shell = "waiting" => said = "nothing"

----------------------------------------------------------------------------
(* Lines of files *)

LEMMA LineEnds ==
    ASSUME NEW inode, Size(inode) \in Nat, NEW k \in 0 .. Size(inode)
    PROVE  \E e \in k .. Size(inode) :
                /\ e = Size(inode) \/ FileByte(inode, e) = NL
                /\ \A j \in k .. e - 1 : FileByte(inode, j) # NL
<1> DEFINE T == {e \in k .. Size(inode) : e = Size(inode) \/ FileByte(inode, e) = NL}
<1>1. T \in SUBSET Nat /\ Size(inode) \in T
  OBVIOUS
<1>2. PICK e \in T : \A j \in T : e <= j
  <2> HIDE DEF T
  <2> QED
    BY <1>1, LeastExists
<1>3. ASSUME NEW j \in k .. e - 1, FileByte(inode, j) = NL PROVE FALSE
  <2>1. j \in T
    BY <1>3
  <2> QED
    BY <1>2, <2>1
<1> QED
  BY <1>2, <1>3

\* A line is the bytes up to the first newline.
LEMMA LineAtIs ==
    ASSUME NEW inode, Size(inode) \in Nat, NEW k \in 0 .. Size(inode),
           NEW e \in k .. Size(inode), e = Size(inode) \/ FileByte(inode, e) = NL,
           \A j \in k .. e - 1 : FileByte(inode, j) # NL
    PROVE  LineAt(inode, k) = [i \in 1 .. e - k |-> FileByte(inode, k + i - 1)]
<1> DEFINE stops == {f \in k .. Size(inode) : f = Size(inode) \/ FileByte(inode, f) = NL}
           Q(f) == \A other \in stops : f <= other
           g == CHOOSE f \in stops : Q(f)
<1>1. e \in stops /\ Q(e)
  <2>1. ASSUME NEW other \in stops PROVE e <= other
    <3>1. CASE other = Size(inode)
      BY <3>1
    <3>2. CASE FileByte(inode, other) = NL
      BY <3>2
    <3> QED
      BY <3>1, <3>2
  <2> QED
    BY <2>1
<1>2. g \in stops /\ Q(g)
  <2> HIDE DEF stops, Q
  <2> QED
    BY <1>1
<1>3. g = e
  <2>1. g <= e /\ e <= g
    BY <1>1, <1>2
  <2>2. g \in Nat /\ e \in Nat
    BY <1>2
  <2> HIDE DEF g
  <2> QED
    BY <2>1, <2>2
<1>4. LineAt(inode, k) = [i \in 1 .. g - k |-> FileByte(inode, k + i - 1)]
  BY DEF LineAt, Size
<1> HIDE DEF g
<1> QED
  BY <1>3, <1>4

\* Where the line that holds a byte begins.
LEMMA LineBegins ==
    ASSUME NEW inode, Size(inode) \in Nat, NEW a \in 0 .. Size(inode) - 1
    PROVE  \E s \in LineStarts(inode) :
                s <= a /\ \A j \in s .. a - 1 : FileByte(inode, j) # NL
<1> DEFINE T == {n \in 0 .. a : a - n = 0 \/ FileByte(inode, a - n - 1) = NL}
<1>1. T \in SUBSET Nat /\ a \in T
  OBVIOUS
<1>2. PICK n \in T : \A j \in T : n <= j
  <2> HIDE DEF T
  <2> QED
    BY <1>1, LeastExists
<1>3. n \in 0 .. a /\ (a - n = 0 \/ FileByte(inode, a - n - 1) = NL)
  BY <1>2
<1>4. ASSUME NEW j \in a - n .. a - 1, FileByte(inode, j) = NL PROVE FALSE
  <2> DEFINE m == a - (j + 1)
  <2>1. m \in 0 .. a /\ m < n /\ a - m - 1 = j
    BY <1>3
  <2>2. m \in T
    BY <1>4, <2>1
  <2> HIDE DEF m, T
  <2> QED
    BY <1>2, <1>3, <2>1, <2>2
<1>5. a - n \in LineStarts(inode)
  <2>1. a - n \in 0 .. Size(inode) - 1
    BY <1>3
  <2> QED
    BY <1>3, <2>1 DEF LineStarts, Size
<1>6. a - n <= a
  BY <1>3
<1> QED
  BY <1>4, <1>5, <1>6

\* A part of a file as it is printed.
Part(inode, a, b) == [i \in 1 .. b - a |-> FileByte(inode, a + i - 1)]

\* The word stands in a file at an offset.
Stands(inode, a, word) == \A i \in 1 .. Len(word) : FileByte(inode, a + i - 1) = word[i]

LEMMA PartHas ==
    ASSUME NEW inode, NEW a \in Nat, NEW b \in Nat, a <= b, NEW word, Len(word) \in Nat
    PROVE  /\ Len(Part(inode, a, b)) = b - a
           /\ HasWord(Part(inode, a, b), word) <=>
                word # <<>> /\ \E k \in 0 .. (b - a) - Len(word) : Stands(inode, a + k, word)
<1> DEFINE n == b - a
           p == Part(inode, a, b)
           w == Len(word)
<1>1. n \in Nat
  OBVIOUS
<1>2. p = [i \in 1 .. n |-> FileByte(inode, a + i - 1)]
  BY DEF Part
<1> HIDE DEF n, p, w
<1>3. Len(p) = n
  BY <1>1, <1>2, SMT
<1>4. ASSUME NEW k \in 0 .. n - w, NEW i \in 1 .. w
      PROVE  p[k + i] = FileByte(inode, a + k + i - 1)
  <2>1. k + i \in 1 .. n /\ a + (k + i) - 1 = a + k + i - 1
    BY <1>1 DEF w
  <2>2. p[k + i] = FileByte(inode, a + (k + i) - 1)
    BY <1>2, <2>1
  <2> QED
    BY <2>1, <2>2
<1>5. HasWord(p, word) <=>
        word # <<>> /\ \E k \in 0 .. n - w : \A i \in 1 .. w : p[k + i] = word[i]
  BY <1>3 DEF HasWord, w
<1>6. (\E k \in 0 .. n - w : \A i \in 1 .. w : p[k + i] = word[i]) <=>
        \E k \in 0 .. n - w : Stands(inode, a + k, word)
  BY <1>4, Zenon DEF Stands, w
<1> QED
  BY <1>3, <1>5, <1>6 DEF n, p, w

\* A part without a newline that has the word is in a line that has it.
LEMMA PartInLine ==
    ASSUME NEW inode, Size(inode) \in Nat,
           NEW a \in 0 .. Size(inode), NEW b \in a .. Size(inode), NEW word, Len(word) \in Nat \ {0},
           \A j \in a .. b - 1 : FileByte(inode, j) # NL,
           HasWord(Part(inode, a, b), word)
    PROVE  \E m \in Matches(inode, word) : HasWord(LineAt(inode, m), Part(inode, a, b))
<1> DEFINE n == b - a
           w == Len(word)
           p == Part(inode, a, b)
<1>0. a \in Nat /\ b \in Nat /\ a <= b /\ Len(word) \in Nat
  OBVIOUS
<1>1. PICK k \in 0 .. n - w : Stands(inode, a + k, word)
  <2>1. \E k \in 0 .. (b - a) - Len(word) : Stands(inode, a + k, word)
    BY <1>0, PartHas
  <2> QED
    BY <2>1
<1>2. w \in Nat \ {0} /\ word # <<>> /\ Len(p) = n /\ a \in Nat /\ b \in Nat
  <2>1. Len(p) = n /\ word # <<>>
    BY <1>0, PartHas
  <2> QED
    BY <1>0, <2>1
<1>3. a \in 0 .. Size(inode) - 1 /\ n > 0
  BY <1>1, <1>2
<1>4. PICK s \in LineStarts(inode) : s <= a /\ \A j \in s .. a - 1 : FileByte(inode, j) # NL
  BY <1>3, LineBegins
<1>5. s \in 0 .. Size(inode)
  BY <1>4 DEF LineStarts, Size
<1>6. PICK e \in s .. Size(inode) :
        /\ e = Size(inode) \/ FileByte(inode, e) = NL
        /\ \A j \in s .. e - 1 : FileByte(inode, j) # NL
  BY <1>5, LineEnds
<1>7. b <= e
  <2> SUFFICES ASSUME e < b PROVE FALSE
    BY <1>5, <1>6
  <2>1. FileByte(inode, e) = NL
    BY <1>6
  <2>2. e \in s .. a - 1 \/ e \in a .. b - 1
    BY <1>4, <1>5, <1>6
  <2> QED
    BY <1>4, <2>1, <2>2
<1>8. LineAt(inode, s) = Part(inode, s, e)
  BY <1>5, <1>6, LineAtIs DEF Part
<1>9. HasWord(Part(inode, s, e), word)
  <2> DEFINE m == (a - s) + k
  <2>1. m \in 0 .. (e - s) - w
    BY <1>1, <1>2, <1>4, <1>5, <1>6, <1>7
  <2>2. s + m = a + k
    BY <1>1, <1>2, <1>4, <1>5
  <2>3. Stands(inode, s + m, word)
    BY <1>1, <2>2
  <2>4. s \in Nat /\ e \in Nat /\ s <= e
    BY <1>5, <1>6
  <2> HIDE DEF m
  <2> QED
    BY <1>2, <2>1, <2>3, <2>4, PartHas
<1>10. HasWord(Part(inode, s, e), p)
  <2> DEFINE m == a - s
  <2>1. m \in 0 .. (e - s) - n
    BY <1>2, <1>4, <1>5, <1>6, <1>7
  <2>2. Stands(inode, s + m, p)
    <3>1. s + m = a
      BY <1>2, <1>4, <1>5
    <3>2. \A i \in 1 .. n : FileByte(inode, a + i - 1) = p[i]
      BY DEF Part
    <3> QED
      BY <1>2, <3>1, <3>2 DEF Stands
  <2>3. s \in Nat /\ e \in Nat /\ s <= e
    BY <1>5, <1>6
  <2>4. p # <<>> /\ Len(p) \in Nat
    <3>1. Len(<<>>) = 0
      OBVIOUS
    <3> HIDE DEF p
    <3> QED
      BY <1>2, <1>3, <3>1
  <2> HIDE DEF m, p
  <2> QED
    BY <1>2, <2>1, <2>2, <2>3, <2>4, PartHas
<1> QED
  BY <1>4, <1>8, <1>9, <1>10 DEF Matches

\* The next place to look for a line: behind the newline at e, or there.
Goes(inode, e, next) ==
    /\ e = Size(inode) \/ FileByte(inode, e) = NL
    /\ next = e \/ (next = e + 1 /\ e < Size(inode))

\* From a line to the next one: it is a match or none is passed over.
LEMMA NextMatches ==
    ASSUME NEW inode, Size(inode) \in Nat,
           NEW at \in 0 .. Size(inode), NEW e \in at .. Size(inode),
           \A j \in at .. e - 1 : FileByte(inode, j) # NL,
           \/ at = 0 \/ at = Size(inode)
           \/ FileByte(inode, at - 1) = NL \/ FileByte(inode, at) = NL,
           NEW next, Goes(inode, e, next),
           NEW word, Len(word) \in Nat, word # <<>> => Len(word) > 0
    PROVE  LET has == HasWord(Part(inode, at, e), word) IN
           /\ next \in at .. Size(inode)
           /\ \/ next = 0 \/ next = Size(inode)
              \/ FileByte(inode, next - 1) = NL \/ FileByte(inode, next) = NL
           /\ has => /\ at \in Matches(inode, word)
                     /\ LineAt(inode, at) = Part(inode, at, e)
           /\ \A m \in Matches(inode, word) : m < next <=> m < at \/ (has /\ m = at)
<1> DEFINE has == HasWord(Part(inode, at, e), word)
           size == Size(inode)
<1>0. /\ at \in Nat /\ e \in Nat /\ at <= e /\ e <= size /\ size \in Nat
      /\ next = e \/ (next = e + 1 /\ e < size)
      /\ e = size \/ FileByte(inode, e) = NL
  BY DEF Goes
<1>1. /\ next \in at .. size
      /\ next = size \/ FileByte(inode, next - 1) = NL \/ FileByte(inode, next) = NL
  <2> HIDE DEF size
  <2> QED
    BY <1>0
<1>2. LineAt(inode, at) = Part(inode, at, e)
  BY <1>0, LineAtIs DEF Part
<1>3. ASSUME has PROVE at < e
  <2>1. word # <<>> /\ \E k \in 0 .. (e - at) - Len(word) : Stands(inode, at + k, word)
    BY <1>0, <1>3, PartHas
  <2>2. PICK k \in 0 .. (e - at) - Len(word) : TRUE
    BY <2>1
  <2> QED
    BY <1>0, <2>1, <2>2
<1>4. has => at \in Matches(inode, word)
  <2> SUFFICES ASSUME has PROVE at \in Matches(inode, word)
    OBVIOUS
  <2>1. at < e
    BY <1>3
  <2>2. at \in LineStarts(inode)
    <3>1. at \in 0 .. size - 1
      BY <1>0, <2>1
    <3>2. FileByte(inode, at) # NL
      BY <1>0, <2>1
    <3>3. at = 0 \/ FileByte(inode, at - 1) = NL
      BY <3>1, <3>2
    <3> QED
      BY <3>1, <3>3 DEF LineStarts, Size
  <2> QED
    BY <1>2, <2>2 DEF Matches
<1>5. ASSUME NEW m \in Matches(inode, word), m < next, ~(m < at) PROVE has /\ m = at
  <2>1. /\ m \in 0 .. size - 1 /\ (m = 0 \/ FileByte(inode, m - 1) = NL)
        /\ HasWord(LineAt(inode, m), word)
    BY <1>5 DEF Matches, LineStarts, Size
  <2>2. m = at
    <3> SUFFICES ASSUME m # at PROVE FALSE
      OBVIOUS
    <3>1. m - 1 \in at .. e - 1 /\ m # 0
      <4> HIDE DEF size
      <4> QED
        BY <1>0, <1>5, <2>1
    <3> QED
      BY <2>1, <3>1
  <2> QED
    BY <1>2, <2>1, <2>2
<1>6. ASSUME NEW m \in Matches(inode, word), m < at \/ (has /\ m = at) PROVE m < next
  <2>1. m \in Nat
    BY DEF Matches, LineStarts, Size
  <2>2. CASE m < at
    <3> HIDE DEF size
    <3> QED
      BY <1>0, <2>1, <2>2
  <2>3. CASE has /\ m = at
    <3>1. at < e
      BY <1>3, <2>3
    <3> HIDE DEF size
    <3> QED
      BY <1>0, <2>3, <3>1
  <2> QED
    BY <1>6, <2>2, <2>3
<1> QED
  BY <1>1, <1>2, <1>4, <1>5, <1>6

----------------------------------------------------------------------------
(* What was printed *)

LEMMA UpToSame ==
    ASSUME NEW output, NEW word, NEW de, NEW a, NEW b, UpTo(output, word, de, a),
           \A m \in Matches(de.inode, word) : m < a <=> m < b
    PROVE  UpTo(output, word, de, b)
<1>1. {m \in Matches(de.inode, word) : m < a} = {m \in Matches(de.inode, word) : m < b}
  OBVIOUS
<1> QED
  BY <1>1 DEF UpTo

\* Another line is printed.
Longer(o2, output, x) ==
    /\ Len(output) \in Nat
    /\ Len(o2) = Len(output) + 1
    /\ \A k \in 1 .. Len(output) : o2[k] = output[k]
    /\ o2[Len(output) + 1] = x

LEMMA UpToGrows ==
    ASSUME NEW output, NEW word, NEW de, NEW at \in Nat, NEW next, UpTo(output, word, de, at),
           at \in Matches(de.inode, word),
           \A m \in Matches(de.inode, word) : m < next <=> m < at \/ m = at,
           NEW o2, NEW x, Longer(o2, output, x), x.name = de.name, x.line = LineAt(de.inode, at)
    PROVE  UpTo(o2, word, de, next)
<1> DEFINE n == Len(output)
           P == PrintedOf(output, de.name)
           Q == PrintedOf(o2, de.name)
           M == {m \in Matches(de.inode, word) : m < at}
           N == {m \in Matches(de.inode, word) : m < next}
<1>0. /\ n \in Nat /\ Len(o2) = n + 1 /\ o2[n + 1] = x
      /\ \A k \in 1 .. n : o2[k] = output[k]
  BY DEF Longer
<1>1. Q = P \cup {n + 1} /\ P \subseteq 1 .. n
  <2>1. 1 .. Len(o2) = (1 .. n) \cup {n + 1}
    <3> HIDE DEF n
    <3> QED
      BY <1>0
  <2>2. o2[n + 1].name = de.name
    BY <1>0
  <2>3. \A k \in 1 .. n : o2[k].name = output[k].name
    BY <1>0
  <2> HIDE DEF n
  <2>4. Q = {k \in 1 .. Len(o2) : o2[k].name = de.name}
    BY DEF PrintedOf
  <2>5. P = {k \in 1 .. n : output[k].name = de.name}
    BY DEF PrintedOf, n
  <2> HIDE DEF P, Q
  <2> QED
    BY <2>1, <2>2, <2>3, <2>4, <2>5
<1>2. N = M \cup {at} /\ at \notin M /\ \A m \in M : m < at
  BY DEF Matches, LineStarts
<1>3. PICK from \in [P -> M] :
        /\ \A k \in P : output[k].line = LineAt(de.inode, from[k])
        /\ \A j, k \in P : j < k => from[j] < from[k]
        /\ \A m \in M : \E k \in P : from[k] = m
  BY DEF UpTo
<1> DEFINE to == [k \in Q |-> IF k = n + 1 THEN at ELSE from[k]]
<1> HIDE DEF P, Q, M, N, n
<1>4. n + 1 \in Q /\ n + 1 \notin P /\ \A k \in Q : k = n + 1 \/ k \in P
  BY <1>0, <1>1
<1>5. to \in [Q -> N] /\ to[n + 1] = at /\ \A k \in P : to[k] = from[k]
  BY <1>1, <1>2, <1>3, <1>4
<1> HIDE DEF to
<1>6. \A k \in Q : o2[k].line = LineAt(de.inode, to[k])
  <2> SUFFICES ASSUME NEW k \in Q PROVE o2[k].line = LineAt(de.inode, to[k])
    OBVIOUS
  <2>1. CASE k = n + 1
    BY <1>0, <1>5, <2>1
  <2>2. CASE k \in P
    <3>1. k \in 1 .. n
      BY <1>1, <2>2
    <3> QED
      BY <1>0, <1>3, <1>5, <2>2, <3>1
  <2> QED
    BY <1>4, <2>1, <2>2
<1>7. \A j, k \in Q : j < k => to[j] < to[k]
  <2> SUFFICES ASSUME NEW j \in Q, NEW k \in Q, j < k PROVE to[j] < to[k]
    OBVIOUS
  <2>1. j \in P
    BY <1>0, <1>1, <1>4
  <2>2. CASE k \in P
    BY <1>3, <1>5, <2>1, <2>2
  <2>3. CASE k = n + 1
    <3>1. from[j] \in M
      BY <1>3, <2>1
    <3> QED
      BY <1>2, <1>5, <2>1, <2>3, <3>1
  <2> QED
    BY <1>4, <2>2, <2>3
<1>8. \A m \in N : \E k \in Q : to[k] = m
  <2> SUFFICES ASSUME NEW m \in N PROVE \E k \in Q : to[k] = m
    OBVIOUS
  <2>1. CASE m = at
    BY <1>4, <1>5, <2>1
  <2>2. CASE m \in M
    BY <1>1, <1>3, <1>5, <2>2
  <2> QED
    BY <1>2, <2>1, <2>2
<1> QED
  BY <1>5, <1>6, <1>7, <1>8 DEF UpTo, Q, N

\* A line of another file is printed.
LEMMA UpToKeeps ==
    ASSUME NEW output, NEW word, NEW de, NEW a, UpTo(output, word, de, a),
           NEW o2, NEW x, Longer(o2, output, x), x.name # de.name
    PROVE  UpTo(o2, word, de, a)
<1> DEFINE n == Len(output)
           P == PrintedOf(output, de.name)
<1>0. /\ n \in Nat /\ Len(o2) = n + 1 /\ o2[n + 1] = x
      /\ \A k \in 1 .. n : o2[k] = output[k]
  BY DEF Longer
<1>1. PrintedOf(o2, de.name) = P
  <2>1. 1 .. Len(o2) = (1 .. n) \cup {n + 1}
    <3> HIDE DEF n
    <3> QED
      BY <1>0
  <2>2. o2[n + 1].name # de.name
    BY <1>0
  <2>3. \A k \in 1 .. n : o2[k].name = output[k].name
    BY <1>0
  <2> QED
    BY <2>1, <2>2, <2>3 DEF PrintedOf
<1>2. \A k \in P : o2[k].line = output[k].line
  BY <1>0 DEF PrintedOf
<1> QED
  BY <1>1, <1>2 DEF UpTo

LEMMA NothingPrinted ==
    ASSUME NEW word, NEW de
    PROVE  UpTo(<<>>, word, de, 0)
<1>1. PrintedOf(<<>>, de.name) = {}
  BY DEF PrintedOf
<1>2. {m \in Matches(de.inode, word) : m < 0} = {}
  BY DEF Matches, LineStarts
<1> DEFINE from == [k \in {} |-> 0]
<1>3. from \in [{} -> {}]
  OBVIOUS
<1> HIDE DEF from
<1> QED
  BY <1>1, <1>2, <1>3 DEF UpTo

----------------------------------------------------------------------------
(* A line in the buffer *)

LEMMA TextIs ==
    ASSUME NEW p \in Texts
    PROVE  /\ p \in 1 .. Len(dentries) /\ Len(dentries) \in Nat
           /\ SizeOf(p) \in Nat /\ Size(dentries[p].inode) = SizeOf(p)
           /\ get_inode(dentries[p].inode) /\ dentries[p].inode \in Nat
           /\ dentries[p].type = FILE_REGULAR /\ GoodFile(dentries[p].inode)
           /\ dentries[p].name \notin Dotted
           /\ \A j \in 1 .. Len(dentries) : dentries[j].name = dentries[p].name => j = p
           /\ \A k \in 0 .. SizeOf(p) - 1 : ByteOf(p, k) # NUL
           /\ \A k \in LineStarts(dentries[p].inode) : Len(LineAt(dentries[p].inode, k)) <= BUFSIZE
<1>1. p \in 1 .. Len(dentries) /\ Len(dentries) \in Nat
  BY ImageAssumption DEF Texts
<1>2. dentries[p] \in Dentry
  BY <1>1, DentryType
<1>3. get_inode(dentries[p].inode) /\ dentries[p].inode \in Nat
  BY <1>2 DEF Texts, IsText, GoodFile, Dentry
<1>4. inodes[dentries[p].inode].size \in Nat
  BY <1>3, ImageAssumption DEF get_inode
<1> QED
  BY <1>1, <1>3, <1>4 DEF Texts, IsText, SizeOf, Size, ByteOf

\* The end of the line in the file.
EndIn(offset) == offset + (LineEnd - loc.line_start)

LEMMA ScannedLine ==
    ASSUME NEW p \in Texts, NEW offset \in Nat, NEW d, Buffered, Scans(p, offset, d, loc),
           BUFSIZE \in Nat
    PROVE  /\ LineEnd \in loc.line_start .. loc.last
           /\ EndIn(offset) \in offset .. d.pos /\ d.pos \in 0 .. SizeOf(p)
           /\ \A j \in offset .. EndIn(offset) - 1 : ByteOf(p, j) # NL
           /\ LineEnd < loc.last =>
                loc.data[LineEnd] = NL /\ ByteOf(p, EndIn(offset)) = NL /\ EndIn(offset) < d.pos
           /\ LineEnd = loc.last => EndIn(offset) = d.pos
<1> DEFINE a == loc.line_start
           b == loc.last
           e == LineEnd
           q == d.pos
           size == SizeOf(p)
           byte(k) == ByteOf(p, k)
           at(k) == loc.data[k]
<1>1. /\ b \in 0 .. BUFSIZE /\ a \in 0 .. b /\ offset + (b - a) = q /\ q \in 0 .. size
      /\ \A k \in a .. b - 1 : at(k) = byte(offset + (k - a))
  BY DEF Scans, Holds, TextDesc
<1>2. size \in Nat
  BY TextIs
<1>3. e \in a .. b /\ (e = b \/ at(e) = NL) /\ \A k \in a .. e - 1 : at(k) # NL
  <2>1. b \in Nat
    BY <1>1
  <2> QED
    BY <1>1, <2>1, LineEndIs
<1> HIDE DEF a, b, e, q, size, byte, at
<1>4. offset + (e - a) \in offset .. q
  BY <1>1, <1>2, <1>3
<1>5. ASSUME NEW j \in offset .. offset + (e - a) - 1 PROVE byte(j) # NL
  <2> DEFINE k == a + (j - offset)
  <2>1. k \in a .. e - 1 /\ k \in a .. b - 1 /\ offset + (k - a) = j
    BY <1>1, <1>2, <1>3
  <2> HIDE DEF k
  <2> QED
    BY <1>1, <1>3, <2>1
<1>6. ASSUME e < b PROVE at(e) = NL /\ byte(offset + (e - a)) = NL /\ offset + (e - a) < q
  <2>1. e \in a .. b - 1 /\ offset + (e - a) < q
    BY <1>1, <1>2, <1>3, <1>6
  <2> QED
    BY <1>1, <1>3, <1>6, <2>1
<1>7. e = b => offset + (e - a) = q
  BY <1>1
<1> QED
  BY <1>1, <1>3, <1>4, <1>5, <1>6, <1>7 DEF EndIn, a, b, e, q, size, byte, at

LEMMA LineIsPart ==
    ASSUME NEW p \in Texts, NEW offset \in Nat, NEW d, Buffered, Scans(p, offset, d, loc),
           BUFSIZE \in Nat
    PROVE  /\ \A k \in loc.line_start .. LineEnd - 1 :
                    Ended[k] = ByteOf(p, offset + (k - loc.line_start)) /\ Ended[k] # NUL
           /\ Ended[LineEnd] = NUL
           /\ Line = Part(dentries[p].inode, offset, EndIn(offset))
<1> DEFINE a == loc.line_start
           b == loc.last
           e == LineEnd
           size == SizeOf(p)
           byte(k) == ByteOf(p, k)
<1>1. /\ b \in 0 .. BUFSIZE /\ a \in 0 .. b /\ e \in a .. b
      /\ offset + (b - a) = d.pos /\ d.pos \in 0 .. size /\ size \in Nat
      /\ \A k \in a .. b - 1 : loc.data[k] = byte(offset + (k - a))
      /\ \A k \in 0 .. size - 1 : byte(k) # NUL
  BY ScannedLine, TextIs DEF Scans, Holds, TextDesc
<1>e. EndIn(offset) - offset = e - a
  <2>1. EndIn(offset) = offset + (e - a)
    BY DEF EndIn
  <2>2. a \in Nat /\ e \in Nat
    <3> HIDE DEF a, b, e, size, byte
    <3> QED
      BY <1>1
  <2> HIDE DEF a, e
  <2> QED
    BY <2>1, <2>2
<1>2. Ended[e] = NUL /\ \A k \in 0 .. BUFSIZE : k # e => Ended[k] = loc.data[k]
  <2>1. e \in 0 .. BUFSIZE
    <3> HIDE DEF a, b, e, size, byte
    <3> QED
      BY <1>1
  <2> QED
    BY <2>1 DEF Ended, Buffered
<1>3. ASSUME NEW k \in a .. e - 1 PROVE Ended[k] = byte(offset + (k - a)) /\ Ended[k] # NUL
  <2>1. /\ k \in 0 .. BUFSIZE /\ k # e /\ k \in a .. b - 1
        /\ offset + (k - a) \in 0 .. size - 1
    <3> HIDE DEF a, b, e, size, byte
    <3> QED
      BY <1>1
  <2> QED
    BY <1>1, <1>2, <2>1
<1> DEFINE Q(n) == Ended[n] = NUL /\ \A k \in a .. n - 1 : Ended[k] # NUL
           n == CHOOSE n \in a .. e : Q(n)
<1>4. e \in a .. e /\ Q(e)
  <2>1. e \in a .. e
    <3> HIDE DEF a, b, e, size, byte
    <3> QED
      BY <1>1
  <2> QED
    BY <1>2, <1>3, <2>1
<1>5. n \in a .. e /\ Q(n)
  <2> HIDE DEF Q, e, a
  <2> QED
    BY <1>4
<1>6. n = e
  <2> SUFFICES ASSUME n # e PROVE FALSE
    OBVIOUS
  <2>1. n \in a .. e - 1
    <3> HIDE DEF n, a, b, e, size, byte
    <3> QED
      BY <1>1, <1>5
  <2> QED
    BY <1>3, <1>5, <2>1
<1>7. Line = [i \in 1 .. n - a |-> Ended[a + i - 1]]
  BY DEF Line
<1>8. Part(dentries[p].inode, offset, EndIn(offset)) = [i \in 1 .. e - a |-> byte(offset + i - 1)]
  <2>1. EndIn(offset) - offset = e - a
    BY <1>e
  <2> QED
    BY <2>1 DEF Part, ByteOf
<1>9. \A i \in 1 .. e - a : Ended[a + i - 1] = byte(offset + i - 1)
  <2> SUFFICES ASSUME NEW i \in 1 .. e - a PROVE Ended[a + i - 1] = byte(offset + i - 1)
    OBVIOUS
  <2>1. a + i - 1 \in a .. e - 1 /\ offset + ((a + i - 1) - a) = offset + i - 1
    <3> HIDE DEF n, a, b, e, size, byte
    <3> QED
      BY <1>1
  <2> HIDE DEF n, a, e, size, byte
  <2> QED
    BY <1>3, <2>1
<1> HIDE DEF n
<1> QED
  BY <1>2, <1>3, <1>6, <1>7, <1>8, <1>9

\* The program finds the word where it is.
LEMMA FoundIs ==
    ASSUME NEW p \in Texts, NEW offset \in Nat, NEW d, Buffered, Scans(p, offset, d, loc),
           BUFSIZE \in Nat, cmd.arg \in Seq(Bytes \ {NUL})
    PROVE  Found <=> HasWord(Part(dentries[p].inode, offset, EndIn(offset)), cmd.arg)
<1> DEFINE a == loc.line_start
           e == LineEnd
           w == cmd.arg
           f == dentries[p].inode
<1>1. /\ a \in Nat /\ e \in Nat /\ a <= e /\ EndIn(offset) = offset + (e - a)
      /\ EndIn(offset) \in Nat /\ offset <= EndIn(offset) /\ EndIn(offset) - offset = e - a
  <2>1. /\ loc.last \in 0 .. BUFSIZE /\ a \in 0 .. loc.last /\ e \in a .. loc.last
    BY ScannedLine DEF Scans
  <2>2. a \in Nat /\ e \in Nat /\ a <= e
    <3> HIDE DEF a, e
    <3> QED
      BY <2>1
  <2>3. EndIn(offset) = offset + (e - a)
    BY DEF EndIn
  <2> HIDE DEF a, e
  <2> QED
    BY <2>2, <2>3
<1>2. /\ \A k \in a .. e - 1 : Ended[k] = FileByte(f, offset + (k - a)) /\ Ended[k] # NUL
      /\ Ended[e] = NUL
  BY LineIsPart DEF ByteOf
<1>3. /\ Len(w) \in Nat /\ \A i \in 1 .. Len(w) : w[i] # NUL
      /\ w # <<>> => Len(w) > 0 /\ Head(w) = w[1]
      /\ w = <<>> => Len(w) = 0
  OBVIOUS
<1>4. HasWord(Part(f, offset, EndIn(offset)), w) <=>
        w # <<>> /\ \E k \in 0 .. (e - a) - Len(w) : Stands(f, offset + k, w)
  BY <1>1, <1>3, PartHas
<1> DEFINE Here(k) == \A i \in 1 .. Len(w) : k + i <= e + 1 /\ Ended[k + i - 1] = w[i]
<1>5. Found <=> \E k \in a .. e - 1 :
                    Ended[k] = (IF w = <<>> THEN NUL ELSE Head(w)) /\ Here(k)
  BY DEF Found, WordAt
<1> HIDE DEF a, e, w, f
\* Where the word is in the buffer it is in the file.
<1>6. ASSUME NEW k \in a .. e - 1, Here(k), w # <<>>
      PROVE  k - a \in 0 .. (e - a) - Len(w) /\ Stands(f, offset + (k - a), w)
  <2>1. Len(w) \in 1 .. Len(w) /\ Len(w) \in Nat /\ k \in Nat
    BY <1>1, <1>3, <1>6
  <2>2. k + Len(w) <= e + 1 /\ Ended[k + Len(w) - 1] = w[Len(w)] /\ w[Len(w)] # NUL
    BY <1>3, <1>6, <2>1
  <2>3. k + Len(w) - 1 # e
    BY <1>2, <2>2
  <2>4. k - a \in 0 .. (e - a) - Len(w)
    BY <1>1, <2>1, <2>2, <2>3
  <2>5. ASSUME NEW i \in 1 .. Len(w) PROVE FileByte(f, offset + (k - a) + i - 1) = w[i]
    <3>1. k + i - 1 \in a .. e - 1 /\ offset + ((k + i - 1) - a) = offset + (k - a) + i - 1
      BY <1>1, <2>1, <2>4
    <3> QED
      BY <1>2, <1>6, <3>1
  <2> QED
    BY <2>4, <2>5 DEF Stands
<1>7. ASSUME NEW k \in 0 .. (e - a) - Len(w), Stands(f, offset + k, w), w # <<>>
      PROVE  a + k \in a .. e - 1 /\ Ended[a + k] = Head(w) /\ Here(a + k)
  <2>1. Len(w) \in Nat /\ Len(w) > 0 /\ k \in Nat /\ a + k \in a .. e - 1
    BY <1>1, <1>3, <1>7
  <2>2. ASSUME NEW i \in 1 .. Len(w) PROVE (a + k) + i <= e + 1 /\ Ended[(a + k) + i - 1] = w[i]
    <3>1. /\ (a + k) + i <= e + 1 /\ (a + k) + i - 1 \in a .. e - 1
          /\ offset + (((a + k) + i - 1) - a) = offset + k + i - 1
      BY <1>1, <2>1
    <3>2. FileByte(f, offset + k + i - 1) = w[i]
      BY <1>7 DEF Stands
    <3> QED
      BY <1>2, <3>1, <3>2
  <2>3. Ended[(a + k) + 1 - 1] = w[1] /\ (a + k) + 1 - 1 = a + k
    <3>1. 1 \in 1 .. Len(w)
      BY <2>1
    <3>2. (a + k) + 1 - 1 = a + k
      BY <1>1, <2>1
    <3> QED
      BY <2>2, <3>1, <3>2
  <2> QED
    BY <1>3, <1>7, <2>1, <2>2, <2>3
<1> HIDE DEF Here
<1> QED
  BY <1>2, <1>4, <1>5, <1>6, <1>7 DEF w, f

----------------------------------------------------------------------------
(* How far grep is *)

LEMMA ProgressSame ==
    ASSUME NEW output, NEW word, NEW p, NEW a, NEW b, Progress(output, word, p, a),
           p \in Texts => \A m \in Matches(dentries[p].inode, word) : m < a <=> m < b
    PROVE  Progress(output, word, p, b)
<1> SUFFICES ASSUME NEW i \in Texts
             PROVE  UpTo(output, word, dentries[i],
                         IF i < p THEN SizeOf(i) ELSE IF i = p THEN b ELSE 0)
  BY DEF Progress
<1>0. UpTo(output, word, dentries[i], IF i < p THEN SizeOf(i) ELSE IF i = p THEN a ELSE 0)
  BY DEF Progress
<1>1. CASE i = p
  <2>1. ~(i < p)
    BY <1>1, TextIs
  <2>2. UpTo(output, word, dentries[p], a)
    BY <1>0, <1>1, <2>1
  <2>3. UpTo(output, word, dentries[p], b)
    BY <1>1, <2>2, UpToSame
  <2> QED
    BY <1>1, <2>1, <2>3
<1>2. CASE i # p
  BY <1>0, <1>2
<1> QED
  BY <1>1, <1>2

LEMMA ProgressGrows ==
    ASSUME NEW output, NEW word, NEW p \in 1 .. Len(dentries), NEW a \in Nat, NEW b,
           Progress(output, word, p, a),
           NEW o2, NEW x, Longer(o2, output, x), x.name = dentries[p].name,
           p \in Texts =>
                /\ a \in Matches(dentries[p].inode, word)
                /\ x.line = LineAt(dentries[p].inode, a)
                /\ \A m \in Matches(dentries[p].inode, word) : m < b <=> m < a \/ m = a
    PROVE  Progress(o2, word, p, b)
<1> SUFFICES ASSUME NEW i \in Texts
             PROVE  UpTo(o2, word, dentries[i],
                         IF i < p THEN SizeOf(i) ELSE IF i = p THEN b ELSE 0)
  BY DEF Progress
<1>0. UpTo(output, word, dentries[i], IF i < p THEN SizeOf(i) ELSE IF i = p THEN a ELSE 0)
  BY DEF Progress
<1>1. CASE i = p
  <2>1. ~(i < p)
    BY <1>1, TextIs
  <2>2. UpTo(output, word, dentries[p], a)
    BY <1>0, <1>1, <2>1
  <2>3. UpTo(o2, word, dentries[p], b)
    BY <1>1, <2>2, UpToGrows
  <2> QED
    BY <1>1, <2>1, <2>3
<1>2. CASE i # p
  <2>1. x.name # dentries[i].name
    BY <1>2, TextIs
  <2>2. UpTo(output, word, dentries[i], IF i < p THEN SizeOf(i) ELSE IF i = p THEN b ELSE 0)
    BY <1>0, <1>2
  <2> QED
    BY <2>1, <2>2, UpToKeeps
<1> QED
  BY <1>1, <1>2

\* The entry is done, and the next one comes.
LEMMA ProgressDone ==
    ASSUME NEW output, NEW word, NEW p \in Nat, NEW a, Progress(output, word, p, a),
           p \in Texts => a = SizeOf(p)
    PROVE  Progress(output, word, p + 1, 0)
<1> SUFFICES ASSUME NEW i \in Texts
             PROVE  UpTo(output, word, dentries[i],
                         IF i < p + 1 THEN SizeOf(i) ELSE IF i = p + 1 THEN 0 ELSE 0)
  BY DEF Progress
<1>0. UpTo(output, word, dentries[i], IF i < p THEN SizeOf(i) ELSE IF i = p THEN a ELSE 0)
  BY DEF Progress
<1>1. i \in Nat
  BY TextIs
<1>2. CASE i < p
  <2>1. i < p + 1
    BY <1>1, <1>2
  <2> QED
    BY <1>0, <1>2, <2>1
<1>3. CASE i = p
  <2>1. i < p + 1 /\ ~(i < p)
    BY <1>1, <1>3
  <2> QED
    BY <1>0, <1>3, <2>1
<1>4. CASE p < i
  <2>1. ~(i < p + 1) /\ ~(i < p) /\ i # p
    BY <1>1, <1>4
  <2> QED
    BY <1>0, <2>1
<1> QED
  BY <1>1, <1>2, <1>3, <1>4

\* There is no other entry.
LEMMA ProgressEnds ==
    ASSUME NEW output, NEW word, NEW q \in Nat, q > Len(dentries), Progress(output, word, q, 0)
    PROVE  \A i \in Texts : UpTo(output, word, dentries[i], SizeOf(i))
<1> SUFFICES ASSUME NEW i \in Texts PROVE UpTo(output, word, dentries[i], SizeOf(i))
  OBVIOUS
<1>1. i < q
  BY TextIs
<1> QED
  BY <1>1 DEF Progress

LEMMA ProgressSomewhere ==
    ASSUME NEW output, NEW word, NEW p, NEW a, Progress(output, word, p, a),
           p \in Texts => a \in 0 .. SizeOf(p)
    PROVE  Somewhere(output, word)
<1> SUFFICES ASSUME NEW i \in Texts
             PROVE  \E offset \in 0 .. SizeOf(i) : UpTo(output, word, dentries[i], offset)
  BY DEF Somewhere
<1> DEFINE at == IF i < p THEN SizeOf(i) ELSE IF i = p THEN a ELSE 0
<1>1. UpTo(output, word, dentries[i], at)
  BY DEF Progress
<1>2. SizeOf(i) \in 0 .. SizeOf(i) /\ 0 \in 0 .. SizeOf(i)
  BY TextIs
<1>3. at \in 0 .. SizeOf(i)
  BY <1>2
<1> QED
  BY <1>1, <1>3

LEMMA NoProgress ==
    ASSUME NEW word
    PROVE  Progress(<<>>, word, 1, 0)
<1> SUFFICES ASSUME NEW i \in Texts
             PROVE  UpTo(<<>>, word, dentries[i],
                         IF i < 1 THEN SizeOf(i) ELSE IF i = 1 THEN 0 ELSE 0)
  BY DEF Progress
<1>1. ~(i < 1)
  BY TextIs
<1> QED
  BY <1>1, NothingPrinted

LEMMA PiecesGrow ==
    ASSUME NEW output, NEW word, NEW p \in 1 .. Len(dentries), Pieces(output, word),
           NEW o2, NEW x, Longer(o2, output, x), x.name = dentries[p].name,
           p \in Texts =>
                /\ HasWord(x.line, word)
                /\ \E m \in Matches(dentries[p].inode, word) :
                        HasWord(LineAt(dentries[p].inode, m), x.line)
    PROVE  Pieces(o2, word)
<1> SUFFICES ASSUME NEW i \in Texts, NEW k \in PrintedOf(o2, dentries[i].name)
             PROVE  /\ HasWord(o2[k].line, word)
                    /\ \E m \in Matches(dentries[i].inode, word) :
                            HasWord(LineAt(dentries[i].inode, m), o2[k].line)
  BY DEF Pieces
<1> DEFINE n == Len(output)
<1>0. n \in Nat /\ k \in 1 .. n + 1 /\ o2[k].name = dentries[i].name
  BY DEF PrintedOf, Longer
<1>1. CASE k = n + 1
  <2>1. o2[k] = x
    BY <1>1 DEF Longer
  <2>2. i = p
    BY <1>0, <2>1, TextIs
  <2> QED
    BY <2>1, <2>2
<1>2. CASE k \in 1 .. n
  <2>1. o2[k] = output[k]
    BY <1>2 DEF Longer
  <2>2. k \in PrintedOf(output, dentries[i].name)
    BY <1>0, <1>2, <2>1 DEF PrintedOf
  <2> QED
    BY <2>1, <2>2 DEF Pieces
<1>3. k = n + 1 \/ k \in 1 .. n
  <2> HIDE DEF n
  <2> QED
    BY <1>0
<1> QED
  BY <1>1, <1>2, <1>3

LEMMA LongerIs ==
    ASSUME NEW s, IsOutput(s), NEW x
    PROVE  IsOutput(s \o <<x>>) /\ Longer(s \o <<x>>, s, x)
<1> DEFINE n == Len(s)
           Elements == {s[k] : k \in 1 .. n} \cup {x}
<1>1. n \in Nat /\ s = [k \in 1 .. n |-> s[k]]
  BY DEF IsOutput
<1>2. s \in Seq(Elements)
  <2>1. \A k \in 1 .. n : s[k] \in Elements
    OBVIOUS
  <2> HIDE DEF Elements, n
  <2>2. s \in [1 .. n -> Elements]
    BY <1>1, <2>1
  <2> QED
    BY <1>1, <2>2
<1>3. <<x>> \in Seq(Elements) /\ Len(<<x>>) = 1
  OBVIOUS
<1> HIDE DEF Elements
<1>4. /\ s \o <<x>> \in Seq(Elements) /\ Len(s \o <<x>>) = n + 1
      /\ \A k \in 1 .. n : (s \o <<x>>)[k] = s[k]
      /\ (s \o <<x>>)[n + 1] = x
  BY <1>1, <1>2, <1>3
<1> DEFINE t == s \o <<x>>
<1> HIDE DEF t
<1>5. Len(t) \in Nat /\ t = [k \in 1 .. Len(t) |-> t[k]]
  BY <1>1, <1>4 DEF t
<1> QED
  BY <1>1, <1>4, <1>5 DEF IsOutput, Longer, t

----------------------------------------------------------------------------
(* From line to line *)

\* The line of a text file that fills the buffer ends there.
LEMMA FullLine ==
    ASSUME NEW p \in Texts, NEW offset \in 0 .. SizeOf(p), BUFSIZE \in Nat \ {0},
           offset + BUFSIZE <= SizeOf(p), Aligned(p, offset),
           \A j \in offset .. offset + BUFSIZE - 1 : ByteOf(p, j) # NL
    PROVE  offset + BUFSIZE = SizeOf(p) \/ ByteOf(p, offset + BUFSIZE) = NL
<1> DEFINE f == dentries[p].inode
           size == Size(f)
           e == offset + BUFSIZE
<1>0. /\ size \in Nat /\ SizeOf(p) = size /\ offset \in Nat /\ e \in Nat /\ e <= size /\ offset < e
      /\ e - offset = BUFSIZE
  <2>1. size \in Nat /\ SizeOf(p) = size
    BY TextIs
  <2> HIDE DEF size
  <2> QED
    BY <2>1
<1>1. FileByte(f, offset) # NL /\ \A j \in offset .. e - 1 : FileByte(f, j) # NL
  <2>1. \A j \in offset .. e - 1 : FileByte(f, j) # NL
    BY DEF ByteOf
  <2>2. offset \in offset .. e - 1
    <3> HIDE DEF e
    <3> QED
      BY <1>0
  <2> QED
    BY <2>1, <2>2
<1>2. offset \in LineStarts(f)
  <2>1. offset \in 0 .. size - 1
    <3> HIDE DEF e, size
    <3> QED
      BY <1>0
  <2>2. offset = 0 \/ FileByte(f, offset - 1) = NL
    BY <1>0, <1>1, <2>1 DEF Aligned, ByteOf
  <2> QED
    BY <2>1, <2>2 DEF LineStarts, Size
<1>3. Len(LineAt(f, offset)) <= BUFSIZE
  BY <1>2, TextIs
<1>4. PICK g \in offset .. size :
        /\ g = size \/ FileByte(f, g) = NL
        /\ \A j \in offset .. g - 1 : FileByte(f, j) # NL
  <2>1. offset \in 0 .. size
    BY <1>0
  <2> QED
    BY <1>0, <2>1, LineEnds
<1>5. LineAt(f, offset) = Part(f, offset, g)
  <2>1. offset \in 0 .. size
    BY <1>0
  <2> QED
    BY <1>0, <1>4, <2>1, LineAtIs DEF Part
<1>6. Len(Part(f, offset, g)) = g - offset
  <2>1. Len(<<>>) \in Nat /\ g \in Nat /\ offset <= g /\ offset \in Nat
    <3> HIDE DEF size
    <3> QED
      BY <1>0, <1>4
  <2> QED
    BY <2>1, PartHas
<1> HIDE DEF e, size, f
<1>7. g <= e /\ g \in Nat
  BY <1>0, <1>3, <1>4, <1>5, <1>6
<1>8. g = e
  <2> SUFFICES ASSUME g < e PROVE FALSE
    BY <1>0, <1>7
  <2>1. g \in offset .. e - 1 /\ g # size
    BY <1>0, <1>4, <1>7
  <2> QED
    BY <1>1, <1>4, <2>1
<1> QED
  BY <1>0, <1>4, <1>8 DEF e, f, ByteOf

\* Where grep goes on from a line.
NextOffset(offset) ==
    IF LineEnd < loc.last THEN EndIn(offset) + 1 ELSE EndIn(offset)

CutsHere == LineEnd = BUFSIZE /\ loc.data[BUFSIZE] = NL

LEMMA ScanGoes ==
    ASSUME NEW p \in Texts, NEW offset \in Nat, NEW d, Buffered, Scans(p, offset, d, loc),
           BUFSIZE \in Nat \ {0}, ~Partial, Aligned(p, offset), ~CutsHere
    PROVE  Goes(dentries[p].inode, EndIn(offset), NextOffset(offset))
<1> DEFINE a == loc.line_start
           b == loc.last
           e == LineEnd
           E == EndIn(offset)
           size == SizeOf(p)
<1>0. /\ b \in 0 .. BUFSIZE /\ a \in 0 .. b /\ e \in a .. b /\ E = offset + (e - a)
      /\ offset + (b - a) = d.pos /\ d.pos \in 0 .. size /\ size \in Nat
      /\ E \in offset .. d.pos
      /\ size = Size(dentries[p].inode)
      /\ b < BUFSIZE => d.pos = size
      /\ loc.cnt = 0 => b < BUFSIZE
      /\ e = b => E = d.pos
  BY ScannedLine, TextIs DEF Scans, TextDesc, EndIn
<1>1. CASE e < b
  <2>1. ByteOf(p, E) = NL /\ E < d.pos /\ NextOffset(offset) = E + 1
    BY <1>1, ScannedLine DEF NextOffset
  <2>2. E < size
    <3> HIDE DEF E, size, a, b, e
    <3> QED
      BY <1>0, <2>1
  <2> QED
    BY <1>0, <2>1, <2>2 DEF Goes, ByteOf
<1>2. CASE e = b
  <2>1. NextOffset(offset) = E /\ E = d.pos
    <3>1. ~(e < b)
      <4> HIDE DEF E, size, a, b, e
      <4> QED
        BY <1>0, <1>2
    <3> QED
      BY <1>0, <1>2, <3>1 DEF NextOffset
  <2>2. CASE b < BUFSIZE
    BY <1>0, <2>1, <2>2 DEF Goes
  <2>3. CASE b = BUFSIZE
    <3>1. loc.data[e] # NL /\ loc.cnt # 0
      <4>1. loc.cnt # 0
        <5> HIDE DEF E, size, a, b, e
        <5> QED
          BY <1>0, <2>3
      <4> QED
        BY <1>2, <2>3, <4>1 DEF CutsHere
    <3>2. a = 0
      BY <3>1 DEF Partial
    <3>3. offset \in 0 .. size /\ offset + BUFSIZE = E /\ E <= size
      <4> HIDE DEF E, size, a, b, e
      <4> QED
        BY <1>0, <1>2, <2>1, <2>3, <3>2
    <3>4. \A j \in offset .. offset + BUFSIZE - 1 : ByteOf(p, j) # NL
      <4>1. \A j \in offset .. E - 1 : ByteOf(p, j) # NL
        BY ScannedLine
      <4> QED
        BY <3>3, <4>1
    <3>5. E = size \/ ByteOf(p, E) = NL
      BY <3>3, <3>4, FullLine
    <3> QED
      BY <1>0, <2>1, <3>5 DEF Goes, ByteOf
  <2> QED
    <3>1. b < BUFSIZE \/ b = BUFSIZE
      <4> HIDE DEF E, size, a, b, e
      <4> QED
        BY <1>0
    <3> QED
      BY <2>2, <2>3, <3>1
<1>3. e < b \/ e = b
  <2> HIDE DEF E, size, a, b, e
  <2> QED
    BY <1>0
<1> QED
  BY <1>1, <1>2, <1>3

\* The variables of grep behind a line.
LEMMA NextLoc ==
    ASSUME Buffered, NextLine
    PROVE  /\ pc' = IF ~(LineEnd + 1 >= loc.last) THEN "grep scans"
                    ELSE IF loc.cnt # 0 THEN "grep wants more" ELSE "grep at end"
           /\ loc'.data = Ended /\ loc'.line_start = LineEnd + 1
           /\ loc'.last = IF LineEnd + 1 >= loc.last THEN 0 ELSE loc.last
           /\ loc'.fd = loc.fd /\ loc'.dir = loc.dir /\ loc'.name = loc.name /\ loc'.cnt = loc.cnt
           /\ ~loc'.cut => ~loc.cut /\ ~CutsHere
           /\ UNCHANGED <<session, shell, said, cmd>>
<1> DEFINE ends == LineEnd + 1 >= loc.last
<1>1. /\ pc' = IF ~ends THEN "grep scans"
              ELSE IF loc.cnt # 0 THEN "grep wants more" ELSE "grep at end"
      /\ loc' = [loc EXCEPT !.data = Ended, !.line_start = LineEnd + 1,
                            !.last = IF ends THEN 0 ELSE @,
                            !.cut = @ \/ (LineEnd = BUFSIZE /\ loc.data[BUFSIZE] = NL)]
      /\ UNCHANGED <<session, shell, said, cmd>>
  BY DEF NextLine, Calls
<1> HIDE DEF ends
<1>2. /\ loc'.data = Ended /\ loc'.line_start = LineEnd + 1 /\ loc'.fd = loc.fd
      /\ loc'.dir = loc.dir /\ loc'.last = (IF ends THEN 0 ELSE loc.last)
      /\ loc'.name = loc.name /\ loc'.cnt = loc.cnt
  BY <1>1 DEF Buffered
<1>3. loc'.cut = (loc.cut \/ CutsHere)
  BY <1>1, Zenon DEF Buffered, CutsHere
<1> QED
  BY <1>1, <1>2, <1>3 DEF ends

LEMMA NextLeaves ==
    ASSUME NEW p \in Texts, NEW offset \in Nat, NEW d, Buffered, Scans(p, offset, d, loc),
           BUFSIZE \in Nat \ {0}, NextLine
    PROVE  /\ NextOffset(offset) \in 0 .. SizeOf(p)
           /\ pc' = "grep scans" => Scans(p, NextOffset(offset), d, loc')
           /\ pc' = "grep wants more" => Kept(p, NextOffset(offset), d, loc')
           /\ pc' = "grep at end" => NextOffset(offset) = SizeOf(p)
<1> DEFINE a == loc.line_start
           b == loc.last
           e == LineEnd
           E == EndIn(offset)
           next == NextOffset(offset)
           size == SizeOf(p)
           q == d.pos
<1>0. /\ b \in 0 .. BUFSIZE /\ a \in 0 .. b /\ e \in a .. b /\ E = offset + (e - a)
      /\ offset + (b - a) = q /\ q \in 0 .. size /\ size \in Nat
      /\ TextDesc(p, d)
      /\ b < BUFSIZE => q = size
      /\ loc.cnt = 0 => b < BUFSIZE
      /\ next = IF e < b THEN E + 1 ELSE E
  BY ScannedLine, TextIs DEF Scans, TextDesc, EndIn, NextOffset
<1>1. /\ \A k \in a .. b - 1 : loc.data[k] = ByteOf(p, offset + (k - a))
      /\ \A k \in 0 .. BUFSIZE : k # e => Ended[k] = loc.data[k]
  BY DEF Scans, Holds, Ended, Buffered
<1>2. /\ pc' = IF ~(e + 1 >= b) THEN "grep scans"
               ELSE IF loc.cnt # 0 THEN "grep wants more" ELSE "grep at end"
      /\ loc'.data = Ended /\ loc'.line_start = e + 1
      /\ loc'.last = IF e + 1 >= b THEN 0 ELSE b
      /\ loc'.cnt = loc.cnt
  BY NextLoc
<1>3. next \in 0 .. size /\ next \in Nat /\ a \in Nat /\ b \in Nat /\ e \in Nat
  <2> HIDE DEF a, b, e, E, next, size, q
  <2> QED
    BY <1>0
<1>4. ASSUME pc' = "grep scans" PROVE Scans(p, next, d, loc')
  <2>1. ~(e + 1 >= b)
    <3>1. CASE loc.cnt # 0
      BY <1>2, <1>4, <3>1
    <3>2. CASE loc.cnt = 0
      BY <1>2, <1>4, <3>2
    <3> QED
      BY <3>1, <3>2
  <2>2. loc'.last = b /\ loc'.line_start = e + 1
    BY <1>2, <2>1
  <2>3. e + 1 \in 0 .. b /\ next = E + 1 /\ next + (b - (e + 1)) = q
    <3> HIDE DEF a, b, e, E, next, size, q
    <3> QED
      BY <1>0, <1>3, <2>1
  <2>4. ASSUME NEW k \in e + 1 .. b - 1 PROVE Ended[k] = ByteOf(p, next + (k - (e + 1)))
    <3>1. /\ k \in a .. b - 1 /\ k \in 0 .. BUFSIZE /\ k # e
          /\ next + (k - (e + 1)) = offset + (k - a)
      <4> HIDE DEF a, b, e, E, next, size, q
      <4> QED
        BY <1>0, <1>3, <2>3
    <3> QED
      BY <1>1, <3>1
  <2> HIDE DEF a, b, e, next
  <2>5. Holds(p, next, loc', loc'.line_start)
    BY <1>2, <2>2, <2>4 DEF Holds
  <2> QED
    BY <1>0, <1>2, <2>2, <2>3, <2>5 DEF Scans
<1>5. ASSUME pc' # "grep scans" PROVE next = q
  <2>1. e + 1 >= b
    BY <1>2, <1>5
  <2> HIDE DEF a, b, e, E, next, size, q
  <2> QED
    BY <1>0, <1>3, <2>1
<1>6. ASSUME pc' = "grep wants more" PROVE Kept(p, next, d, loc')
  <2>1. next = q /\ e + 1 >= b
    BY <1>2, <1>5, <1>6
  <2>2. loc'.last = 0
    BY <1>2, <2>1
  <2>3. 0 \in 0 .. BUFSIZE - 1 /\ next + 0 = q
    <3> HIDE DEF next, q
    <3> QED
      BY <1>0, <1>3, <2>1
  <2>4. Holds(p, next, loc', 0)
    <3>1. 0 .. 0 - 1 = {}
      OBVIOUS
    <3> QED
      BY <2>2, <3>1 DEF Holds
  <2> QED
    BY <1>0, <2>2, <2>3, <2>4 DEF Kept
<1>7. ASSUME pc' = "grep at end" PROVE next = size
  <2>1. next = q /\ loc.cnt = 0
    <3>1. next = q
      BY <1>5, <1>7
    <3>2. CASE e + 1 >= b
      BY <1>2, <1>7, <3>1, <3>2
    <3>3. CASE ~(e + 1 >= b)
      BY <1>2, <1>7, <3>3
    <3> QED
      BY <3>1, <3>2, <3>3
  <2> QED
    BY <1>0, <2>1
<1> QED
  BY <1>3, <1>4, <1>6, <1>7

----------------------------------------------------------------------------
(* The buffer between two reads *)

LEMMA TakesFile ==
    ASSUME NEW p, NEW offset \in Nat, NEW d, Buffered, BUFSIZE \in Nat \ {0},
           HasCopied(p, offset, d, loc, reply), GrepTakes
    PROVE  Scans(p, offset, d, loc')
<1> DEFINE b == loc.last
           v == reply.value
           q == d.pos
           byte(k) == ByteOf(p, k)
           new == [i \in 0 .. BUFSIZE |-> IF i \in b .. b + Len(reply.taken) - 1
                                          THEN reply.taken[i - b + 1] ELSE loc.data[i]]
<1>0. /\ TextDesc(p, d) /\ b \in 0 .. BUFSIZE - 1 /\ v \in 0 .. BUFSIZE - b
      /\ offset + b + v = q /\ Len(reply.taken) = v
      /\ \A k \in 0 .. b - 1 : loc.data[k] = byte(offset + (k - 0))
      /\ \A j \in 1 .. v : reply.taken[j] = byte(offset + b + (j - 1))
      /\ b + v < BUFSIZE => q = SizeOf(p)
  BY DEF HasCopied, Holds
<1>1. loc'.data = new /\ loc'.last = b + v /\ loc'.cnt = v /\ loc'.line_start = 0
  BY DEF GrepTakes, Calls, Buffered
<1>2. ASSUME NEW k \in 0 .. b + v - 1 PROVE new[k] = byte(offset + (k - 0))
  <2>1. k \in 0 .. BUFSIZE /\ k - 0 = k
    <3> HIDE DEF b, v, q, byte, new
    <3> QED
      BY <1>0
  <2>2. CASE k < b
    <3>1. k \notin b .. b + Len(reply.taken) - 1 /\ k \in 0 .. b - 1
      <4> HIDE DEF b, v, q, byte, new
      <4> QED
        BY <1>0, <2>2
    <3>2. new[k] = loc.data[k]
      BY <2>1, <3>1
    <3> QED
      BY <1>0, <3>1, <3>2
  <2>3. CASE k >= b
    <3>0. b \in Nat /\ v \in Nat /\ k \in Nat /\ k < b + v
      <4> HIDE DEF b, v, q, byte, new
      <4> QED
        BY <1>0
    <3>1. /\ k \in b .. b + Len(reply.taken) - 1 /\ k - b + 1 \in 1 .. v
          /\ offset + b + ((k - b + 1) - 1) = offset + (k - 0)
      <4>1. k \in b .. b + v - 1 /\ k - b + 1 \in 1 .. v
        <5> HIDE DEF b, v, q, byte, new
        <5> QED
          BY <2>3, <3>0
      <4>2. offset + b + ((k - b + 1) - 1) = offset + (k - 0)
        <5> HIDE DEF b, v, q, byte, new
        <5> QED
          BY <3>0
      <4>3. Len(reply.taken) = v
        BY <1>0
      <4> QED
        BY <4>1, <4>2, <4>3
    <3>2. new[k] = reply.taken[k - b + 1]
      BY <2>1, <3>1
    <3>3. reply.taken[k - b + 1] = byte(offset + b + ((k - b + 1) - 1))
      <4> HIDE DEF b, v, q, byte, new
      <4> QED
        BY <1>0, <3>1
    <3> QED
      BY <3>1, <3>2, <3>3
  <2> HIDE DEF b, v, q, byte, new
  <2> QED
    BY <1>0, <2>2, <2>3
<1> HIDE DEF b, v, q, byte, new
<1>3. /\ b + v \in 0 .. BUFSIZE /\ 0 \in 0 .. b + v /\ offset + ((b + v) - 0) = q
      /\ v = 0 => b + v < BUFSIZE
  BY <1>0
<1>4. PICK l : l = loc'
  OBVIOUS
<1>5. l.data = new /\ l.last = b + v /\ l.cnt = v /\ l.line_start = 0
  BY <1>1, <1>4
<1>6. Holds(p, offset, l, 0)
  <2>1. l.last = b + v
    BY <1>5
  <2>2. ASSUME NEW k \in 0 .. l.last - 1 PROVE l.data[k] = byte(offset + (k - 0))
    <3>1. k \in 0 .. b + v - 1
      BY <1>0, <2>1
    <3>2. new[k] = byte(offset + (k - 0))
      BY <1>2, <3>1
    <3> QED
      BY <1>5, <3>2
  <2> QED
    BY <2>2 DEF Holds, byte
<1>7. Scans(p, offset, d, l)
  BY <1>0, <1>3, <1>5, <1>6 DEF Scans, q
<1> QED
  BY <1>4, <1>7

LEMMA MovesDownFile ==
    ASSUME NEW p \in Texts, NEW offset \in Nat, NEW d, Buffered, BUFSIZE \in Nat \ {0},
           Scans(p, offset, d, loc), GrepMovesDown
    PROVE  Kept(p, offset, d, loc')
<1> DEFINE a == loc.line_start
           b == loc.last
           e == LineEnd
           q == d.pos
           byte(k) == ByteOf(p, k)
           Q(n) == Ended[a + n] = NUL /\ \A k \in 0 .. n - 1 : Ended[a + k] # NUL
           length == CHOOSE n \in 0 .. BUFSIZE - a : Q(n)
           new == [i \in 0 .. BUFSIZE |-> IF i <= length THEN Ended[a + i] ELSE Ended[i]]
<1>0. /\ b \in 0 .. BUFSIZE /\ a \in 0 .. b /\ e \in a .. b
      /\ offset + (b - a) = q /\ TextDesc(p, d)
      /\ e = b \/ loc.data[e] = NL
  <2>1. loc.last \in Nat /\ loc.line_start \in 0 .. loc.last
    BY DEF Scans
  <2> QED
    BY <2>1, LineEndIs DEF Scans
<1>1. /\ e = b /\ a # 0
      /\ loc'.data = new /\ loc'.last = b - a
  BY <1>0 DEF GrepMovesDown, Partial, Calls, Buffered, MovedDown
<1>2. /\ \A k \in a .. e - 1 : Ended[k] = byte(offset + (k - a)) /\ Ended[k] # NUL
      /\ Ended[e] = NUL
  BY LineIsPart
<1>3. b - a \in 0 .. BUFSIZE - a /\ Q(b - a)
  <2>1. b - a \in 0 .. BUFSIZE - a /\ a + (b - a) = e
    <3> HIDE DEF a, b, e, q, byte, Q, length, new
    <3> QED
      BY <1>0, <1>1
  <2>2. ASSUME NEW k \in 0 .. (b - a) - 1 PROVE Ended[a + k] # NUL
    <3>1. a + k \in a .. e - 1
      <4> HIDE DEF a, b, e, q, byte, Q, length, new
      <4> QED
        BY <1>0, <1>1
    <3> QED
      BY <1>2, <3>1
  <2> QED
    BY <1>2, <2>1, <2>2
<1>4. length \in 0 .. BUFSIZE - a /\ Q(length)
  <2> HIDE DEF Q, a, b
  <2> QED
    BY <1>3
<1>5. length = b - a
  <2>1. ~(length < b - a)
    <3> SUFFICES ASSUME length < b - a PROVE FALSE
      OBVIOUS
    <3>1. length \in 0 .. (b - a) - 1
      <4> HIDE DEF a, b, e, q, byte, Q, length, new
      <4> QED
        BY <1>0, <1>4
    <3> HIDE DEF length
    <3> QED
      BY <1>3, <1>4, <3>1
  <2>2. ~(b - a < length)
    <3> SUFFICES ASSUME b - a < length PROVE FALSE
      OBVIOUS
    <3>1. b - a \in 0 .. length - 1
      <4> HIDE DEF a, b, e, q, byte, Q, length, new
      <4> QED
        BY <1>0, <1>4
    <3> HIDE DEF length
    <3> QED
      BY <1>3, <1>4, <3>1
  <2> HIDE DEF a, b, e, q, byte, Q, length, new
  <2> QED
    BY <1>0, <1>4, <2>1, <2>2
<1>6. ASSUME NEW k \in 0 .. (b - a) - 1 PROVE new[k] = byte(offset + (k - 0))
  <2>1. /\ k \in 0 .. BUFSIZE /\ k <= length /\ a + k \in a .. e - 1
        /\ offset + ((a + k) - a) = offset + (k - 0)
    <3> HIDE DEF a, b, e, q, byte, Q, length, new
    <3> QED
      BY <1>0, <1>1, <1>5
  <2>2. new[k] = Ended[a + k]
    <3> HIDE DEF length
    <3> QED
      BY <2>1
  <2> HIDE DEF a, b, e, q, byte, Q, length, new
  <2> QED
    BY <1>2, <2>1, <2>2
<1> HIDE DEF a, b, e, q, byte, Q, length, new
<1>7. b - a \in 0 .. BUFSIZE - 1
  BY <1>0, <1>1
<1>8. Holds(p, offset, loc', 0)
  BY <1>1, <1>6 DEF Holds, byte
<1> QED
  BY <1>0, <1>1, <1>7, <1>8 DEF Kept, q

----------------------------------------------------------------------------
(* The calls grep makes *)

LEMMA RangeNumber == \A n \in Nat : \A k \in 0 .. n : k \in Nat
OBVIOUS

LEMMA EntryNumber == \A p \in 1 .. Len(dentries) : p \in Nat
BY ImageAssumption

\* The next name of the directory, or there is none and all was looked at.
LEMMA GrepNextName ==
    ASSUME fds \in Tables, NEW dir, DirOpen(dir), NEW cut, GrepReadsDir(dir, cut),
           NEW q, fds[Pid][dir].pos = q, ~cut => Progress(out, cmd.arg, q + 1, 0)
    PROVE  /\ pc' = "grep reads dir" /\ UNCHANGED <<session, shell, said, cmd, out>>
           /\ loc'.cut = cut
           /\ reply'.value > 0 => q + 1 \in 1 .. Len(dentries) /\ HasName(q + 1)'
           /\ reply'.value = 0 /\ ~loc'.cut => AllPrinted'
<1> DEFINE d == fds[Pid][dir]
<1>0. /\ Pid \in Pids /\ Len(dentries) \in Nat /\ dir \in Fds /\ d \in FileDesc
      /\ d.ftable = "dir" /\ d.pos = q /\ q \in Nat
  <2>1. Pid \in Pids /\ dir \in Fds /\ d.ftable = "dir" /\ d.pos = q
    BY PidsAre DEF DirOpen
  <2>2. Len(dentries) \in Nat
    BY ImageAssumption
  <2>3. d \in FileDesc
    BY <2>1 DEF Tables
  <2>4. q \in Nat
    <3> HIDE DEF d
    <3> QED
      BY <2>1, <2>3 DEF FileDesc
  <2> QED
    BY <2>1, <2>2, <2>3, <2>4
<1>1. /\ Read(Pid, dir, DENTRY_NAME_LEN) /\ pc' = "grep reads dir"
      /\ loc'.dir = dir /\ loc'.cut = cut /\ UNCHANGED <<session, shell, said, cmd, out>>
  BY DEF GrepReadsDir, Calls
<1>2. dir_read(Pid, dir, DENTRY_NAME_LEN)
  BY <1>1 DEF DirOpen, Read, NotOpen, TerminalRead, RtcRead, file_read, Reaches
<1>3. CASE HasDentry(q)
  <2>1. /\ SetDesc(Pid, dir, [d EXCEPT !.pos = q + 1])
        /\ reply'.taken = <<dentries[q + 1].name>>
        /\ reply'.value = Least(DENTRY_NAME_LEN, DENTRY_NAME_LEN)
    BY <1>0, <1>2, <1>3 DEF dir_read, Returns
  <2>2. fds'[Pid][dir].pos = q + 1
    BY <1>0, <2>1 DEF SetDesc, Tables, FileDesc
  <2>3. q + 1 \in 1 .. Len(dentries)
    BY <1>0, <1>3 DEF HasDentry
  <2>4. reply'.value # 0
    BY <2>1, ImageAssumption DEF Least
  <2>5. Head(reply'.taken) = dentries[q + 1].name
    BY <2>1
  <2>6. HasName(q + 1)'
    BY <1>1, <2>2, <2>5 DEF HasName
  <2> QED
    BY <1>1, <2>3, <2>4, <2>6
<1>4. CASE ~HasDentry(q)
  <2>1. reply'.value = 0
    BY <1>0, <1>2, <1>4 DEF dir_read, JustReturns, Returns
  <2>2. q + 1 \in Nat /\ q + 1 > Len(dentries)
    BY <1>0, <1>4 DEF HasDentry
  <2>3. ASSUME ~loc'.cut PROVE AllPrinted'
    <3>1. Progress(out, cmd.arg, q + 1, 0)
      BY <1>1, <2>3
    <3>2. \A i \in Texts : UpTo(out, cmd.arg, dentries[i], SizeOf(i))
      BY <2>2, <3>1, ProgressEnds
    <3> QED
      BY <1>1, <3>2 DEF AllPrinted
  <2>4. ~(reply'.value > 0)
    BY <2>1
  <2> QED
    BY <1>1, <2>3, <2>4
<1> QED
  BY <1>3, <1>4

\* A text is found by its name and can be opened.
LEMMA OpensText ==
    ASSUME fds \in Tables, NEW p \in Texts, Open(Pid, dentries[p].name), reply'.value # -1
    PROVE  fds'[Pid][reply'.value] = Opened("regular", dentries[p].inode)
<1>0. Pid \in Pids
  BY PidsAre
<1>1. PICK i \in 1 .. Len(dentries), fd \in Fds :
        read_dentry_by_name(dentries[p].name, i) /\ OpenDentry(Pid, fd, dentries[i])
  BY DEF Open, Returns
<1>2. i = p
  BY <1>1, TextIs DEF read_dentry_by_name
<1>3. dentries[p].type = FILE_REGULAR /\ FileChecks(dentries[p].inode)
  BY TextIs, GoodFilePasses
<1>4. file_open(Pid, fd, dentries[p].inode) /\ reply'.value = fd
  BY <1>1, <1>2, <1>3 DEF OpenDentry, Returns, FILE_REGULAR, FILE_DIRECTORY, FILE_RTC
<1> QED
  BY <1>0, <1>4 DEF file_open, SetDesc, Tables

\* A text is read on.
LEMMA ReadsText ==
    ASSUME fds \in Tables, NEW p \in Texts, NEW offset \in Nat, NEW fd \in Fds, NEW l, l.fd = fd,
           Kept(p, offset, fds[Pid][fd], l), Read(Pid, fd, BUFSIZE - l.last), BUFSIZE \in Nat \ {0}
    PROVE  IF reader' = Pid THEN IsCopying(p, offset, fds'[Pid][fd], l, rd')
           ELSE HasCopied(p, offset, fds'[Pid][fd], l, reply')
<1> DEFINE d == fds[Pid][fd]
           size == SizeOf(p)
           room == BUFSIZE - l.last
<1>0. /\ d.open /\ d.ftable = "regular" /\ d.inode = dentries[p].inode /\ d.pos \in 0 .. size
      /\ size \in Nat /\ get_inode(d.inode) /\ inodes[d.inode].size = size /\ Pid # Nobody
      /\ l.last \in 0 .. BUFSIZE - 1 /\ offset + l.last = d.pos /\ Holds(p, offset, l, 0)
  BY TextIs, PidsAre DEF Kept, TextDesc, Size
<1>1. file_read(Pid, fd, room)
  BY <1>0 DEF Read, NotOpen, TerminalRead, RtcRead, dir_read, Reaches
<1>2. CASE d.pos >= size /\ JustReturns("read", Pid, fd, IF get_inode(d.inode) THEN 0 ELSE -1, <<>>)
  <2>1. /\ reader' # Pid /\ fds' = fds /\ reply'.value = 0 /\ reply'.taken = <<>>
    BY <1>0, <1>1, <1>2 DEF JustReturns, Returns, file_read, Reaches, Runs
  <2>2. d.pos = size /\ 0 \in 0 .. room /\ offset + l.last + 0 = d.pos
    <3>1. d.pos >= size
      BY <1>2
    <3> HIDE DEF d, size
    <3> QED
      BY <1>0, <3>1
  <2>3. Len(reply'.taken) = 0 /\ 1 .. 0 = {}
    BY <2>1
  <2>4. TextDesc(p, fds'[Pid][fd])
    BY <1>0, <2>1 DEF TextDesc
  <2> QED
    BY <1>0, <2>1, <2>2, <2>3, <2>4 DEF HasCopied
<1>3. CASE /\ reader' = Pid /\ UNCHANGED fds
           /\ rd' = [fd |-> fd, length |-> Least(room, size - d.pos), count |-> 0,
                     blocknum |-> d.pos \div DATA_BLOCK_SIZE,
                     blockoffset |-> d.pos % DATA_BLOCK_SIZE]
  <2>1. rd'.fd = fd /\ rd'.length = Least(room, size - d.pos) /\ fds' = fds
    BY <1>3
  <2>2. Kept(p, offset, fds'[Pid][fd], l)
    BY <2>1
  <2> QED
    BY <1>3, <2>1, <2>2 DEF IsCopying
<1> QED
  BY <1>0, <1>1, <1>2, <1>3 DEF file_read

\* The kernel copies for grep.
LEMMA CopiesText ==
    ASSUME FdInv, ShellInv, NEW p \in Texts, NEW offset \in Nat, NEW l, l.fd \in Fds,
           BUFSIZE \in Nat \ {0}, KernelReads, IsCopying(p, offset, fds[Pid][l.fd], l, rd)
    PROVE  IF reader' = Pid THEN IsCopying(p, offset, fds'[Pid][l.fd], l, rd')
           ELSE reply'.value # -1 => HasCopied(p, offset, fds'[Pid][l.fd], l, reply')
<1> DEFINE d == fds[Pid][l.fd]
           size == SizeOf(p)
           f == dentries[p].inode
<1>0. /\ fds \in Tables /\ Pid \in Pids /\ Pid # Nobody /\ rd \in Locals /\ d \in FileDesc
  BY PidsAre DEF FdInv, FdTypeOK, Tables
<1>1. /\ reader = Pid /\ Reading = d /\ rd.fd = l.fd
  BY PidsAre DEF KernelReads, CopyBlock, CopyBadBlock, FinishRead, ShellInv, Reading, IsCopying
<1>2. /\ TextDesc(p, d) /\ d.inode = f
      /\ d.pos + rd.length <= inodes[d.inode].size
      /\ \A i \in 1 .. rd.count : buf[i] = FileByte(d.inode, d.pos + i - 1)
      /\ buf \in [1 .. rd.count -> Bytes]
      /\ l.last \in 0 .. BUFSIZE - 1 /\ offset + l.last = d.pos /\ Holds(p, offset, l, 0)
      /\ rd.length = Least(BUFSIZE - l.last, size - d.pos)
  BY <1>0, <1>1 DEF FdInv, FdTypeOK, CopyIsPrefix, IsCopying, Kept, TextDesc
<1>3. size \in Nat /\ inodes[f].size = size /\ d.pos \in 0 .. size
  BY <1>2, TextIs DEF TextDesc, Size
<1>4. CASE CopyBlock
  <2>1. reader' = Pid /\ rd'.fd = rd.fd /\ rd'.length = rd.length /\ fds' = fds
    BY <1>0, <1>1, <1>4 DEF CopyBlock, memcpy_block, Locals
  <2> QED
    BY <2>1 DEF IsCopying
<1>5. CASE CopyBadBlock
  BY <1>0, <1>5 DEF CopyBadBlock, Returns
<1>6. CASE FinishRead
  <2> DEFINE e == [d EXCEPT !.pos = d.pos + rd.count]
             v == rd.count
  <2>1. /\ reader' # Pid /\ reply'.value = v /\ reply'.taken = buf
        /\ v = rd.length /\ SetDesc(Pid, l.fd, e)
    BY <1>0, <1>1, <1>6 DEF FinishRead, Returns
  <2>2. fds'[Pid][l.fd] = e
    BY <1>0, <2>1 DEF SetDesc, Tables
  <2>3. e.open /\ e.ftable = "regular" /\ e.inode = f /\ e.pos = d.pos + v
    BY <1>0, <1>2 DEF FileDesc, TextDesc
  <2>4. v \in Nat
    BY <1>0 DEF Locals
  <2>5. /\ v \in 0 .. BUFSIZE - l.last /\ offset + l.last + v = e.pos
        /\ e.pos \in 0 .. size
        /\ l.last + v < BUFSIZE => e.pos = size
    <3>1. /\ v = Least(BUFSIZE - l.last, size - d.pos) /\ e.pos = d.pos + v
          /\ d.pos \in 0 .. size /\ size \in Nat
          /\ l.last \in 0 .. BUFSIZE - 1 /\ offset + l.last = d.pos
      BY <1>2, <1>3, <2>1, <2>3
    <3> HIDE DEF d, size, e, v
    <3> QED
      BY <2>4, <3>1 DEF Least
  <2>6. Len(buf) = v
    BY <1>2, <2>4, SMT
  <2>7. ASSUME NEW j \in 1 .. v PROVE buf[j] = ByteOf(p, offset + l.last + (j - 1))
    <3>1. buf[j] = FileByte(f, d.pos + j - 1)
      BY <1>2
    <3>2. d.pos + j - 1 = offset + l.last + (j - 1)
      <4> HIDE DEF d, v
      <4> QED
        BY <1>2, <2>4
    <3> QED
      BY <3>1, <3>2 DEF ByteOf
  <2> HIDE DEF e, v
  <2>8. TextDesc(p, e)
    BY <2>3, <2>5 DEF TextDesc
  <2>9. HasCopied(p, offset, e, l, reply')
    BY <1>2, <2>1, <2>5, <2>6, <2>7, <2>8 DEF HasCopied
  <2> QED
    BY <2>1, <2>2, <2>9
<1> QED
  BY <1>4, <1>5, <1>6 DEF KernelReads

----------------------------------------------------------------------------
(* grep goes from line to line *)

\* What a line does to what was printed.
LineStep ==
    /\ NextLine
    /\ \/ Found /\ out' = out \o <<[name |-> loc.name, line |-> Line]>>
       \/ ~Found /\ out' = out

LEMMA TextLine ==
    ASSUME NEW p \in Texts, NEW offset \in Nat, NEW d, Buffered, Scans(p, offset, d, loc),
           BUFSIZE \in Nat \ {0}, cmd.arg \in Seq(Bytes \ {NUL})
    PROVE  LET f == dentries[p].inode
               has == HasWord(Line, cmd.arg)
           IN  /\ Found <=> has
               /\ has => \E m \in Matches(f, cmd.arg) : HasWord(LineAt(f, m), Line)
               /\ ~Partial /\ Aligned(p, offset) /\ ~CutsHere =>
                    /\ Aligned(p, NextOffset(offset))
                    /\ has => offset \in Matches(f, cmd.arg) /\ Line = LineAt(f, offset)
                    /\ \A m \in Matches(f, cmd.arg) :
                            m < NextOffset(offset) <=> m < offset \/ (has /\ m = offset)
<1> DEFINE f == dentries[p].inode
           size == Size(f)
           w == cmd.arg
           e == EndIn(offset)
           has == HasWord(Line, w)
<1>0. /\ size \in Nat /\ SizeOf(p) = size
      /\ offset \in 0 .. size /\ e \in offset .. size
      /\ \A j \in offset .. e - 1 : FileByte(f, j) # NL
  <2>1. /\ e \in offset .. d.pos /\ d.pos \in 0 .. SizeOf(p)
        /\ \A j \in offset .. e - 1 : ByteOf(p, j) # NL
    BY ScannedLine
  <2>2. size \in Nat /\ SizeOf(p) = size
    BY TextIs
  <2>3. offset \in 0 .. size /\ e \in offset .. size
    <3> HIDE DEF size, e
    <3> QED
      BY <2>1, <2>2
  <2> QED
    BY <2>1, <2>2, <2>3 DEF ByteOf
<1>1. Line = Part(f, offset, e)
  BY LineIsPart
<1>2. Found <=> has
  BY <1>1, FoundIs
<1>3. Len(w) \in Nat /\ (w # <<>> => Len(w) > 0)
  OBVIOUS
<1>4. ASSUME has PROVE \E m \in Matches(f, w) : HasWord(LineAt(f, m), Line)
  <2>1. HasWord(Part(f, offset, e), w) /\ w # <<>>
    BY <1>1, <1>4 DEF HasWord
  <2>2. Len(w) \in Nat \ {0}
    BY <1>3, <2>1
  <2>3. \E m \in Matches(f, w) : HasWord(LineAt(f, m), Part(f, offset, e))
    BY <1>0, <2>1, <2>2, PartInLine
  <2> QED
    BY <1>1, <2>3
<1>5. ASSUME ~Partial, Aligned(p, offset), ~CutsHere
      PROVE  /\ Aligned(p, NextOffset(offset))
             /\ has => offset \in Matches(f, w) /\ Line = LineAt(f, offset)
             /\ \A m \in Matches(f, w) :
                    m < NextOffset(offset) <=> m < offset \/ (has /\ m = offset)
  <2>1. Goes(f, e, NextOffset(offset))
    BY <1>5, ScanGoes
  <2>2. \/ offset = 0 \/ offset = size
        \/ FileByte(f, offset - 1) = NL \/ FileByte(f, offset) = NL
    BY <1>0, <1>5 DEF Aligned, ByteOf
  <2> DEFINE next == NextOffset(offset)
  <2>3. /\ \/ next = 0 \/ next = size \/ FileByte(f, next - 1) = NL \/ FileByte(f, next) = NL
        /\ HasWord(Part(f, offset, e), w) =>
                offset \in Matches(f, w) /\ LineAt(f, offset) = Part(f, offset, e)
        /\ \A m \in Matches(f, w) :
                m < next <=> m < offset \/ (HasWord(Part(f, offset, e), w) /\ m = offset)
    <3> HIDE DEF next, f, e, w
    <3>1. size = Size(f)
      OBVIOUS
    <3> QED
      BY <1>0, <1>3, <2>1, <2>2, NextMatches DEF next, e
  <2> QED
    BY <1>0, <1>1, <2>3 DEF Aligned, ByteOf
<1> QED
  BY <1>2, <1>4, <1>5

LEMMA LineStepKeeps ==
    ASSUME NEW p \in 1 .. Len(dentries), NEW offset \in Nat, AtFile(p, offset),
           pc = "grep scans", ~Partial, LineStep, UNCHANGED fds, Buffered, BUFSIZE \in Nat \ {0},
           cmd.arg \in Seq(Bytes \ {NUL}), IsOutput(out), Pieces(out, cmd.arg)
    PROVE  /\ IsOutput(out') /\ Pieces(out', cmd.arg)
           /\ ~loc'.cut => Somewhere(out', cmd.arg)
           /\ pc' \in {"grep scans", "grep wants more"} => \E o \in Nat : AtFile(p, o)'
           /\ pc' = "grep at end" => IsDone(p)'
<1> DEFINE f == dentries[p].inode
           w == cmd.arg
           x == [name |-> loc.name, line |-> Line]
           d == fds[Pid][loc.fd]
           next == IF p \in Texts THEN NextOffset(offset) ELSE offset
<1>0. /\ loc.name = dentries[p].name /\ fds[Pid][loc.dir].pos = p
      /\ ~loc.cut => Progress(out, w, p, offset)
      /\ p \in Texts => Scans(p, offset, d, loc)
      /\ p \in Texts /\ ~loc.cut => Aligned(p, offset)
  BY Zenon DEF AtFile
<1>p. p \in Nat
  BY EntryNumber, Zenon
<1>1. /\ pc' \in {"grep scans", "grep wants more", "grep at end"}
      /\ loc'.fd = loc.fd /\ loc'.dir = loc.dir /\ loc'.name = loc.name
      /\ ~loc'.cut => ~loc.cut /\ ~CutsHere
      /\ cmd' = cmd
  BY NextLoc DEF LineStep
<1>2. Found => IsOutput(out') /\ Longer(out', out, x)
  BY LongerIs DEF LineStep
<1>3. ~Found => out' = out
  BY DEF LineStep
<1>4. x.name = dentries[p].name /\ x.line = Line
  BY <1>0
<1>5. ASSUME p \in Texts
      PROVE  /\ Found <=> HasWord(Line, w)
             /\ Found => \E m \in Matches(f, w) : HasWord(LineAt(f, m), Line)
             /\ ~loc'.cut =>
                    /\ Aligned(p, next)
                    /\ Found => offset \in Matches(f, w) /\ Line = LineAt(f, offset)
                    /\ \A m \in Matches(f, w) :
                            m < next <=> m < offset \/ (Found /\ m = offset)
  BY <1>0, <1>1, <1>5, TextLine
<1> HIDE DEF x, next
<1>6. IsOutput(out') /\ Pieces(out', w)
  <2>1. CASE Found
    <3>1. p \in Texts => /\ HasWord(x.line, w)
                         /\ \E m \in Matches(dentries[p].inode, w) :
                                HasWord(LineAt(dentries[p].inode, m), x.line)
      BY <1>4, <1>5, <2>1
    <3> QED
      BY <1>2, <1>4, <2>1, <3>1, PiecesGrow
  <2>2. CASE ~Found
    BY <1>3, <2>2
  <2> QED
    BY <2>1, <2>2
<1>7. ASSUME ~loc'.cut PROVE Progress(out', w, p, next)
  <2>1. Progress(out, w, p, offset)
    BY <1>0, <1>1, <1>7
  <2>2. CASE Found
    <3>1. p \in Texts =>
            /\ offset \in Matches(dentries[p].inode, w)
            /\ x.line = LineAt(dentries[p].inode, offset)
            /\ \A m \in Matches(dentries[p].inode, w) : m < next <=> m < offset \/ m = offset
      BY <1>4, <1>5, <1>7, <2>2
    <3> QED
      BY <1>2, <1>4, <2>1, <2>2, <3>1, ProgressGrows
  <2>3. CASE ~Found
    <3>1. p \in Texts => \A m \in Matches(dentries[p].inode, w) : m < offset <=> m < next
      BY <1>5, <1>7, <2>3
    <3> QED
      BY <1>3, <2>1, <2>3, <3>1, ProgressSame
  <2> QED
    BY <2>2, <2>3
<1>8. p \in Texts =>
        /\ next \in 0 .. SizeOf(p)
        /\ pc' = "grep scans" => Scans(p, next, d, loc')
        /\ pc' = "grep wants more" => Kept(p, next, d, loc')
        /\ pc' = "grep at end" => next = SizeOf(p)
  BY <1>0, NextLeaves DEF next, LineStep
<1>s. ~loc'.cut => Somewhere(out', w)
  BY <1>7, <1>8, ProgressSomewhere
<1>9. PICK o \in Nat : o = next
  <2>1. p \in Texts => SizeOf(p) \in Nat
    BY TextIs
  <2>2. ASSUME p \in Texts PROVE next \in Nat
    <3>1. next \in 0 .. SizeOf(p)
      BY <1>8, <2>2
    <3> QED
      BY <2>1, <2>2, <3>1, RangeNumber, Zenon
  <2>3. p \notin Texts => next = offset
    BY DEF next
  <2> QED
    BY <2>2, <2>3
<1>10. ASSUME pc' \in {"grep scans", "grep wants more"} PROVE AtFile(p, o)'
  <2>1. fds'[Pid][loc'.dir].pos = p /\ loc'.name = dentries[p].name /\ fds'[Pid][loc'.fd] = d
    BY <1>0, <1>1
  <2>2. ~loc'.cut => Progress(out', cmd'.arg, p, o)
    BY <1>1, <1>7, <1>9
  <2>3. pc' # "grep reads"
    BY <1>10
  <2>4. p \in Texts =>
            /\ ~loc'.cut => Aligned(p, o)
            /\ pc' = "grep scans" => Scans(p, o, fds'[Pid][loc'.fd], loc')
            /\ pc' = "grep wants more" => Kept(p, o, fds'[Pid][loc'.fd], loc')
    BY <1>5, <1>8, <1>9, <2>1
  <2> QED
    BY <2>1, <2>2, <2>3, <2>4, Zenon DEF AtFile
<1>11. ASSUME pc' = "grep at end" PROVE IsDone(p)'
  <2>1. ~loc'.cut => Progress(out', w, p + 1, 0)
    BY <1>p, <1>7, <1>8, <1>11, ProgressDone
  <2> QED
    BY <1>0, <1>1, <2>1 DEF IsDone
<1> QED
  BY <1>1, <1>6, <1>s, <1>10, <1>11

----------------------------------------------------------------------------
(* Every step of grep *)

LEMMA GrepSteps ==
    ASSUME DotIsDirectory, ProgInv, DirInv, GrepInv, cmd.program = "grep", Grep
    PROVE  GrepInv'
<1>0. /\ FdInv /\ ShellInv /\ OpenInv0 /\ GrepLocals /\ fds \in Tables /\ Pid # Nobody
      /\ BUFSIZE \in Nat \ {0} /\ cmd.arg \in Seq(Bytes \ {NUL}) /\ Pid \in Pids
  BY PidsAre, ShellAssumption
     DEF ProgInv, ProgLocals, FdInv, FdTypeOK, Tables, ShellInv, Typed
<1>i. /\ IsOutput(out) /\ Pieces(out, cmd.arg)
      /\ out # <<>> /\ ~loc.cut => Somewhere(out, cmd.arg)
      /\ pc \in {"none", "start"} \cup GrepPcs
      /\ pc # "none" => shell = "waiting" /\ said = "nothing"
  BY DEF GrepInv
\* A step to the next call.
<1>a. ASSUME pc # "none", UNCHANGED <<shell, said, cmd>>, pc' \in GrepPcs,
             IsOutput(out'), Pieces(out', cmd.arg),
             out' # <<>> /\ ~loc'.cut => Somewhere(out', cmd.arg),
             pc' = "grep opens dir" =>
                /\ out' = <<>>
                /\ reply'.value # -1 => fds'[Pid][reply'.value].pos = 0,
             pc' = "grep reads dir" =>
                /\ reply'.value > 0 => \E p \in 1 .. Len(dentries) : HasName(p)'
                /\ reply'.value = 0 /\ ~loc'.cut => AllPrinted',
             pc' = "grep opens" => \E p \in 1 .. Len(dentries) : HasOpened(p)',
             pc' \in {"grep reads", "grep scans", "grep wants more"} =>
                \E p \in 1 .. Len(dentries), offset \in Nat : AtFile(p, offset)',
             pc' \in {"grep at end", "grep closes"} => \E p \in 1 .. Len(dentries) : IsDone(p)'
      PROVE  GrepInv'
  <2>1. shell' = "waiting" /\ said' = "nothing" /\ cmd' = cmd
    BY <1>a, <1>i
  <2>2. pc' # "none" /\ pc' # "start"
    BY <1>a DEF GrepPcs
  <2> QED
    BY <1>a, <2>1, <2>2, Zenon DEF GrepInv
\* The directory is read.
<1>d. ASSUME NEW dir, DirOpen(dir), NEW cut, GrepReadsDir(dir, cut), pc # "none",
             NEW q, fds[Pid][dir].pos = q, ~cut => Progress(out, cmd.arg, q + 1, 0),
             out # <<>> /\ ~cut => Somewhere(out, cmd.arg)
      PROVE  GrepInv'
  <2>1. /\ pc' = "grep reads dir" /\ UNCHANGED <<session, shell, said, cmd, out>>
        /\ reply'.value > 0 => q + 1 \in 1 .. Len(dentries) /\ HasName(q + 1)'
        /\ reply'.value = 0 /\ ~loc'.cut => AllPrinted'
        /\ loc'.cut = cut
    BY <1>0, <1>d, GrepNextName
  <2>2. pc' \in GrepPcs /\ pc' \notin {"grep opens dir", "grep opens", "grep reads", "grep scans",
                                       "grep wants more", "grep at end", "grep closes"}
    BY <2>1 DEF GrepPcs
  <2>3. /\ IsOutput(out') /\ Pieces(out', cmd.arg)
        /\ out' # <<>> /\ ~loc'.cut => Somewhere(out', cmd.arg)
    BY <1>d, <1>i, <2>1
  <2>4. reply'.value > 0 => \E p \in 1 .. Len(dentries) : HasName(p)'
    BY <2>1
  <2> QED
    BY <1>a, <1>d, <2>1, <2>2, <2>3, <2>4
<1>1. CASE GrepOpensDir
  <2>1. /\ pc = "start" /\ Open(Pid, ".") /\ pc' = "grep opens dir" /\ out = <<>> /\ out' = out
        /\ UNCHANGED <<shell, said, cmd>>
    BY <1>1 DEF GrepOpensDir, Starts, Calls, GrepInv
  <2>2. reply'.value # -1 => fds'[Pid][reply'.value].pos = 0
    BY <1>0, <2>1, DotOpens
  <2>3. pc' \in GrepPcs /\ pc # "none" /\ IsOutput(out') /\ Pieces(out', cmd.arg) /\ out' = <<>>
    BY <1>i, <2>1 DEF GrepPcs
  <2> QED
    BY <1>a, <2>1, <2>2, <2>3
<1>2. CASE GrepReadsFirst
  <2>1. /\ pc = "grep opens dir" /\ reply.value # -1 /\ GrepReadsDir(reply.value, FALSE)
        /\ DirOpen(reply.value) /\ fds[Pid][reply.value].pos = 0 /\ out = <<>>
    BY <1>2 DEF GrepReadsFirst, DirInv, GrepInv
  <2>2. Progress(out, cmd.arg, 0 + 1, 0) /\ pc # "none"
    <3>1. 0 + 1 = 1
      BY SMT
    <3>2. Progress(<<>>, cmd.arg, 1, 0)
      BY NoProgress
    <3> QED
      BY <2>1, <3>1, <3>2
  <2>3. PICK dir : dir = reply.value
    OBVIOUS
  <2> QED
    BY <1>d, <2>1, <2>2, <2>3
<1>3. CASE GrepSkips
  <2>1. /\ pc = "grep reads dir" /\ reply.value > 0 /\ Head(reply.taken) \in Dotted
        /\ GrepReadsDir(loc.dir, loc.cut) /\ DirOpen(loc.dir)
    BY <1>3 DEF GrepSkips, DirInv, GrepPcs
  <2>2. PICK p \in 1 .. Len(dentries) : HasName(p)
    BY <2>1 DEF GrepInv
  <2>3. p \notin Texts /\ p \in Nat /\ fds[Pid][loc.dir].pos = p
    <3>1. p \in Texts => dentries[p].name \notin Dotted
      BY TextIs
    <3>2. p \in Nat
      BY EntryNumber, Zenon
    <3> QED
      BY <2>1, <2>2, <3>1, <3>2, Zenon DEF HasName
  <2>4. ~loc.cut => Progress(out, cmd.arg, p + 1, 0)
    BY <2>2, <2>3, ProgressDone DEF HasName
  <2>5. PICK dir, cut : dir = loc.dir /\ cut = loc.cut
    OBVIOUS
  <2> QED
    BY <1>d, <1>i, <2>1, <2>3, <2>4, <2>5
<1>4. CASE GrepGoesOn
  <2>1. pc = "grep closes" /\ GrepReadsDir(loc.dir, loc.cut) /\ DirOpen(loc.dir)
    BY <1>4 DEF GrepGoesOn, DirInv, GrepPcs
  <2>2. PICK p \in 1 .. Len(dentries) : IsDone(p)
    BY <2>1 DEF GrepInv
  <2>3. PICK dir, cut : dir = loc.dir /\ cut = loc.cut
    OBVIOUS
  <2> QED
    BY <1>d, <1>i, <2>1, <2>2, <2>3 DEF IsDone
<1>5. CASE GrepOpens
  <2>1. /\ pc = "grep reads dir" /\ reply.value > 0 /\ Open(Pid, Head(reply.taken))
        /\ pc' = "grep opens" /\ out' = out /\ UNCHANGED <<shell, said, cmd>>
        /\ loc' = [dir |-> loc.dir, cut |-> loc.cut, name |-> Head(reply.taken)]
        /\ DirOpen(loc.dir)
    BY <1>5 DEF GrepOpens, Calls, DirInv, GrepPcs
  <2>2. PICK p \in 1 .. Len(dentries) : HasName(p)
    BY <2>1 DEF GrepInv
  <2>3. /\ fds[Pid][loc.dir].pos = p /\ Head(reply.taken) = dentries[p].name
        /\ ~loc.cut => Progress(out, cmd.arg, p, 0)
    BY <2>2 DEF HasName
  <2>4. fds'[Pid][loc.dir] = fds[Pid][loc.dir]
    BY <1>0, <2>1, OpenFrame DEF DirOpen
  <2>5. p \in Texts /\ reply'.value # -1 =>
            fds'[Pid][reply'.value] = Opened("regular", dentries[p].inode)
    BY <1>0, <2>1, <2>3, OpensText
  <2>6. loc'.dir = loc.dir /\ loc'.cut = loc.cut /\ loc'.name = dentries[p].name
    BY <2>1, <2>3
  <2>7. HasOpened(p)'
    BY <2>1, <2>3, <2>4, <2>5, <2>6 DEF HasOpened
  <2>8. /\ pc' \in GrepPcs /\ pc # "none" /\ IsOutput(out') /\ Pieces(out', cmd.arg)
        /\ out' # <<>> /\ ~loc'.cut => Somewhere(out', cmd.arg)
    BY <1>i, <2>1, <2>6 DEF GrepPcs
  <2> QED
    BY <1>a, <2>1, <2>7, <2>8
\* A text is read, or any other file.
<1>r. ASSUME NEW p \in 1 .. Len(dentries), NEW offset \in Nat, NEW fd \in Fds, NEW l, l = loc',
             l.fd = fd, l.dir = loc.dir, l.cut = loc.cut, l.name = dentries[p].name,
             fd # loc.dir, DirOpen(loc.dir), fds[Pid][loc.dir].pos = p,
             ~loc.cut => Progress(out, cmd.arg, p, offset),
             p \in Texts => Kept(p, offset, fds[Pid][fd], l),
             p \in Texts /\ ~loc.cut => Aligned(p, offset),
             Read(Pid, fd, BUFSIZE - l.last),
             pc # "none", pc' = "grep reads", UNCHANGED <<shell, said, cmd, out>>
      PROVE  GrepInv'
  <2>1. fds'[Pid][loc.dir] = fds[Pid][loc.dir]
    BY <1>0, <1>r, ReadFrame, ZenonT(60) DEF DirOpen
  <2>2. p \in Texts =>
            IF reader' = Pid THEN IsCopying(p, offset, fds'[Pid][fd], l, rd')
            ELSE HasCopied(p, offset, fds'[Pid][fd], l, reply')
    BY <1>0, <1>r, ReadsText
  <2>3. AtFile(p, offset)'
    BY <1>r, <2>1, <2>2, ZenonT(60) DEF AtFile
  <2>4. /\ pc' \in GrepPcs /\ IsOutput(out') /\ Pieces(out', cmd.arg)
        /\ out' # <<>> /\ ~loc'.cut => Somewhere(out', cmd.arg)
    BY <1>i, <1>r DEF GrepPcs
  <2> QED
    BY <1>a, <1>r, <2>3, <2>4
<1>6. CASE GrepReadsFile
  <2>1. /\ pc = "grep opens" /\ reply.value \in Fds /\ reply.value # -1
        /\ Read(Pid, reply.value, BUFSIZE) /\ DirOpen(loc.dir) /\ reply.value # loc.dir
        /\ pc' = "grep reads" /\ UNCHANGED <<shell, said, cmd, out>>
    BY <1>0, <1>6 DEF GrepReadsFile, OpenInv0, Quiet, DirInv, GrepPcs, Calls
  <2>2. PICK junk \in Junk :
            loc' = [dir |-> loc.dir, cut |-> loc.cut, name |-> loc.name,
                    fd |-> reply.value, last |-> 0, line_start |-> 0, cnt |-> 0,
                    data |-> [i \in 0 .. BUFSIZE |-> junk]]
    BY <1>6 DEF GrepReadsFile, Calls
  <2>3. PICK p \in 1 .. Len(dentries) : HasOpened(p)
    BY <2>1 DEF GrepInv
  <2>4. PICK l, fd : l = loc' /\ fd \in Fds /\ fd = reply.value
    BY <2>1
  <2>5. l.dir = loc.dir /\ l.cut = loc.cut /\ l.name = loc.name /\ l.fd = fd /\ l.last = 0
    BY <2>2, <2>4
  <2>6. ASSUME p \in Texts PROVE Kept(p, 0, fds[Pid][fd], l)
    <3>1. fds[Pid][fd] = Opened("regular", dentries[p].inode) /\ SizeOf(p) \in Nat
      BY <2>1, <2>3, <2>4, <2>6, TextIs DEF HasOpened
    <3>2. TextDesc(p, fds[Pid][fd]) /\ fds[Pid][fd].pos = 0
      BY <3>1 DEF TextDesc, Opened
    <3>3. 0 \in 0 .. BUFSIZE - 1 /\ 0 + 0 = 0 /\ 0 .. 0 - 1 = {}
      BY <1>0
    <3> QED
      BY <2>5, <3>2, <3>3 DEF Kept, Holds
  <2>7. BUFSIZE - l.last = BUFSIZE
    BY <1>0, <2>5
  <2>8. Aligned(p, 0) /\ pc # "none" /\ 0 \in Nat
    BY <2>1 DEF Aligned
  <2>9. /\ fds[Pid][loc.dir].pos = p /\ loc.name = dentries[p].name
        /\ ~loc.cut => Progress(out, cmd.arg, p, 0)
    BY <2>3 DEF HasOpened
  <2> QED
    BY <1>r, <2>1, <2>4, <2>5, <2>6, <2>7, <2>8, <2>9
<1>7. CASE GrepReadsOn
  <2>1. /\ pc = "grep wants more" /\ Read(Pid, loc.fd, BUFSIZE - loc.last) /\ DirOpen(loc.dir)
        /\ loc.fd # loc.dir /\ loc.fd \in Fds /\ loc' = loc
        /\ pc' = "grep reads" /\ UNCHANGED <<shell, said, cmd, out>>
    BY <1>0, <1>7 DEF GrepReadsOn, DirInv, GrepPcs, Calls, GrepLocals, Buffered
  <2>2. PICK p \in 1 .. Len(dentries), offset \in Nat : AtFile(p, offset)
    BY <2>1 DEF GrepInv
  <2>3. PICK l, fd : l = loc /\ fd \in Fds /\ fd = loc.fd
    BY <2>1
  <2>4. /\ fds[Pid][loc.dir].pos = p /\ loc.name = dentries[p].name
        /\ ~loc.cut => Progress(out, cmd.arg, p, offset)
        /\ p \in Texts => Kept(p, offset, fds[Pid][loc.fd], loc)
        /\ p \in Texts /\ ~loc.cut => Aligned(p, offset)
    BY <2>1, <2>2, Zenon DEF AtFile
  <2>5. pc # "none"
    BY <2>1
  <2> QED
    BY <1>r, <2>1, <2>3, <2>4, <2>5
\* A step in the buffer.
<1>b. ASSUME NEW p \in 1 .. Len(dentries), NEW offset \in Nat, AtFile(p, offset), pc # "none",
             pc' \in {"grep scans", "grep wants more"}, UNCHANGED <<fds, shell, said, cmd, out>>,
             loc'.dir = loc.dir, loc'.fd = loc.fd, loc'.name = loc.name, loc'.cut = loc.cut,
             p \in Texts =>
                /\ pc' = "grep scans" => Scans(p, offset, fds[Pid][loc.fd], loc')
                /\ pc' = "grep wants more" => Kept(p, offset, fds[Pid][loc.fd], loc')
      PROVE  GrepInv'
  <2>1. pc' # "grep reads" /\ pc' \in GrepPcs
    BY <1>b DEF GrepPcs
  <2>2. fds'[Pid][loc'.fd] = fds[Pid][loc.fd] /\ fds'[Pid][loc'.dir] = fds[Pid][loc.dir]
    BY <1>b
  <2>3. AtFile(p, offset)'
    BY <1>b, <2>1, <2>2, ZenonT(60) DEF AtFile
  <2>4. /\ IsOutput(out') /\ Pieces(out', cmd.arg)
        /\ out' # <<>> /\ ~loc'.cut => Somewhere(out', cmd.arg)
    BY <1>b, <1>i
  <2> QED
    BY <1>a, <1>b, <2>1, <2>3, <2>4
<1>8. CASE GrepTakes
  <2>1. /\ pc = "grep reads" /\ reader = Nobody /\ reply.value # -1 /\ Buffered
        /\ pc' = "grep scans" /\ UNCHANGED <<fds, shell, said, cmd, out>>
    BY <1>0, <1>8 DEF GrepTakes, Calls, GrepLocals, Runs, fdVars
  <2>2. /\ loc'.dir = loc.dir /\ loc'.fd = loc.fd /\ loc'.name = loc.name /\ loc'.cut = loc.cut
    BY <1>8, <2>1 DEF GrepTakes, Calls, Buffered
  <2>3. PICK p \in 1 .. Len(dentries), offset \in Nat : AtFile(p, offset)
    BY <2>1 DEF GrepInv
  <2>4. p \in Texts => HasCopied(p, offset, fds[Pid][loc.fd], loc, reply)
    BY <1>0, <2>1, <2>3, Zenon DEF AtFile
  <2>5. PICK d : d = fds[Pid][loc.fd]
    OBVIOUS
  <2>6. p \in Texts => Scans(p, offset, fds[Pid][loc.fd], loc')
    BY <1>0, <1>8, <2>1, <2>4, <2>5, TakesFile
  <2>7. pc # "none" /\ pc' # "grep wants more"
    BY <2>1
  <2> QED
    BY <1>b, <2>1, <2>2, <2>3, <2>6, <2>7
<1>9. CASE GrepMovesDown
  <2>1. /\ pc = "grep scans" /\ Buffered
        /\ pc' = "grep wants more" /\ UNCHANGED <<fds, shell, said, cmd, out>>
    BY <1>0, <1>9 DEF GrepMovesDown, Calls, GrepLocals, fdVars
  <2>2. /\ loc'.dir = loc.dir /\ loc'.fd = loc.fd /\ loc'.name = loc.name /\ loc'.cut = loc.cut
    BY <1>9, <2>1 DEF GrepMovesDown, Calls, Buffered
  <2>3. PICK p \in 1 .. Len(dentries), offset \in Nat : AtFile(p, offset)
    BY <2>1 DEF GrepInv
  <2>4. p \in Texts => Scans(p, offset, fds[Pid][loc.fd], loc)
    BY <2>1, <2>3, Zenon DEF AtFile
  <2>5. PICK d : d = fds[Pid][loc.fd]
    OBVIOUS
  <2>6. p \in Texts => Kept(p, offset, fds[Pid][loc.fd], loc')
    BY <1>0, <1>9, <2>1, <2>4, <2>5, MovesDownFile
  <2>7. pc # "none" /\ pc' # "grep scans"
    BY <2>1
  <2> QED
    BY <1>b, <2>1, <2>2, <2>3, <2>6, <2>7
<1>10. CASE GrepPrints \/ GrepPasses
  <2>1. pc = "grep scans" /\ ~Partial /\ Buffered /\ LineStep
    BY <1>0, <1>10 DEF GrepPrints, GrepPasses, Prints, GrepLocals, LineStep
  <2>2. UNCHANGED fds
    BY <1>10 DEF GrepPrints, GrepPasses, Prints, Write, NotOpen, Reaches, JustReturns, fdVars
  <2>3. PICK p \in 1 .. Len(dentries), offset \in Nat : AtFile(p, offset)
    BY <2>1 DEF GrepInv
  <2>4. /\ IsOutput(out') /\ Pieces(out', cmd.arg)
        /\ ~loc'.cut => Somewhere(out', cmd.arg)
        /\ pc' \in {"grep scans", "grep wants more"} => \E o \in Nat : AtFile(p, o)'
        /\ pc' = "grep at end" => IsDone(p)'
    BY <1>0, <1>i, <2>1, <2>2, <2>3, LineStepKeeps
  <2>5. /\ pc' \in {"grep scans", "grep wants more", "grep at end"}
        /\ UNCHANGED <<shell, said, cmd>>
    BY <2>1, NextLoc DEF LineStep
  <2>6. pc' \in GrepPcs /\ pc # "none"
    BY <2>1, <2>5 DEF GrepPcs
  <2> QED
    BY <1>a, <2>4, <2>5, <2>6
<1>11. CASE GrepCloses
  <2>1. /\ pc = "grep at end" /\ pc' = "grep closes" /\ loc' = loc /\ Close(Pid, loc.fd)
        /\ loc.fd # loc.dir /\ DirOpen(loc.dir) /\ UNCHANGED <<shell, said, cmd, out>>
    BY <1>11 DEF GrepCloses, Calls, DirInv, GrepPcs
  <2>2. PICK p \in 1 .. Len(dentries) : IsDone(p)
    BY <2>1 DEF GrepInv
  <2>3. fds'[Pid][loc.dir] = fds[Pid][loc.dir]
    BY <1>0, <2>1, CloseFrame, ZenonT(60) DEF DirOpen
  <2>4. IsDone(p)'
    BY <2>1, <2>2, <2>3 DEF IsDone
  <2>5. /\ pc' \in GrepPcs /\ pc # "none" /\ IsOutput(out') /\ Pieces(out', cmd.arg)
        /\ out' # <<>> /\ ~loc'.cut => Somewhere(out', cmd.arg)
    BY <1>i, <2>1 DEF GrepPcs
  <2> QED
    BY <1>a, <2>1, <2>4, <2>5
<1>12. CASE GrepFails \/ GrepEnds
  <2>1. /\ pc' = "none" /\ shell' = "prompt" /\ UNCHANGED <<cmd, loc, out>>
    BY <1>12 DEF GrepFails, GrepEnds, Halt, EndsWith
  <2>2. GrepFails => said' # "nothing"
    <3>1. 3 % 256 = 3 /\ 3 # 0 /\ 3 # 256
      BY SMT
    <3> QED
      BY <3>1 DEF GrepFails, Halt, EndsWith, Message
  <2>3. GrepEnds /\ ~loc.cut => AllPrinted
    BY DEF GrepEnds, Got, GrepInv
  <2>4. said' = "nothing" /\ ~loc'.cut => AllPrinted'
    BY <1>12, <2>1, <2>2, <2>3 DEF AllPrinted
  <2> QED
    BY <1>i, <2>1, <2>4 DEF GrepInv, GrepPcs
<1> QED
  BY <1>1, <1>2, <1>3, <1>4, <1>5, <1>6, <1>7, <1>8, <1>9, <1>10, <1>11, <1>12 DEF Grep

\* A step of another program, or one that shows nothing to grep.
LEMMA GrepStays ==
    /\ UNCHANGED cmd /\ cmd.program # "grep" => GrepInv'
    /\ GrepInv /\ UNCHANGED <<fds, reader, rd, reply, shellVars>> => GrepInv'
<1>1. UNCHANGED cmd /\ cmd.program # "grep" => GrepInv'
  BY DEF GrepInv
<1>2. ASSUME GrepInv, UNCHANGED <<fds, reader, rd, reply, shellVars>> PROVE GrepInv'
  BY <1>2, ZenonT(60) DEF GrepInv, shellVars, AtFile, HasOpened, HasName, IsDone, AllPrinted
<1> QED
  BY <1>1, <1>2

LEMMA GrepKernel ==
    ASSUME ProgInv, DirInv, GrepInv, cmd.program = "grep", KernelReads
    PROVE  GrepInv'
<1>0. /\ FdInv /\ ShellInv /\ OpenInv0 /\ GrepLocals /\ Pid # Nobody /\ BUFSIZE \in Nat \ {0}
      /\ fds \in Tables /\ Pid \in Pids
  BY PidsAre, ShellAssumption DEF ProgInv, ProgLocals, FdInv, FdTypeOK, Tables
<1>1. reader = Pid /\ UNCHANGED shellVars
  BY <1>0 DEF KernelReads, CopyBlock, CopyBadBlock, FinishRead, ShellInv
<1>2. pc = "grep reads"
  <2>1. shell = "waiting"
    BY <1>0, <1>1, PidsAre DEF ShellInv, FdInv, FdTypeOK
  <2>2. pc # "none" /\ pc \in {"none", "start"} \cup GrepPcs
    BY <2>1 DEF GrepInv
  <2> QED
    BY <1>0, <1>1, <2>2 DEF DirInv, OpenInv0, Quiet
<1>3. rd.fd = loc.fd /\ loc.fd # loc.dir /\ DirOpen(loc.dir) /\ loc.fd \in Fds
  BY <1>0, <1>1, <1>2 DEF DirInv, GrepPcs, GrepLocals, Buffered
<1>4. fds'[Pid][loc.dir] = fds[Pid][loc.dir]
  BY <1>0, <1>1, <1>3 DEF KernelReads, CopyBlock, CopyBadBlock, FinishRead, SetDesc, Tables, DirOpen
<1>5. PICK p \in 1 .. Len(dentries), offset \in Nat : AtFile(p, offset)
  BY <1>2 DEF GrepInv
<1>6. PICK l : l = loc
  OBVIOUS
<1>7. ASSUME p \in Texts
      PROVE  IF reader' = Pid THEN IsCopying(p, offset, fds'[Pid][l.fd], l, rd')
             ELSE reply'.value # -1 => HasCopied(p, offset, fds'[Pid][l.fd], l, reply')
  <2>1. IsCopying(p, offset, fds[Pid][l.fd], l, rd)
    BY <1>1, <1>2, <1>5, <1>6, <1>7, Zenon DEF AtFile
  <2> QED
    BY <1>0, <1>3, <1>6, <1>7, <2>1, CopiesText
<1>8. pc' = pc /\ loc' = loc /\ out' = out /\ cmd' = cmd /\ shell' = shell /\ said' = said
  BY <1>1 DEF shellVars
<1>9. AtFile(p, offset)'
  BY <1>2, <1>4, <1>5, <1>6, <1>7, <1>8, ZenonT(60) DEF AtFile
<1> QED
  BY <1>2, <1>8, <1>9, ZenonT(60) DEF GrepInv

LEMMA GrepShellSteps ==
    ASSUME ProgInv, GrepInv, ShellSteps
    PROVE  GrepInv'
<1>0. ShellInv
  BY DEF ProgInv
<1>e. IsOutput(<<>>) /\ \A word : Pieces(<<>>, word)
  <2>1. Len(<<>>) = 0 /\ 1 .. 0 = {} /\ <<>> = [k \in {} |-> <<>>[k]]
    OBVIOUS
  <2> QED
    BY <2>1 DEF IsOutput, Pieces, PrintedOf
<1>1. CASE Boot
  <2>1. shell = "off" /\ UNCHANGED cmd
    BY <1>1 DEF Boot
  <2> QED
    BY <2>1, GrepStays DEF GrepInv
<1>2. ASSUME NEW c \in session, UnknownCommand(c) PROVE GrepInv'
  <2>1. said' = "no such command" /\ out' = <<>> /\ shell' = "prompt" /\ pc' = "none"
    BY <1>0, <1>2 DEF UnknownCommand, ShellInv
  <2> QED
    BY <1>e, <2>1 DEF GrepInv, GrepPcs
<1>3. ASSUME NEW c \in session, Execute(c) PROVE GrepInv'
  <2>1. said' = "nothing" /\ out' = <<>> /\ shell' = "waiting" /\ pc' = "start"
    BY <1>3 DEF Execute
  <2> QED
    BY <1>e, <2>1 DEF GrepInv, GrepPcs
<1>4. CASE ShellRestarts
  <2>1. shell = "prompt" /\ pc = "none" /\ UNCHANGED shellVars
    BY <1>0, <1>4 DEF ShellRestarts, ShellInv
  <2> QED
    BY <2>1, ZenonT(60) DEF GrepInv, shellVars, AllPrinted, GrepPcs
<1>5. CASE KilledByCtrlC
  <2>1. /\ pc' = "none" /\ shell' = "prompt" /\ said' = Message(256) /\ UNCHANGED <<cmd, loc, out>>
    BY <1>5 DEF KilledByCtrlC, EndsWith
  <2>2. said' # "nothing"
    BY <2>1 DEF Message
  <2> QED
    BY <2>1, <2>2 DEF GrepInv, GrepPcs
<1> QED
  BY <1>1, <1>2, <1>3, <1>4, <1>5 DEF ShellSteps

LEMMA GrepNextInv ==
    ASSUME DotIsDirectory, ProgInv, DirInv, GrepInv, [ProgramsNext]_programVars
    PROVE  GrepInv'
<1>1. CASE UNCHANGED programVars
  BY <1>1, GrepStays DEF programVars, fdVars
<1>2. CASE ShellSteps
  BY <1>2, GrepShellSteps
<1>3. CASE Grep
  <2>1. cmd.program = "grep" => GrepInv'
    BY <1>3, GrepSteps
  <2>2. GrepFails \/ GrepEnds => UNCHANGED cmd
    BY DEF GrepFails, GrepEnds, Halt, EndsWith
  <2>3. UNCHANGED cmd
    BY <1>3, <2>2
       DEF Grep, GrepOpensDir, GrepReadsFirst, GrepSkips, GrepGoesOn, GrepReadsDir,
           GrepOpens, GrepReadsFile, GrepReadsOn, GrepTakes, GrepMovesDown, GrepPrints, GrepPasses,
           GrepCloses, Calls, NextLine
  <2> QED
    BY <2>1, <2>3, GrepStays
<1>4. CASE KernelReads
  <2>1. UNCHANGED cmd
    BY <1>4 DEF KernelReads, shellVars
  <2> QED
    BY <1>4, <2>1, GrepStays, GrepKernel
\* Every other step is one of a program that is not grep.
<1>5. ASSUME Cat PROVE GrepInv'
  <2>1. CASE CannotOpen
    <3>1. pc' = "none" /\ shell' = "prompt" /\ said' = Message(2) /\ UNCHANGED <<cmd, loc, out>>
      <4>1. 2 % 256 = 2
        BY SMT
      <4> QED
        BY <2>1, <4>1 DEF CannotOpen, Halt, EndsWith
    <3>2. said' # "nothing"
      BY <3>1 DEF Message
    <3> QED
      BY <3>1, <3>2 DEF GrepInv, GrepPcs
  <2>2. CASE Cat /\ ~CannotOpen
    <3>1. cmd.program # "grep"
      BY <2>2
         DEF Cat, CatOpens, CatReadsFirst, CatWrites, CatReads, CatFails, CatEnds, Got, Starts,
             GrepInv, GrepPcs
    <3>2. CatFails \/ CatEnds => UNCHANGED cmd
      BY DEF CatFails, CatEnds, Halt, EndsWith
    <3>3. UNCHANGED cmd
      BY <2>2, <3>2 DEF Cat, CatOpens, CatReadsFirst, CatWrites, CatReads, Calls
    <3> QED
      BY <3>1, <3>3, GrepStays
  <2> QED
    BY <1>5, <2>1, <2>2
<1>6. ASSUME Syserr PROVE GrepInv'
  <2>1. cmd.program # "grep"
    BY <1>6
       DEF Syserr, SyserrChooses, SyserrRefuses, SyserrCalls, SyserrJudges, SyserrEnds, Starts,
           GrepInv, GrepPcs
  <2>2. SyserrRefuses \/ SyserrEnds => UNCHANGED cmd
    BY DEF SyserrRefuses, SyserrEnds, Halt, EndsWith
  <2>3. UNCHANGED cmd
    BY <1>6, <2>2 DEF Syserr, SyserrChooses, SyserrCalls, SyserrJudges, Calls
  <2> QED
    BY <2>1, <2>3, GrepStays
<1>7. ASSUME Fish PROVE GrepInv'
  <2>1. FishEnds \/ FishCannotOpen => UNCHANGED cmd
    BY DEF FishEnds, FishCannotOpen, Halt, EndsWith
  <2>2. UNCHANGED cmd
    BY <1>7, <2>1
       DEF Fish, FishBegins, FishOpensFirst, FishOpensSecond, FishLooks, FishReads, FishSkips,
           FishTakes, FishPlaces, FishEndsRow, FishCloses, FishGoesOn, FishNextRow, FishSetsRate,
           FishWaits, FishTicks, FishActs, FishClosesRtc, Calls
  <2>3. cmd.program # "grep"
    BY <1>7
       DEF Fish, FishBegins, FishOpensFirst, FishOpensSecond, FishLooks, FishReads, FishSkips,
           FishTakes, FishPlaces, FishEndsRow, FishCloses, FishGoesOn, FishNextRow, FishSetsRate,
           FishWaits, FishTicks, FishActs, FishClosesRtc, FishEnds, FishCannotOpen, Got, Starts,
           GrepInv, GrepPcs
  <2> QED
    BY <2>2, <2>3, GrepStays
<1>8. ASSUME AnyOpens \/ AnyOpensDir \/ AnyCall \/ AnyHalts \/ AnyFaults \/ SigtestFaults
      PROVE  GrepInv'
  <2>1. cmd.program # "grep"
    BY <1>8
       DEF AnyOpens, AnyOpensDir, AnyCall, AnyHalts, AnyFaults, SigtestFaults, Starts, GrepInv,
           GrepPcs
  <2>2. AnyHalts \/ SigtestFaults => UNCHANGED cmd
    BY DEF AnyHalts, SigtestFaults, Halt, EndsWith
  <2>3. UNCHANGED cmd
    BY <1>8, <2>2 DEF AnyOpens, AnyOpensDir, AnyCall, AnyFaults, Calls, shellVars
  <2> QED
    BY <2>1, <2>3, GrepStays
<1> QED
  BY <1>1, <1>2, <1>3, <1>4, <1>5, <1>6, <1>7, <1>8
     DEF ProgramsNext, ProgramSteps, OtherSteps, Syserr

\* grep prints the lines of text files that contain the word, each once and in their
\* order, all of them when it ends by itself, for a buffer and blocks of any size
\* and any files: a line that lies across two reads is moved and put together, and
\* none is lost or printed twice.  Only the byte behind the buffer can cut one, and
\* then what is printed are parts of lines with the word (ece391grep.c, fs.c).
THEOREM GrepPrintsLines ==
    ASSUME DotIsDirectory
    PROVE  ProgramsSpec => []GrepPrintsMatchingLines
<1> DEFINE Inv == ProgInv /\ DirInv /\ GrepInv
<1>1. ProgramsInit => Inv
  <2>1. ProgramsInit => DirInv /\ GrepInv
    BY DEF ProgramsInit, ShellInit, NoCommand, DirInv, GrepInv, GrepPcs
  <2> QED
    BY <2>1, ProgInitInv
<1>2. Inv /\ [ProgramsNext]_programVars => Inv'
  BY ProgNextInv, DirNextInv, GrepNextInv
<1>3. Inv => GrepPrintsMatchingLines
  <2> SUFFICES ASSUME GrepInv, cmd.program = "grep", NEW i \in Texts
               PROVE  LET de == dentries[i]
                          size == inodes[de.inode].size
                      IN  /\ out # <<>> /\ ~loc.cut =>
                                \E offset \in 0 .. size : UpTo(out, cmd.arg, de, offset)
                          /\ \A k \in PrintedOf(out, de.name) :
                                /\ HasWord(out[k].line, cmd.arg)
                                /\ \E m \in Matches(de.inode, cmd.arg) :
                                        HasWord(LineAt(de.inode, m), out[k].line)
                          /\ shell = "prompt" /\ said = "nothing" /\ ~loc.cut =>
                                UpTo(out, cmd.arg, de, size)
    BY DEF GrepPrintsMatchingLines
  <2>1. SizeOf(i) = inodes[dentries[i].inode].size
    BY DEF SizeOf, Size
  <2>2. out # <<>> /\ ~loc.cut =>
            \E offset \in 0 .. SizeOf(i) : UpTo(out, cmd.arg, dentries[i], offset)
    BY DEF GrepInv, Somewhere
  <2>3. shell = "prompt" /\ said = "nothing" /\ ~loc.cut =>
            UpTo(out, cmd.arg, dentries[i], SizeOf(i))
    BY DEF GrepInv, AllPrinted
  <2>4. Pieces(out, cmd.arg)
    BY DEF GrepInv
  <2> QED
    BY <2>1, <2>2, <2>3, <2>4 DEF Pieces
<1> QED
  BY <1>1, <1>2, <1>3, PTL DEF ProgramsSpec
=============================================================================
