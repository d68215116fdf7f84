-------------------------- MODULE FileDescriptors --------------------------
(***************************************************************************)
(* The file descriptors of the processes and the system calls on them      *)
(* (syscalls.c, fs.c).  System calls enter through an interrupt gate and   *)
(* none of these but terminal and RTC reads sets IF, so each is one step;  *)
(* only read_data() is split, into the passes of its loop over the blocks  *)
(* of the file, during which nothing else runs.                            *)
(*                                                                         *)
(* Which process runs next is the business of Scheduler: here any process  *)
(* may make the next call.  A pid is reused with the descriptors its last  *)
(* owner left in the PCB.                                                  *)
(***************************************************************************)
EXTENDS FileSystem

CONSTANTS
    Pids,                   \* the process ids
    MAX_FILE_DESCRIPTORS,
    Counts                  \* the nbytes of read() and write()

ASSUME DescriptorsAssumption ==
    /\ Pids \subseteq Nat
    /\ MAX_FILE_DESCRIPTORS \in Nat
    /\ 1 < MAX_FILE_DESCRIPTORS
    /\ Counts \subseteq Nat

VARIABLES
    live,     \* the processes that exist
    fds,      \* pcb->file_descriptors of every PCB
    reader,   \* the process whose read_data() is in its loop, or Nobody
    rd,       \* the locals of that read_data()
    buf,      \* what it has copied to the program's buffer
    reply     \* the last system call that returned, and what

fdVars == <<live, fds, reader, rd, buf, reply>>

Fds == 0 .. MAX_FILE_DESCRIPTORS - 1
BadFds == {-1, MAX_FILE_DESCRIPTORS}
Nobody == -1

Ftables == {"null", "stdinout", "regular", "dir", "rtc"}
FileDesc == [open : BOOLEAN, ftable : Ftables, inode : Nat, pos : Nat]
Locals == [fd : Fds, length : Nat, count : Nat, blocknum : Nat, blockoffset : Nat]
NoLocals == [fd |-> 0, length |-> 0, count |-> 0, blocknum |-> 0, blockoffset |-> 0]

\* Every variable has its type.
FdTypeOK ==
    /\ live \subseteq Pids
    /\ fds \in [Pids -> [Fds -> FileDesc]]
    /\ reader \in live \cup {Nobody}
    /\ rd \in Locals
    /\ rd.count <= rd.length
    /\ buf \in [1 .. rd.count -> Bytes]
    /\ reply.fd \in Fds \cup BadFds
    /\ reply.value \in Nat \cup {-1}

Zero == [open |-> FALSE, ftable |-> "null", inode |-> 0, pos |-> 0]

\* No process yet.  pcb_init() writes the open flag of every descriptor, so what
\* RAM holds before does not matter.
FdInit ==
    /\ live = {}
    /\ fds = [p \in Pids |-> [fd \in Fds |-> Zero]]
    /\ reader = Nobody
    /\ rd = NoLocals
    /\ buf = <<>>
    /\ reply = [call |-> "none", pid |-> Nobody, fd |-> -1, value |-> 0, taken |-> <<>>]

----------------------------------------------------------------------------

\* No read_data() is in its loop: the CPU can run process p.
Runs(p) == p \in live /\ reader = Nobody

Returns(call, p, fd, value, taken) ==
    reply' = [call |-> call, pid |-> p, fd |-> fd, value |-> value, taken |-> taken]

SetDesc(p, fd, d) == fds' = [fds EXCEPT ![p] = [@ EXCEPT ![fd] = d]]

StdInOut(i) == [open |-> TRUE, ftable |-> "stdinout", inode |-> i, pos |-> 0]
Shut(d) == [d EXCEPT !.open = FALSE]

pcb_init(p) ==
    fds' = [fds EXCEPT ![p] = [fd \in Fds |-> IF fd < 2 THEN StdInOut(fd) ELSE Shut(@[fd])]]

\* execute() creates process p.
Launch(p) ==
    /\ p \in Pids \ live /\ reader = Nobody
    /\ live' = live \cup {p}
    /\ pcb_init(p)
    /\ UNCHANGED <<reader, rd, buf, reply>>

\* Mutant: descriptors stay open behind a process that ends.
kill_keeps_open(p) == live' = live \ {p} /\ UNCHANGED <<fds, reply>>

\* What kill_current_proc() does here: it closes everything, by the ftable and
\* by the flag.
kill_current_proc(p) ==
    /\ live' = live \ {p}
    /\ fds' = [fds EXCEPT ![p] = [fd \in Fds |-> Shut(@[fd])]]
    /\ UNCHANGED reply

\* A process halts, or an exception or Ctrl+C ends it.
Exit(p) ==
    /\ Runs(p)
    /\ kill_current_proc(p)
    /\ UNCHANGED <<reader, rd, buf>>

----------------------------------------------------------------------------

\* The first closed descriptor.
alloc_fd(p, fd) ==
    /\ fd \in Fds
    /\ ~fds[p][fd].open
    /\ \A lower \in Fds : lower < fd => fds[p][lower].open

Opened(ftable, inode) == [open |-> TRUE, ftable |-> ftable, inode |-> inode, pos |-> 0]

\* Mutant: a file descriptor opens where the last file in it was left.
file_open_keeps_pos(p, fd, inode) ==
    SetDesc(p, fd, [open |-> TRUE, ftable |-> "regular", inode |-> inode,
                    pos |-> fds[p][fd].pos])

\* file_open(), dir_open() and rtc_open() when they succeed.
file_open(p, fd, inode) == SetDesc(p, fd, Opened("regular", inode))
dir_open(p, fd, inode) == SetDesc(p, fd, Opened("dir", inode))
rtc_open(p, fd) == SetDesc(p, fd, [fds[p][fd] EXCEPT !.open = TRUE, !.ftable = "rtc"])

\* file_open() fails: open() has set the ftable, and marks the descriptor open
\* all the same before it returns the error.
file_open_fails(p, fd) ==
    SetDesc(p, fd, [fds[p][fd] EXCEPT !.open = TRUE, !.ftable = "regular"])

\* open() of the directory entry de on the free descriptor fd.
OpenDentry(p, fd, de) ==
    \/ /\ de.type = FILE_REGULAR
       /\ FileChecks(de.inode)
       /\ file_open(p, fd, de.inode)
       /\ Returns("open", p, fd, fd, <<>>)
    \/ /\ de.type = FILE_REGULAR
       /\ ~FileChecks(de.inode)
       /\ file_open_fails(p, fd)
       /\ Returns("open", p, -1, -1, <<>>)
    \/ /\ de.type = FILE_DIRECTORY
       /\ dir_open(p, fd, de.inode)
       /\ Returns("open", p, fd, fd, <<>>)
    \/ /\ de.type = FILE_RTC
       /\ rtc_open(p, fd)
       /\ Returns("open", p, fd, fd, <<>>)
    \/ /\ de.type \notin {FILE_REGULAR, FILE_DIRECTORY, FILE_RTC}
       /\ Returns("open", p, -1, -1, <<>>)
       /\ UNCHANGED fds

Open(p, name) ==
    /\ Runs(p)
    /\ \/ \E i \in 1 .. Len(dentries), fd \in Fds :
            read_dentry_by_name(name, i) /\ alloc_fd(p, fd) /\ OpenDentry(p, fd, dentries[i])
       \/ /\ NoDentry(name) \/ \A fd \in Fds : fds[p][fd].open
          /\ Returns("open", p, -1, -1, <<>>)
          /\ UNCHANGED fds
    /\ UNCHANGED <<live, reader, rd, buf>>

\* close() of the ftable clears the flag, that of the terminal returns -1.
CanClose(ftable) == ftable # "stdinout"

Close(p, fd) ==
    /\ Runs(p)
    /\ IF fd \in Fds /\ fds[p][fd].open /\ CanClose(fds[p][fd].ftable)
       THEN /\ SetDesc(p, fd, Shut(fds[p][fd]))
            /\ Returns("close", p, fd, 0, <<>>)
       ELSE /\ Returns("close", p, fd, -1, <<>>)
            /\ UNCHANGED fds
    /\ UNCHANGED <<live, reader, rd, buf>>

----------------------------------------------------------------------------

\* A read() or write() of p on fd reaches the functions of ftable.
Reaches(p, fd, ftable) == Runs(p) /\ fd \in Fds /\ fds[p][fd].open /\ fds[p][fd].ftable = ftable

\* It returns value and taken and leaves every descriptor as it is.
JustReturns(call, p, fd, value, taken) ==
    /\ Returns(call, p, fd, value, taken)
    /\ UNCHANGED <<live, fds, reader, rd, buf>>

\* read() and write() of a number that is no open descriptor.
NotOpen(call, p, fd) ==
    /\ Runs(p)
    /\ ~(fd \in Fds /\ fds[p][fd].open)
    /\ JustReturns(call, p, fd, -1, <<>>)

\* terminal_read() refuses stdout; what it reads is TerminalInput's business.
TerminalRead(p, fd, nbytes) ==
    /\ Reaches(p, fd, "stdinout")
    /\ IF fds[p][fd].inode = 1 THEN JustReturns("read", p, fd, -1, <<>>)
       ELSE \E count \in 0 .. nbytes : JustReturns("read", p, fd, count, <<>>)

RtcRead(p, fd) == Reaches(p, fd, "rtc") /\ JustReturns("read", p, fd, 0, <<>>)

\* dir_read(): the name of the entry at pos, cut to nbytes.
dir_read(p, fd, nbytes) ==
    /\ Reaches(p, fd, "dir")
    /\ LET d == fds[p][fd] IN
       IF HasDentry(d.pos)
       THEN /\ SetDesc(p, fd, [d EXCEPT !.pos = @ + 1])
            /\ Returns("read", p, fd, Least(nbytes, DENTRY_NAME_LEN), <<dentries[d.pos + 1].name>>)
            /\ UNCHANGED <<live, reader, rd, buf>>
       ELSE JustReturns("read", p, fd, 0, <<>>)

\* file_read() up to the loop of read_data().
file_read(p, fd, nbytes) ==
    /\ Reaches(p, fd, "regular")
    /\ LET d == fds[p][fd]
           filesize == inodes[d.inode].size
       IN \/ /\ get_inode(d.inode) => d.pos >= filesize
             /\ JustReturns("read", p, fd, IF get_inode(d.inode) THEN 0 ELSE -1, <<>>)
          \/ /\ get_inode(d.inode)
             /\ d.pos < filesize
             /\ reader' = p
             /\ rd' = [fd |-> fd, length |-> Least(nbytes, filesize - d.pos), count |-> 0,
                       blocknum |-> d.pos \div DATA_BLOCK_SIZE,
                       blockoffset |-> d.pos % DATA_BLOCK_SIZE]
             /\ buf' = <<>>
             /\ UNCHANGED <<live, fds, reply>>

\* The descriptor read_data() works for and the number of the block it is at.
Reading == fds[reader][rd.fd]
BlockId == inodes[Reading.inode].block[rd.blocknum]

\* Mutant: the pass leaves its counters.
memcpy_no_progress(readlen) == UNCHANGED <<buf, rd>>

\* The memcpy() of one pass and the updates after it.
memcpy_block(readlen) ==
    /\ buf' = [i \in 1 .. rd.count + readlen |->
                  IF i <= rd.count THEN buf[i]
                  ELSE data[BlockId][rd.blockoffset + (i - rd.count - 1)]]
    /\ rd' = [rd EXCEPT !.count = @ + readlen, !.blocknum = @ + 1, !.blockoffset = 0]

\* Mutant: the last pass copies the rest of its block, whatever is left to copy.
CopyBlockUncapped ==
    /\ reader # Nobody
    /\ rd.count < rd.length
    /\ get_block(BlockId)
    /\ memcpy_block(DATA_BLOCK_SIZE - rd.blockoffset)
    /\ UNCHANGED <<live, fds, reader, reply>>

\* One pass of the loop of read_data().
CopyBlock ==
    /\ reader # Nobody
    /\ rd.count < rd.length
    /\ get_block(BlockId)
    /\ memcpy_block(Least(rd.length - rd.count, DATA_BLOCK_SIZE - rd.blockoffset))
    /\ UNCHANGED <<live, fds, reader, reply>>

\* A block number out of range: -1, whatever was copied before.
CopyBadBlock ==
    /\ reader # Nobody
    /\ rd.count < rd.length
    /\ ~get_block(BlockId)
    /\ Returns("read", reader, rd.fd, -1, <<>>)
    /\ reader' = Nobody
    /\ rd' = NoLocals
    /\ buf' = <<>>
    /\ UNCHANGED <<live, fds>>

\* The program's buffer is not mapped: the memcpy() faults, and the page fault
\* handler ends the process in the middle of its read.
FaultInCopy ==
    /\ reader # Nobody
    /\ rd.count < rd.length
    /\ get_block(BlockId)
    /\ kill_current_proc(reader)
    /\ reader' = Nobody
    /\ rd' = NoLocals
    /\ buf' = <<>>

\* The loop ends: file_read() moves the position and read() returns.
FinishRead ==
    /\ reader # Nobody
    /\ rd.count = rd.length
    /\ Returns("read", reader, rd.fd, rd.count, buf)
    /\ SetDesc(reader, rd.fd, [Reading EXCEPT !.pos = @ + rd.count])
    /\ reader' = Nobody
    /\ rd' = NoLocals
    /\ buf' = <<>>
    /\ UNCHANGED live

Read(p, fd, nbytes) ==
    \/ NotOpen("read", p, fd)
    \/ TerminalRead(p, fd, nbytes)
    \/ RtcRead(p, fd)
    \/ dir_read(p, fd, nbytes)
    \/ file_read(p, fd, nbytes)

\* terminal_write() refuses stdin, rtc_write() what is no frequency; files and
\* directories are read-only.
Write(p, fd, nbytes) ==
    \/ NotOpen("write", p, fd)
    \/ /\ Reaches(p, fd, "stdinout")
       /\ JustReturns("write", p, fd, IF fds[p][fd].inode = 0 THEN -1 ELSE nbytes, <<>>)
    \/ /\ Reaches(p, fd, "rtc")
       /\ \E value \in {-1, nbytes} : JustReturns("write", p, fd, value, <<>>)
    \/ Reaches(p, fd, "regular") /\ JustReturns("write", p, fd, -1, <<>>)
    \/ Reaches(p, fd, "dir") /\ JustReturns("write", p, fd, -1, <<>>)

FdNext ==
    \/ \E p \in Pids : Launch(p) \/ Exit(p)
    \/ \E p \in Pids, name \in Names : Open(p, name)
    \/ \E p \in Pids, fd \in Fds \cup BadFds : Close(p, fd)
    \/ \E p \in Pids, fd \in Fds \cup BadFds, n \in Counts : Read(p, fd, n) \/ Write(p, fd, n)
    \/ CopyBlock
    \/ CopyBadBlock
    \/ FaultInCopy
    \/ FinishRead

FdSpec == FdInit /\ [][FdNext]_fdVars

----------------------------------------------------------------------------

\* The length of the read in progress: what was asked for, cut at the end of file.
LengthAsked ==
    reader # Nobody =>
        \E n \in Counts : rd.length = Least(n, inodes[Reading.inode].size - Reading.pos)

\* read_data() never copies more than the length it was asked for, cut at the end
\* of the file, and what it has copied is the file from the position on, at
\* whatever offset in whichever blocks it lies.
CopyIsPrefix ==
    /\ LengthAsked
    /\ reader # Nobody =>
        /\ Reading.open /\ Reading.ftable = "regular" /\ get_inode(Reading.inode)
        /\ rd.count <= rd.length
        /\ Reading.pos + rd.length <= inodes[Reading.inode].size
        /\ \A i \in 1 .. rd.count : buf[i] = FileByte(Reading.inode, Reading.pos + i - 1)

\* Where the next pass of read_data() finds the next byte of the file.
AtNextByte ==
    reader # Nobody /\ rd.count < rd.length =>
        /\ rd.blocknum * DATA_BLOCK_SIZE + rd.blockoffset = Reading.pos + rd.count
        /\ rd.blockoffset < DATA_BLOCK_SIZE

\* The inductive invariant of the proofs.
FdInv == FdTypeOK /\ CopyIsPrefix /\ AtNextByte

SoundDesc(d) ==
    d.open =>
        /\ d.ftable \in {"stdinout", "regular", "dir", "rtc"}
        /\ d.ftable = "stdinout" => d.inode \in {0, 1}
        /\ d.ftable = "regular" => GoodFile(d.inode) /\ d.pos <= inodes[d.inode].size
        /\ d.ftable = "dir" => d.pos <= Len(dentries)

\* On an image without dangling numbers an open descriptor can be used, and only
\* processes have open descriptors.
DescriptorsSound ==
    \A p \in Pids, fd \in Fds :
        SoundDesc(fds[p][fd]) /\ (fds[p][fd].open => p \in live)

\* The abstract stream of each descriptor: what is left to read of it.
RestOfFile(inode, pos) ==
    [i \in 1 .. inodes[inode].size - pos |-> FileByte(inode, pos + i - 1)]

RestOfDir(pos) == [i \in 1 .. Len(dentries) - pos |-> dentries[pos + i].name]

StreamOf(d) ==
    CASE ~d.open -> [kind |-> "closed", rest |-> <<>>]
      [] d.open /\ d.ftable = "stdinout" ->
            [kind |-> IF d.inode = 0 THEN "input" ELSE "output", rest |-> <<>>]
      [] d.open /\ d.ftable = "rtc" -> [kind |-> "clock", rest |-> <<>>]
      [] d.open /\ d.ftable = "dir" -> [kind |-> "directory", rest |-> RestOfDir(d.pos)]
      [] OTHER -> [kind |-> "file", rest |-> RestOfFile(d.inode, d.pos)]

AllStreams == [p \in Pids |-> [fd \in Fds |-> StreamOf(fds[p][fd])]]

\* The stream the first directory entry of a name stands for.
FirstDentry(name) == dentries[CHOOSE i \in 1 .. Len(dentries) : read_dentry_by_name(name, i)]

Openable == {name \in Names :
                /\ ~NoDentry(name)
                /\ FirstDentry(name).type \in {FILE_REGULAR, FILE_DIRECTORY, FILE_RTC}}

NewStream(de) ==
    CASE de.type = FILE_RTC -> [kind |-> "clock", rest |-> <<>>]
      [] de.type = FILE_DIRECTORY -> [kind |-> "directory", rest |-> RestOfDir(0)]
      [] OTHER -> [kind |-> "file", rest |-> RestOfFile(de.inode, 0)]

Entries == [name \in Openable |-> NewStream(FirstDentry(name))]

\* On an image without dangling numbers the descriptors are streams: a program
\* reads every file and the directory from the start to the end, in pieces of
\* any size, whatever other descriptors and processes do in between, and a new
\* process never sees a descriptor of the last owner of its pid.
S == INSTANCE Streams WITH
        Processes <- Pids,
        Handles <- Fds,
        Missing <- BadFds,
        Requested <- Names,
        Catalog <- Entries,
        NameLength <- DENTRY_NAME_LEN,
        alive <- live,
        streams <- AllStreams

ImplementsStreams == S!StreamsSpec

\* A call that returns -1 leaves every descriptor as it was: open() opens nothing
\* but what it returns.  It is so on a well-formed image; on a damaged one
\* file_open_fails() leaves a descriptor open that no program knows of.
FailedCallsChangeNothing ==
    [][fds' # fds /\ live' = live => reply'.value # -1]_fdVars

\* A file that could be opened can be read to its end.
OpenFilesCanBeRead ==
    ~(/\ reply.call = "read" /\ reply.value = -1
      /\ reply.fd \in Fds /\ fds[reply.pid][reply.fd].open
      /\ fds[reply.pid][reply.fd].ftable = "regular"
      /\ FileChecks(fds[reply.pid][reply.fd].inode))
=============================================================================
