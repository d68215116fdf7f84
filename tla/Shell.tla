-------------------------------- MODULE Shell --------------------------------
(***************************************************************************)
(* The shell (ece391shell.c) and the programs it starts, as clients of the *)
(* system calls of FileDescriptors: here ece391cat.c, ece391ls.c and       *)
(* ece391sigtest.c, in modules of their own the longer ones.               *)
(*                                                                         *)
(* One terminal is looked at: the shell has pid 0 and waits in execute()   *)
(* while its program, pid 1, runs.  A step of a program looks at the reply *)
(* of its last call and goes on to the next one, which it makes; pc names  *)
(* the call it waits for.  Messages are left out: what a program has       *)
(* written is the data it passed on, and how it ended is what its shell    *)
(* says of it.                                                             *)
(***************************************************************************)
EXTENDS FileDescriptors

CONSTANTS
    Sessions,    \* what is typed: sets of command lines, a program and its argument
    Installed,   \* the names of the programs
    BUFSIZE      \* bytes of the buffers programs read into: 1024

ASSUME ShellAssumption ==
    /\ {0, 1} \subseteq Pids
    /\ BUFSIZE \in Nat \ {0}
    /\ 0 .. BUFSIZE \subseteq Counts
    /\ DENTRY_NAME_LEN <= BUFSIZE
    /\ 2 < MAX_FILE_DESCRIPTORS
    /\ "." \in Names
    /\ \A typed \in Sessions : \A c \in typed : c.program # "grep" => c.arg \in Names

VARIABLES
    session, \* the command lines this user types, in any order
    shell,   \* what the shell is at: "off", "prompt" or "waiting"
    said,    \* what it said of the command that ended last
    cmd,     \* that command, or the one that runs
    pc,      \* the call the program made last
    loc,     \* its local variables
    out      \* what it has written to its stdout

shellVars == <<session, shell, said, cmd, pc, loc, out>>

ShellPid == 0
Pid == 1

NoCommand == [program |-> "none", arg |-> "."]
Messages == {"nothing", "no such command", "exception", "abnormally"}

ShellInit ==
    /\ FdInit
    /\ session = {}
    /\ shell = "off"
    /\ said = "nothing"
    /\ cmd = NoCommand
    /\ pc = "none"
    /\ loc = [fd |-> 0]
    /\ out = <<>>

----------------------------------------------------------------------------
(* The shell *)

\* entry() executes the first shell.
Boot ==
    /\ shell = "off"
    /\ Launch(ShellPid)
    /\ session' \in Sessions
    /\ shell' = "prompt"
    /\ UNCHANGED <<said, cmd, pc, loc, out>>

\* A line that execute() finds no program for: it returns -1.
UnknownCommand(c) ==
    /\ shell = "prompt"
    /\ c.program \notin Installed
    /\ said' = "no such command"
    /\ cmd' = c
    /\ out' = <<>>
    /\ UNCHANGED <<fdVars, session, shell, pc, loc>>

\* The program starts, with nothing on its stdout yet.
Execute(c) ==
    /\ shell = "prompt"
    /\ c.program \in Installed
    /\ Launch(Pid)
    /\ shell' = "waiting"
    /\ said' = "nothing"
    /\ cmd' = c
    /\ pc' = "start"
    /\ loc' = [fd |-> 0]
    /\ out' = <<>>
    /\ UNCHANGED session

\* "exit", or an exception or Ctrl+C at the prompt: kill_current_proc() finds no
\* parent and executes the shell again, in the same PCB.
ShellRestarts ==
    /\ shell = "prompt"
    /\ pcb_init(ShellPid)
    /\ UNCHANGED <<live, reader, rd, buf, reply, shellVars>>

\* What the shell makes of the value of execute().
Message(status) ==
    CASE status = 0 -> "nothing"
      [] status = 256 -> "exception"
      [] OTHER -> "abnormally"

\* kill_current_proc() of the program: execute() returns status to the shell.
EndsWith(status) ==
    /\ Exit(Pid)
    /\ shell' = "prompt"
    /\ said' = Message(status)
    /\ pc' = "none"
    /\ UNCHANGED <<session, cmd, loc, out>>

\* halt() passes the low 8 bits on, so no program can end with 256.
Halt(status) == EndsWith(status % 256)

\* Ctrl+C, carried out while the program does not run in the kernel.
KilledByCtrlC == shell = "waiting" /\ EndsWith(256)

\* The passes of read_data() for a program, on a buffer on its stack, so that they
\* do not fault.
KernelReads == (CopyBlock \/ CopyBadBlock \/ FinishRead) /\ UNCHANGED shellVars

----------------------------------------------------------------------------
(* Steps of programs *)

\* The program runs and its call is the last one that returned, with this value.
Got(call, value) == Runs(Pid) /\ pc = call /\ reply.value = value

\* It has started.
Starts(programs) == Runs(Pid) /\ pc = "start" /\ cmd.program \in programs

\* It makes the next call, with these local variables.
Calls(call, locals) ==
    /\ pc' = call
    /\ loc' = locals
    /\ UNCHANGED <<session, shell, said, cmd>>

\* fdputs() or write() on stdout, which never fails.
Prints(items, nbytes) == Write(Pid, 1, nbytes) /\ out' = out \o items

----------------------------------------------------------------------------
(* cat and ls: ls copies "." a name at a time, cat the file of its argument.  *)
(* Without an argument getargs() succeeds all the same, with an empty name.   *)

File == IF cmd.program = "ls" THEN "." ELSE cmd.arg
Chunk == IF cmd.program = "ls" THEN DENTRY_NAME_LEN ELSE BUFSIZE

CatOpens ==
    /\ Starts({"ls", "cat"})
    /\ Open(Pid, File)
    /\ Calls("cat opens", loc)
    /\ UNCHANGED out

\* Here and in grep.
CannotOpen == (\E call \in {"cat opens", "grep opens dir"} : Got(call, -1)) /\ Halt(2)

CatReadsFirst ==
    /\ pc = "cat opens" /\ reply.value # -1
    /\ Read(Pid, reply.value, Chunk)
    /\ Calls("cat reads", [fd |-> reply.value])
    /\ UNCHANGED out

\* Mutant: the rest of the buffer is written, too.
CatWritesTwice ==
    /\ Runs(Pid) /\ pc = "cat reads" /\ reply.value > 0
    /\ Prints(reply.taken \o reply.taken, reply.value)
    /\ Calls("cat writes", loc)

CatWrites ==
    /\ Runs(Pid) /\ pc = "cat reads" /\ reply.value > 0
    /\ Prints(reply.taken, reply.value)
    /\ Calls("cat writes", loc)

CatReads ==
    /\ pc = "cat writes"
    /\ Read(Pid, loc.fd, Chunk)
    /\ Calls("cat reads", loc)
    /\ UNCHANGED out

CatFails == Got("cat reads", -1) /\ Halt(3)
CatEnds == Got("cat reads", 0) /\ Halt(0)

Cat ==
    \/ CatOpens \/ CannotOpen
    \/ CatReadsFirst \/ CatWrites \/ CatReads
    \/ CatFails \/ CatEnds

\* sigtest installs no handlers, as set_handler() only fails, waits for a line and
\* writes through a null pointer: the page fault handler ends it.
SigtestFaults == Starts({"sigtest"}) /\ EndsWith(256)

----------------------------------------------------------------------------

ShellSteps ==
    \/ Boot
    \/ \E c \in session : UnknownCommand(c) \/ Execute(c)
    \/ ShellRestarts
    \/ KilledByCtrlC

\* What there is to be read of an entry of the directory: the bytes of a file, the
\* names of the directory.
Items(de) ==
    CASE de.type = FILE_REGULAR -> inodes[de.inode].size
      [] de.type = FILE_DIRECTORY -> Len(dentries)
      [] OTHER -> 0

Item(de, i) ==
    IF de.type = FILE_REGULAR THEN FileByte(de.inode, i - 1) ELSE dentries[i].name

\* All of it can be: it exists and its numbers are in range.
Readable(name) ==
    name \in Openable /\ (FirstDentry(name).type = FILE_REGULAR => GoodFile(FirstDentry(name).inode))

\* cat prints its file and ls the directory, in whatever pieces read() delivers
\* them: never anything else, and all of it when it ends by itself; it fails only
\* for what does not exist or cannot be read.
CatPrintsFile ==
    cmd.program \in {"cat", "ls"} =>
        /\ out # <<>> => /\ Len(out) <= Items(FirstDentry(File))
                         /\ \A i \in 1 .. Len(out) : out[i] = Item(FirstDentry(File), i)
        /\ shell = "prompt" /\ said = "nothing" =>
                File \in Openable /\ Len(out) = Items(FirstDentry(File))
        /\ said = "abnormally" => ~Readable(File)
=============================================================================
