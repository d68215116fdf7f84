------------------------------ MODULE Commands ------------------------------
(***************************************************************************)
(* Command lines: how execute() takes a command apart into the name of a   *)
(* file and its arguments, how it looks the name up, and how the arguments *)
(* get through the PCB to the program that asks for them with getargs().   *)
(*                                                                         *)
(* The module follows one PCB through the lives of the processes that get  *)
(* its pid: what the last one left in it is still there.  Which pid a      *)
(* process gets, and when, is the business of Scheduler.                   *)
(***************************************************************************)
EXTENDS Strings

CONSTANTS
    DENTRY_NAME_LEN,   \* characters of a name in a directory entry
    ARG_BUFF_SIZE,     \* characters of args of a PCB
    Characters,        \* of names and commands
    Space, Enter,      \* those that separate
    Programs,          \* names of the files that begin as an ELF file does
    Documents,         \* of those that begin otherwise
    Devices,           \* of the entries that have no data: "." and rtc
    CommandLines,      \* what is passed to execute(), without the NUL
    Counts             \* what programs pass to getargs() for nbytes

VARIABLES
    launched,   \* name of the file that was executed, <<>> if none runs
    command,    \* history: the command it was launched with
    args,       \* of the PCB
    got         \* the last reply of getargs()

commandVars == <<launched, command, args, got>>

NothingGot == [nbytes |-> 0, result |-> 0, text |-> <<>>]

CommandsInit ==
    /\ launched = <<>>
    /\ command = <<>>
    /\ args = [i \in 1 .. ARG_BUFF_SIZE |-> NUL]
    /\ got = NothingGot

----------------------------------------------------------------------------

\* Length of the longest prefix of s whose characters are all in C.
Prefix(s, C) ==
    CHOOSE k \in 0 .. Len(s) : /\ \A i \in 1 .. k : s[i] \in C
                               /\ k = Len(s) \/ s[k + 1] \notin C

PrefixWithout(s, C) == Prefix(s, Characters \ C)

Drop(s, k) == SubSeq(s, k + 1, Len(s))

\* The command without the spaces before it.
Trimmed(c) == Drop(c, Prefix(c, {Space}))

NameLength(c) ==
    Lesser(DENTRY_NAME_LEN, PrefixWithout(Trimmed(c), {Space, Enter}))

file_name(c) == SubSeq(Trimmed(c), 1, NameLength(c))

\* What follows the name: the rest of a word longer than DENTRY_NAME_LEN included.
file_args(c) ==
    LET rest == Drop(Trimmed(c), NameLength(c))
        start == Drop(rest, Prefix(rest, {Space}))
    IN  SubSeq(start, 1, PrefixWithout(start, {Enter}))

Files == Programs \cup Documents \cup Devices

\* file_args[] has no room for the NUL of ARG_BUFF_SIZE characters: the commands
\* have shorter arguments.
ASSUME CommandsAssumption ==
    /\ DENTRY_NAME_LEN \in Nat /\ ARG_BUFF_SIZE \in Nat
    /\ {Space, Enter} \subseteq Characters /\ Space # Enter /\ NUL \notin Characters
    /\ Files \cup CommandLines \subseteq Seq(Characters)
    /\ \A f \in Files : Len(f) \in 1 .. DENTRY_NAME_LEN
    /\ \A f \in Programs \cup Devices : Len(f) < DENTRY_NAME_LEN
    /\ \A c \in CommandLines : Len(file_args(c)) < ARG_BUFF_SIZE
    /\ Counts \subseteq Nat \ {0}

\* file_name[] as read_dentry_by_name() finds it: a name that fills it has no NUL
\* of its own, and ends where the stack behind it happens to hold one.
StackedNames(name) ==
    IF Len(name) < DENTRY_NAME_LEN THEN {name \o <<NUL>>}
    ELSE {name \o <<NUL>>, name \o <<Space, NUL>>}

\* The comparison of read_dentry_by_name(); without the lengths (mutant).
NameMatchesPrefix(field, fname) == SameChars(field, fname, strlen(fname))

NameMatches(field, fname) ==
    /\ strnlen(field, DENTRY_NAME_LEN) = strlen(fname)
    /\ SameChars(field, fname, DENTRY_NAME_LEN)

\* The files of that name.
Found(fname) ==
    {f \in Files : NameMatches(strncpy(f \o <<NUL>>, DENTRY_NAME_LEN), fname)}

\* Of a device read_data() reads nothing, and the header that is checked is what
\* the stack holds: that of the last program launched from there, for all one knows.
Executable(f) == f \notin Documents
NotExecutable(f) == f \notin Programs

\* Mutant: pcb_init() leaves the loop before it copies the NUL.
pcb_args_unterminated(text) ==
    [i \in 1 .. ARG_BUFF_SIZE |-> IF i <= Len(text) THEN text[i] ELSE args[i]]

\* pcb_init() copies the arguments up to their NUL over those of the last process.
pcb_args(text) ==
    [i \in 1 .. ARG_BUFF_SIZE |-> IF i <= Len(text) THEN text[i]
                                  ELSE IF i = Len(text) + 1 THEN NUL ELSE args[i]]

Launch(c) ==
    /\ launched = <<>>
    /\ \E fname \in StackedNames(file_name(c)) :
        \E f \in Found(fname) : Executable(f) /\ launched' = f
    /\ command' = c
    /\ args' = pcb_args(file_args(c))
    /\ UNCHANGED got

\* No file of that name, or not a program: execute() fails before it takes a pid.
LaunchFails(c) ==
    /\ launched = <<>>
    /\ \E fname \in StackedNames(file_name(c)) :
        \A f \in Found(fname) : NotExecutable(f)
    /\ UNCHANGED commandVars

\* getargs() copies until it has copied a NUL or nbytes characters.
getargs(nbytes) ==
    LET length == strnlen(args, Lesser(nbytes, ARG_BUFF_SIZE)) IN
    /\ launched # <<>>
    /\ got' = [nbytes |-> nbytes, result |-> IF length < nbytes THEN 0 ELSE -1,
               text |-> SubSeq(args, 1, length)]
    /\ UNCHANGED <<launched, command, args>>

\* ... but -1 and nothing for a buffer outside the program's page or nbytes <= 0.
GetargsRefused == launched # <<>> /\ UNCHANGED commandVars

\* halt() leaves the PCB as it is.
Exit ==
    /\ launched # <<>>
    /\ launched' = <<>>
    /\ command' = <<>>
    /\ got' = NothingGot
    /\ UNCHANGED args

CommandsNext ==
    \/ \E c \in CommandLines : Launch(c) \/ LaunchFails(c)
    \/ \E nbytes \in Counts : getargs(nbytes)
    \/ GetargsRefused
    \/ Exit

CommandsSpec == CommandsInit /\ [][CommandsNext]_commandVars

----------------------------------------------------------------------------

Spaces(k) == [i \in 1 .. k |-> Space]

\* The ends of the line up to its newline.
Ends(line) ==
    {SubSeq(line, k, PrefixWithout(line, {Enter})) : k \in 1 .. Len(line) + 1}

\* The line up to its newline is a name and arguments, with spaces before and
\* between them.
Splits(line, name, text) ==
    \E before, between \in 0 .. Len(line) :
        /\ SubSeq(line, 1, PrefixWithout(line, {Enter})) =
                Spaces(before) \o name \o Spaces(between) \o text
        /\ text # <<>> => between > 0 /\ Head(text) # Space
        /\ Space \notin {name[i] : i \in 1 .. Len(name)}

\* The file launched is the one the first word of the command names, however
\* long the word is and whatever else the stack holds: never one whose name only
\* begins like the word (execute(), "what program to execute and what args to
\* execute with, separated by spaces").
LaunchesFirstWord ==
    launched # <<>> =>
        \E text \in Ends(command) : Splits(command, launched, text)

\* getargs() gives a program the arguments of its own command, all of them or -1,
\* and nothing a process that had the same PCB before it left there.
ArgumentsReachProgram ==
    launched # <<>> /\ got # NothingGot =>
        /\ got.result = 0 => Splits(command, launched, got.text)
        /\ got.result # 0 => \E text \in Ends(command) :
                                Splits(command, launched, text) /\ got.nbytes <= Len(text)

\* What is launched is an executable (execute(), "check if files are valid").  Does
\* not hold: of a device nothing is read, and elf_buffer is not initialised.
LaunchesExecutables == launched \in Programs \cup {<<>>}
=============================================================================
