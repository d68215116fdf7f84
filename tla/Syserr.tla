------------------------------- MODULE Syserr -------------------------------
(***************************************************************************)
(* ece391syserr.c: the tests of what system calls refuse.  A test is a     *)
(* list of calls and the number of them that must return -1, all of them   *)
(* but in err_open_lots; the calls after those only tidy up.               *)
(***************************************************************************)
EXTENDS Shell, SequencesExt

CONSTANTS
    Pointers,        \* user pointers for vidmap()
    UserPage,        \* those that lie in the page of the program
    Absent           \* names that no entry has

ASSUME SyserrAssumption ==
    /\ UserPage \subseteq Pointers
    /\ IsFiniteSet(Pointers)
    /\ Absent \subseteq Names
    /\ IsFiniteSet(Absent)
    /\ \A name \in Absent : NoDentry(name)

\* Calls with a number or a descriptor, and with a name or a pointer.
Request(call, number) == [call |-> call, number |-> number, name |-> "."]
Naming(call, name) == [call |-> call, number |-> 0, name |-> name]

On(call, descriptors) == [i \in 1 .. Len(descriptors) |-> Request(call, descriptors[i])]
OnAll(call, names) == [i \in 1 .. Cardinality(names) |-> Naming(call, SetToSeq(names)[i])]

\* The descriptors from a to b.
FromTo(a, b) == [i \in 1 .. b - a + 1 |-> a + i - 1]

\* Every call of the list must fail.
AllFail(calls) == [calls |-> calls, checked |-> Len(calls), failing |-> Len(calls)]

err_fd(fd) == AllFail(<<Request("read", fd), Request("write", fd), Request("close", fd)>>)

err_open_lots ==
    [calls |-> [i \in 1 .. MAX_FILE_DESCRIPTORS - 1 |-> Naming("open", ".")]
               \o On("close", FromTo(2, MAX_FILE_DESCRIPTORS - 1)),
     checked |-> MAX_FILE_DESCRIPTORS - 1,
     failing |-> 1]

err_open == AllFail(OnAll("open", Absent))

err_unopened ==
    AllFail(On("close", FromTo(0, MAX_FILE_DESCRIPTORS - 1))
            \o On("read", FromTo(2, MAX_FILE_DESCRIPTORS - 1))
            \o On("write", FromTo(2, MAX_FILE_DESCRIPTORS - 1)))

err_vidmap == AllFail(OnAll("vidmap", Pointers \ UserPage))

err_stdin_out == AllFail(<<Request("write", 0), Request("read", 1)>>)

err_syscall_num == AllFail(On("number", <<11, -1, 0>>))

Tests == <<err_fd(-1), err_fd(MAX_FILE_DESCRIPTORS), err_open_lots, err_open,
           err_unopened, err_vidmap, err_stdin_out, err_syscall_num>>

----------------------------------------------------------------------------

\* Mutant: the numbers are not compared with the end of the table.
BadNumberBelow(number) == number <= 0

\* sys_call_linkage: a number outside its table never reaches it.
BadNumber(number) == number <= 0 \/ number > 10

\* vidmap() refuses a pointer outside the page of the program.
BadPointer(pointer) == pointer \notin UserPage

\* A call that is not about descriptors returns -1.  (A refused vidmap() has written
\* vidmap_active before it looked at the pointer: VidmapOutOfRange and VidmapNull
\* of Scheduler.)
Refuses(request) ==
    \/ request.call = "vidmap" /\ BadPointer(request.name)
    \/ request.call = "number" /\ BadNumber(request.number)

Does(request) ==
    \/ request.call = "open" /\ Open(Pid, request.name)
    \/ request.call = "close" /\ Close(Pid, request.number)
    \/ request.call = "read" /\ Read(Pid, request.number, BUFSIZE)
    \/ request.call = "write" /\ Write(Pid, request.number, BUFSIZE)
    \/ request.call \in {"vidmap", "number"} /\ Runs(Pid) /\ UNCHANGED fdVars

Failed(request) ==
    IF request.call \in {"vidmap", "number"} THEN Refuses(request) ELSE reply'.value = -1

\* The character typed picks one test, 0 all of them.
SyserrChooses ==
    /\ Starts({"syserr"})
    /\ \E select \in 0 .. Len(Tests) :
        LET chosen == IF select = 0 THEN Tests ELSE <<Tests[select]>>
        IN  Calls("syserr begins", [tests |-> chosen, done |-> 0, failing |-> 0, fail |-> 0])
    /\ UNCHANGED <<fdVars, out>>

\* A character that is none.
SyserrRefuses == Starts({"syserr"}) /\ Halt(0)

Test == Head(loc.tests)

SyserrCalls ==
    /\ pc = "syserr begins" /\ loc.tests # <<>> /\ loc.done < Len(Test.calls)
    /\ Does(Test.calls[loc.done + 1])
    /\ loc' = [loc EXCEPT !.done = @ + 1,
                          !.failing = IF loc.done < Test.checked
                                         /\ Failed(Test.calls[loc.done + 1])
                                      THEN @ + 1 ELSE @]
    /\ UNCHANGED <<session, shell, said, cmd, pc, out>>

SyserrJudges ==
    /\ Runs(Pid) /\ pc = "syserr begins" /\ loc.tests # <<>> /\ loc.done = Len(Test.calls)
    /\ Calls("syserr begins",
             [loc EXCEPT !.tests = Tail(@), !.done = 0, !.failing = 0,
                         !.fail = IF loc.failing = Test.failing THEN @ ELSE @ + 2])
    /\ UNCHANGED <<fdVars, out>>

SyserrEnds == Runs(Pid) /\ pc = "syserr begins" /\ loc.tests = <<>> /\ Halt(loc.fail)

Syserr == SyserrChooses \/ SyserrRefuses \/ SyserrCalls \/ SyserrJudges \/ SyserrEnds

\* Every test of ece391syserr.c passes, each by itself or all of them in a row, in
\* whatever state the last program left the PCB.
SyserrPasses == cmd.program = "syserr" => said # "abnormally"
=============================================================================
