--------------------------- MODULE SchedulerStacks ---------------------------
(***************************************************************************)
(* The kernel implements TerminalStacks: the stack of a terminal is the    *)
(* chain of parent pointers that starts at the process it runs.            *)
(***************************************************************************)
EXTENDS Scheduler, Sequences

\* Chains(parent)[p]: the programs from the first shell down to p.  A parent pointer
\* is followed at most MAX_PROCESSES times, so that a cycle would show as a chain
\* that holds a process twice.
Chains(parent) ==
    LET upto[n \in 0 .. MAX_PROCESSES] ==
            [p \in MaybePid |->
                IF n = 0 \/ p = None THEN <<>>
                ELSE Append(upto[n - 1][parent[p]], p)]
    IN  upto[MAX_PROCESSES]

Chain == Chains([p \in Pids |-> pcb[p].parent])

Stacks == INSTANCE TerminalStacks WITH
    Programs <- Pids,
    NumTerminals <- MAX_TERMINALS,
    stack <- [t \in Terms |-> Chain[Current(t)]],
    turn <- active_terminal,
    shown <- visible_terminal,
    doomed <- {t \in Terms : terminal_data[t].halt_flag}

\* The kernel's launches, halts, kills and ticks are those of a stack of
\* programs per terminal: halting returns to the launcher (LIFO), at that
\* terminal and no other, and the first shell is always replaced.
ImplementsStacks == Stacks!StacksSpec

\* The processes of terminal t: the one it runs and those that wait below it.
ProcessesOf(t) == LET s == Chain[Current(t)] IN {s[i] : i \in DOMAIN s}

\* A launch, a halt, a vidmap() or a Ctrl+C kill at one terminal, on whichever
\* kernel stack it is executed, leaves the others alone: they run what they ran,
\* none of their processes, the waiting ones included, loses its pid, and no PCB
\* of theirs is written.  (The terminal a step is at has the CPU after it.)
OthersUndisturbed ==
    [][\A t \in Terms \ {active_terminal'} :
            /\ Current(t)' = Current(t)
            /\ \A p \in ProcessesOf(t) : p \in pidarray' /\ pcb'[p] = pcb[p]]_vars

----------------------------------------------------------------------------
(* Liveness *)

\* Every terminal, seen or not, gets the CPU with a program to run again and
\* again, whatever the programs of the others do (there is no yield call).
EveryTerminalRuns ==
    \A t \in Terms : []<>(active_terminal = t /\ Started(t) /\ esp = Current(t))

\* A request to see a terminal is served unless another one replaces it, and
\* Ctrl+C reaches the terminal it was pressed at.
RequestsServed ==
    \A t \in Terms :
        /\ target_visible_terminal = t ~>
              (visible_terminal = t \/ target_visible_terminal # t)
        /\ terminal_data[t].halt_flag ~> ~terminal_data[t].halt_flag

\* The CPU executes the rest of a suspended keyboard handler in some slice.
FairKeyboard == FairSpec /\ SF_vars(KeyboardEoi)

\* send_eoi() "tells device we are done servicing interrupt": a keyboard
\* interrupt taken while a process runs is acknowledged in the end, so that the
\* 8259 delivers the next key.
KeyboardAcknowledged == (kb_in_service /\ eoi_due # {None}) ~> ~kb_in_service
=============================================================================
