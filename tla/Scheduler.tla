----------------------------- MODULE Scheduler -----------------------------
(***************************************************************************)
(* The multitasking kernel: the process table of Processes, the terminals  *)
(* (terminal_data[]), the PIT handler schedule_process() and the parts of  *)
(* the keyboard handler that steer it.                                     *)
(*                                                                         *)
(* The machine has one CPU.  The system calls that touch this state, the   *)
(* exception handlers and the PIT handler run with IF = 0 and are one      *)
(* action each; a PIT tick or a key press may come between any two of      *)
(* them.  The keyboard handler is two actions, because it executes sti()   *)
(* before it sends its EOI and the PIT, which has priority over it in the  *)
(* 8259, can preempt it there.                                             *)
(***************************************************************************)
EXTENDS Processes

CONSTANT Workload   \* what users and programs do in the instance

Events == {"launch",      \* programs launch programs
           "exit",        \* programs call halt()
           "fault",       \* programs cause exceptions
           "vidmap",      \* programs call vidmap()
           "ctrl_c", "alt_fn", "other_key"}

ASSUME SchedulerAssumption == Workload \subseteq Events

VARIABLES
    terminal_data,            \* the per-terminal record of the scheduler
    target_visible_terminal,  \* terminal Alt+Fn asked for
    kb_in_service,            \* the 8259 holds back IRQ 1 until its EOI
    eoi_due                   \* contexts suspended before send_eoi(KB_IRQ)

vars == <<pidarray, curr_pid, pcb, tss_esp0, esp, user_page, vidmap_page,
          active_terminal, visible_terminal, terminal_data,
          target_visible_terminal, kb_in_service, eoi_due>>

Term == [curr_pid : MaybePid, tss_esp0 : MaybePid, esp_save : MaybePid,
         halt_flag : BOOLEAN]

TypeOK ==
    /\ ProcessesTypeOK
    /\ terminal_data \in [Terms -> Term]
    /\ target_visible_terminal \in Terms
    /\ kb_in_service \in BOOLEAN
    /\ eoi_due \subseteq MaybePid

Init ==
    /\ ProcessesInit
    /\ terminal_data = [t \in Terms |-> [curr_pid |-> None, tss_esp0 |-> None,
                                         esp_save |-> None, halt_flag |-> FALSE]]
    /\ target_visible_terminal = 0
    /\ kb_in_service = FALSE
    /\ eoi_due = {}

----------------------------------------------------------------------------
(* What the terminals run *)

\* The process terminal t runs: the kernel keeps it in curr_pid while t has
\* the CPU and in terminal_data[t] otherwise.
Current(t) == IF t = active_terminal THEN curr_pid ELSE terminal_data[t].curr_pid

Started(t) == Current(t) # None

----------------------------------------------------------------------------
(* System calls and exceptions *)

\* The CPU executes a program, which may make any call.  (A context that still
\* owes an EOI is inside the keyboard handler.)  If the page is not the one of the
\* process, the bytes it executes are those the page holds.
InProgram ==
    /\ esp \notin {None, Lost}
    /\ esp \notin eoi_due

\* entry() launches the first shell from the boot context.
BootShell ==
    /\ esp = None
    /\ esp \notin eoi_due
    /\ UNCHANGED <<active_terminal, visible_terminal, terminal_data,
                   target_visible_terminal, kb_in_service, eoi_due>>
    /\ execute(curr_pid, pidarray)

\* No user is quick enough to launch a program within the MAX_TERMINALS - 1 ticks
\* in which the other terminals get their shells.
ProgramMayLaunch ==
    /\ InProgram
    /\ "launch" \in Workload
    /\ \A t \in Terms : Started(t)

\* The program launches another one, which exists and can be loaded.
Execute ==
    /\ ProgramMayLaunch
    /\ UNCHANGED <<active_terminal, visible_terminal, terminal_data,
                   target_visible_terminal, kb_in_service, eoi_due>>
    /\ execute(curr_pid, pidarray)

\* Every pid is in use: execute() returns -1 to its caller.
ExecuteNoPid ==
    /\ ProgramMayLaunch
    /\ execute_no_pid(pidarray)
    /\ UNCHANGED vars

EndProgram ==
    /\ InProgram
    /\ UNCHANGED <<active_terminal, visible_terminal, terminal_data,
                   target_visible_terminal, kb_in_service, eoi_due>>
    /\ kill_current_proc(curr_pid)

\* halt().
Halt == "exit" \in Workload /\ EndProgram

\* An exception, in the program or in a system call it made.
Fault == "fault" \in Workload /\ EndProgram

\* vidmap(): the flag is written before the address is checked, and a NULL
\* address clears it without unmapping the page.
VidmapRequest(flag, mapped) ==
    /\ InProgram
    /\ "vidmap" \in Workload
    /\ HasPcb(curr_pid, pidarray)
    /\ pcb' = [pcb EXCEPT ![curr_pid].vidmap_active = flag]
    /\ UNCHANGED <<active_terminal, visible_terminal>>
    /\ IF mapped THEN vidmap_paging(TRUE) ELSE UNCHANGED vidmap_page
    /\ UNCHANGED <<pidarray, curr_pid, tss_esp0, esp, user_page, terminal_data,
                   target_visible_terminal, kb_in_service, eoi_due>>

VidmapOk == VidmapRequest(TRUE, TRUE)
VidmapOutOfRange == VidmapRequest(TRUE, FALSE)
VidmapNull == VidmapRequest(FALSE, FALSE)

----------------------------------------------------------------------------
(* The keyboard handler *)

\* IRQ 1 reaches the CPU.  Up to its sti() the handler is atomic.
KeyboardEntry ==
    /\ esp # Lost
    /\ ~kb_in_service
    /\ kb_in_service' = TRUE
    /\ eoi_due' = eoi_due \cup {esp}
    /\ UNCHANGED <<pidarray, curr_pid, pcb, tss_esp0, esp, user_page, vidmap_page,
                   active_terminal, visible_terminal>>

CtrlC ==
    /\ "ctrl_c" \in Workload
    /\ KeyboardEntry
    /\ terminal_data' = [terminal_data EXCEPT ![visible_terminal].halt_flag = TRUE]
    /\ UNCHANGED target_visible_terminal

\* Mutant: the key press switches the screen itself.
AltFnAtOnce ==
    /\ "alt_fn" \in Workload
    /\ esp # Lost
    /\ ~kb_in_service
    /\ kb_in_service' = TRUE
    /\ eoi_due' = eoi_due \cup {esp}
    /\ \E t \in Terms : target_visible_terminal' = t /\ visible_terminal' = t
    /\ UNCHANGED <<pidarray, curr_pid, pcb, tss_esp0, esp, user_page, vidmap_page,
                   active_terminal, terminal_data>>

\* Alt+F1..F3 ask for a terminal; the PIT handler switches.  Alt+Tab falls
\* through to the case of F1 and asks for terminal 0 as well.
AltFn ==
    /\ "alt_fn" \in Workload
    /\ KeyboardEntry
    /\ \E t \in Terms : target_visible_terminal' = t
    /\ UNCHANGED terminal_data

OtherKey ==
    /\ "other_key" \in Workload
    /\ KeyboardEntry
    /\ UNCHANGED <<terminal_data, target_visible_terminal>>

\* The last statement of the handler.
KeyboardEoi ==
    /\ esp \in eoi_due
    /\ kb_in_service' = FALSE
    /\ eoi_due' = eoi_due \ {esp}
    /\ UNCHANGED <<pidarray, curr_pid, pcb, tss_esp0, esp, user_page, vidmap_page,
                   active_terminal, visible_terminal, terminal_data,
                   target_visible_terminal>>

----------------------------------------------------------------------------
(* The PIT handler, schedule_process() *)

\* Mutant: the last terminal is left out.
NextTerminalOffByOne == (active_terminal + 1) % (MAX_TERMINALS - 1)

NextTerminal == (active_terminal + 1) % MAX_TERMINALS

\* A requested terminal is shown when its turn comes.
SwitchVideo ==
    visible_terminal' = IF target_visible_terminal = NextTerminal
                        THEN NextTerminal ELSE visible_terminal

\* Mutant: the stack pointer is not saved.
SavedWithoutEsp == [terminal_data EXCEPT ![active_terminal] =
              [curr_pid |-> curr_pid, tss_esp0 |-> tss_esp0, esp_save |-> @.esp_save,
               halt_flag |-> @.halt_flag]]

\* The context the tick interrupted is put away.
Saved == [terminal_data EXCEPT ![active_terminal] =
              [curr_pid |-> curr_pid, tss_esp0 |-> tss_esp0, esp_save |-> esp,
               halt_flag |-> @.halt_flag]]

SwitchTerminal ==
    /\ esp # Lost
    /\ SwitchVideo
    /\ active_terminal' = NextTerminal
    /\ UNCHANGED <<target_visible_terminal, kb_in_service>>

\* The next terminal goes on where it was interrupted.
Resume ==
    LET next == terminal_data[NextTerminal] IN
    /\ SwitchTerminal
    /\ next.curr_pid # None
    /\ ~next.halt_flag
    /\ terminal_data' = Saved
    /\ curr_pid' = next.curr_pid
    /\ tss_esp0' = next.tss_esp0
    /\ \/ /\ HasPcb(next.curr_pid, pidarray)
          /\ set_process_paging(next.curr_pid)
          /\ esp' = next.esp_save
       \/ /\ ~HasPcb(next.curr_pid, pidarray)
          /\ user_page' = next.curr_pid
          /\ null_pcb
          /\ UNCHANGED vidmap_page
    /\ UNCHANGED <<pidarray, pcb, eoi_due>>

\* Mutants: the kill comes before curr_pid is switched; the request is not
\* cleared.
ResumeAndKillInterrupted ==
    LET next == terminal_data[NextTerminal] IN
    /\ SwitchTerminal
    /\ next.curr_pid # None
    /\ next.halt_flag
    /\ terminal_data' = [Saved EXCEPT ![NextTerminal].halt_flag = FALSE]
    /\ kill_current_proc(curr_pid)
    /\ eoi_due' = eoi_due \ {curr_pid}

ResumeAndKillAgain ==
    LET next == terminal_data[NextTerminal] IN
    /\ SwitchTerminal
    /\ next.curr_pid # None
    /\ next.halt_flag
    /\ terminal_data' = Saved
    /\ kill_current_proc(next.curr_pid)
    /\ eoi_due' = eoi_due \ {next.curr_pid}

\* Ctrl+C was pressed at the next terminal: what it runs is killed before it
\* executes again, the keyboard handler it may be suspended in included.
ResumeAndKill ==
    LET next == terminal_data[NextTerminal] IN
    /\ SwitchTerminal
    /\ next.curr_pid # None
    /\ next.halt_flag
    /\ terminal_data' = [Saved EXCEPT ![NextTerminal].halt_flag = FALSE]
    /\ kill_current_proc(next.curr_pid)
    /\ eoi_due' = eoi_due \ {next.curr_pid}

\* The next terminal has never run: it gets its first shell.
FirstShell ==
    /\ SwitchTerminal
    /\ terminal_data[NextTerminal].curr_pid = None
    /\ terminal_data' = Saved
    /\ execute(None, pidarray)
    /\ UNCHANGED eoi_due

ScheduleProcess == Resume \/ ResumeAndKill \/ FirstShell

----------------------------------------------------------------------------

Next ==
    \/ BootShell
    \/ Execute
    \/ ExecuteNoPid
    \/ Halt
    \/ Fault
    \/ VidmapOk
    \/ VidmapOutOfRange
    \/ VidmapNull
    \/ CtrlC
    \/ AltFn
    \/ OtherKey
    \/ KeyboardEoi
    \/ ScheduleProcess

Spec == Init /\ [][Next]_vars

\* The PIT never stops ticking.
FairSpec == Spec /\ WF_vars(ScheduleProcess)

----------------------------------------------------------------------------
(* Failures *)

\* The file has the header of an executable and a block that cannot be read.
ExecuteBadImage ==
    /\ ProgramMayLaunch
    /\ UNCHANGED <<active_terminal, visible_terminal, terminal_data,
                   target_visible_terminal, kb_in_service, eoi_due>>
    /\ execute_bad_image(curr_pid, pidarray)

\* A call that looks at its PCB (all but execute(), getargs(), set_handler() and
\* sigreturn()) when there is none.
CallWithoutPcb ==
    /\ InProgram
    /\ ~HasPcb(curr_pid, pidarray)
    /\ null_pcb
    /\ UNCHANGED <<pidarray, curr_pid, pcb, tss_esp0, user_page, vidmap_page,
                   active_terminal, visible_terminal, terminal_data,
                   target_visible_terminal, kb_in_service, eoi_due>>

\* A user is that quick.
ExecuteEarly ==
    /\ InProgram
    /\ UNCHANGED <<active_terminal, visible_terminal, terminal_data,
                   target_visible_terminal, kb_in_service, eoi_due>>
    /\ execute(curr_pid, pidarray)

\* The next terminal has never run and every pid is taken: the handler returns
\* into the context it interrupted, which goes on as the "next terminal" with no
\* current process.
FirstShellNoPid ==
    /\ SwitchTerminal
    /\ terminal_data[NextTerminal].curr_pid = None
    /\ execute_no_pid(pidarray)
    /\ terminal_data' = Saved
    /\ curr_pid' = None
    /\ UNCHANGED <<pidarray, pcb, tss_esp0, esp, user_page, vidmap_page, eoi_due>>

\* An image that cannot be loaded.
BadImageNext == Next \/ ExecuteBadImage \/ CallWithoutPcb

BadImageSpec == Init /\ [][BadImageNext]_vars

\* A user that launches programs until no pid is left for the first shells.
NoPidNext == Next \/ ExecuteEarly \/ FirstShellNoPid \/ CallWithoutPcb

NoPidSpec == Init /\ [][NoPidNext]_vars

----------------------------------------------------------------------------
(* Safety *)

\* The CPU, the TSS and the page directory agree with curr_pid: whenever the
\* kernel can be interrupted it runs curr_pid's context on curr_pid's kernel
\* stack with curr_pid's frame mapped (syscalls.c, scheduling.c: each switch
\* updates the four in a different order and from different saved copies).
ContextConsistent ==
    /\ esp = curr_pid
    /\ tss_esp0 = curr_pid
    /\ user_page = curr_pid

\* What schedule_process() will restore for a terminal that does not have the
\* CPU is the context and the kernel stack of that terminal's own process.
SavedContexts ==
    \A t \in Terms : t # active_terminal =>
        /\ terminal_data[t].esp_save = terminal_data[t].curr_pid
        /\ terminal_data[t].tss_esp0 = terminal_data[t].curr_pid

\* The process of a started terminal is alive and no other terminal runs it,
\* although its pid may have been freed and handed out again meanwhile.
TerminalsOwnProcesses ==
    /\ \A t \in Terms : Started(t) => Current(t) \in pidarray
    /\ \A t, u \in Terms : Started(t) /\ Current(t) = Current(u) => t = u

\* A parent pointer never dangles: a process outlives the one it launched.
ParentsLive ==
    \A p \in pidarray : pcb[p].parent \in pidarray \cup {None}

\* A process waits for one child at a time, and a process that waits is not
\* what any terminal runs.
OneChild ==
    \A p, q \in pidarray : pcb[p].parent = pcb[q].parent /\ pcb[p].parent # None
                            => p = q

WaitingNotRunning ==
    \A p \in pidarray : \A t \in Terms :
        Started(t) => pcb[p].parent # Current(t)

\* No pid leaks: a pid in use is run by a terminal or waits for a process in
\* use, so halting what the terminals run frees all of them in the end.
NoPidLeak ==
    \A p \in pidarray :
        \/ \E t \in Terms : Current(t) = p
        \/ \E q \in pidarray : pcb[q].parent = p

\* After any sequence of launches, halts and kills the processes are one chain
\* of launchers per terminal.
ProcessTree == ParentsLive /\ OneChild /\ WaitingNotRunning /\ NoPidLeak

\* The context and the kernel stack kept in the PCB of a launched process are
\* those of the process that launched it: halt() returns to nobody else, not
\* even when it is schedule_process() that kills on another process's stack.
CallerSaved ==
    \A p \in pidarray : pcb[p].parent # None =>
        /\ pcb[p].esp_save = pcb[p].parent
        /\ pcb[p].tss_esp0 = pcb[p].parent

\* What a program draws through vidmap() lands on its own terminal: the screen
\* while that terminal is shown, its back buffer otherwise.
VidmapOwnTerminal ==
    vidmap_page # Unmapped => vidmap_page = get_video_mem(active_terminal)

\* At most one context owes the keyboard an EOI, and only while the 8259
\* holds back the keyboard.
EoiBookkeeping ==
    /\ eoi_due # {} => kb_in_service
    /\ \A c, d \in eoi_due : c = d

----------------------------------------------------------------------------
(* Steps *)

\* Once a tick has left the boot context nothing ever returns to it: its
\* frames are under the kernel stack of pid 0 (both start at 8 MB).
BootLeftForGood == [][esp # None => esp' # None]_vars

----------------------------------------------------------------------------
(* Claims of the sources that the code does not keep *)

\* syscalls.h says of vidmap_active "1 if process has called vidmap(), 0
\* otherwise": a process that was just created has not called it.  pcb_init()
\* leaves the flag as the last owner of the pid left it.
FreshProcessHasNoVidmap ==
    [][\A p \in pidarray' \ pidarray : ~pcb'[p].vidmap_active]_vars

\* ece391syscall.h says "All calls return >= 0 on success or -1 on failure": none
\* leaves the CPU in the kernel for good, not even one that follows an execute()
\* that failed.
AllCallsReturn == esp # Lost

----------------------------------------------------------------------------
(* The inductive invariant *)

\* Until every terminal has its first shell nothing but first shells run, so a
\* pid is left for each of the others.
FirstShellsOnly ==
    (\E t \in Terms : ~Started(t)) => \A p \in pidarray : pcb[p].parent = None

\* The CPU runs no process only before the first shell of all.
BootOnly == curr_pid = None => \A t \in Terms : ~Started(t)

IInv ==
    /\ TypeOK
    /\ ContextConsistent
    /\ SavedContexts
    /\ TerminalsOwnProcesses
    /\ ProcessTree
    /\ CallerSaved
    /\ VidmapOwnTerminal
    /\ FirstShellsOnly
    /\ BootOnly

----------------------------------------------------------------------------
(* Refinement *)

Turns == INSTANCE Terminals WITH started <- {t \in Terms : Started(t)}

\* The other components may see the kernel as Terminals: the terminals take
\* turns in a ring, a terminal is shown when its turn comes, and whatever has
\* had a turn has a program to run.
ImplementsTurns == Turns!TurnsSpec
=============================================================================
