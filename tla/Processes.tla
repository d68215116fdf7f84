----------------------------- MODULE Processes -----------------------------
(***************************************************************************)
(* The process table of the kernel (syscalls.c), the process address space *)
(* (paging.c) and the two pieces of CPU state that tie them together: the  *)
(* kernel stack the CPU is running on and the kernel stack TSS.esp0 names. *)
(*                                                                         *)
(* Every kernel stack is an 8 KB slot below 8 MB, one per pid, with the    *)
(* PCB at its low end.  A saved ESP/EBP pair is abstracted to the slot it  *)
(* points into: "esp = p" says that the CPU executes the context of process*)
(* p.  None (-1) is the boot context, which belongs to no process; it is   *)
(* also the curr_pid of a CPU that runs no process and a NULL parent.      *)
(*                                                                         *)
(* The operators below are the parts of execute() and halt() that the      *)
(* system calls, the exception handlers and the PIT handler share; they    *)
(* run with IF = 0 and are therefore steps of one action of Scheduler.     *)
(***************************************************************************)
EXTENDS Integers

CONSTANTS
    MAX_PROCESSES,   \* size of pidarray
    MAX_TERMINALS,   \* size of terminal_data
    PowerOnRam       \* what a never written flag may hold: RAM at power-on

ASSUME ProcessesAssumption ==
    /\ MAX_PROCESSES \in Nat
    /\ MAX_TERMINALS \in Nat
    /\ 1 < MAX_TERMINALS
    /\ MAX_TERMINALS <= MAX_PROCESSES
    /\ PowerOnRam \subseteq BOOLEAN
    /\ PowerOnRam # {}

Pids == 0 .. MAX_PROCESSES - 1
Terms == 0 .. MAX_TERMINALS - 1
None == -1
Lost == -2                  \* the CPU faults in the kernel without end

Unmapped == -1              \* no page at the vidmap address
Video == MAX_TERMINALS      \* physical video memory; frame t is term_vidmem[t]
Frames == Terms \cup {Video}

VARIABLES
    pidarray,          \* the pids whose entry of pidarray[] is USED
    curr_pid,          \* the process the kernel takes for the running one
    pcb,               \* the process control blocks
    tss_esp0,          \* slot the next trap from user mode will push onto
    esp,               \* slot of the context the CPU executes
    user_page,         \* process whose 4 MB frame is mapped at 128 MB
    vidmap_page,       \* frame mapped at the vidmap address
    active_terminal,   \* terminal that owns the CPU
    visible_terminal   \* terminal shown on the screen

MaybePid == Pids \cup {None}
Contexts == MaybePid \cup {Lost}

PCB == [parent : MaybePid, esp_save : MaybePid, tss_esp0 : MaybePid,
        vidmap_active : BOOLEAN]

ProcessesTypeOK ==
    /\ pidarray \subseteq Pids
    /\ curr_pid \in MaybePid
    /\ pcb \in [Pids -> PCB]
    /\ tss_esp0 \in MaybePid
    /\ esp \in Contexts
    /\ user_page \in MaybePid
    /\ vidmap_page \in Frames \cup {Unmapped}
    /\ active_terminal \in Terms
    /\ visible_terminal \in Terms

\* The machine as entry() leaves it when it enables interrupts.
ProcessesInit ==
    /\ pidarray = {}
    /\ curr_pid = None
    /\ pcb \in [Pids -> [parent : {None}, esp_save : {None}, tss_esp0 : {None},
                         vidmap_active : PowerOnRam]]
    /\ tss_esp0 = None
    /\ esp = None
    /\ user_page = None
    /\ vidmap_page = Unmapped
    /\ active_terminal = 0
    /\ visible_terminal = 0

----------------------------------------------------------------------------

get_video_mem(t) == IF t = visible_terminal THEN Video ELSE t

\* Maps the frame at the vidmap address to the output of the terminal that is
\* active when the handler leaves.
vidmap_paging(on) ==
    vidmap_page' = IF on THEN get_video_mem(active_terminal)' ELSE Unmapped

\* get_pcb(pid) is not NULL while the pids in used are taken.
HasPcb(pid, used) == pid \in used

\* A NULL PCB is dereferenced.  Nothing is mapped at address 0, so this is a page
\* fault in the kernel, and the handler, kill_current_proc(), takes the same NULL:
\* faults nest, with interrupts off, down through the kernel stacks of all
\* processes, and none of them runs again.
null_pcb == esp' = Lost

set_process_paging(pid) ==
    /\ user_page' = pid
    /\ vidmap_paging(pcb[pid].vidmap_active)

\* get_pid() hands out the lowest free pid.
get_pid(pid, used) ==
    /\ pid \in Pids \ used
    /\ \A q \in Pids : q < pid => q \in used

\* The parent pcb_init() finds for the new process pid: get_pcb() of the caller,
\* looked up when the pid is marked as used already.
parent_of(caller, used, pid) ==
    IF HasPcb(caller, used \cup {pid}) THEN caller ELSE None

\* Mutant: the caller's context is saved after the switch to the new process.
execute_saves_late(caller, used) ==
    \E pid \in Pids :
        /\ get_pid(pid, used)
        /\ pidarray' = used \cup {pid}
        /\ pcb' = [pcb EXCEPT ![pid] = [parent |-> parent_of(caller, used, pid),
                                         esp_save |-> pid,
                                         tss_esp0 |-> tss_esp0,
                                         vidmap_active |-> @.vidmap_active]]
        /\ curr_pid' = pid
        /\ set_process_paging(pid)
        /\ tss_esp0' = pid
        /\ esp' = pid

\* execute() after its file checks, when a pid is free and the image loads.
\* caller is curr_pid at the call, used the pids taken then.
execute(caller, used) ==
    \E pid \in Pids :
        /\ get_pid(pid, used)
        /\ pidarray' = used \cup {pid}
        /\ pcb' = [pcb EXCEPT ![pid] = [parent |-> parent_of(caller, used, pid),
                                         esp_save |-> esp,
                                         tss_esp0 |-> tss_esp0,
                                         vidmap_active |-> @.vidmap_active]]
        /\ curr_pid' = pid
        /\ set_process_paging(pid)
        /\ tss_esp0' = pid
        /\ esp' = pid

\* execute() when get_pid() finds nothing free: -1, nothing touched.
execute_no_pid(used) == Pids \subseteq used

\* execute() when read_data() fails while it loads the image: the pid is given
\* back, but curr_pid and the user page already are those of the new process.
execute_bad_image(caller, used) ==
    \E pid \in Pids :
        /\ get_pid(pid, used)
        /\ pidarray' = used
        /\ pcb' = [pcb EXCEPT ![pid].parent = parent_of(caller, used, pid)]
        /\ curr_pid' = pid
        /\ set_process_paging(pid)
        /\ UNCHANGED <<tss_esp0, esp>>

\* Mutant of kill_child: TSS.esp0 is not restored.
kill_child_keeps_esp0(pid) ==
    /\ HasPcb(pid, pidarray)
    /\ pcb[pid].parent # None
    /\ pidarray' = pidarray \ {pid}
    /\ curr_pid' = pcb[pid].parent
    /\ set_process_paging(pcb[pid].parent)
    /\ esp' = pcb[pid].esp_save
    /\ UNCHANGED <<pcb, tss_esp0>>

\* kill_current_proc() of a process that another one launched: the caller
\* gets its address space back and returns from its execute().
kill_child(pid) ==
    /\ HasPcb(pid, pidarray)
    /\ pcb[pid].parent # None
    /\ HasPcb(pcb[pid].parent, pidarray \ {pid})
    /\ pidarray' = pidarray \ {pid}
    /\ curr_pid' = pcb[pid].parent
    /\ set_process_paging(pcb[pid].parent)
    /\ tss_esp0' = pcb[pid].tss_esp0
    /\ esp' = pcb[pid].esp_save
    /\ pcb' = pcb

\* Mutant: the new shell becomes a child of the dead one.
kill_root_keeps_parent(pid) ==
    /\ HasPcb(pid, pidarray)
    /\ pcb[pid].parent = None
    /\ execute(pid, pidarray \ {pid})

\* kill_current_proc() of the first shell of a terminal: a new one is started
\* in its place, with a NULL parent.
kill_root(pid) ==
    /\ HasPcb(pid, pidarray)
    /\ pcb[pid].parent = None
    /\ execute(None, pidarray \ {pid})

\* kill_current_proc() when pid has been freed.
kill_without_pcb(pid) ==
    /\ ~HasPcb(pid, pidarray)
    /\ curr_pid' = pid
    /\ null_pcb
    /\ UNCHANGED <<pidarray, pcb, tss_esp0, user_page, vidmap_page>>

\* ... and when its parent has: set_process_paging() writes the page and looks
\* for the PCB then.
kill_without_parent(pid) ==
    /\ HasPcb(pid, pidarray)
    /\ pcb[pid].parent # None
    /\ ~HasPcb(pcb[pid].parent, pidarray \ {pid})
    /\ pidarray' = pidarray \ {pid}
    /\ curr_pid' = pcb[pid].parent
    /\ user_page' = pcb[pid].parent
    /\ null_pcb
    /\ UNCHANGED <<pcb, tss_esp0, vidmap_page>>

kill_current_proc(pid) ==
    \/ kill_child(pid)
    \/ kill_root(pid)
    \/ kill_without_pcb(pid)
    \/ kill_without_parent(pid)
=============================================================================
