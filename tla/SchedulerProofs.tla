--------------------------- MODULE SchedulerProofs ---------------------------
(***************************************************************************)
(* The safety of the kernel for every number of processes and terminals    *)
(* and every workload, as long as images can be loaded and users let the   *)
(* first shells start; types and the bookkeeping of EOIs without that.     *)
(*                                                                         *)
(* The argument: seen from the terminals, a step of the kernel is one of   *)
(* three changes of a forest - a leaf grows a child, a leaf is cut, a root *)
(* is replaced - or none.  The three lemmas about Forest say that each of  *)
(* them keeps it one; the rest of the invariant says that the saved        *)
(* contexts agree with the forest, and follows action by action.           *)
(*                                                                         *)
(* That the kernel keeps a stack of programs per terminal is the same      *)
(* argument once more, for the chain of launchers of each terminal: what   *)
(* SchedulerStacks computes by following parent pointers is the only       *)
(* sequence that Leads from a first program to the one that runs, and the  *)
(* three changes append to it, cut its end or replace it.                  *)
(***************************************************************************)
EXTENDS SchedulerStacks, FiniteSetTheorems, SequenceTheorems, WellFoundedInduction, TLAPS

USE ProcessesAssumption DEF None, Lost, Unmapped, Video

----------------------------------------------------------------------------
(* Forests of processes *)

\* cur[t] is what terminal t runs, par[p] who launched p, used who exists.
Forest(used, par, cur) ==
    /\ \A t \in Terms : cur[t] # None => cur[t] \in used
    /\ \A t, u \in Terms : cur[t] # None /\ cur[t] = cur[u] => t = u
    /\ \A p \in used : par[p] \in used \cup {None}
    /\ \A p, q \in used : par[p] = par[q] /\ par[p] # None => p = q
    /\ \A p \in used : \A t \in Terms : cur[t] # None => par[p] # cur[t]
    /\ \A p \in used : \/ \E t \in Terms : cur[t] = p
                       \/ \E q \in used : par[q] = p

\* What terminal a runs launches a program; a terminal that runs nothing gets
\* a root.
LEMMA ForestGrows ==
    ASSUME NEW used \in SUBSET Pids, NEW par \in [Pids -> MaybePid],
           NEW cur \in [Terms -> MaybePid], Forest(used, par, cur),
           NEW a \in Terms, NEW p \in Pids \ used
    PROVE  Forest(used \cup {p}, [par EXCEPT ![p] = cur[a]], [cur EXCEPT ![a] = p])
BY DEF Forest, Pids, MaybePid

\* What terminal a runs leaves, and a runs its launcher again.
LEMMA ForestShrinks ==
    ASSUME NEW used \in SUBSET Pids, NEW par \in [Pids -> MaybePid],
           NEW cur \in [Terms -> MaybePid], Forest(used, par, cur),
           NEW a \in Terms, cur[a] # None, par[cur[a]] # None
    PROVE  Forest(used \ {cur[a]}, par, [cur EXCEPT ![a] = par[cur[a]]])
BY DEF Forest, Pids, MaybePid

\* What terminal a runs leaves, was its first shell, and another one comes.
LEMMA ForestRenewed ==
    ASSUME NEW used \in SUBSET Pids, NEW par \in [Pids -> MaybePid],
           NEW cur \in [Terms -> MaybePid], Forest(used, par, cur),
           NEW a \in Terms, cur[a] # None, par[cur[a]] = None,
           NEW p \in Pids \ (used \ {cur[a]})
    PROVE  Forest((used \ {cur[a]}) \cup {p}, [par EXCEPT ![p] = None],
                  [cur EXCEPT ![a] = p])
BY DEF Forest, Pids, MaybePid

Parents == [p \in Pids |-> pcb[p].parent]
Currents == [t \in Terms |-> Current(t)]

\* The invariants about processes say that they form a forest.
LEMMA InvariantsAreForest ==
    (TerminalsOwnProcesses /\ ProcessTree /\ pidarray \subseteq Pids)
        <=> (Forest(pidarray, Parents, Currents) /\ pidarray \subseteq Pids)
BY DEF Forest, Parents, Currents, TerminalsOwnProcesses, ProcessTree, ParentsLive,
       OneChild, WaitingNotRunning, NoPidLeak, Started

----------------------------------------------------------------------------
(* Type correctness *)

LEMMA NextTerminalDiffers ==
    ASSUME active_terminal \in Terms
    PROVE  NextTerminal \in Terms /\ NextTerminal # active_terminal
BY DEF Terms, NextTerminal

LEMMA PagingType ==
    ASSUME ProcessesTypeOK, active_terminal' \in Terms, visible_terminal' \in Terms,
           NEW pid \in Pids, set_process_paging(pid)
    PROVE  user_page' \in MaybePid /\ vidmap_page' \in Frames \cup {Unmapped}
BY DEF ProcessesTypeOK, PCB, MaybePid, set_process_paging, vidmap_paging,
       get_video_mem, Frames, Terms

LEMMA ParentType ==
    ASSUME NEW caller \in MaybePid, NEW used, NEW pid
    PROVE  parent_of(caller, used, pid) \in MaybePid
BY DEF parent_of, MaybePid

LEMMA ExecuteType ==
    ASSUME ProcessesTypeOK, active_terminal' \in Terms, visible_terminal' \in Terms,
           esp # Lost, NEW caller \in MaybePid, NEW used \in SUBSET Pids,
           execute(caller, used)
    PROVE  ProcessesTypeOK'
<1>1. PICK pid \in Pids :
        /\ pidarray' = used \cup {pid}
        /\ pcb' = [pcb EXCEPT ![pid] = [parent |-> parent_of(caller, used, pid),
                                         esp_save |-> esp,
                                         tss_esp0 |-> tss_esp0,
                                         vidmap_active |-> @.vidmap_active]]
        /\ curr_pid' = pid
        /\ set_process_paging(pid)
        /\ tss_esp0' = pid
        /\ esp' = pid
  BY DEF execute
<1>2. pcb' \in [Pids -> PCB]
  <2>1. esp \in MaybePid /\ parent_of(caller, used, pid) \in MaybePid
    BY ParentType DEF ProcessesTypeOK, Contexts
  <2> QED
    BY <1>1, <2>1 DEF ProcessesTypeOK, PCB
<1> QED
  BY <1>1, <1>2, PagingType DEF ProcessesTypeOK, MaybePid, Contexts

LEMMA KillType ==
    ASSUME ProcessesTypeOK, active_terminal' \in Terms, visible_terminal' \in Terms,
           esp # Lost, NEW pid \in MaybePid, kill_current_proc(pid)
    PROVE  ProcessesTypeOK'
<1>1. CASE kill_child(pid)
  <2>1. pcb[pid] \in PCB /\ pcb[pid].parent \in Pids
    BY <1>1 DEF kill_child, HasPcb, ProcessesTypeOK, PCB, MaybePid
  <2> QED
    BY <1>1, <2>1, PagingType DEF kill_child, ProcessesTypeOK, PCB, MaybePid, Contexts
<1>2. CASE kill_root(pid)
  <2>1. execute(None, pidarray \ {pid})
    BY <1>2 DEF kill_root
  <2>2. None \in MaybePid /\ pidarray \ {pid} \in SUBSET Pids
    BY DEF ProcessesTypeOK, MaybePid
  <2> QED
    BY <2>1, <2>2, ExecuteType
<1>3. CASE kill_without_pcb(pid)
  BY <1>3 DEF kill_without_pcb, null_pcb, ProcessesTypeOK, Contexts
<1>4. CASE kill_without_parent(pid)
  <2>1. pcb[pid].parent \in MaybePid
    BY <1>4 DEF kill_without_parent, HasPcb, ProcessesTypeOK, PCB
  <2> QED
    BY <1>4, <2>1 DEF kill_without_parent, null_pcb, ProcessesTypeOK, Contexts
<1> QED
  BY <1>1, <1>2, <1>3, <1>4 DEF kill_current_proc

LEMMA SavedType ==
    ASSUME TypeOK, SwitchTerminal
    PROVE  Saved \in [Terms -> Term]
BY DEF TypeOK, ProcessesTypeOK, Saved, Term, SwitchTerminal, Contexts

LEMMA SwitchType ==
    ASSUME TypeOK, SwitchTerminal
    PROVE  active_terminal' \in Terms /\ visible_terminal' \in Terms
BY NextTerminalDiffers DEF TypeOK, ProcessesTypeOK, SwitchTerminal, SwitchVideo

\* The failing executions included.
AnyNext == BadImageNext \/ NoPidNext

LEMMA TypeInductive == TypeOK /\ [AnyNext]_vars => TypeOK'
<1> SUFFICES ASSUME TypeOK, [AnyNext]_vars PROVE TypeOK'
  OBVIOUS
<1> USE DEF TypeOK
<1>1. CASE BootShell \/ Execute \/ ExecuteEarly
  <2>1. execute(curr_pid, pidarray) /\ esp # Lost
    BY <1>1 DEF BootShell, Execute, ExecuteEarly, ProgramMayLaunch, InProgram
  <2>2. UNCHANGED <<active_terminal, visible_terminal, terminal_data,
                    target_visible_terminal, kb_in_service, eoi_due>>
    BY <1>1 DEF BootShell, Execute, ExecuteEarly
  <2> QED
    BY <2>1, <2>2, ExecuteType DEF ProcessesTypeOK
<1>2. CASE CallWithoutPcb
  BY <1>2 DEF CallWithoutPcb, null_pcb, ProcessesTypeOK, Contexts
<1>3. CASE ExecuteNoPid
  BY <1>3 DEF ExecuteNoPid, ProcessesTypeOK, vars
<1>4. CASE ExecuteBadImage
  <2>1. PICK pid \in Pids :
          /\ pidarray' = pidarray
          /\ pcb' = [pcb EXCEPT ![pid].parent = parent_of(curr_pid, pidarray, pid)]
          /\ curr_pid' = pid
          /\ set_process_paging(pid)
          /\ UNCHANGED <<tss_esp0, esp>>
    BY <1>4 DEF ExecuteBadImage, execute_bad_image
  <2>2. pcb' \in [Pids -> PCB]
    <3>1. parent_of(curr_pid, pidarray, pid) \in MaybePid
      BY ParentType DEF ProcessesTypeOK
    <3> QED
      BY <2>1, <3>1 DEF ProcessesTypeOK, PCB
  <2> QED
    BY <1>4, <2>1, <2>2, PagingType DEF ExecuteBadImage, ProcessesTypeOK, MaybePid
<1>5. CASE Halt \/ Fault
  BY <1>5, KillType DEF Halt, Fault, EndProgram, InProgram, ProcessesTypeOK
<1>6. CASE VidmapOk \/ VidmapOutOfRange \/ VidmapNull
  <2>1. PICK flag \in BOOLEAN, mapped \in BOOLEAN : VidmapRequest(flag, mapped)
    BY <1>6 DEF VidmapOk, VidmapOutOfRange, VidmapNull
  <2>2. pcb' \in [Pids -> PCB]
    BY <2>1 DEF VidmapRequest, HasPcb, ProcessesTypeOK, PCB
  <2>3. vidmap_page' \in Frames \cup {Unmapped}
    BY <2>1 DEF VidmapRequest, vidmap_paging, get_video_mem, ProcessesTypeOK, Frames, Terms
  <2> QED
    BY <2>1, <2>2, <2>3 DEF VidmapRequest, ProcessesTypeOK
<1>7. CASE CtrlC
  BY <1>7 DEF CtrlC, KeyboardEntry, ProcessesTypeOK, Contexts, Term
<1>8. CASE AltFn
  BY <1>8 DEF AltFn, KeyboardEntry, ProcessesTypeOK, Contexts
<1>9. CASE OtherKey
  BY <1>9 DEF OtherKey, KeyboardEntry, ProcessesTypeOK, Contexts
<1>10. CASE KeyboardEoi
  BY <1>10 DEF KeyboardEoi, ProcessesTypeOK
<1>11. CASE Resume
  <2> DEFINE next == terminal_data[NextTerminal]
  <2>1. next \in Term /\ next.curr_pid \in Pids
    BY <1>11, NextTerminalDiffers DEF Resume, ProcessesTypeOK, Term, MaybePid
  <2>2. user_page' \in MaybePid /\ vidmap_page' \in Frames \cup {Unmapped}
    BY <1>11, <2>1, PagingType, SwitchType DEF Resume, ProcessesTypeOK, MaybePid
  <2>3. esp' \in Contexts
    BY <1>11, <2>1 DEF Resume, null_pcb, Term, Contexts
  <2>4. active_terminal' \in Terms /\ visible_terminal' \in Terms /\ Saved \in [Terms -> Term]
    BY <1>11, SwitchType, SavedType DEF Resume
  <2> QED
    BY <1>11, <2>1, <2>2, <2>3, <2>4
       DEF Resume, SwitchTerminal, ProcessesTypeOK, Term, MaybePid
<1>12. CASE ResumeAndKill
  <2>1. ProcessesTypeOK'
    <3>1. /\ terminal_data[NextTerminal].curr_pid \in MaybePid
          /\ kill_current_proc(terminal_data[NextTerminal].curr_pid)
          /\ esp # Lost
      BY <1>12, NextTerminalDiffers DEF ResumeAndKill, SwitchTerminal, ProcessesTypeOK, Term
    <3>2. active_terminal' \in Terms /\ visible_terminal' \in Terms
      BY <1>12, SwitchType DEF ResumeAndKill
    <3> QED
      BY <3>1, <3>2, KillType
  <2>2. terminal_data' \in [Terms -> Term]
    BY <1>12, SavedType DEF ResumeAndKill, Term
  <2> QED
    BY <1>12, <2>1, <2>2 DEF ResumeAndKill, SwitchTerminal
<1>13. CASE FirstShell
  <2>1. /\ execute(None, pidarray) /\ esp # Lost
        /\ active_terminal' \in Terms /\ visible_terminal' \in Terms
    BY <1>13, SwitchType DEF FirstShell, SwitchTerminal
  <2>2. None \in MaybePid /\ pidarray \in SUBSET Pids
    BY DEF MaybePid, ProcessesTypeOK
  <2>3. ProcessesTypeOK'
    BY <2>1, <2>2, ExecuteType
  <2> QED
    BY <1>13, <2>3, SavedType DEF FirstShell, SwitchTerminal
<1>14. CASE FirstShellNoPid
  BY <1>14, SavedType, SwitchType DEF FirstShellNoPid, SwitchTerminal, ProcessesTypeOK, MaybePid
<1>15. CASE UNCHANGED vars
  BY <1>15 DEF vars, ProcessesTypeOK
<1> QED
  BY <1>1, <1>2, <1>3, <1>4, <1>5, <1>6, <1>7, <1>8, <1>9, <1>10, <1>11, <1>12, <1>13,
     <1>14, <1>15 DEF AnyNext, BadImageNext, NoPidNext, Next, ScheduleProcess

LEMMA InitType == Init => TypeOK
<1> SUFFICES ASSUME Init PROVE TypeOK
  OBVIOUS
<1>1. pcb \in [Pids -> PCB]
  BY DEF Init, ProcessesInit, PCB, MaybePid
<1>2. terminal_data \in [Terms -> Term]
  BY DEF Init, Term, MaybePid
<1>3. 0 \in Terms
  BY DEF Terms
<1> QED
  BY <1>1, <1>2, <1>3 DEF Init, ProcessesInit, TypeOK, ProcessesTypeOK, MaybePid, Contexts, Frames

LEMMA StepsAreAny ==
    /\ [Next]_vars => [AnyNext]_vars
    /\ [BadImageNext]_vars => [AnyNext]_vars
    /\ [NoPidNext]_vars => [AnyNext]_vars
BY DEF AnyNext, BadImageNext, NoPidNext

\* Every variable of the kernel stays in its type, in every workload.
THEOREM TypeCorrect == Spec => []TypeOK
BY InitType, TypeInductive, StepsAreAny, PTL DEF Spec

\* Also when images cannot be loaded or users take all pids.
THEOREM TypeCorrectInFailures == (BadImageSpec => []TypeOK) /\ (NoPidSpec => []TypeOK)
BY InitType, TypeInductive, StepsAreAny, PTL DEF BadImageSpec, NoPidSpec

----------------------------------------------------------------------------
(* The keyboard's EOI *)

LEMMA EoiInductive ==
    /\ Init => EoiBookkeeping
    /\ EoiBookkeeping /\ [AnyNext]_vars => EoiBookkeeping'
<1>1. Init => EoiBookkeeping
  BY DEF Init, EoiBookkeeping
<1>2. EoiBookkeeping /\ [AnyNext]_vars => EoiBookkeeping'
  <2> SUFFICES ASSUME EoiBookkeeping, [AnyNext]_vars PROVE EoiBookkeeping'
    OBVIOUS
  <2>1. \/ kb_in_service' = kb_in_service /\ eoi_due' \subseteq eoi_due
        \/ ~kb_in_service /\ kb_in_service' = TRUE /\ eoi_due' = eoi_due \cup {esp}
        \/ esp \in eoi_due /\ eoi_due' = eoi_due \ {esp}
    BY DEF AnyNext, BadImageNext, NoPidNext, Next, vars, BootShell, Execute, ExecuteNoPid,
           ExecuteBadImage, ExecuteEarly, CallWithoutPcb, Halt, Fault, EndProgram, VidmapOk,
           VidmapOutOfRange, VidmapNull, VidmapRequest, CtrlC, AltFn, OtherKey, KeyboardEntry,
           KeyboardEoi, ScheduleProcess, Resume, ResumeAndKill, FirstShell, FirstShellNoPid,
           SwitchTerminal
  <2> QED
    BY <2>1 DEF EoiBookkeeping
<1> QED
  BY <1>1, <1>2

\* In every workload at most one context owes the 8259 a keyboard EOI, and the
\* keyboard stays silent while one does: also when images cannot be loaded or
\* users take all pids.
THEOREM EoiBookkeepingHolds ==
    /\ Spec => []EoiBookkeeping
    /\ BadImageSpec => []EoiBookkeeping
    /\ NoPidSpec => []EoiBookkeeping
BY EoiInductive, StepsAreAny, PTL DEF Spec, BadImageSpec, NoPidSpec

----------------------------------------------------------------------------
(* The inductive step *)

LEMMA InvariantsAreForestPrime ==
    (TerminalsOwnProcesses' /\ ProcessTree' /\ pidarray' \subseteq Pids)
        <=> (Forest(pidarray', Parents', Currents') /\ pidarray' \subseteq Pids)
BY DEF Forest, Parents, Currents, TerminalsOwnProcesses, ProcessTree, ParentsLive,
       OneChild, WaitingNotRunning, NoPidLeak, Started

LEMMA ViewTypes ==
    TypeOK => /\ Parents \in [Pids -> MaybePid]
              /\ Currents \in [Terms -> MaybePid]
              /\ pidarray \in SUBSET Pids
BY DEF TypeOK, ProcessesTypeOK, Parents, Currents, Current, PCB, Term

\* What every step has to establish; SavedContexts does not depend on what the
\* processes do.
Kept == /\ ContextConsistent
        /\ TerminalsOwnProcesses
        /\ ProcessTree
        /\ CallerSaved
        /\ VidmapOwnTerminal
        /\ FirstShellsOnly
        /\ BootOnly

\* No PCB is NULL where the kernel looks for one: the caller of execute() is the
\* parent of what it launches, ...
LEMMA CallerIsParent ==
    ASSUME IInv, NEW a \in Terms, NEW pid \in Pids
    PROVE  parent_of(Current(a), pidarray, pid) = Current(a)
BY DEF IInv, TerminalsOwnProcesses, Started, parent_of, HasPcb

LEMMA NoParent ==
    ASSUME NEW used \in SUBSET Pids, NEW pid \in Pids
    PROVE  parent_of(None, used, pid) = None
BY DEF parent_of, HasPcb, Pids

LEMMA Launches ==
    ASSUME NEW caller, NEW used, execute(caller, used),
           \A pid \in Pids : parent_of(caller, used, pid) = caller
    PROVE  \E pid \in Pids :
             /\ get_pid(pid, used)
             /\ pidarray' = used \cup {pid}
             /\ pcb' = [pcb EXCEPT ![pid] = [parent |-> caller,
                                              esp_save |-> esp,
                                              tss_esp0 |-> tss_esp0,
                                              vidmap_active |-> @.vidmap_active]]
             /\ curr_pid' = pid
             /\ set_process_paging(pid)
             /\ tss_esp0' = pid
             /\ esp' = pid
BY DEF execute

\* ... what is killed has a PCB, and so has the process that launched it, ...
LEMMA KillFindsPcbs ==
    ASSUME IInv, NEW a \in Terms, Current(a) # None, kill_current_proc(Current(a))
    PROVE  kill_child(Current(a)) \/ kill_root(Current(a))
<1> DEFINE victim == Current(a)
<1>1. victim \in pidarray
  BY DEF IInv, TerminalsOwnProcesses, Started
<1>2. pcb[victim].parent \in (pidarray \ {victim}) \cup {None}
  BY <1>1 DEF IInv, ProcessTree, ParentsLive, WaitingNotRunning, Started
<1>3. ~kill_without_pcb(victim) /\ ~kill_without_parent(victim)
  BY <1>1, <1>2 DEF kill_without_pcb, kill_without_parent, HasPcb
<1> QED
  BY <1>3 DEF kill_current_proc

\* ... and what a tick resumes.
LEMMA ResumeFindsPcb ==
    ASSUME IInv, Resume
    PROVE  HasPcb(terminal_data[NextTerminal].curr_pid, pidarray)
<1>1. /\ NextTerminal \in Terms
      /\ Current(NextTerminal) = terminal_data[NextTerminal].curr_pid
  BY NextTerminalDiffers DEF IInv, TypeOK, ProcessesTypeOK, Current
<1> QED
  BY <1>1 DEF Resume, IInv, TerminalsOwnProcesses, Started, HasPcb

\* Terminal a runs what its process, or the boot code, has launched.
LEMMA ExecuteKeeps ==
    ASSUME IInv, TypeOK', NEW a \in Terms,
           Currents' = [Currents EXCEPT ![a] = curr_pid'],
           execute(Current(a), pidarray),
           Current(a) # None => esp = Current(a) /\ tss_esp0 = Current(a),
           Current(a) = None \/ \A t \in Terms : Started(t)
    PROVE  Kept'
<1> DEFINE caller == Current(a)
<1>1. PICK pid \in Pids :
        /\ get_pid(pid, pidarray)
        /\ pidarray' = pidarray \cup {pid}
        /\ pcb' = [pcb EXCEPT ![pid] = [parent |-> caller,
                                         esp_save |-> esp,
                                         tss_esp0 |-> tss_esp0,
                                         vidmap_active |-> @.vidmap_active]]
        /\ curr_pid' = pid
        /\ set_process_paging(pid)
        /\ tss_esp0' = pid
        /\ esp' = pid
  BY CallerIsParent, Launches
<1>2. pid \in Pids \ pidarray
  BY <1>1 DEF get_pid
<1>3. Parents' = [Parents EXCEPT ![pid] = Currents[a]]
  BY <1>1 DEF Parents, Currents, IInv, TypeOK, ProcessesTypeOK, PCB
<1>4. Forest(pidarray, Parents, Currents)
  BY InvariantsAreForest DEF IInv, TypeOK, ProcessesTypeOK
<1>5. Forest(pidarray', Parents', Currents')
  BY <1>1, <1>2, <1>3, <1>4, ForestGrows, ViewTypes DEF IInv
<1>6. TerminalsOwnProcesses' /\ ProcessTree'
  BY <1>5, InvariantsAreForestPrime DEF TypeOK, ProcessesTypeOK
<1>7. ContextConsistent' /\ VidmapOwnTerminal' /\ BootOnly'
  BY <1>1 DEF BootOnly, Pids, ContextConsistent, VidmapOwnTerminal, set_process_paging, vidmap_paging
<1>8. CallerSaved'
  BY <1>1, <1>2 DEF CallerSaved, IInv, TypeOK, ProcessesTypeOK, PCB
<1>9. FirstShellsOnly'
  <2>1. SUFFICES ASSUME NEW t \in Terms, ~Started(t)', NEW p \in pidarray'
                 PROVE  Parents'[p] = None
    BY DEF FirstShellsOnly, Parents, TypeOK, ProcessesTypeOK
  <2>2. Currents'[t] = None /\ Currents[t] = None
    <3>1. Currents'[t] = None
      BY <2>1 DEF Started, Currents
    <3> QED
      BY <3>1, <1>1, ViewTypes DEF IInv, Pids
  <2>3. ~Started(t) /\ Current(a) = None
    BY <2>2 DEF Started, Currents
  <2> QED
    BY <1>1, <1>3, <2>3 DEF IInv, FirstShellsOnly, Parents, Currents, TypeOK, ProcessesTypeOK
<1> QED
  BY <1>6, <1>7, <1>8, <1>9 DEF Kept

\* What terminal a runs is killed, by itself or by Ctrl+C.
LEMMA KillKeeps ==
    ASSUME IInv, TypeOK', NEW a \in Terms,
           Currents' = [Currents EXCEPT ![a] = curr_pid'],
           Current(a) # None,
           kill_current_proc(Current(a))
    PROVE  Kept'
<1> DEFINE victim == Current(a)
<1>0. kill_child(victim) \/ kill_root(victim)
  BY KillFindsPcbs
<1>1. Forest(pidarray, Parents, Currents)
  BY InvariantsAreForest DEF IInv, TypeOK, ProcessesTypeOK
<1>2. victim \in Pids /\ Currents[a] = victim /\ Parents[victim] = pcb[victim].parent
  BY <1>0 DEF kill_child, kill_root, HasPcb, Currents, Parents, IInv, TypeOK, ProcessesTypeOK
<1>3. CASE kill_child(victim)
  <2>1. Parents' = Parents
    BY <1>3 DEF kill_child, Parents
  <2>2. Forest(pidarray', Parents', Currents')
    BY <1>1, <1>2, <1>3, <2>1, ForestShrinks, ViewTypes DEF kill_child, IInv
  <2>3. TerminalsOwnProcesses' /\ ProcessTree'
    BY <2>2, InvariantsAreForestPrime DEF TypeOK, ProcessesTypeOK
  <2>4. ContextConsistent' /\ VidmapOwnTerminal' /\ BootOnly'
    BY <1>3 DEF BootOnly, kill_child, HasPcb, IInv, CallerSaved, ContextConsistent,
                VidmapOwnTerminal, set_process_paging, vidmap_paging
  <2>5. CallerSaved'
    BY <1>3 DEF kill_child, CallerSaved, IInv
  <2>6. FirstShellsOnly'
    <3>1. SUFFICES ASSUME NEW t \in Terms, ~Started(t)' PROVE FALSE
      BY DEF FirstShellsOnly
    <3>2. Currents'[t] = None /\ Currents[t] = None
      BY <3>1, <1>3 DEF Started, Currents, kill_child
    <3>3. ~Started(t)
      BY <3>2 DEF Started, Currents
    <3> QED
      BY <1>3, <3>3 DEF IInv, FirstShellsOnly, kill_child, HasPcb
  <2> QED
    BY <2>3, <2>4, <2>5, <2>6 DEF Kept
<1>4. CASE kill_root(victim)
  <2>1. PICK pid \in Pids :
        /\ get_pid(pid, pidarray \ {victim})
        /\ pidarray' = (pidarray \ {victim}) \cup {pid}
        /\ pcb' = [pcb EXCEPT ![pid] = [parent |-> None,
                                         esp_save |-> esp,
                                         tss_esp0 |-> tss_esp0,
                                         vidmap_active |-> @.vidmap_active]]
        /\ curr_pid' = pid
        /\ set_process_paging(pid)
        /\ tss_esp0' = pid
        /\ esp' = pid
    <3>1. execute(None, pidarray \ {victim}) /\ pidarray \ {victim} \in SUBSET Pids
      BY <1>4 DEF kill_root, IInv, TypeOK, ProcessesTypeOK
    <3> QED
      BY <3>1, NoParent, Launches
  <2>2. pid \in Pids \ (pidarray \ {victim}) /\ Parents[victim] = None
    BY <1>2, <1>4, <2>1 DEF get_pid, kill_root
  <2>3. Parents' = [Parents EXCEPT ![pid] = None]
    BY <2>1 DEF Parents, IInv, TypeOK, ProcessesTypeOK, PCB
  <2>4. Forest(pidarray', Parents', Currents')
    BY <1>1, <1>2, <2>1, <2>2, <2>3, ForestRenewed, ViewTypes DEF IInv
  <2>5. TerminalsOwnProcesses' /\ ProcessTree'
    BY <2>4, InvariantsAreForestPrime DEF TypeOK, ProcessesTypeOK
  <2>6. ContextConsistent' /\ VidmapOwnTerminal' /\ BootOnly'
    BY <2>1 DEF BootOnly, Pids, ContextConsistent, VidmapOwnTerminal, set_process_paging, vidmap_paging
  <2>7. CallerSaved'
    BY <2>1, <2>2 DEF CallerSaved, IInv, TypeOK, ProcessesTypeOK, PCB
  <2>8. FirstShellsOnly'
    <3>1. SUFFICES ASSUME NEW t \in Terms, ~Started(t)', NEW p \in pidarray'
                   PROVE  Parents'[p] = None
      BY DEF FirstShellsOnly, Parents, TypeOK, ProcessesTypeOK
    <3>2. Currents'[t] = None /\ Currents[t] = None
      <4>1. Currents'[t] = None
        BY <3>1 DEF Started, Currents
      <4> QED
        BY <4>1, <2>1, ViewTypes DEF IInv, Pids
    <3>3. ~Started(t)
      BY <3>2 DEF Started, Currents
    <3> QED
      BY <2>1, <2>3, <3>3 DEF IInv, FirstShellsOnly, Parents, TypeOK, ProcessesTypeOK
  <2> QED
    BY <2>5, <2>6, <2>7, <2>8 DEF Kept
<1> QED
  BY <1>0, <1>3, <1>4

\* A step that leaves the CPU with the terminal that has it changes what that
\* terminal runs and nothing else; so does a tick, for the next terminal.
LEMMA CurrentsSame ==
    ASSUME TypeOK, TypeOK', active_terminal' = active_terminal,
           \A t \in Terms : terminal_data'[t].curr_pid = terminal_data[t].curr_pid
    PROVE  Currents' = [Currents EXCEPT ![active_terminal] = curr_pid']
BY DEF Currents, Current, TypeOK, ProcessesTypeOK

LEMMA CurrentsSwitch ==
    ASSUME TypeOK, TypeOK', SwitchTerminal,
           \A t \in Terms : t # NextTerminal => terminal_data'[t] = Saved[t]
    PROVE  Currents' = [Currents EXCEPT ![NextTerminal] = curr_pid']
<1>1. \A t \in Terms : Saved[t].curr_pid = Current(t)
  BY DEF Saved, Current, TypeOK, ProcessesTypeOK
<1>2. active_terminal' = NextTerminal /\ NextTerminal \in Terms
  BY NextTerminalDiffers DEF SwitchTerminal, TypeOK, ProcessesTypeOK
<1> HIDE DEF NextTerminal, Saved
<1>3. \A t \in Terms : Current(t)' = IF t = NextTerminal THEN curr_pid' ELSE Current(t)
  BY <1>1, <1>2 DEF Current
<1> QED
  BY <1>2, <1>3 DEF Currents

LEMMA SavedContextsSwitch ==
    ASSUME IInv, TypeOK', SwitchTerminal,
           \A t \in Terms : t # NextTerminal => terminal_data'[t] = Saved[t]
    PROVE  SavedContexts'
BY NextTerminalDiffers
   DEF SavedContexts, ContextConsistent, Saved, SwitchTerminal, IInv, TypeOK, ProcessesTypeOK

\* A step that does not touch processes and contexts keeps all of it.
LEMMA QuietKeeps ==
    ASSUME IInv,
           UNCHANGED <<pidarray, curr_pid, tss_esp0, esp, user_page, active_terminal>>,
           \A p \in Pids : /\ pcb'[p].parent = pcb[p].parent
                           /\ pcb'[p].esp_save = pcb[p].esp_save
                           /\ pcb'[p].tss_esp0 = pcb[p].tss_esp0,
           \A t \in Terms : /\ terminal_data'[t].curr_pid = terminal_data[t].curr_pid
                            /\ terminal_data'[t].esp_save = terminal_data[t].esp_save
                            /\ terminal_data'[t].tss_esp0 = terminal_data[t].tss_esp0,
           VidmapOwnTerminal'
    PROVE  Kept' /\ SavedContexts'
<1>1. \A t \in Terms : Current(t)' = Current(t)
  BY DEF Current
<1>2. pidarray \subseteq Pids
  BY DEF IInv, TypeOK, ProcessesTypeOK
<1> QED
  BY <1>1, <1>2
     DEF Kept, IInv, ContextConsistent, TerminalsOwnProcesses, ProcessTree, ParentsLive,
         OneChild, WaitingNotRunning, NoPidLeak, CallerSaved, FirstShellsOnly, BootOnly,
         Started, SavedContexts

\* There is a pid for the first shell of the next terminal: only first shells
\* are running, at most one on each of the other terminals.
LEMMA PidLeftForFirstShell ==
    ASSUME IInv, terminal_data[NextTerminal].curr_pid = None
    PROVE  ~ execute_no_pid(pidarray)
<1> SUFFICES ASSUME Pids \subseteq pidarray PROVE FALSE
  BY DEF execute_no_pid
<1>1. NextTerminal \in Terms /\ ~Started(NextTerminal)
  BY NextTerminalDiffers DEF IInv, TypeOK, ProcessesTypeOK, Started, Current
<1>2. \A p \in Pids : \E t \in Terms \ {NextTerminal} : Currents[t] = p
  BY <1>1 DEF IInv, FirstShellsOnly, ProcessTree, NoPidLeak, Currents, Started, Pids
<1> DEFINE S == {t \in Terms : Currents[t] \in Pids}
           f == [t \in S |-> Currents[t]]
<1>3. f \in Surjection(S, Pids)
  BY <1>2 DEF Surjection
<1>4. /\ IsFiniteSet(Terms) /\ Cardinality(Terms) = MAX_TERMINALS
      /\ Cardinality(Pids) = MAX_PROCESSES
  BY FS_Interval DEF Terms, Pids
<1>5. /\ IsFiniteSet(Terms \ {NextTerminal})
      /\ Cardinality(Terms \ {NextTerminal}) = MAX_TERMINALS - 1
  BY <1>1, <1>4, FS_RemoveElement
<1>6. NextTerminal \notin S
  BY <1>1 DEF Currents, Started, Pids
<1>7. IsFiniteSet(S) /\ Cardinality(S) \in Nat /\ Cardinality(S) <= MAX_TERMINALS - 1
  BY <1>5, <1>6, FS_Subset, FS_CardinalityType
<1>8. Cardinality(Pids) <= Cardinality(S)
  BY <1>3, <1>7, FS_Surjection
<1> QED
  BY <1>4, <1>7, <1>8

LEMMA Inductive == IInv /\ [Next]_vars => IInv'
<1> SUFFICES ASSUME IInv, [Next]_vars PROVE IInv'
  OBVIOUS
<1> USE DEF IInv
<1>0. TypeOK'
  BY TypeInductive, StepsAreAny
<1> SUFFICES Kept' /\ SavedContexts'
  BY <1>0 DEF Kept
<1>1. CASE BootShell
  <2>1. Currents' = [Currents EXCEPT ![active_terminal] = curr_pid']
    BY <1>0, <1>1, CurrentsSame DEF BootShell
  <2>2. Current(active_terminal) = None
    BY <1>1 DEF BootShell, Current, ContextConsistent
  <2>3. execute(Current(active_terminal), pidarray)
    BY <1>1 DEF BootShell, Current
  <2> QED
    BY <1>0, <1>1, <2>1, <2>2, <2>3, ExecuteKeeps
       DEF BootShell, SavedContexts, TypeOK, ProcessesTypeOK
<1>2. CASE Execute
  <2>1. Currents' = [Currents EXCEPT ![active_terminal] = curr_pid']
    BY <1>0, <1>2, CurrentsSame DEF Execute
  <2>2. \A t \in Terms : Started(t)
    BY <1>2 DEF Execute, ProgramMayLaunch
  <2>3. execute(Current(active_terminal), pidarray)
    BY <1>2 DEF Execute, Current
  <2>4. esp = Current(active_terminal) /\ tss_esp0 = Current(active_terminal)
    BY DEF ContextConsistent, Current
  <2> QED
    BY <1>0, <1>2, <2>1, <2>2, <2>3, <2>4, ExecuteKeeps
       DEF Execute, SavedContexts, TypeOK, ProcessesTypeOK
<1>3. CASE ExecuteNoPid
  BY <1>3, QuietKeeps DEF ExecuteNoPid, vars, VidmapOwnTerminal, get_video_mem
<1>5. CASE Halt \/ Fault
  <2>1. Currents' = [Currents EXCEPT ![active_terminal] = curr_pid']
    BY <1>0, <1>5, CurrentsSame DEF Halt, Fault, EndProgram
  <2>2. kill_current_proc(Current(active_terminal)) /\ Current(active_terminal) # None
    BY <1>5 DEF Halt, Fault, EndProgram, Current, InProgram, ContextConsistent
  <2> QED
    BY <1>0, <1>5, <2>1, <2>2, KillKeeps DEF Halt, Fault, EndProgram, SavedContexts, TypeOK, ProcessesTypeOK
<1>6. CASE VidmapOk \/ VidmapOutOfRange \/ VidmapNull
  <2>1. PICK flag \in BOOLEAN, mapped \in BOOLEAN : VidmapRequest(flag, mapped)
    BY <1>6 DEF VidmapOk, VidmapOutOfRange, VidmapNull
  <2>2. VidmapOwnTerminal'
    BY <2>1 DEF VidmapRequest, VidmapOwnTerminal, vidmap_paging, get_video_mem
  <2>3. \A p \in Pids : /\ pcb'[p].parent = pcb[p].parent
                        /\ pcb'[p].esp_save = pcb[p].esp_save
                        /\ pcb'[p].tss_esp0 = pcb[p].tss_esp0
    BY <2>1 DEF VidmapRequest, TypeOK, ProcessesTypeOK, PCB
  <2> QED
    BY <2>1, <2>2, <2>3, QuietKeeps DEF VidmapRequest
<1>7. CASE CtrlC \/ AltFn \/ OtherKey
  <2>1. \A t \in Terms : /\ terminal_data'[t].curr_pid = terminal_data[t].curr_pid
                         /\ terminal_data'[t].esp_save = terminal_data[t].esp_save
                         /\ terminal_data'[t].tss_esp0 = terminal_data[t].tss_esp0
    BY <1>7 DEF CtrlC, AltFn, OtherKey, TypeOK, Term
  <2> QED
    BY <1>7, <2>1, QuietKeeps
       DEF CtrlC, AltFn, OtherKey, KeyboardEntry, VidmapOwnTerminal, get_video_mem
<1>8. CASE KeyboardEoi
  BY <1>8, QuietKeeps DEF KeyboardEoi, VidmapOwnTerminal, get_video_mem
<1>9. CASE Resume
  <2>1. /\ SwitchTerminal /\ terminal_data' = Saved
        /\ NextTerminal \in Terms /\ NextTerminal # active_terminal
    BY <1>9, NextTerminalDiffers DEF Resume, TypeOK, ProcessesTypeOK
  <2>2. Currents' = [Currents EXCEPT ![NextTerminal] = curr_pid'] /\ SavedContexts'
    BY <1>0, <2>1, CurrentsSwitch, SavedContextsSwitch
  <2>3. curr_pid' = Currents[NextTerminal] /\ Parents' = Parents /\ pidarray' = pidarray
    BY <1>9, <2>1 DEF Resume, Currents, Current, Parents
  <2>4. Currents' = Currents
    BY <2>2, <2>3, ViewTypes
  <2>5. TerminalsOwnProcesses' /\ ProcessTree'
    BY <2>3, <2>4, InvariantsAreForest, InvariantsAreForestPrime DEF TypeOK, ProcessesTypeOK
  <2>6. ContextConsistent' /\ VidmapOwnTerminal'
    BY <1>9, <2>1, ResumeFindsPcb
       DEF Resume, ContextConsistent, SavedContexts, VidmapOwnTerminal, set_process_paging,
           vidmap_paging
  <2>7. CallerSaved'
    BY <1>9 DEF Resume, CallerSaved
  <2>8. \A t \in Terms : Started(t)' <=> Started(t)
    BY <2>4 DEF Started, Currents
  <2>9. FirstShellsOnly' /\ BootOnly'
    BY <1>9, <2>8 DEF FirstShellsOnly, BootOnly, Resume
  <2> QED
    BY <2>2, <2>5, <2>6, <2>7, <2>9 DEF Kept
<1>10. CASE ResumeAndKill
  <2>1. /\ SwitchTerminal
        /\ terminal_data' = [Saved EXCEPT ![NextTerminal].halt_flag = FALSE]
        /\ NextTerminal \in Terms /\ NextTerminal # active_terminal
    BY <1>10, NextTerminalDiffers DEF ResumeAndKill, TypeOK, ProcessesTypeOK
  <2>2. \A t \in Terms : t # NextTerminal => terminal_data'[t] = Saved[t]
    BY <2>1, SavedType
  <2>3. Currents' = [Currents EXCEPT ![NextTerminal] = curr_pid'] /\ SavedContexts'
    BY <1>0, <2>1, <2>2, CurrentsSwitch, SavedContextsSwitch
  <2>4. kill_current_proc(Current(NextTerminal)) /\ Current(NextTerminal) # None
    BY <1>10, <2>1 DEF ResumeAndKill, Current
  <2> QED
    BY <1>0, <2>1, <2>3, <2>4, KillKeeps
<1>11. CASE FirstShell
  <2>1. /\ SwitchTerminal /\ terminal_data' = Saved
        /\ NextTerminal \in Terms /\ NextTerminal # active_terminal
    BY <1>11, NextTerminalDiffers DEF FirstShell, TypeOK, ProcessesTypeOK
  <2>2. Currents' = [Currents EXCEPT ![NextTerminal] = curr_pid'] /\ SavedContexts'
    BY <1>0, <2>1, CurrentsSwitch, SavedContextsSwitch
  <2>3. execute(Current(NextTerminal), pidarray) /\ Current(NextTerminal) = None
    BY <1>11, <2>1 DEF FirstShell, Current
  <2> QED
    BY <1>0, <2>1, <2>2, <2>3, ExecuteKeeps
<1>13. CASE UNCHANGED vars
  BY <1>13, QuietKeeps DEF vars, VidmapOwnTerminal, get_video_mem
<1> QED
  BY <1>1, <1>2, <1>3, <1>5, <1>6, <1>7, <1>8, <1>9, <1>10, <1>11, <1>13
     DEF Next, ScheduleProcess

LEMMA InitIInv == Init => IInv
<1> SUFFICES ASSUME Init PROVE IInv
  OBVIOUS
<1>1. \A t \in Terms : Current(t) = None
  BY DEF Init, ProcessesInit, Current
<1> QED
  BY <1>1, InitType
     DEF Init, ProcessesInit, IInv, ContextConsistent, SavedContexts, TerminalsOwnProcesses,
         ProcessTree, ParentsLive, OneChild, WaitingNotRunning, NoPidLeak, CallerSaved,
         VidmapOwnTerminal, FirstShellsOnly, BootOnly, Started

\* The kernel keeps the inductive invariant, and with it each of its parts.
THEOREM InvariantHolds == Spec => []IInv
BY InitIInv, Inductive, PTL DEF Spec

\* CPU, TSS and page directory always agree on the process that runs: after
\* any sequence of ticks, launches, halts and kills.
THEOREM ContextAlwaysConsistent == Spec => [](ContextConsistent /\ SavedContexts)
<1>1. IInv => ContextConsistent /\ SavedContexts
  BY DEF IInv
<1> QED
  BY InvariantHolds, <1>1, PTL

\* No two terminals ever run one process, no parent pointer dangles, a halting
\* process returns to its launcher, and no pid is lost.
THEOREM ProcessesAreForest == Spec => [](TerminalsOwnProcesses /\ ProcessTree /\ CallerSaved)
<1>1. IInv => TerminalsOwnProcesses /\ ProcessTree /\ CallerSaved
  BY DEF IInv
<1> QED
  BY InvariantHolds, <1>1, PTL

\* What schedule_process() restores is the context of the terminal's own
\* process, however many ticks and reused pids ago it was saved.
COROLLARY SavedContextsAreOwn == Spec => []SavedContexts
BY ContextAlwaysConsistent, PTL

\* No two terminals ever run the same process, and none runs a freed pid.
COROLLARY TerminalsAlwaysOwnProcesses == Spec => []TerminalsOwnProcesses
BY ProcessesAreForest, PTL

\* halt() always returns to the process that launched the halting one.
COROLLARY CallersAreSaved == Spec => []CallerSaved
BY ProcessesAreForest, PTL

\* A program that draws through vidmap() never draws on another terminal.
THEOREM VidmapAlwaysOwnTerminal == Spec => []VidmapOwnTerminal
<1>1. IInv => VidmapOwnTerminal
  BY DEF IInv
<1> QED
  BY InvariantHolds, <1>1, PTL

\* There always is a pid for the first shell of a terminal, as long as users let the
\* first shells start: schedule_process() never returns from a failed execute().
THEOREM FirstShellsGetPids ==
    Spec => [](terminal_data[NextTerminal].curr_pid = None => ~execute_no_pid(pidarray))
<1>1. IInv => (terminal_data[NextTerminal].curr_pid = None => ~execute_no_pid(pidarray))
  BY PidLeftForFirstShell
<1> QED
  BY InvariantHolds, <1>1, PTL

\* The kernel never dereferences a NULL PCB, as long as images can be loaded and
\* users let the first shells start (get_pcb() in syscalls.c).
THEOREM CallsAlwaysReturn == Spec => []AllCallsReturn
<1>1. IInv => AllCallsReturn
  BY DEF IInv, TypeOK, ProcessesTypeOK, ContextConsistent, AllCallsReturn, MaybePid, Pids
<1> QED
  BY InvariantHolds, <1>1, PTL

----------------------------------------------------------------------------
(* Steps and refinement *)

\* Once the boot context has been left nothing returns to it.
THEOREM BootLeft == Spec => BootLeftForGood
<1>1. IInv /\ IInv' /\ [Next]_vars => [esp # None => esp' # None]_vars
  <2> SUFFICES ASSUME IInv, IInv', Next, esp # None, esp' = None PROVE FALSE
    OBVIOUS
  <2>1. curr_pid # None /\ curr_pid' = None
    BY DEF IInv, ContextConsistent
  <2>2. CASE ScheduleProcess
    <3>1. /\ active_terminal \in Terms /\ active_terminal' # active_terminal
          /\ terminal_data'[active_terminal].curr_pid = curr_pid
      BY <2>2, NextTerminalDiffers
         DEF ScheduleProcess, Resume, ResumeAndKill, FirstShell, Saved, SwitchTerminal, IInv,
             TypeOK, ProcessesTypeOK, Term
    <3> QED
      BY <2>1, <3>1 DEF IInv, BootOnly, Started, Current
  <2>3. CASE Halt \/ Fault
    <3>1. /\ kill_current_proc(Current(active_terminal))
          /\ active_terminal \in Terms /\ Current(active_terminal) = curr_pid
      BY <2>3 DEF Halt, Fault, EndProgram, Current, IInv, TypeOK, ProcessesTypeOK
    <3>2. kill_child(curr_pid) \/ kill_root(curr_pid)
      BY <2>1, <3>1, KillFindsPcbs
    <3> QED
      BY <2>1, <3>2 DEF kill_child, kill_root, execute, Pids
  <2>4. CASE BootShell \/ Execute
    <3>1. curr_pid' \in Pids
      BY <2>4 DEF BootShell, Execute, execute
    <3> QED
      BY <2>1, <3>1 DEF Pids
  <2>5. CASE ExecuteNoPid
    BY <2>1, <2>5 DEF ExecuteNoPid, vars
  <2>6. CASE VidmapOk \/ VidmapOutOfRange \/ VidmapNull
    BY <2>1, <2>6 DEF VidmapOk, VidmapOutOfRange, VidmapNull, VidmapRequest
  <2>7. CASE CtrlC \/ AltFn \/ OtherKey \/ KeyboardEoi
    BY <2>1, <2>7 DEF CtrlC, AltFn, OtherKey, KeyboardEntry, KeyboardEoi
  <2> QED
    BY <2>2, <2>3, <2>4, <2>5, <2>6, <2>7 DEF Next
<1> QED
  BY InvariantHolds, <1>1, PTL DEF Spec, BootLeftForGood

LEMMA StartedStep ==
    ASSUME IInv, TypeOK', NEW a \in Terms, curr_pid' # None,
           Currents' = [Currents EXCEPT ![a] = curr_pid']
    PROVE  {t \in Terms : Started(t)}' = {t \in Terms : Started(t)} \cup {a}
<1>1. \A t \in Terms : Started(t)' <=> (t = a \/ Started(t))
  <2> SUFFICES ASSUME NEW t \in Terms PROVE Started(t)' <=> (t = a \/ Started(t))
    OBVIOUS
  <2>1. Started(t)' <=> Currents'[t] # None
    BY DEF Started, Currents
  <2>2. Started(t) <=> Currents[t] # None
    BY DEF Started, Currents
  <2> QED
    BY <2>1, <2>2, ViewTypes DEF IInv
<1> QED
  BY <1>1

\* After a step that takes or gives the CPU something runs.
LEMMA SomethingRuns ==
    ASSUME IInv, BootShell \/ Execute \/ Halt \/ Fault \/ ScheduleProcess
    PROVE  curr_pid' # None
<1>1. CASE BootShell \/ Execute \/ FirstShell
  <2>1. curr_pid' \in Pids
    BY <1>1 DEF BootShell, Execute, FirstShell, execute
  <2> QED
    BY <2>1 DEF Pids
<1>2. ASSUME NEW a \in Terms, Current(a) # None, kill_current_proc(Current(a))
      PROVE  curr_pid' # None
  <2>1. kill_child(Current(a)) \/ kill_root(Current(a))
    BY <1>2, KillFindsPcbs
  <2> QED
    BY <2>1 DEF kill_child, kill_root, execute, Pids
<1>3. CASE Halt \/ Fault
  <2>1. /\ kill_current_proc(Current(active_terminal))
        /\ active_terminal \in Terms /\ Current(active_terminal) # None
    BY <1>3 DEF Halt, Fault, EndProgram, InProgram, Current, IInv, ContextConsistent, TypeOK,
                ProcessesTypeOK
  <2> QED
    BY <1>2, <2>1
<1>4. CASE ResumeAndKill
  <2>1. /\ NextTerminal \in Terms
        /\ Current(NextTerminal) = terminal_data[NextTerminal].curr_pid
    BY NextTerminalDiffers DEF IInv, TypeOK, ProcessesTypeOK, Current
  <2>2. Current(NextTerminal) # None /\ kill_current_proc(Current(NextTerminal))
    BY <1>4, <2>1 DEF ResumeAndKill
  <2> QED
    BY <1>2, <2>1, <2>2
<1>5. CASE Resume
  BY <1>5 DEF Resume
<1> QED
  BY <1>1, <1>3, <1>4, <1>5 DEF ScheduleProcess

\* A step of the process that runs, on Terminals: the first shell of all boots,
\* everything else changes nothing there.
LEMMA ProgramStepTurns ==
    ASSUME IInv, IInv', BootShell \/ Execute \/ Halt \/ Fault
    PROVE  [Turns!TurnsNext]_(Turns!turnVars)
<1>1. UNCHANGED <<active_terminal, visible_terminal, target_visible_terminal, terminal_data>>
  BY DEF BootShell, Execute, Halt, Fault, EndProgram
<1>2. Currents' = [Currents EXCEPT ![active_terminal] = curr_pid']
  BY <1>1, CurrentsSame DEF IInv
<1>3. active_terminal \in Terms
  BY DEF IInv, TypeOK, ProcessesTypeOK
<1>4. {t \in Terms : Started(t)}' = {t \in Terms : Started(t)} \cup {active_terminal}
  BY <1>2, <1>3, SomethingRuns, StartedStep DEF IInv
<1>5. CASE BootShell
  <2>1. {t \in Terms : Started(t)} = {}
    BY <1>5 DEF BootShell, IInv, ContextConsistent, BootOnly
  <2> QED
    BY <1>1, <1>4, <2>1 DEF Turns!TurnsNext, Turns!Boot
<1>6. CASE Execute \/ Halt \/ Fault
  <2>1. Started(active_terminal)
    BY <1>6 DEF Execute, ProgramMayLaunch, Halt, Fault, EndProgram, InProgram, IInv,
                ContextConsistent, Started, Current
  <2>2. {t \in Terms : Started(t)}' = {t \in Terms : Started(t)}
    BY <1>3, <1>4, <2>1
  <2> QED
    BY <1>1, <2>2 DEF Turns!turnVars
<1> QED
  BY <1>5, <1>6

\* A tick passes the CPU on and, if it was asked to, shows the next terminal.
LEMMA TickTurns ==
    ASSUME IInv, IInv', ScheduleProcess
    PROVE  Turns!Turn
<1>1. /\ SwitchTerminal
      /\ NextTerminal \in Terms
      /\ \A t \in Terms : t # NextTerminal => terminal_data'[t] = Saved[t]
  BY NextTerminalDiffers, SavedType
     DEF ScheduleProcess, Resume, ResumeAndKill, FirstShell, IInv, TypeOK, ProcessesTypeOK
<1>2. Currents' = [Currents EXCEPT ![NextTerminal] = curr_pid']
  BY <1>1, CurrentsSwitch DEF IInv
<1>3. {t \in Terms : Started(t)}' = {t \in Terms : Started(t)} \cup {NextTerminal}
  BY <1>1, <1>2, SomethingRuns, StartedStep DEF IInv
<1> QED
  BY <1>1, <1>3 DEF SwitchTerminal, SwitchVideo, NextTerminal, Turns!Turn, Turns!Following,
                    Turns!Switches

\* What the other components assume of the kernel holds: it implements the
\* round of turns of module Terminals.
THEOREM KernelTakesTurns == Spec => ImplementsTurns
<1>1. Init => Turns!TurnsInit
  BY DEF Init, ProcessesInit, Turns!TurnsInit, Started, Current
<1>2. IInv /\ IInv' /\ [Next]_vars => [Turns!TurnsNext]_(Turns!turnVars)
  <2> SUFFICES ASSUME IInv, IInv', [Next]_vars PROVE [Turns!TurnsNext]_(Turns!turnVars)
    OBVIOUS
  <2>1. CASE BootShell \/ Execute \/ Halt \/ Fault
    BY <2>1, ProgramStepTurns
  <2>2. CASE ScheduleProcess
    BY <2>2, TickTurns DEF Turns!TurnsNext
  <2>3. CASE ~(BootShell \/ Execute \/ Halt \/ Fault \/ ScheduleProcess)
    <3>1. /\ UNCHANGED <<active_terminal, visible_terminal, curr_pid>>
          /\ \A t \in Terms : terminal_data'[t].curr_pid = terminal_data[t].curr_pid
      <4>1. CASE CtrlC \/ AltFn \/ OtherKey
        BY <4>1 DEF CtrlC, AltFn, OtherKey, KeyboardEntry, IInv, TypeOK, Term
      <4>2. CASE VidmapOk \/ VidmapOutOfRange \/ VidmapNull
        BY <4>2 DEF VidmapOk, VidmapOutOfRange, VidmapNull, VidmapRequest
      <4>3. CASE KeyboardEoi \/ ExecuteNoPid \/ UNCHANGED vars
        BY <4>3 DEF KeyboardEoi, ExecuteNoPid, vars
      <4> QED
        BY <2>3, <4>1, <4>2, <4>3 DEF Next
    <3>2. {t \in Terms : Started(t)}' = {t \in Terms : Started(t)}
      BY <3>1 DEF Started, Current
    <3>3. CASE AltFn
      BY <3>1, <3>2, <3>3 DEF AltFn, Turns!TurnsNext, Turns!Ask, Terms, Turns!Terms
    <3>4. CASE ~AltFn
      <4>1. UNCHANGED target_visible_terminal
        BY <2>3, <3>4 DEF Next, vars, ExecuteNoPid, VidmapOk, VidmapOutOfRange, VidmapNull,
             VidmapRequest, CtrlC, OtherKey, KeyboardEoi
      <4> QED
        BY <3>1, <3>2, <4>1 DEF Turns!turnVars
    <3> QED
      BY <3>3, <3>4
  <2> QED
    BY <2>1, <2>2, <2>3
<1> QED
  BY InvariantHolds, <1>1, <1>2, PTL DEF Spec, ImplementsTurns, Turns!TurnsSpec

----------------------------------------------------------------------------
(* Counting *)

\* Induction over the numbers, in a form without a predicate.
LEMMA NatInduction1 ==
    ASSUME NEW T \in SUBSET Nat, 0 \in T, \A n \in T : n + 1 \in T
    PROVE  T = Nat
<1> DEFINE R == {ss \in Nat \X Nat : ss[1] < ss[2]}
           U == Nat \ T
<1>1. IsWellFoundedOn(R, Nat)
  BY NatLessThanWellFounded DEF OpToRel
<1> SUFFICES ASSUME U # {} PROVE FALSE
  OBVIOUS
<1>2. PICK k \in U : \A j \in U : <<j, k>> \notin R
  <2> HIDE DEF R
  <2> QED
    BY <1>1, WFMin
<1>3. k \in Nat /\ k # 0 /\ k - 1 \in Nat
  BY <1>2
<1>4. k - 1 \in U
  <2>1. k - 1 \in T => k - 1 + 1 \in T
    OBVIOUS
  <2> QED
    BY <1>2, <1>3, <2>1
<1>5. <<k - 1, k>> \notin R
  <2> HIDE DEF R, U
  <2> QED
    BY <1>2, <1>4
<1> QED
  BY <1>3, <1>5

----------------------------------------------------------------------------
(* What the recursive function in Chains computes *)

\* f is that function up to m, for these parent pointers.
IsUpTo(parent, m, f) ==
    f = [n \in 0 .. m |->
            [p \in MaybePid |->
                IF n = 0 \/ p = None THEN <<>> ELSE Append(f[n - 1][parent[p]], p)]]

LEMMA UpToExists ==
    ASSUME NEW parent, NEW m \in Nat
    PROVE  \E f : IsUpTo(parent, m, f)
<1> DEFINE T == {n \in Nat : \E f : IsUpTo(parent, n, f)}
<1>1. 0 \in T
  <2> DEFINE f == [n \in 0 .. 0 |-> [p \in MaybePid |-> <<>>]]
  <2>1. IsUpTo(parent, 0, f)
    BY DEF IsUpTo
  <2> QED
    BY <2>1
<1>2. ASSUME NEW n \in T PROVE n + 1 \in T
  <2>1. PICK f : IsUpTo(parent, n, f)
    OBVIOUS
  <2> DEFINE last == [p \in MaybePid |-> IF p = None THEN <<>> ELSE Append(f[n][parent[p]], p)]
             g == [k \in 0 .. n + 1 |-> IF k = n + 1 THEN last ELSE f[k]]
             h == [k \in 0 .. n + 1 |->
                    [p \in MaybePid |->
                        IF k = 0 \/ p = None THEN <<>> ELSE Append(g[k - 1][parent[p]], p)]]
  <2>2. ASSUME NEW k \in 0 .. n + 1 PROVE g[k] = h[k]
    <3>1. CASE k = n + 1
      <4>1. g[k] = last /\ g[k - 1] = f[n] /\ k # 0
        BY <3>1
      <4> QED
        BY <4>1
    <3>2. CASE k \in 0 .. n
      <4>1. g[k] = f[k] /\ (k # 0 => g[k - 1] = f[k - 1])
        BY <3>2
      <4>2. f[k] = [p \in MaybePid |->
                        IF k = 0 \/ p = None THEN <<>> ELSE Append(f[k - 1][parent[p]], p)]
        BY <2>1, <3>2 DEF IsUpTo
      <4> QED
        BY <4>1, <4>2
    <3> QED
      BY <3>1, <3>2
  <2>3. g = h
    BY <2>2
  <2>4. IsUpTo(parent, n + 1, g)
    BY <2>3 DEF IsUpTo
  <2> QED
    BY <2>4
<1> HIDE DEF T
<1>3. T = Nat
  <2>1. T \in SUBSET Nat
    BY DEF T
  <2> QED
    BY <1>1, <1>2, <2>1, NatInduction1
<1> QED
  BY <1>3 DEF T

\* The chain function itself.
LEMMA ChainsUpTo ==
    ASSUME NEW parent
    PROVE  \E f : IsUpTo(parent, MAX_PROCESSES, f) /\ Chains(parent) = f[MAX_PROCESSES]
<1> DEFINE P(f) == IsUpTo(parent, MAX_PROCESSES, f)
           c == CHOOSE f : P(f)
<1>1. \E f : P(f)
  BY UpToExists
<1>2. P(c)
  <2> HIDE DEF P
  <2> QED
    BY <1>1
<1>3. Chains(parent) = c[MAX_PROCESSES]
  BY DEF Chains, IsUpTo
<1> HIDE DEF c
<1> QED
  BY <1>2, <1>3

\* s leads from a first program down to p, each launched by the one before it.
Leads(s, parent, p) ==
    /\ p = IF s = <<>> THEN None ELSE s[Len(s)]
    /\ \A i \in 1 .. Len(s) : parent[s[i]] = IF i = 1 THEN None ELSE s[i - 1]

LEMMA ChainIs ==
    ASSUME NEW parent, NEW s \in Seq(Pids), Len(s) <= MAX_PROCESSES, NEW p, Leads(s, parent, p)
    PROVE  Chains(parent)[p] = s
<1>1. PICK f : IsUpTo(parent, MAX_PROCESSES, f) /\ Chains(parent) = f[MAX_PROCESSES]
  BY ChainsUpTo
<1>2. /\ Len(s) \in Nat
      /\ \A i \in 1 .. Len(s) : s[i] \in Pids
  BY LenProperties
<1> DEFINE top(k) == IF k = 0 THEN None ELSE s[k]
           T == {k \in Nat : k <= Len(s) =>
                    \A n \in k .. MAX_PROCESSES : f[n][top(k)] = SubSeq(s, 1, k)}
<1>3. \A k \in 0 .. Len(s) : top(k) \in MaybePid /\ (k # 0 => top(k) # None)
  BY <1>2 DEF MaybePid, Pids
<1>4. ASSUME NEW n \in 0 .. MAX_PROCESSES, NEW q \in MaybePid
      PROVE  f[n][q] = IF n = 0 \/ q = None THEN <<>> ELSE Append(f[n - 1][parent[q]], q)
  <2> DEFINE g == [m \in 0 .. MAX_PROCESSES |->
                    [r \in MaybePid |->
                        IF m = 0 \/ r = None THEN <<>> ELSE Append(f[m - 1][parent[r]], r)]]
  <2>1. f[n] = g[n]
    BY <1>1 DEF IsUpTo
  <2> QED
    BY <2>1
<1>5. 0 \in T
  <2>1. SubSeq(s, 1, 0) = <<>>
    BY SubSeqEmpty
  <2> QED
    BY <1>4, <2>1 DEF MaybePid
<1>6. ASSUME NEW k \in T PROVE k + 1 \in T
  <2> SUFFICES ASSUME k + 1 <= Len(s), NEW n \in k + 1 .. MAX_PROCESSES
               PROVE  f[n][s[k + 1]] = SubSeq(s, 1, k + 1)
    OBVIOUS
  <2>1. k + 1 \in 1 .. Len(s) /\ k \in 0 .. Len(s) /\ k \in Nat
    BY <1>2
  <2>2. parent[s[k + 1]] = top(k)
    BY <2>1 DEF Leads
  <2>3. s[k + 1] \in MaybePid /\ s[k + 1] # None
    BY <1>2, <2>1 DEF MaybePid, Pids
  <2>4. n \in 0 .. MAX_PROCESSES /\ n # 0 /\ n - 1 \in k .. MAX_PROCESSES
    BY <2>1
  <2>5. f[n][s[k + 1]] = Append(f[n - 1][top(k)], s[k + 1])
    <3> HIDE DEF top
    <3> QED
      BY <1>4, <2>2, <2>3, <2>4
  <2>6. f[n - 1][top(k)] = SubSeq(s, 1, k)
    <3> HIDE DEF top
    <3> QED
      BY <1>2, <2>1, <2>4
  <2>7. Append(SubSeq(s, 1, k), s[k + 1]) = SubSeq(s, 1, k + 1)
    <3>1. SubSeq(s, 1, k + 1) = SubSeq(s, 1, k + 1 - 1) \o << s[k + 1] >>
      BY <2>1, SubSeqRecursiveSecond
    <3>2. SubSeq(s, 1, k) \in Seq(Pids)
      BY <1>2, <2>1, SubSeqProperties
    <3>3. Append(SubSeq(s, 1, k), s[k + 1]) = SubSeq(s, 1, k) \o << s[k + 1] >>
      BY <1>2, <2>1, <3>2, AppendIsConcat
    <3>4. k + 1 - 1 = k
      BY <2>1
    <3> QED
      BY <3>1, <3>3, <3>4
  <2> QED
    BY <2>5, <2>6, <2>7
<1>7. Len(s) \in T
  <2> HIDE DEF T
  <2>1. T \in SUBSET Nat
    BY DEF T
  <2> QED
    BY <1>2, <1>5, <1>6, <2>1, NatInduction1
<1>8. f[MAX_PROCESSES][top(Len(s))] = SubSeq(s, 1, Len(s))
  BY <1>2, <1>7
<1>9. p = top(Len(s))
  BY <1>2, EmptySeq DEF Leads
<1> QED
  BY <1>1, <1>8, <1>9, SubSeqFull

----------------------------------------------------------------------------
(* Stacks of a forest *)

\* A chain of processes that exist, none of them twice.
IsChain(s, used, parent, p) ==
    /\ Leads(s, parent, p)
    /\ \A i \in 1 .. Len(s) : s[i] \in used
    /\ \A i, j \in 1 .. Len(s) : s[i] = s[j] => i = j

LEMMA ChainFits ==
    ASSUME NEW used \in SUBSET Pids, NEW parent, NEW s \in Seq(Pids), NEW p, IsChain(s, used, parent, p)
    PROVE  Len(s) <= MAX_PROCESSES /\ Chains(parent)[p] = s
<1>1. s \in [1 .. Len(s) -> Pids] /\ Len(s) \in Nat
  BY LenProperties
<1>2. s \in Injection(1 .. Len(s), Pids)
  BY <1>1 DEF IsChain, Injection, IsInjective
<1>3. /\ IsFiniteSet(Pids) /\ Cardinality(Pids) = MAX_PROCESSES
      /\ Cardinality(1 .. Len(s)) = Len(s)
  <2>1. ASSUME NEW n \in Nat PROVE Cardinality(1 .. n) = n
    BY FS_Interval
  <2> QED
    BY <1>1, <2>1, FS_Interval DEF Pids
<1>4. Cardinality(1 .. Len(s)) <= Cardinality(Pids)
  BY <1>2, <1>3, FS_Injection
<1>5. Len(s) <= MAX_PROCESSES
  BY <1>3, <1>4
<1> QED
  BY <1>5, ChainIs DEF IsChain

\* Every terminal has one.
AllChains(used, parent, cur) ==
    \A t \in Terms : \E s \in Seq(Pids) : IsChain(s, used, parent, cur[t])

StacksOf(parent, cur) == [t \in Terms |-> Chains(parent)[cur[t]]]

\* The chain of each terminal is the only one.
LEMMA StacksFound ==
    ASSUME NEW used \in SUBSET Pids, NEW parent, NEW cur, AllChains(used, parent, cur),
           NEW t \in Terms
    PROVE  /\ StacksOf(parent, cur)[t] \in Seq(Pids)
           /\ IsChain(StacksOf(parent, cur)[t], used, parent, cur[t])
<1>1. PICK s \in Seq(Pids) : IsChain(s, used, parent, cur[t])
  BY DEF AllChains
<1>2. StacksOf(parent, cur)[t] = s
  BY <1>1, ChainFits DEF StacksOf
<1> QED
  BY <1>1, <1>2

LEMMA StackIs ==
    ASSUME NEW used \in SUBSET Pids, NEW parent, NEW cur, NEW t \in Terms,
           NEW s \in Seq(Pids), IsChain(s, used, parent, cur[t])
    PROVE  StacksOf(parent, cur)[t] = s
BY ChainFits DEF StacksOf

LEMMA ChainStays ==
    ASSUME NEW s \in Seq(Pids), NEW used, NEW parent, NEW used2, NEW parent2, NEW p,
           IsChain(s, used, parent, p),
           \A i \in 1 .. Len(s) : s[i] \in used2 /\ parent2[s[i]] = parent[s[i]]
    PROVE  IsChain(s, used2, parent2, p)
BY DEF IsChain, Leads

\* The parents and what the terminals run, before and after a step in which
\* terminal a comes to run p, launched by q, ...
Changes(par, cur, a, p, q, par2, cur2) ==
    /\ par2[p] = q
    /\ \A r \in Pids : r # p => par2[r] = par[r]
    /\ cur2[a] = p
    /\ \A t \in Terms : t # a => cur2[t] = cur[t]

\* ... or the launcher of what it ran.
Returns(par, cur, a, cur2) ==
    /\ cur2[a] = par[cur[a]]
    /\ \A t \in Terms : t # a => cur2[t] = cur[t]

\* The stack of a first shell.
Alone(p) == <<p>>

\* p is on no stack.
OnNone(st, p) == \A t \in Terms : \A i \in DOMAIN st[t] : st[t][i] # p

\* Stack a becomes s, the others stay.
Becomes(st2, st, a, s) == st2 = [st EXCEPT ![a] = s]

IsForest(used, par, cur) ==
    /\ used \in SUBSET Pids
    /\ par \in [Pids -> MaybePid]
    /\ cur \in [Terms -> MaybePid]
    /\ Forest(used, par, cur)

\* What terminal a runs launches a program, or its first shell comes.
LEMMA StackGrows ==
    ASSUME NEW used, NEW par, NEW cur, NEW a, NEW p, NEW par2, NEW cur2,
           IsForest(used, par, cur), AllChains(used, par, cur), a \in Terms,
           p \in Pids \ used, Changes(par, cur, a, p, cur[a], par2, cur2)
    PROVE  /\ AllChains(used \cup {p}, par2, cur2)
           /\ Becomes(StacksOf(par2, cur2), StacksOf(par, cur), a, Append(StacksOf(par, cur)[a], p))
           /\ OnNone(StacksOf(par, cur), p)
<1> USE DEF IsForest, Changes, Returns, Becomes, OnNone, Alone
<1> DEFINE st == StacksOf(par, cur)
           used2 == used \cup {p}
<1>1. ASSUME NEW t \in Terms
      PROVE  /\ st[t] \in Seq(Pids) /\ IsChain(st[t], used, par, cur[t])
             /\ Len(st[t]) \in Nat /\ DOMAIN st[t] = 1 .. Len(st[t])
             /\ \A i \in 1 .. Len(st[t]) : st[t][i] \in Pids /\ st[t][i] # p
  <2>1. st[t] \in Seq(Pids) /\ IsChain(st[t], used, par, cur[t])
    BY StacksFound
  <2> HIDE DEF st
  <2>2. Len(st[t]) \in Nat /\ DOMAIN st[t] = 1 .. Len(st[t])
    BY <2>1, LenProperties
  <2> QED
    BY <2>1, <2>2 DEF IsChain
<1>2. ASSUME NEW t \in Terms, t # a PROVE IsChain(st[t], used2, par2, cur2[t])
  <2>1. \A i \in 1 .. Len(st[t]) : st[t][i] \in used2 /\ par2[st[t][i]] = par[st[t][i]]
    <3> HIDE DEF st
    <3> QED
      BY <1>1 DEF IsChain
  <2>2. cur2[t] = cur[t]
    BY <1>2
  <2> HIDE DEF st, used2
  <2> QED
    BY <1>1, <2>1, <2>2, ChainStays
<1>3. Append(st[a], p) \in Seq(Pids) /\ IsChain(Append(st[a], p), used2, par2, cur2[a])
  <2> DEFINE s == st[a]
             z == Append(s, p)
             n == Len(s)
  <2>1. /\ s \in Seq(Pids) /\ IsChain(s, used, par, cur[a]) /\ n \in Nat
        /\ \A i \in 1 .. n : s[i] \in Pids /\ s[i] # p
    BY <1>1
  <2> HIDE DEF s
  <2>2. /\ z \in Seq(Pids) /\ z # <<>> /\ Len(z) = n + 1
        /\ \A i \in 1 .. n : z[i] = s[i]
        /\ z[n + 1] = p
    BY <2>1, AppendProperties
  <2>3. cur2[a] = p /\ par2[p] = cur[a] /\ \A q \in Pids : q # p => par2[q] = par[q]
    OBVIOUS
  <2> HIDE DEF z
  <2>4. cur[a] = IF n = 0 THEN None ELSE s[n]
    BY <2>1, EmptySeq DEF IsChain, Leads
  <2>5. \A i \in 1 .. n + 1 : par2[z[i]] = IF i = 1 THEN None ELSE z[i - 1]
    <3> SUFFICES ASSUME NEW i \in 1 .. n + 1
                 PROVE  par2[z[i]] = IF i = 1 THEN None ELSE z[i - 1]
      OBVIOUS
    <3>1. CASE i = n + 1
      BY <2>1, <2>2, <2>3, <2>4, <3>1
    <3>2. CASE i # n + 1
      <4>1. i \in 1 .. n /\ z[i] = s[i] /\ (i # 1 => z[i - 1] = s[i - 1])
        BY <2>1, <2>2, <3>2
      <4>2. par[s[i]] = IF i = 1 THEN None ELSE s[i - 1]
        BY <2>1, <4>1 DEF IsChain, Leads
      <4> QED
        BY <2>1, <2>3, <4>1, <4>2
    <3> QED
      BY <3>1, <3>2
  <2>6. \A i \in 1 .. n + 1 : z[i] \in used2
    <3>1. \A i \in 1 .. n : s[i] \in used
      BY <2>1 DEF IsChain
    <3>2. \A i \in 1 .. n + 1 : i # n + 1 => i \in 1 .. n
      BY <2>1
    <3> QED
      BY <2>2, <3>1, <3>2
  <2>7. \A i, j \in 1 .. n + 1 : z[i] = z[j] => i = j
    <3>1. \A i, j \in 1 .. n : s[i] = s[j] => i = j
      BY <2>1 DEF IsChain
    <3>2. \A i \in 1 .. n : z[i] # p
      BY <2>1, <2>2
    <3>3. \A i \in 1 .. n + 1 : i # n + 1 => i \in 1 .. n
      BY <2>1
    <3> QED
      BY <2>2, <3>1, <3>2, <3>3
  <2>8. z \in Seq(Pids) /\ IsChain(z, used2, par2, cur2[a])
    <3> HIDE DEF used2, n
    <3> QED
      BY <2>2, <2>3, <2>5, <2>6, <2>7 DEF IsChain, Leads
  <2> QED
    BY <2>8 DEF z, s
<1>4. AllChains(used2, par2, cur2)
  <2> SUFFICES ASSUME NEW t \in Terms
               PROVE  \E s \in Seq(Pids) : IsChain(s, used2, par2, cur2[t])
    BY DEF AllChains
  <2> HIDE DEF st, used2
  <2> QED
    BY <1>1, <1>2, <1>3
<1>5. StacksOf(par2, cur2) = [st EXCEPT ![a] = Append(st[a], p)]
  <2>1. used2 \in SUBSET Pids
    OBVIOUS
  <2>2. ASSUME NEW t \in Terms
        PROVE  StacksOf(par2, cur2)[t] = IF t = a THEN Append(st[a], p) ELSE st[t]
    <3> HIDE DEF st, used2
    <3>1. CASE t = a
      BY <1>3, <2>1, <3>1, StackIs
    <3>2. CASE t # a
      BY <1>1, <1>2, <2>1, <3>2, StackIs
    <3> QED
      BY <3>1, <3>2
  <2> QED
    BY <2>2 DEF StacksOf
<1> QED
  BY <1>1, <1>4, <1>5

\* What a terminal runs is on top of its own stack and on no other.
LEMMA TopElsewhere ==
    ASSUME NEW used \in SUBSET Pids, NEW par \in [Pids -> MaybePid],
           NEW cur \in [Terms -> MaybePid], Forest(used, par, cur),
           NEW a \in Terms, cur[a] # None, NEW t \in Terms, t # a,
           NEW s \in Seq(Pids), IsChain(s, used, par, cur[t]), NEW i \in 1 .. Len(s)
    PROVE  s[i] # cur[a]
<1>1. Len(s) \in Nat /\ s # <<>>
  BY LenProperties, EmptySeq
<1>2. CASE i = Len(s)
  <2>1. s[i] = cur[t] /\ s[i] \in Pids
    BY <1>1, <1>2, ElementOfSeq DEF IsChain, Leads
  <2> QED
    BY <2>1 DEF Forest, Pids
<1>3. CASE i # Len(s)
  <2>1. i + 1 \in 1 .. Len(s) /\ i + 1 # 1 /\ i + 1 - 1 = i
    BY <1>1, <1>3
  <2>2. par[s[i + 1]] = s[i] /\ s[i + 1] \in used
    BY <2>1 DEF IsChain, Leads
  <2> QED
    BY <2>2 DEF Forest
<1> QED
  BY <1>2, <1>3

\* A stack without its top is a chain to the launcher of the top.
LEMMA ChainWithoutTop ==
    ASSUME NEW used \in SUBSET Pids, NEW par \in [Pids -> MaybePid],
           NEW p \in Pids, NEW s \in Seq(Pids), IsChain(s, used, par, p)
    PROVE  LET z == SubSeq(s, 1, Len(s) - 1) IN
           /\ Len(s) >= 1
           /\ par[p] = None => Len(s) = 1
           /\ par[p] # None => Len(s) # 1
           /\ z \in Seq(Pids) /\ IsChain(z, used \ {p}, par, par[p])
<1> DEFINE n == Len(s)
           z == SubSeq(s, 1, n - 1)
<1>1. /\ n \in Nat /\ n # 0 /\ s[n] = p
      /\ \A i \in 1 .. n : s[i] \in Pids
  BY EmptySeq, LenProperties DEF IsChain, Leads, Pids
<1>2. /\ \A i \in 1 .. n : s[i] \in used
      /\ \A i \in 1 .. n : par[s[i]] = IF i = 1 THEN None ELSE s[i - 1]
      /\ \A i, j \in 1 .. n : s[i] = s[j] => i = j
  BY DEF IsChain, Leads
<1>3. /\ z \in Seq(Pids) /\ Len(z) = n - 1
      /\ \A i \in 1 .. n - 1 : z[i] = s[i]
  <2> HIDE DEF n
  <2>1. n - 1 \in Int /\ \A i \in 1 .. n - 1 : s[i] \in Pids
    BY <1>1
  <2>2. /\ z \in Seq(Pids) /\ Len(z) = IF 1 <= n - 1 THEN n - 1 - 1 + 1 ELSE 0
        /\ \A i \in 1 .. n - 1 - 1 + 1 : z[i] = s[1 + i - 1]
    BY <2>1, SubSeqProperties
  <2> HIDE DEF z
  <2> QED
    BY <1>1, <2>2
<1> HIDE DEF z, n
<1>4. par[p] = IF n = 1 THEN None ELSE s[n - 1]
  BY <1>1, <1>2
<1>5. par[p] = None <=> n = 1
  <2>1. n # 1 => s[n - 1] \in Pids
    BY <1>1
  <2> QED
    BY <1>4, <2>1 DEF Pids
<1>6. z = <<>> <=> n = 1
  BY <1>1, <1>3, EmptySeq
<1>7. par[p] = IF z = <<>> THEN None ELSE z[Len(z)]
  BY <1>1, <1>3, <1>4, <1>6
<1>8. \A i \in 1 .. Len(z) : par[z[i]] = IF i = 1 THEN None ELSE z[i - 1]
  BY <1>1, <1>2, <1>3
<1>9. \A i \in 1 .. Len(z) : z[i] \in used \ {p}
  <2> SUFFICES ASSUME NEW i \in 1 .. Len(z) PROVE z[i] \in used /\ z[i] # p
    OBVIOUS
  <2>1. i \in 1 .. n - 1 /\ i \in 1 .. n /\ n \in 1 .. n /\ i # n
    BY <1>1, <1>3
  <2> QED
    BY <1>1, <1>2, <1>3, <2>1
<1>10. \A i, j \in 1 .. Len(z) : z[i] = z[j] => i = j
  BY <1>1, <1>2, <1>3
<1>11. IsChain(z, used \ {p}, par, par[p])
  BY <1>7, <1>8, <1>9, <1>10 DEF IsChain, Leads
<1> QED
  BY <1>1, <1>3, <1>5, <1>11 DEF z, n

\* The stack of a first shell holds it only.
LEMMA RootChain ==
    ASSUME NEW used \in SUBSET Pids, NEW par \in [Pids -> MaybePid],
           NEW p \in Pids, NEW s \in Seq(Pids), IsChain(s, used, par, p), par[p] = None
    PROVE  Len(s) = 1 /\ s[1] = p
<1>1. Len(s) = 1
  <2> HIDE DEF None
  <2>1. par[p] = None => Len(s) = 1
    BY ChainWithoutTop
  <2> QED
    BY <2>1
<1> QED
  BY <1>1, EmptySeq DEF IsChain, Leads

\* The other stacks when the top of stack a leaves; parent2 may differ for it and
\* for pids of no process.
LEMMA OtherStacksStay ==
    ASSUME NEW used \in SUBSET Pids, NEW par \in [Pids -> MaybePid],
           NEW cur \in [Terms -> MaybePid], Forest(used, par, cur), AllChains(used, par, cur),
           NEW a \in Terms, cur[a] # None, NEW t \in Terms, t # a, NEW used2, NEW par2,
           used \ {cur[a]} \subseteq used2,
           \A p \in used \ {cur[a]} : par2[p] = par[p]
    PROVE  IsChain(StacksOf(par, cur)[t], used2, par2, cur[t])
<1> DEFINE s == StacksOf(par, cur)[t]
<1>1. s \in Seq(Pids) /\ IsChain(s, used, par, cur[t])
  BY StacksFound
<1> HIDE DEF s
<1>2. \A i \in 1 .. Len(s) : s[i] \in used \ {cur[a]}
  BY <1>1, TopElsewhere DEF IsChain
<1>3. IsChain(s, used2, par2, cur[t])
  BY <1>1, <1>2, ChainStays
<1> QED
  BY <1>3 DEF s

\* What terminal a runs leaves and a runs its launcher again.
LEMMA StackShrinks ==
    ASSUME NEW used, NEW par, NEW cur, NEW a, NEW cur2,
           IsForest(used, par, cur), AllChains(used, par, cur), a \in Terms,
           cur[a] # None, par[cur[a]] # None,
           Returns(par, cur, a, cur2)
    PROVE  /\ AllChains(used \ {cur[a]}, par, cur2)
           /\ Len(StacksOf(par, cur)[a]) > 1
           /\ Becomes(StacksOf(par, cur2), StacksOf(par, cur), a,
                      SubSeq(StacksOf(par, cur)[a], 1, Len(StacksOf(par, cur)[a]) - 1))
<1> USE DEF IsForest, Changes, Returns, Becomes, OnNone, Alone
<1> DEFINE st == StacksOf(par, cur)
           z == SubSeq(st[a], 1, Len(st[a]) - 1)
           used2 == used \ {cur[a]}
<1>1. \A t \in Terms : st[t] \in Seq(Pids) /\ IsChain(st[t], used, par, cur[t])
  BY StacksFound
<1>2. cur[a] \in Pids
  BY DEF MaybePid
<1> HIDE DEF st
<1>3. Len(st[a]) > 1 /\ z \in Seq(Pids) /\ IsChain(z, used2, par, cur2[a])
  <2>1. Len(st[a]) \in Nat
    BY <1>1, LenProperties
  <2>2. cur2[a] = par[cur[a]]
    OBVIOUS
  <2>3. st[a] \in Seq(Pids) /\ IsChain(st[a], used, par, cur[a])
    BY <1>1
  <2>4. /\ Len(st[a]) >= 1 /\ Len(st[a]) # 1
        /\ z \in Seq(Pids) /\ IsChain(z, used \ {cur[a]}, par, par[cur[a]])
    BY <1>2, <2>3, ChainWithoutTop
  <2> HIDE DEF z
  <2>5. Len(st[a]) > 1
    <3>1. Len(st[a]) >= 1 /\ Len(st[a]) # 1
      BY <2>4
    <3> DEFINE m == Len(st[a])
    <3> HIDE DEF m
    <3>2. m \in Nat /\ m >= 1 /\ m # 1
      BY <2>1, <3>1 DEF m
    <3>3. m > 1
      BY <3>2
    <3> QED
      BY <3>3 DEF m
  <2>6. IsChain(z, used2, par, cur2[a])
    BY <2>2, <2>4
  <2> QED
    BY <2>4, <2>5, <2>6
<1>4. \A t \in Terms : t # a => IsChain(st[t], used2, par, cur2[t])
  BY OtherStacksStay DEF st
<1> HIDE DEF used2, z
<1>5. AllChains(used2, par, cur2)
  BY <1>1, <1>3, <1>4 DEF AllChains
<1>6. ASSUME NEW t \in Terms
      PROVE  StacksOf(par, cur2)[t] = IF t = a THEN z ELSE st[t]
  <2>1. used2 \in SUBSET Pids
    BY DEF used2
  <2>2. CASE t = a
    BY <1>3, <2>1, <2>2, StackIs
  <2>3. CASE t # a
    <3>1. st[t] \in Seq(Pids) /\ IsChain(st[t], used2, par, cur2[t])
      BY <1>1, <1>4, <2>3
    <3> QED
      BY <2>1, <2>3, <3>1, StackIs
  <2> QED
    BY <2>2, <2>3
<1>7. StacksOf(par, cur2) = [st EXCEPT ![a] = z]
  BY <1>6 DEF StacksOf, st
<1> QED
  BY <1>3, <1>5, <1>7 DEF st, z, used2

\* What terminal a runs leaves, was its first shell, and another one comes, perhaps
\* with the same pid.
LEMMA StackRenewed ==
    ASSUME NEW used, NEW par, NEW cur, NEW a, NEW p, NEW par2, NEW cur2,
           IsForest(used, par, cur), AllChains(used, par, cur), a \in Terms,
           cur[a] # None, par[cur[a]] = None, p \in Pids \ (used \ {cur[a]}),
           Changes(par, cur, a, p, None, par2, cur2)
    PROVE  /\ AllChains((used \ {cur[a]}) \cup {p}, par2, cur2)
           /\ StacksOf(par, cur)[a] = Alone(cur[a])
           /\ Becomes(StacksOf(par2, cur2), StacksOf(par, cur), a, Alone(p))
           /\ p # cur[a] => OnNone(StacksOf(par, cur), p)
<1> USE DEF IsForest, Changes, Returns, Becomes, OnNone, Alone
<1> DEFINE st == StacksOf(par, cur)
           used2 == (used \ {cur[a]}) \cup {p}
<1>1. ASSUME NEW t \in Terms
      PROVE  /\ st[t] \in Seq(Pids) /\ IsChain(st[t], used, par, cur[t])
             /\ DOMAIN st[t] = 1 .. Len(st[t])
  <2>1. st[t] \in Seq(Pids) /\ IsChain(st[t], used, par, cur[t])
    BY StacksFound
  <2> HIDE DEF st
  <2> QED
    BY <2>1, LenProperties
<1>2. cur[a] \in Pids
  BY DEF MaybePid
<1>3. \A t \in Terms : t # a => IsChain(st[t], used2, par2, cur2[t])
  <2>1. used \ {cur[a]} \subseteq used2 /\ \A q \in used \ {cur[a]} : par2[q] = par[q]
    OBVIOUS
  <2> QED
    BY <2>1, OtherStacksStay
<1> HIDE DEF st
<1>4. st[a] = <<cur[a]>>
  <2>1. st[a] \in Seq(Pids) /\ IsChain(st[a], used, par, cur[a])
    BY <1>1
  <2>2. Len(st[a]) = 1 /\ st[a][1] = cur[a]
    BY <1>2, <2>1, RootChain
  <2> QED
    BY <2>1, <2>2
<1>5. <<p>> \in Seq(Pids) /\ IsChain(<<p>>, used2, par2, cur2[a])
  <2>1. <<p>> \in Seq(Pids) /\ Len(<<p>>) = 1 /\ <<p>>[1] = p /\ <<p>> # <<>>
    OBVIOUS
  <2>2. par2[p] = None /\ cur2[a] = p /\ p \in used2
    OBVIOUS
  <2> HIDE DEF used2
  <2> QED
    BY <2>1, <2>2 DEF IsChain, Leads
<1>6. p # cur[a] => OnNone(st, p)
  BY <1>1 DEF IsChain
<1>7. used2 \in SUBSET Pids
  OBVIOUS
<1> HIDE DEF used2
<1>8. AllChains(used2, par2, cur2)
  BY <1>1, <1>3, <1>5 DEF AllChains
<1>9. ASSUME NEW t \in Terms
      PROVE  StacksOf(par2, cur2)[t] = IF t = a THEN <<p>> ELSE st[t]
  <2>1. CASE t = a
    BY <1>5, <1>7, <2>1, StackIs
  <2>2. CASE t # a
    <3>1. st[t] \in Seq(Pids) /\ IsChain(st[t], used2, par2, cur2[t])
      BY <1>1, <1>3, <2>2
    <3> QED
      BY <1>7, <2>2, <3>1, StackIs
  <2> QED
    BY <2>1, <2>2
<1>10. StacksOf(par2, cur2) = [st EXCEPT ![a] = <<p>>]
  BY <1>9 DEF StacksOf, st
<1> QED
  BY <1>4, <1>6, <1>8, <1>10 DEF st, used2

----------------------------------------------------------------------------
(* The kernel implements TerminalStacks *)

\* Every terminal has a chain of launchers; with IInv, which says that they are
\* disjoint, it is inductive.
ChainsHeld == AllChains(pidarray, Parents, Currents)

\* What TerminalStacks sees of the kernel.
Held == [t \in Terms |-> Chain[Current(t)]]
Doomed == {t \in Terms : terminal_data[t].halt_flag}

LEMMA HeldIs ==
    /\ Held = StacksOf(Parents, Currents)
    /\ Held' = StacksOf(Parents', Currents')
<1>1. Held = StacksOf(Parents, Currents)
  BY DEF Held, StacksOf, Parents, Currents, Chain
<1>2. Held' = StacksOf(Parents', Currents')
  BY DEF Held, StacksOf, Parents, Currents, Chain
<1> QED
  BY <1>1, <1>2

LEMMA KernelForest ==
    ASSUME IInv
    PROVE  IsForest(pidarray, Parents, Currents)
BY InvariantsAreForest, ViewTypes DEF IInv, TypeOK, ProcessesTypeOK, IsForest

LEMMA StacksStay ==
    ASSUME ChainsHeld, pidarray' = pidarray, Parents' = Parents, Currents' = Currents
    PROVE  ChainsHeld' /\ Held' = Held
BY HeldIs DEF ChainsHeld

\* execute() puts the new process on the stack of terminal a.
LEMMA ExecutePushes ==
    ASSUME IInv, ChainsHeld, TypeOK', NEW a \in Terms,
           Currents' = [Currents EXCEPT ![a] = curr_pid'],
           execute(Current(a), pidarray)
    PROVE  ChainsHeld' /\ Stacks!Push(a)
<1>1. PICK pid \in Pids :
        /\ get_pid(pid, pidarray)
        /\ pidarray' = pidarray \cup {pid}
        /\ pcb' = [pcb EXCEPT ![pid] = [parent |-> Current(a),
                                         esp_save |-> esp,
                                         tss_esp0 |-> tss_esp0,
                                         vidmap_active |-> @.vidmap_active]]
        /\ curr_pid' = pid
  BY CallerIsParent, Launches
<1>2. pid \in Pids \ pidarray
  BY <1>1 DEF get_pid
<1>3. Parents' = [Parents EXCEPT ![pid] = Currents[a]]
  BY <1>1 DEF Parents, Currents, IInv, TypeOK, ProcessesTypeOK, PCB
<1>4. Currents' = [Currents EXCEPT ![a] = pid]
  BY <1>1
<1>5. /\ AllChains(pidarray \cup {pid}, Parents', Currents')
      /\ Becomes(StacksOf(Parents', Currents'), StacksOf(Parents, Currents), a,
                 Append(StacksOf(Parents, Currents)[a], pid))
      /\ OnNone(StacksOf(Parents, Currents), pid)
  <2> HIDE DEF None
  <2>1. Changes(Parents, Currents, a, pid, Currents[a], Parents', Currents')
    BY <1>2, <1>3, <1>4, KernelForest DEF Changes, IsForest
  <2> QED
    BY <1>2, <2>1, KernelForest, StackGrows DEF ChainsHeld
<1>6. ChainsHeld'
  BY <1>1, <1>5 DEF ChainsHeld
<1>7. /\ Held' = [Held EXCEPT ![a] = Append(@, pid)]
      /\ OnNone(Held, pid)
  BY <1>5, HeldIs DEF Becomes
<1>8. pid \in Stacks!Fresh
  BY <1>1, <1>7 DEF OnNone, Stacks!Fresh, Stacks!Loaded, Stacks!TerminalIds, Terms, Held
<1>9. Stacks!Push(a)
  BY <1>7, <1>8 DEF Stacks!Push, Held
<1> QED
  BY <1>6, <1>9

\* kill_current_proc() takes the process of terminal a from its stack.
LEMMA KillPops ==
    ASSUME IInv, ChainsHeld, TypeOK', NEW a \in Terms,
           Currents' = [Currents EXCEPT ![a] = curr_pid'],
           Current(a) # None,
           kill_current_proc(Current(a))
    PROVE  ChainsHeld' /\ Stacks!Pop(a)
<1> DEFINE victim == Current(a)
<1>0. kill_child(victim) \/ kill_root(victim)
  BY KillFindsPcbs
<1>1. /\ Currents[a] = victim /\ Parents[victim] = pcb[victim].parent
      /\ Currents[a] # None
  BY <1>0 DEF kill_child, kill_root, HasPcb, Currents, Parents, IInv, TypeOK, ProcessesTypeOK
<1>2. CASE kill_child(victim)
  <2>1. /\ Parents' = Parents /\ pidarray' = pidarray \ {Currents[a]}
        /\ Parents[Currents[a]] # None
        /\ Currents' = [Currents EXCEPT ![a] = Parents[Currents[a]]]
    BY <1>1, <1>2 DEF kill_child, Parents
  <2>2. /\ AllChains(pidarray \ {Currents[a]}, Parents, Currents')
        /\ Len(StacksOf(Parents, Currents)[a]) > 1
        /\ Becomes(StacksOf(Parents, Currents'), StacksOf(Parents, Currents), a,
                SubSeq(StacksOf(Parents, Currents)[a], 1, Len(StacksOf(Parents, Currents)[a]) - 1))
    <3> HIDE DEF None
    <3>1. Returns(Parents, Currents, a, Currents')
      BY <2>1, KernelForest DEF Returns, IsForest
    <3> QED
      BY <1>1, <2>1, <3>1, KernelForest, StackShrinks DEF ChainsHeld
  <2>3. ChainsHeld'
    BY <2>1, <2>2 DEF ChainsHeld
  <2>4. /\ Len(Held[a]) > 1
        /\ Held' = [Held EXCEPT ![a] = SubSeq(Held[a], 1, Len(Held[a]) - 1)]
    BY <2>1, <2>2, HeldIs DEF Becomes
  <2>5. Stacks!Pop(a)
    BY <2>4 DEF Stacks!Pop, Held
  <2> QED
    BY <2>3, <2>5
<1>3. CASE kill_root(victim)
  <2>1. PICK pid \in Pids :
        /\ get_pid(pid, pidarray \ {victim})
        /\ pidarray' = (pidarray \ {victim}) \cup {pid}
        /\ pcb' = [pcb EXCEPT ![pid] = [parent |-> None,
                                         esp_save |-> esp,
                                         tss_esp0 |-> tss_esp0,
                                         vidmap_active |-> @.vidmap_active]]
        /\ curr_pid' = pid
    <3>1. execute(None, pidarray \ {victim}) /\ pidarray \ {victim} \in SUBSET Pids
      BY <1>3 DEF kill_root, IInv, TypeOK, ProcessesTypeOK
    <3> QED
      BY <3>1, NoParent, Launches
  <2>2. /\ pid \in Pids \ (pidarray \ {Currents[a]}) /\ Parents[Currents[a]] = None
        /\ pidarray' = (pidarray \ {Currents[a]}) \cup {pid}
        /\ Currents' = [Currents EXCEPT ![a] = pid]
    BY <1>1, <1>3, <2>1 DEF get_pid, kill_root
  <2>3. Parents' = [Parents EXCEPT ![pid] = None]
    BY <2>1 DEF Parents, IInv, TypeOK, ProcessesTypeOK, PCB
  <2>4. /\ AllChains(pidarray', Parents', Currents')
        /\ StacksOf(Parents, Currents)[a] = Alone(Currents[a])
        /\ Becomes(StacksOf(Parents', Currents'), StacksOf(Parents, Currents), a, Alone(pid))
        /\ pid # Currents[a] => OnNone(StacksOf(Parents, Currents), pid)
    <3> HIDE DEF None
    <3>1. Changes(Parents, Currents, a, pid, None, Parents', Currents')
      BY <2>1, <2>2, <2>3, KernelForest DEF Changes, IsForest
    <3>2. /\ IsForest(pidarray, Parents, Currents) /\ AllChains(pidarray, Parents, Currents)
          /\ pid \in Pids \ (pidarray \ {Currents[a]})
          /\ Currents[a] # None /\ Parents[Currents[a]] = None
      BY <1>1, <2>2, KernelForest DEF ChainsHeld
    <3>3. AllChains((pidarray \ {Currents[a]}) \cup {pid}, Parents', Currents')
      BY <3>1, <3>2, StackRenewed
    <3>4. StacksOf(Parents, Currents)[a] = Alone(Currents[a])
      BY <3>1, <3>2, <3>3, StackRenewed
    <3>6. pid # Currents[a] => OnNone(StacksOf(Parents, Currents), pid)
      BY <3>1, <3>2, <3>3, StackRenewed
    <3>5. Becomes(StacksOf(Parents', Currents'), StacksOf(Parents, Currents), a, Alone(pid))
      BY <3>1, <3>2, StackRenewed
    <3> QED
      BY <2>2, <3>3, <3>4, <3>5, <3>6
  <2>5. ChainsHeld'
    BY <2>4 DEF ChainsHeld
  <2>6. /\ Len(Held[a]) = 1 /\ Held' = [Held EXCEPT ![a] = <<pid>>]
        /\ pid # Held[a][1] => OnNone(Held, pid)
    BY <2>4, HeldIs DEF Becomes, Alone
  <2>7. 1 \in DOMAIN Held[a]
    <3>1. StacksOf(Parents, Currents)[a] \in Seq(Pids)
      BY KernelForest, StacksFound DEF ChainsHeld, IsForest
    <3> QED
      BY <3>1, <2>6, HeldIs, LenProperties
  <2>8. pid \in Stacks!Fresh \cup Stacks!Loaded(Held[a])
    BY <2>1, <2>6, <2>7
       DEF OnNone, Stacks!Fresh, Stacks!Loaded, Stacks!TerminalIds, Terms, Held
  <2>9. Stacks!Pop(a)
    BY <2>6, <2>8 DEF Stacks!Pop, Held
  <2> QED
    BY <2>5, <2>9
<1> QED
  BY <1>0, <1>2, <1>3

\* A terminal has a stack exactly when it runs something.
LEMMA HeldEmpty ==
    ASSUME IInv, ChainsHeld, NEW t \in Terms
    PROVE  Held[t] = <<>> <=> Current(t) = None
<1>1. Held[t] \in Seq(Pids) /\ IsChain(Held[t], pidarray, Parents, Currents[t])
  BY KernelForest, HeldIs, StacksFound DEF ChainsHeld, IsForest
<1>2. Held[t] # <<>> => Held[t][Len(Held[t])] \in Pids
  BY <1>1, EmptySeq, LenProperties
<1> QED
  BY <1>1, <1>2 DEF IsChain, Leads, Pids, Currents

\* A step of the process that runs.
LEMMA ProgramStepStacks ==
    ASSUME IInv, TypeOK', ChainsHeld, BootShell \/ Execute \/ Halt \/ Fault
    PROVE  ChainsHeld' /\ (Stacks!Launch \/ Stacks!Leave)
<1> DEFINE a == active_terminal
<1>1. UNCHANGED <<active_terminal, visible_terminal, target_visible_terminal, terminal_data>>
  BY DEF BootShell, Execute, Halt, Fault, EndProgram
<1>2. Currents' = [Currents EXCEPT ![a] = curr_pid']
  BY <1>1, CurrentsSame DEF IInv
<1>3. a \in Terms /\ Current(a) = curr_pid
  BY DEF Current, IInv, TypeOK, ProcessesTypeOK
<1>4. CASE BootShell \/ Execute
  <2>1. execute(Current(a), pidarray)
    BY <1>3, <1>4 DEF BootShell, Execute
  <2>2. ChainsHeld' /\ Stacks!Push(a)
    BY <1>2, <1>3, <2>1, ExecutePushes
  <2> QED
    BY <1>1, <2>2 DEF Stacks!Launch
<1>5. CASE Halt \/ Fault
  <2>1. kill_current_proc(Current(a)) /\ Current(a) # None
    BY <1>3, <1>5 DEF Halt, Fault, EndProgram, InProgram, IInv, ContextConsistent
  <2>2. ChainsHeld' /\ Stacks!Pop(a)
    BY <1>2, <1>3, <2>1, KillPops
  <2> QED
    BY <1>1, <2>2 DEF Stacks!Leave
<1> QED
  BY <1>4, <1>5

\* A tick.
LEMMA TickStacks ==
    ASSUME IInv, TypeOK', ChainsHeld, ScheduleProcess
    PROVE  ChainsHeld' /\ Stacks!TakeTurn
<1> DEFINE a == NextTerminal
<1>1. /\ SwitchTerminal /\ a \in Terms /\ a # active_terminal
      /\ \A t \in Terms : t # a => terminal_data'[t] = Saved[t]
  BY NextTerminalDiffers, SavedType
     DEF ScheduleProcess, Resume, ResumeAndKill, FirstShell, IInv, TypeOK, ProcessesTypeOK
<1>2. Currents' = [Currents EXCEPT ![a] = curr_pid']
  BY <1>1, CurrentsSwitch DEF IInv
<1>3. /\ Stacks!NextTurn = a /\ active_terminal' = a
      /\ visible_terminal' \in {visible_terminal, a}
  BY <1>1 DEF Stacks!NextTurn, NextTerminal, SwitchTerminal, SwitchVideo
<1>4. /\ Current(a) = terminal_data[a].curr_pid
      /\ a \in Doomed <=> terminal_data[a].halt_flag
      /\ terminal_data' = Saved => Doomed' = Doomed
  BY <1>1 DEF Current, Doomed, Saved, IInv, TypeOK
<1>5. Held[a] = <<>> <=> Current(a) = None
  BY <1>1, HeldEmpty
<1> HIDE DEF a
<1>6. CASE Resume
  <2>1. /\ terminal_data' = Saved /\ Current(a) # None /\ a \notin Doomed
        /\ curr_pid' = Currents[a] /\ Parents' = Parents /\ pidarray' = pidarray
    BY <1>1, <1>4, <1>6 DEF Resume, Currents, Parents, a
  <2>2. Currents' = Currents
    BY <1>2, <2>1, ViewTypes DEF IInv
  <2>3. ChainsHeld' /\ Held' = Held
    BY <2>1, <2>2, StacksStay
  <2> QED
    BY <1>3, <1>4, <1>5, <2>1, <2>3 DEF Stacks!TakeTurn, Held, Doomed
<1>7. CASE ResumeAndKill
  <2>1. /\ terminal_data' = [Saved EXCEPT ![a].halt_flag = FALSE]
        /\ kill_current_proc(Current(a)) /\ Current(a) # None /\ a \in Doomed
    BY <1>4, <1>7 DEF ResumeAndKill, a
  <2>2. Doomed' = Doomed \ {a}
    BY <1>1, <2>1 DEF Doomed, Saved, IInv, TypeOK
  <2>3. ChainsHeld' /\ Stacks!Pop(a)
    BY <1>1, <1>2, <2>1, KillPops
  <2> QED
    BY <1>3, <1>5, <2>1, <2>2, <2>3 DEF Stacks!TakeTurn, Held, Doomed
<1>8. CASE FirstShell
  <2>1. /\ terminal_data' = Saved
        /\ execute(Current(a), pidarray) /\ Current(a) = None
    BY <1>4, <1>8 DEF FirstShell, a
  <2>2. ChainsHeld' /\ Stacks!Push(a)
    BY <1>1, <1>2, <2>1, ExecutePushes
  <2> QED
    BY <1>3, <1>4, <1>5, <2>1, <2>2 DEF Stacks!TakeTurn, Held, Doomed
<1> QED
  BY <1>6, <1>7, <1>8 DEF ScheduleProcess

\* Any other step: Ctrl+C dooms the terminal on the screen, the rest changes nothing.
LEMMA QuietStacks ==
    ASSUME IInv, ChainsHeld, [Next]_vars,
           ~(BootShell \/ Execute \/ Halt \/ Fault \/ ScheduleProcess)
    PROVE  ChainsHeld' /\ [Stacks!StacksNext]_(Stacks!svars)
<1>1. /\ UNCHANGED <<active_terminal, visible_terminal, pidarray>>
      /\ curr_pid' = curr_pid
      /\ \A t \in Terms : terminal_data'[t].curr_pid = terminal_data[t].curr_pid
      /\ \A p \in Pids : pcb'[p].parent = pcb[p].parent
  <2>1. CASE CtrlC \/ AltFn \/ OtherKey
    BY <2>1 DEF CtrlC, AltFn, OtherKey, KeyboardEntry, IInv, TypeOK, Term
  <2>2. CASE VidmapOk \/ VidmapOutOfRange \/ VidmapNull
    <3>1. PICK flag \in BOOLEAN, mapped \in BOOLEAN : VidmapRequest(flag, mapped)
      BY <2>2 DEF VidmapOk, VidmapOutOfRange, VidmapNull
    <3>2. \A p \in Pids : pcb'[p].parent = pcb[p].parent
      BY <3>1 DEF VidmapRequest, IInv, TypeOK, ProcessesTypeOK, PCB
    <3> QED
      BY <3>1, <3>2 DEF VidmapRequest
  <2>3. CASE KeyboardEoi \/ ExecuteNoPid \/ UNCHANGED vars
    BY <2>3 DEF KeyboardEoi, ExecuteNoPid, vars
  <2> QED
    BY <2>1, <2>2, <2>3 DEF Next
<1>2. Parents' = Parents /\ Currents' = Currents
  BY <1>1 DEF Parents, Currents, Current
<1>3. ChainsHeld' /\ Held' = Held
  BY <1>1, <1>2, StacksStay
<1>4. CASE CtrlC
  <2>1. Doomed' = Doomed \cup {visible_terminal}
    BY <1>4 DEF CtrlC, Doomed, IInv, TypeOK, ProcessesTypeOK, Term
  <2> QED
    BY <1>1, <1>3, <2>1 DEF Stacks!StacksNext, Stacks!PressCtrlC, Held, Doomed
<1>5. CASE ~CtrlC
  <2>1. terminal_data' = terminal_data
    BY <1>5 DEF Next, vars, ExecuteNoPid, VidmapOk, VidmapOutOfRange, VidmapNull,
                VidmapRequest, AltFn, OtherKey, KeyboardEoi
  <2>2. Doomed' = Doomed
    BY <2>1 DEF Doomed
  <2> QED
    BY <1>1, <1>3, <2>2 DEF Stacks!svars, Held, Doomed
<1> QED
  BY <1>3, <1>4, <1>5

\* In the boot state no terminal runs anything.
LEMMA InitStacks == Init => ChainsHeld /\ Stacks!StacksInit
<1> SUFFICES ASSUME Init PROVE ChainsHeld /\ Stacks!StacksInit
  OBVIOUS
<1>1. \A t \in Terms : Currents[t] = None
  BY DEF Init, ProcessesInit, Current, Currents
<1>2. <<>> \in Seq(Pids) /\ IsChain(<<>>, pidarray, Parents, None)
  BY DEF IsChain, Leads
<1>3. ChainsHeld
  BY <1>1, <1>2 DEF ChainsHeld, AllChains
<1>4. \A t \in Terms : Held[t] = <<>>
  BY <1>1, <1>3, InitIInv, HeldEmpty DEF Currents
<1>5. Doomed = {}
  BY DEF Init, Doomed
<1>6. Held = [t \in Terms |-> <<>>]
  BY <1>4 DEF Held
<1> QED
  BY <1>3, <1>5, <1>6 DEF Stacks!StacksInit, Stacks!TerminalIds, Terms, Held, Doomed, Init, ProcessesInit

LEMMA StacksStep ==
    IInv /\ IInv' /\ ChainsHeld /\ [Next]_vars
        => ChainsHeld' /\ [Stacks!StacksNext]_(Stacks!svars)
<1> SUFFICES ASSUME IInv, IInv', ChainsHeld, [Next]_vars
             PROVE  ChainsHeld' /\ [Stacks!StacksNext]_(Stacks!svars)
  OBVIOUS
<1>1. CASE BootShell \/ Execute \/ Halt \/ Fault
  BY <1>1, ProgramStepStacks DEF Stacks!StacksNext, IInv
<1>2. CASE ScheduleProcess
  BY <1>2, TickStacks DEF Stacks!StacksNext, IInv
<1>3. CASE ~(BootShell \/ Execute \/ Halt \/ Fault \/ ScheduleProcess)
  BY <1>3, QuietStacks
<1> QED
  BY <1>1, <1>2, <1>3

\* Users see a stack of programs per terminal: launching, halting, being killed and
\* the scheduler's ticks do to the chains of parent pointers, in the table of pids
\* that are freed and handed out again, what TerminalStacks says of its stacks.
THEOREM KernelKeepsStacks == Spec => ImplementsStacks
BY InvariantHolds, InitStacks, StacksStep, PTL DEF Spec, ImplementsStacks, Stacks!StacksSpec

----------------------------------------------------------------------------
(* No terminal disturbs another *)

\* A launch writes the PCB of a pid that was free, ...
LEMMA ExecuteLeaves ==
    ASSUME TypeOK, NEW caller, NEW used \in SUBSET Pids, execute(caller, used), NEW p \in used
    PROVE  p \in pidarray' /\ pcb'[p] = pcb[p]
<1>1. PICK pid \in Pids :
        /\ pid \notin used
        /\ pidarray' = used \cup {pid}
        /\ \E block : pcb' = [pcb EXCEPT ![pid] = block]
  BY DEF execute, get_pid
<1> QED
  BY <1>1 DEF TypeOK, ProcessesTypeOK

\* ... and a kill frees one pid.
LEMMA KillLeaves ==
    ASSUME TypeOK, NEW pid, kill_current_proc(pid), NEW p \in pidarray \ {pid}
    PROVE  p \in pidarray' /\ pcb'[p] = pcb[p]
<1>1. CASE kill_root(pid)
  <2>1. execute(None, pidarray \ {pid}) /\ pidarray \ {pid} \in SUBSET Pids
    BY <1>1 DEF kill_root, TypeOK, ProcessesTypeOK
  <2> QED
    BY <2>1, ExecuteLeaves
<1>2. CASE ~kill_root(pid)
  BY <1>2 DEF kill_current_proc, kill_child, kill_without_pcb, kill_without_parent
<1> QED
  BY <1>1, <1>2

\* A step is at the terminal that has the CPU after it: no process but the one that
\* terminal runs is freed or written, and what the others run is not switched.
LEMMA StepTouches ==
    ASSUME IInv, TypeOK', Next, NEW a, a = active_terminal'
    PROVE  /\ a \in Terms
           /\ \A t \in Terms \ {a} : Current(t)' = Current(t)
           /\ \A p \in pidarray \ {Current(a)} : p \in pidarray' /\ pcb'[p] = pcb[p]
<1>1. /\ a \in Terms /\ active_terminal \in Terms /\ pidarray \in SUBSET Pids
      /\ pcb \in [Pids -> PCB]
  BY DEF IInv, TypeOK, ProcessesTypeOK
<1>2. CASE ScheduleProcess
  <2>1. /\ SwitchTerminal /\ a = NextTerminal /\ a # active_terminal
        /\ \A t \in Terms : t # NextTerminal => terminal_data'[t] = Saved[t]
    BY <1>2, NextTerminalDiffers, SavedType
       DEF ScheduleProcess, Resume, ResumeAndKill, FirstShell, SwitchTerminal, IInv, TypeOK,
           ProcessesTypeOK
  <2>2. Currents' = [Currents EXCEPT ![a] = curr_pid']
    BY <2>1, CurrentsSwitch DEF IInv
  <2>3. \A t \in Terms \ {a} : Current(t)' = Current(t)
    BY <2>2 DEF Currents
  <2>4. Current(a) = terminal_data[a].curr_pid
    BY <2>1 DEF Current
  <2>5. \A p \in pidarray \ {Current(a)} : p \in pidarray' /\ pcb'[p] = pcb[p]
    <3>1. CASE Resume
      BY <3>1 DEF Resume
    <3>2. CASE ResumeAndKill
      <4>1. kill_current_proc(Current(a))
        BY <2>1, <2>4, <3>2 DEF ResumeAndKill
      <4> QED
        BY <4>1, KillLeaves DEF IInv
    <3>3. CASE FirstShell
      <4>1. execute(None, pidarray)
        BY <3>3 DEF FirstShell
      <4> QED
        BY <1>1, <4>1, ExecuteLeaves DEF IInv
    <3> QED
      BY <1>2, <3>1, <3>2, <3>3 DEF ScheduleProcess
  <2> QED
    BY <1>1, <2>3, <2>5
<1>3. CASE ~ScheduleProcess
  <2>1. /\ a = active_terminal
        /\ \A t \in Terms : terminal_data'[t].curr_pid = terminal_data[t].curr_pid
    <3>1. CASE CtrlC
      BY <3>1 DEF CtrlC, KeyboardEntry, IInv, TypeOK, Term
    <3>2. CASE ~CtrlC
      BY <1>3, <3>2
         DEF Next, vars, BootShell, Execute, ExecuteNoPid, Halt, Fault, EndProgram, VidmapOk,
             VidmapOutOfRange, VidmapNull, VidmapRequest, AltFn, OtherKey, KeyboardEntry,
             KeyboardEoi
    <3> QED
      BY <3>1, <3>2
  <2>2. Currents' = [Currents EXCEPT ![a] = curr_pid']
    BY <2>1, CurrentsSame DEF IInv
  <2>3. \A t \in Terms \ {a} : Current(t)' = Current(t)
    BY <2>2 DEF Currents
  <2>4. Current(a) = curr_pid
    BY <2>1 DEF Current
  <2>5. \A p \in pidarray \ {Current(a)} : p \in pidarray' /\ pcb'[p] = pcb[p]
    <3>1. CASE BootShell \/ Execute
      <4>1. execute(curr_pid, pidarray)
        BY <3>1 DEF BootShell, Execute
      <4> QED
        BY <1>1, <4>1, ExecuteLeaves DEF IInv
    <3>2. CASE Halt \/ Fault
      <4>1. kill_current_proc(Current(a))
        BY <2>4, <3>2 DEF Halt, Fault, EndProgram
      <4> QED
        BY <4>1, KillLeaves DEF IInv
    <3>3. CASE VidmapOk \/ VidmapOutOfRange \/ VidmapNull
      <4>1. PICK flag, mapped : VidmapRequest(flag, mapped)
        BY <3>3 DEF VidmapOk, VidmapOutOfRange, VidmapNull
      <4> QED
        BY <1>1, <2>4, <4>1 DEF VidmapRequest
    <3>4. CASE ExecuteNoPid \/ CtrlC \/ AltFn \/ OtherKey \/ KeyboardEoi
      BY <3>4 DEF ExecuteNoPid, vars, CtrlC, AltFn, OtherKey, KeyboardEntry, KeyboardEoi
    <3> QED
      BY <1>3, <3>1, <3>2, <3>3, <3>4 DEF Next
  <2> QED
    BY <1>1, <2>3, <2>5
<1> QED
  BY <1>2, <1>3

\* None of the processes of another terminal is the one terminal a runs.
LEMMA ProcessesApart ==
    ASSUME IInv, ChainsHeld, NEW a \in Terms, NEW t \in Terms \ {a}, NEW p \in ProcessesOf(t)
    PROVE  p \in pidarray \ {Current(a)}
<1>1. Held[t] \in Seq(Pids) /\ IsChain(Held[t], pidarray, Parents, Currents[t])
  BY KernelForest, HeldIs, StacksFound DEF ChainsHeld, IsForest
<1>2. PICK i \in 1 .. Len(Held[t]) : p = Held[t][i]
  BY <1>1, LenProperties DEF ProcessesOf, Held
<1>3. p \in pidarray /\ p \in Pids
  BY <1>1, <1>2 DEF IsChain, IInv, TypeOK, ProcessesTypeOK
<1>4. p # Current(a)
  <2>1. CASE Current(a) = None
    BY <1>3, <2>1 DEF Pids
  <2>2. CASE Current(a) # None
    <3>1. Currents[a] # None /\ Currents[a] = Current(a)
      BY <2>2 DEF Currents
    <3>2. IsForest(pidarray, Parents, Currents)
      BY KernelForest
    <3> HIDE DEF None
    <3>3. Held[t][i] # Currents[a]
      BY <1>1, <1>2, <3>1, <3>2, TopElsewhere DEF IsForest
    <3> QED
      BY <1>2, <3>1, <3>3
  <2> QED
    BY <2>1, <2>2
<1> QED
  BY <1>3, <1>4

\* No launch, halt, vidmap() or kill at one terminal frees or rewrites a process of
\* another one, be it the one that runs there or one that waits, nor changes what
\* runs there - although pids are freed and handed out again and Ctrl+C kills on
\* the kernel stack of a process that has nothing to do with it.
THEOREM OthersNeverDisturbed == Spec => OthersUndisturbed
<1>1. IInv /\ IInv' /\ ChainsHeld /\ [Next]_vars
        => [\A t \in Terms \ {active_terminal'} :
                /\ Current(t)' = Current(t)
                /\ \A p \in ProcessesOf(t) : p \in pidarray' /\ pcb'[p] = pcb[p]]_vars
  <2> SUFFICES ASSUME IInv, IInv', ChainsHeld, Next
               PROVE  \A t \in Terms \ {active_terminal'} :
                        /\ Current(t)' = Current(t)
                        /\ \A p \in ProcessesOf(t) : p \in pidarray' /\ pcb'[p] = pcb[p]
    OBVIOUS
  <2>1. PICK a : a = active_terminal'
    OBVIOUS
  <2>2. /\ a \in Terms
        /\ \A t \in Terms \ {a} : Current(t)' = Current(t)
        /\ \A p \in pidarray \ {Current(a)} : p \in pidarray' /\ pcb'[p] = pcb[p]
    BY <2>1, StepTouches DEF IInv
  <2> QED
    BY <2>1, <2>2, ProcessesApart
<1> QED
  BY InvariantHolds, InitStacks, StacksStep, <1>1, PTL DEF Spec, OthersUndisturbed
=============================================================================
