----------------------------- MODULE Terminals -----------------------------
(***************************************************************************)
(* Who has the CPU and who is on the screen: the part of schedule_process()*)
(* and of the keyboard handler that the screen, the line discipline and the*)
(* virtual RTC see.  Scheduler implements this module (SchedulerStacks,    *)
(* SchedulerProofs), so that they can be modelled on top of it without*)
(* the process table.                                                      *)
(***************************************************************************)
EXTENDS Integers

CONSTANT MAX_TERMINALS

ASSUME TerminalsAssumption == MAX_TERMINALS \in Nat /\ 1 < MAX_TERMINALS

Terms == 0 .. MAX_TERMINALS - 1

VARIABLES
    active_terminal,          \* has the CPU
    visible_terminal,         \* is on the screen
    target_visible_terminal,  \* was asked for with Alt+Fn
    started                   \* the terminals that have a shell

turnVars == <<active_terminal, visible_terminal, target_visible_terminal, started>>

TurnsTypeOK ==
    /\ active_terminal \in Terms
    /\ visible_terminal \in Terms
    /\ target_visible_terminal \in Terms
    /\ started \subseteq Terms

TurnsInit ==
    /\ active_terminal = 0
    /\ visible_terminal = 0
    /\ target_visible_terminal = 0
    /\ started = {}

\* entry() launches the first shell of terminal 0, unless a tick comes first.
Boot ==
    /\ started = {}
    /\ started' = {active_terminal}
    /\ UNCHANGED <<active_terminal, visible_terminal, target_visible_terminal>>

\* switch_visible_terminal(), from the keyboard handler.
Ask(t) ==
    /\ target_visible_terminal' = t
    /\ UNCHANGED <<active_terminal, visible_terminal, started>>

Following == (active_terminal + 1) % MAX_TERMINALS

\* The tick shows the terminal it gives the CPU to, if that one was asked for.
Switches == target_visible_terminal # visible_terminal
            /\ target_visible_terminal = Following

Turn ==
    /\ active_terminal' = Following
    /\ visible_terminal' = IF Switches THEN Following ELSE visible_terminal
    /\ started' = started \cup {Following}
    /\ UNCHANGED target_visible_terminal

TurnsNext == Boot \/ (\E t \in Terms : Ask(t)) \/ Turn

TurnsSpec == TurnsInit /\ [][TurnsNext]_turnVars

\* A program runs at the terminal that has the CPU.
ProgramRuns == active_terminal \in started
=============================================================================
