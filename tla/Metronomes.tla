----------------------------- MODULE Metronomes -----------------------------
(***************************************************************************)
(* What the virtual RTCs promise: every terminal has a metronome of its    *)
(* own, which beats once every period[t] ticks of the common clock, counted*)
(* from the moment its period was set.  A beat is remembered until somebody*)
(* takes it.                                                               *)
(***************************************************************************)
EXTENDS Integers

CONSTANTS Ids, Periods

VARIABLES period, left, beaten

metronomeVars == <<period, left, beaten>>

MetronomesInit ==
    /\ period \in [Ids -> Periods]
    /\ left = period
    /\ beaten = [t \in Ids |-> FALSE]

\* One tick of the clock, for all of them.
Tick ==
    /\ left' = [t \in Ids |-> IF left[t] = 1 THEN period[t] ELSE left[t] - 1]
    /\ beaten' = [t \in Ids |-> beaten[t] \/ left[t] = 1]
    /\ UNCHANGED period

SetPeriod(t) ==
    /\ \E p \in Periods : /\ period' = [period EXCEPT ![t] = p]
                          /\ left' = [left EXCEPT ![t] = p]
    /\ UNCHANGED beaten

TakeBeat(t) ==
    /\ beaten[t]
    /\ beaten' = [beaten EXCEPT ![t] = FALSE]
    /\ UNCHANGED <<period, left>>

MetronomesNext == Tick \/ \E t \in Ids : SetPeriod(t) \/ TakeBeat(t)

MetronomesSpec == MetronomesInit /\ [][MetronomesNext]_metronomeVars
=============================================================================
