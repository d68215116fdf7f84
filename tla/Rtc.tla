-------------------------------- MODULE Rtc --------------------------------
(***************************************************************************)
(* The virtual RTCs.  The hardware interrupts at RTC_RATE; rtc_handler()   *)
(* divides that for every terminal, and rtc_read() of a program spins, with*)
(* interrupts on, until its terminal's flag is set, and clears it.         *)
(* A program may have the RTC open or not, twice or in several generations:*)
(* all of them share the divider of their terminal.  Interrupts says when  *)
(* interrupts and ticks come.                                              *)
(***************************************************************************)
EXTENDS Terminals

CONSTANTS RTC_RATE,      \* interrupts of the hardware per second, a power of 2
          INT_BITS,      \* width of an int
          Frequencies    \* what programs write to the RTC

INT_MIN == -(2 ^ (INT_BITS - 1))
Ints == INT_MIN .. -INT_MIN - 1
PowersOf2 == {2 ^ k : k \in 0 .. INT_BITS - 2}

ASSUME RtcAssumption ==
    /\ INT_BITS \in Nat
    /\ RTC_RATE \in PowersOf2 /\ 1 < RTC_RATE
    /\ Frequencies \subseteq Ints

\* Arithmetic: a power of 2 is positive, and 2 is one.
ASSUME PowersAssumption == PowersOf2 \subseteq Nat \ {0} /\ 2 \in PowersOf2

VARIABLES
    rtc_divider, rtc_counter, rtc_interrupt_received,  \* of terminal_data[t]
    reader      \* where the terminal's program is in rtc_read()

rateVars == <<rtc_divider, rtc_counter>>
rtcVars == <<turnVars, rateVars, rtc_interrupt_received, reader>>

RtcTypeOK ==
    /\ TurnsTypeOK
    /\ rtc_divider \in [Terms -> Nat]
    /\ rtc_counter \in [Terms -> Nat]
    /\ rtc_interrupt_received \in [Terms -> BOOLEAN]
    /\ reader \in [Terms -> {"idle", "spinning", "leaving"}]

RtcInit ==
    /\ TurnsInit
    /\ rtc_divider = [t \in Terms |-> RTC_RATE \div 2]
    /\ rtc_counter = [t \in Terms |-> 0]
    /\ rtc_interrupt_received = [t \in Terms |-> FALSE]
    /\ reader = [t \in Terms |-> "idle"]

----------------------------------------------------------------------------
(* rtc_handler() *)

\* Mutant: a virtual interrupt comes one tick late.
RingsLate(t) == rtc_counter[t] + 1 > rtc_divider[t]

Rings(t) == rtc_counter[t] + 1 >= rtc_divider[t]

RtcInterrupt ==
    /\ rtc_counter' = [t \in Terms |-> IF Rings(t) THEN 0 ELSE rtc_counter[t] + 1]
    /\ rtc_interrupt_received' =
           [t \in Terms |-> rtc_interrupt_received[t] \/ Rings(t)]
    /\ UNCHANGED <<turnVars, rtc_divider, reader>>

----------------------------------------------------------------------------
(* The calls of programs *)

\* A program in a call other than rtc_read(), or in none.
Calls == ProgramRuns /\ reader[active_terminal] = "idle"

SetDivider(t, d) ==
    /\ rtc_divider' = [rtc_divider EXCEPT ![t] = d]
    /\ rtc_counter' = [rtc_counter EXCEPT ![t] = 0]

\* rtc_open() and rtc_close() set 2 Hz.
OpenOrClose ==
    /\ Calls
    /\ SetDivider(active_terminal, RTC_RATE \div 2)
    /\ UNCHANGED <<turnVars, rtc_interrupt_received, reader>>

\* buffer & (buffer - 1) is 0: one bit is set, be it the sign.
OneBit(buffer) == buffer \in PowersOf2 \cup {INT_MIN}

Accepts(buffer) == buffer # 0 /\ OneBit(buffer) /\ buffer <= RTC_RATE

\* The division of C rounds towards 0.
Quotient(a, b) == IF 0 < b THEN a \div b ELSE -(a \div (-b))

RtcWrite ==
    /\ Calls
    /\ \E buffer \in Frequencies :
           Accepts(buffer) /\ SetDivider(active_terminal, Quotient(RTC_RATE, buffer))
    /\ UNCHANGED <<turnVars, rtc_interrupt_received, reader>>

StartRead ==
    /\ Calls
    /\ reader' = [reader EXCEPT ![active_terminal] = "spinning"]
    /\ UNCHANGED <<turnVars, rateVars, rtc_interrupt_received>>

\* Mutant: the spin looks at the flag of the terminal on the screen.
SeeInterruptOfShown ==
    /\ reader[active_terminal] = "spinning"
    /\ rtc_interrupt_received[visible_terminal]
    /\ reader' = [reader EXCEPT ![active_terminal] = "leaving"]
    /\ UNCHANGED <<turnVars, rateVars, rtc_interrupt_received>>

\* The spin ends.
SeeInterrupt ==
    /\ reader[active_terminal] = "spinning"
    /\ rtc_interrupt_received[active_terminal]
    /\ reader' = [reader EXCEPT ![active_terminal] = "leaving"]
    /\ UNCHANGED <<turnVars, rateVars, rtc_interrupt_received>>

\* Clears the flag, also of an interrupt that came after the last look at it.
FinishRead ==
    /\ reader[active_terminal] = "leaving"
    /\ rtc_interrupt_received' = [rtc_interrupt_received EXCEPT ![active_terminal] = FALSE]
    /\ reader' = [reader EXCEPT ![active_terminal] = "idle"]
    /\ UNCHANGED <<turnVars, rateVars>>

----------------------------------------------------------------------------
(* The turns of the terminals *)

BootShell ==
    /\ Boot
    /\ UNCHANGED <<rateVars, rtc_interrupt_received, reader>>

AskTerminal ==
    /\ \E t \in Terms : Ask(t)
    /\ UNCHANGED <<rateVars, rtc_interrupt_received, reader>>

ScheduleProcess ==
    /\ Turn
    /\ UNCHANGED <<rateVars, rtc_interrupt_received, reader>>

\* Ctrl+C was pressed at the next terminal: its program dies, wherever it is in
\* rtc_read(), and closes the RTC if it had it open.
ScheduleAndKill ==
    /\ Turn
    /\ Following \in started
    /\ SetDivider(Following, RTC_RATE \div 2) \/ UNCHANGED rateVars
    /\ reader' = [reader EXCEPT ![Following] = "idle"]
    /\ UNCHANGED <<rtc_interrupt_received>>

RtcNext ==
    \/ RtcInterrupt
    \/ OpenOrClose
    \/ RtcWrite
    \/ StartRead
    \/ SeeInterrupt
    \/ FinishRead
    \/ BootShell
    \/ AskTerminal
    \/ ScheduleProcess
    \/ ScheduleAndKill

RtcSpec == RtcInit /\ [][RtcNext]_rtcVars

----------------------------------------------------------------------------

\* A virtual interrupt comes exactly every rtc_divider interrupts, from the
\* moment the rate was set, whatever the other terminals do and however late
\* the programs are: for frequencies that are not negative.
M == INSTANCE Metronomes WITH
        Ids <- Terms,
        Periods <- {RTC_RATE \div f : f \in {p \in PowersOf2 : p <= RTC_RATE}},
        period <- rtc_divider,
        left <- [t \in Terms |-> rtc_divider[t] - rtc_counter[t]],
        beaten <- rtc_interrupt_received

ImplementsMetronomes == M!MetronomesSpec

\* rtc_read() "spins in while loop until rtc interrupt occurs": it does not
\* when the flag is left from before the call.
ReadAwaitsInterrupt ==
    [][\A t \in Terms : reader[t] # reader'[t] /\ reader'[t] = "spinning"
                           => ~rtc_interrupt_received[t]]_rtcVars

\* rtc_write() takes a "frequency, must be power of 2".  INT_MIN passes its
\* test, and leaves the divider 0.
DividerIsOfPowerOf2 ==
    \A t \in Terms : \E f \in PowersOf2 : rtc_divider[t] * f = RTC_RATE
=============================================================================
