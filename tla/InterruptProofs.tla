-------------------------- MODULE InterruptProofs --------------------------
(***************************************************************************)
(* Proofs about Rtc and Interrupts: for any rate of the hardware and any   *)
(* frequencies but INT_MIN the virtual RTCs implement one metronome per    *)
(* terminal, and keep time under the controllers; which lines are in       *)
(* service, for any number of terminals.                                   *)
(***************************************************************************)
EXTENDS Interrupts, TLAPS

Periods == {RTC_RATE \div f : f \in {p \in PowersOf2 : p <= RTC_RATE}}

LEMMA FollowingIsTerminal ==
    ASSUME active_terminal \in Terms
    PROVE  Following \in Terms
BY TerminalsAssumption DEF Terms, Following

LEMMA TurnsType == TurnsTypeOK /\ TurnsNext => TurnsTypeOK'
BY FollowingIsTerminal DEF TurnsTypeOK, TurnsNext, Boot, Ask, Turn

LEMMA QuotientPositive ==
    ASSUME NEW a \in Nat, NEW b \in Nat \ {0}, b <= a
    PROVE  a \div b \in Nat \ {0}
<1>1. a \div b \in Int
  OBVIOUS
<1>2. b * (a \div b) <= a /\ a < b * (a \div b) + b
  OBVIOUS
<1>3. ~(a \div b <= 0)
  <2> SUFFICES ASSUME a \div b <= 0 PROVE FALSE
    OBVIOUS
  <2>1. b * (a \div b) <= 0
    BY <1>1
  <2> QED
    BY <1>2, <2>1
<1> QED
  BY <1>1, <1>3

LEMMA PeriodsPositive == Periods \subseteq Nat \ {0} /\ RTC_RATE \div 2 \in Periods
<1>1. RTC_RATE \in Nat /\ 1 < RTC_RATE
  BY RtcAssumption, PowersAssumption
<1>2. \A p \in PowersOf2 : p <= RTC_RATE => RTC_RATE \div p \in Nat \ {0}
  BY <1>1, PowersAssumption, QuotientPositive
<1>3. 2 \in PowersOf2 /\ 2 <= RTC_RATE
  BY <1>1, PowersAssumption
<1> QED
  BY <1>2, <1>3 DEF Periods

\* What rtc_write() accepts, but for INT_MIN, gives one of the periods.
LEMMA AcceptedPeriod ==
    ASSUME INT_MIN \notin Frequencies, NEW f \in Frequencies, Accepts(f)
    PROVE  Quotient(RTC_RATE, f) \in Periods
<1>1. f \in PowersOf2 /\ f <= RTC_RATE
  BY DEF Accepts, OneBit
<1>2. 0 < f
  BY <1>1, PowersAssumption
<1> QED
  BY <1>1, <1>2 DEF Quotient, Periods

----------------------------------------------------------------------------

\* The counter stays below the divider: no interrupt is missed.
RtcInv ==
    /\ RtcTypeOK
    /\ \A t \in Terms : rtc_divider[t] \in Periods /\ rtc_counter[t] < rtc_divider[t]

LEMMA RtcInitInv == RtcInit => RtcInv
<1> SUFFICES ASSUME RtcInit PROVE RtcInv
  OBVIOUS
<1>1. TurnsTypeOK
  BY TerminalsAssumption DEF RtcInit, TurnsInit, TurnsTypeOK, Terms
<1>2. PICK d \in Periods : rtc_divider = [t \in Terms |-> d]
  BY PeriodsPositive DEF RtcInit
<1>3. d \in Nat \ {0}
  BY PeriodsPositive
<1> QED
  BY <1>1, <1>2, <1>3 DEF RtcInit, RtcInv, RtcTypeOK

LEMMA SetDividerInv ==
    ASSUME RtcInv, NEW t \in Terms, NEW d \in Periods, SetDivider(t, d)
    PROVE  /\ rtc_divider' \in [Terms -> Nat] /\ rtc_counter' \in [Terms -> Nat]
           /\ \A u \in Terms : rtc_divider'[u] \in Periods /\ rtc_counter'[u] < rtc_divider'[u]
BY PeriodsPositive DEF SetDivider, RtcInv, RtcTypeOK

LEMMA RtcInductive == INT_MIN \notin Frequencies /\ RtcInv /\ [RtcNext]_rtcVars => RtcInv'
<1> SUFFICES ASSUME INT_MIN \notin Frequencies, RtcInv, [RtcNext]_rtcVars PROVE RtcInv'
  OBVIOUS
<1> USE DEF RtcTypeOK
<1>1. /\ active_terminal \in Terms /\ Following \in Terms
      /\ reader \in [Terms -> {"idle", "spinning", "leaving"}]
      /\ rtc_interrupt_received \in [Terms -> BOOLEAN]
  BY FollowingIsTerminal DEF RtcInv, TurnsTypeOK
<1>2. CASE RtcInterrupt
  <2>1. rtc_counter' \in [Terms -> Nat] /\ \A t \in Terms : rtc_counter'[t] < rtc_divider[t]
    BY <1>2, PeriodsPositive DEF RtcInterrupt, RtcInv, Rings
  <2> QED
    BY <1>1, <1>2, <2>1 DEF RtcInterrupt, RtcInv, turnVars, TurnsTypeOK
<1>3. CASE OpenOrClose \/ RtcWrite
  <2>1. PICK d \in Periods : SetDivider(active_terminal, d)
    BY <1>3, PeriodsPositive, AcceptedPeriod DEF OpenOrClose, RtcWrite
  <2>2. UNCHANGED <<turnVars, rtc_interrupt_received, reader>>
    BY <1>3 DEF OpenOrClose, RtcWrite
  <2> QED
    BY <1>1, <2>1, <2>2, SetDividerInv DEF RtcInv, turnVars, TurnsTypeOK
<1>4. CASE StartRead \/ SeeInterrupt \/ FinishRead
  BY <1>1, <1>4 DEF StartRead, SeeInterrupt, FinishRead, RtcInv, turnVars, rateVars, TurnsTypeOK
<1>5. CASE BootShell \/ AskTerminal \/ ScheduleProcess
  <2>1. TurnsNext /\ UNCHANGED <<rateVars, rtc_interrupt_received, reader>>
    BY <1>5 DEF BootShell, AskTerminal, ScheduleProcess, TurnsNext
  <2> QED
    BY <2>1, TurnsType DEF RtcInv, rateVars
<1>6. CASE ScheduleAndKill
  <2>1. TurnsTypeOK'
    BY <1>6, TurnsType DEF ScheduleAndKill, TurnsNext, RtcInv
  <2>2. /\ rtc_divider' \in [Terms -> Nat] /\ rtc_counter' \in [Terms -> Nat]
        /\ \A u \in Terms : rtc_divider'[u] \in Periods /\ rtc_counter'[u] < rtc_divider'[u]
    <3>1. CASE SetDivider(Following, RTC_RATE \div 2)
      BY <1>1, <3>1, PeriodsPositive, SetDividerInv
    <3>2. CASE UNCHANGED rateVars
      BY <3>2 DEF rateVars, RtcInv
    <3> QED
      BY <1>6, <3>1, <3>2 DEF ScheduleAndKill
  <2> QED
    BY <1>1, <1>6, <2>1, <2>2 DEF ScheduleAndKill, RtcInv
<1>7. CASE UNCHANGED rtcVars
  BY <1>7 DEF rtcVars, turnVars, rateVars, RtcInv, TurnsTypeOK
<1> QED
  BY <1>2, <1>3, <1>4, <1>5, <1>6, <1>7 DEF RtcNext

\* Every variable stays in its type, unless a program writes INT_MIN.
THEOREM RtcTypeCorrect ==
    ASSUME INT_MIN \notin Frequencies
    PROVE  RtcSpec => []RtcTypeOK
<1>1. RtcInv => RtcTypeOK
  BY DEF RtcInv
<1> QED
  BY RtcInitInv, RtcInductive, <1>1, PTL DEF RtcSpec

----------------------------------------------------------------------------

\* What is left of each period.
Left == [t \in Terms |-> rtc_divider[t] - rtc_counter[t]]

LEMMA SetDividerSetsPeriod ==
    ASSUME RtcInv, NEW t \in Terms, NEW d \in Periods, SetDivider(t, d),
           UNCHANGED rtc_interrupt_received
    PROVE  M!SetPeriod(t)
<1>1. rtc_divider' = [rtc_divider EXCEPT ![t] = d] /\ rtc_counter' = [rtc_counter EXCEPT ![t] = 0]
  BY DEF SetDivider
<1>2. d \in Nat
  BY PeriodsPositive
<1>3. Left' = [Left EXCEPT ![t] = d]
  <2>1. \A u \in Terms : rtc_divider'[u] - rtc_counter'[u]
                           = IF u = t THEN d ELSE rtc_divider[u] - rtc_counter[u]
    BY <1>1, <1>2 DEF RtcInv, RtcTypeOK
  <2> QED
    BY <2>1 DEF Left
<1> QED
  BY <1>1, <1>3 DEF M!SetPeriod, Left, Periods

LEMMA InterruptTicks ==
    ASSUME RtcInv, RtcInterrupt
    PROVE  M!Tick
<1>1. \A t \in Terms : /\ rtc_divider[t] \in Nat /\ rtc_counter[t] \in Nat
                       /\ rtc_counter[t] < rtc_divider[t]
  BY DEF RtcInv, RtcTypeOK
<1>2. \A t \in Terms : Rings(t) <=> Left[t] = 1
  BY <1>1 DEF Rings, Left
<1>3. Left' = [t \in Terms |-> IF Left[t] = 1 THEN rtc_divider[t] ELSE Left[t] - 1]
  BY <1>1, <1>2 DEF Left, RtcInterrupt
<1>4. rtc_interrupt_received' = [t \in Terms |-> rtc_interrupt_received[t] \/ Left[t] = 1]
  BY <1>2 DEF RtcInterrupt
<1> QED
  BY <1>3, <1>4 DEF M!Tick, Left, RtcInterrupt

\* For all frequencies but INT_MIN the terminals have a metronome each, which
\* beats every rtc_divider interrupts and which no other terminal disturbs.
THEOREM RtcKeepsTime ==
    ASSUME INT_MIN \notin Frequencies
    PROVE  RtcSpec => ImplementsMetronomes
<1>1. RtcInit => M!MetronomesInit
  BY PeriodsPositive DEF RtcInit, M!MetronomesInit, Periods
<1>2. RtcInv /\ [RtcNext]_rtcVars => [M!MetronomesNext]_(M!metronomeVars)
  <2> SUFFICES ASSUME RtcInv, [RtcNext]_rtcVars PROVE [M!MetronomesNext]_(M!metronomeVars)
    OBVIOUS
  <2>1. active_terminal \in Terms /\ Following \in Terms
    BY FollowingIsTerminal DEF RtcInv, RtcTypeOK, TurnsTypeOK
  <2>2. CASE RtcInterrupt
    BY <2>2, InterruptTicks DEF M!MetronomesNext
  <2>3. CASE OpenOrClose \/ RtcWrite
    BY <2>1, <2>3, PeriodsPositive, AcceptedPeriod, SetDividerSetsPeriod
       DEF OpenOrClose, RtcWrite, M!MetronomesNext
  <2>4. CASE FinishRead
    <3>1. CASE rtc_interrupt_received[active_terminal]
      BY <2>1, <2>4, <3>1 DEF FinishRead, rateVars, M!MetronomesNext, M!TakeBeat
    <3>2. CASE ~rtc_interrupt_received[active_terminal]
      BY <2>1, <2>4, <3>2 DEF FinishRead, rateVars, RtcInv, RtcTypeOK, M!metronomeVars
    <3> QED
      BY <3>1, <3>2
  <2>5. CASE ScheduleAndKill
    <3>1. CASE SetDivider(Following, RTC_RATE \div 2)
      BY <2>1, <2>5, <3>1, PeriodsPositive, SetDividerSetsPeriod
         DEF ScheduleAndKill, M!MetronomesNext
    <3>2. CASE UNCHANGED rateVars
      BY <2>5, <3>2 DEF ScheduleAndKill, rateVars, M!metronomeVars
    <3> QED
      BY <2>5, <3>1, <3>2 DEF ScheduleAndKill
  <2>6. CASE StartRead \/ SeeInterrupt \/ BootShell \/ AskTerminal \/ ScheduleProcess
             \/ UNCHANGED rtcVars
    BY <2>6 DEF StartRead, SeeInterrupt, BootShell, AskTerminal, ScheduleProcess, rtcVars,
                rateVars, M!metronomeVars
  <2> QED
    BY <2>2, <2>3, <2>4, <2>5, <2>6 DEF RtcNext
<1>3. RtcSpec => []RtcInv
  BY RtcInitInv, RtcInductive, PTL DEF RtcSpec
<1> QED
  BY <1>1, <1>2, <1>3, PTL DEF RtcSpec, ImplementsMetronomes, M!MetronomesSpec

----------------------------------------------------------------------------
(* The controllers *)

\* The numbers of lines and contexts that the proofs compare.
LEMMA Numbers ==
    /\ PIT_IRQ \in MasterLines /\ KB_IRQ \in MasterLines /\ RTC_IRQ \notin MasterLines
    /\ KB_IRQ # PIT_IRQ /\ KB_IRQ # SLAVE_IRQ /\ KB_IRQ # RTC_IRQ
    /\ Entry # Nobody
    /\ \A t \in Terms : t # Nobody
BY TerminalsAssumption
   DEF PIT_IRQ, KB_IRQ, RTC_IRQ, SLAVE_IRQ, MasterLines, Entry, Nobody, Terms

\* The EOI of a handler takes exactly what its interrupt put in service.
LEMMA EoiMatches ==
    ASSUME NEW service, NEW irq, Served(irq) \cap service = {}
    PROVE  send_eoi(service \cup Served(irq), irq) = service
BY DEF send_eoi

\* Nobody can be in service at its own level when an interrupt is taken.
LEMMA KeyboardServedAlone ==
    ASSUME InServiceIsOwed, Interrupts(KB_IRQ)
    PROVE  isr = {} /\ owing = Nobody /\ ~lost
<1>1. ~(Level(KB_IRQ) < Level(KB_IRQ))
  BY Numbers DEF Level, KB_IRQ
<1>2. KB_IRQ \notin isr
  BY <1>1 DEF Interrupts
<1> QED
  BY <1>2 DEF InServiceIsOwed

\* Timer and RTC leave in service what was.
LEMMA AcknowledgeKeeps ==
    ASSUME InServiceIsOwed, NEW irq \in {PIT_IRQ, RTC_IRQ}, Acknowledge(irq)
    PROVE  isr' = isr
<1>1. Served(irq) \cap isr = {}
  BY Numbers DEF Served, InServiceIsOwed
<1> QED
  BY <1>1, EoiMatches DEF Acknowledge

LEMMA ForgetLoses ==
    ASSUME NEW c \in Terms \cup {Entry}, Forget(c), lost \in BOOLEAN
    PROVE  (owing' # Nobody \/ lost') <=> (owing # Nobody \/ lost)
BY Numbers DEF Forget

\* A context is one of a terminal or that of entry().
LEMMA HereIsContext ==
    ASSUME active_terminal \in Terms
    PROVE  Here \in Terms \cup {Entry} /\ Here # Nobody
BY Numbers DEF Here

----------------------------------------------------------------------------

\* Behind the controllers the RTC is the one of Rtc.
LEMMA InterruptsStepIsRtcStep ==
    ASSUME [InterruptsNext]_interruptVars
    PROVE  [RtcNext]_rtcVars
<1>1. CASE \E irq \in Devices : Raise(irq)
  BY <1>1 DEF Raise
<1>2. CASE SetUp
  BY <1>2 DEF SetUp
<1>3. CASE PitInterrupt
  BY <1>3 DEF PitInterrupt, RtcNext
<1>4. CASE KeyboardInterrupt
  BY <1>4 DEF KeyboardInterrupt, RtcNext
<1>5. CASE KeyboardEoi
  BY <1>5 DEF KeyboardEoi
<1>6. CASE RtcHandler
  BY <1>6 DEF RtcHandler, RtcNext
<1>7. CASE ProgramStep \/ \E t \in Terms : SeesInterrupt(t) \/ FinishesRead(t)
  BY <1>7 DEF ProgramStep, SeesInterrupt, FinishesRead, Runs, RtcNext
<1>8. CASE UNCHANGED interruptVars
  BY <1>8 DEF interruptVars
<1> QED
  BY <1>1, <1>2, <1>3, <1>4, <1>5, <1>6, <1>7, <1>8 DEF InterruptsNext

LEMMA InterruptsImplementRtc == InterruptsSpec => RtcSpec
<1>1. InterruptsInit => RtcInit
  BY DEF InterruptsInit
<1> QED
  BY <1>1, InterruptsStepIsRtcStep, PTL DEF InterruptsSpec, RtcSpec

\* Interrupts that are held back, merged or lost in the controllers do not let
\* the virtual RTC of a terminal depend on another: rtc_handler() divides the
\* interrupts that do arrive exactly.
THEOREM RtcKeepsTimeBehindControllers ==
    ASSUME INT_MIN \notin Frequencies
    PROVE  InterruptsSpec => ImplementsMetronomes
BY InterruptsImplementRtc, RtcKeepsTime

----------------------------------------------------------------------------

\* Before sti() nothing is owed, and after an EOI is lost nothing can be again:
\* IRQ 1 stays in service for good.
InterruptsInv ==
    /\ InServiceIsOwed
    /\ active_terminal \in Terms
    /\ lost \in BOOLEAN
    /\ stage # "on" => owing = Nobody /\ ~lost
    /\ lost => owing = Nobody

LEMMA InterruptsInitInv == InterruptsInit => InterruptsInv
<1> SUFFICES ASSUME InterruptsInit PROVE InterruptsInv
  OBVIOUS
<1>1. active_terminal \in Terms
  BY TerminalsAssumption DEF InterruptsInit, RtcInit, TurnsInit, Terms
<1>2. isr = {} /\ owing = Nobody /\ lost = FALSE
  BY DEF InterruptsInit
<1> QED
  BY <1>1, <1>2 DEF InterruptsInv, InServiceIsOwed

LEMMA TerminalKept ==
    ASSUME active_terminal \in Terms, [RtcNext]_rtcVars
    PROVE  active_terminal' \in Terms
<1>1. CASE RtcNext
  BY <1>1, FollowingIsTerminal
     DEF RtcNext, RtcInterrupt, OpenOrClose, RtcWrite, StartRead, SeeInterrupt, FinishRead,
         BootShell, AskTerminal, ScheduleProcess, ScheduleAndKill, Boot, Ask, Turn, turnVars
<1>2. CASE UNCHANGED rtcVars
  BY <1>2 DEF rtcVars, turnVars
<1> QED
  BY <1>1, <1>2

LEMMA InterruptsInductive ==
    InterruptsInv /\ [InterruptsNext]_interruptVars => InterruptsInv'
<1> SUFFICES ASSUME InterruptsInv, [InterruptsNext]_interruptVars PROVE InterruptsInv'
  OBVIOUS
<1>1. active_terminal' \in Terms
  BY InterruptsStepIsRtcStep, TerminalKept DEF InterruptsInv
<1>2. Following \in Terms /\ Here # Nobody
  BY FollowingIsTerminal, HereIsContext DEF InterruptsInv
<1>3. CASE \E irq \in Devices : Raise(irq)
  BY <1>1, <1>3 DEF Raise, InterruptsInv, InServiceIsOwed
<1>4. CASE SetUp
  <2>1. CASE i8259_init
    <3>1. owing' = Nobody /\ lost' = FALSE /\ isr' = {}
      BY <1>4, <2>1 DEF SetUp, i8259_init, InterruptsInv
    <3> QED
      BY <1>1, <3>1 DEF InterruptsInv, InServiceIsOwed
  <2>2. CASE EnableDevice \/ EnableInterrupts
    BY <1>1, <1>4, <2>2
       DEF SetUp, EnableDevice, EnableInterrupts, controllers, InterruptsInv, InServiceIsOwed
  <2> QED
    BY <1>4, <2>1, <2>2 DEF SetUp
<1>5. CASE PitInterrupt
  <2>1. isr' = isr
    BY <1>5, AcknowledgeKeeps DEF PitInterrupt, InterruptsInv
  <2>2. PICK c \in Terms \cup {Entry} : Forget(c)
    BY <1>2, <1>5 DEF PitInterrupt
  <2>3. stage' = "on"
    BY <1>5 DEF PitInterrupt, Interrupts, Acknowledge
  <2>4. lost' \in BOOLEAN
    BY <2>2 DEF Forget, InterruptsInv
  <2>5. lost' => owing' = Nobody
    BY <2>2 DEF Forget, InterruptsInv
  <2> QED
    BY <1>1, <2>1, <2>2, <2>3, <2>4, <2>5, ForgetLoses DEF InterruptsInv, InServiceIsOwed
<1>6. CASE KeyboardInterrupt
  <2>1. isr = {} /\ owing = Nobody /\ ~lost
    BY <1>6, KeyboardServedAlone DEF KeyboardInterrupt, InterruptsInv
  <2>2. stage' = "on" /\ owing' # Nobody /\ lost' = FALSE
    BY <1>2, <1>6, <2>1 DEF KeyboardInterrupt, Interrupts, InterruptsInv
  <2>3. isr' = {KB_IRQ}
    BY <1>6, <2>1, Numbers DEF KeyboardInterrupt, Served
  <2> QED
    BY <1>1, <2>2, <2>3 DEF InterruptsInv, InServiceIsOwed
<1>7. CASE KeyboardEoi
  <2>1. isr' = isr \ {KB_IRQ}
    BY <1>7, Numbers DEF KeyboardEoi, send_eoi, Served
  <2>2. owing # Nobody /\ owing' = Nobody /\ lost' = lost /\ stage' = stage
    BY <1>2, <1>7 DEF KeyboardEoi
  <2>3. stage = "on" /\ ~lost'
    BY <2>2 DEF InterruptsInv
  <2> QED
    BY <1>1, <2>1, <2>2, <2>3 DEF InterruptsInv, InServiceIsOwed
<1>8. CASE RtcHandler
  <2>1. isr' = isr
    BY <1>8, AcknowledgeKeeps DEF RtcHandler, InterruptsInv
  <2>2. UNCHANGED <<owing, lost, stage>>
    BY <1>8 DEF RtcHandler, Acknowledge
  <2> QED
    BY <1>1, <2>1, <2>2 DEF InterruptsInv, InServiceIsOwed
<1>9. CASE ProgramStep \/ \E t \in Terms : SeesInterrupt(t) \/ FinishesRead(t)
  <2>1. UNCHANGED <<isr, owing, lost, stage>>
    BY <1>9 DEF ProgramStep, SeesInterrupt, FinishesRead, Runs, controllers
  <2> QED
    BY <1>1, <2>1 DEF InterruptsInv, InServiceIsOwed
<1>10. CASE UNCHANGED interruptVars
  BY <1>1, <1>10 DEF interruptVars, controllers, InterruptsInv, InServiceIsOwed
<1> QED
  BY <1>3, <1>4, <1>5, <1>6, <1>7, <1>8, <1>9, <1>10 DEF InterruptsNext

\* For any number of terminals and any rate, a line is in service between two
\* handlers only for a keyboard handler that was suspended before its EOI or
\* killed there.
THEOREM InServiceAlwaysOwed == InterruptsSpec => []InServiceIsOwed
<1>1. InterruptsInv => InServiceIsOwed
  BY DEF InterruptsInv
<1> QED
  BY InterruptsInitInv, InterruptsInductive, <1>1, PTL DEF InterruptsSpec
=============================================================================
