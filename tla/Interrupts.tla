----------------------------- MODULE Interrupts -----------------------------
(***************************************************************************)
(* How the requests of the timer, the keyboard and the RTC reach their     *)
(* handlers: entry() sets up the IDT and the two interrupt controllers, and*)
(* from sti() on the handlers run between any two steps of the programs    *)
(* that wait for the RTC (Rtc).  The gates are interrupt gates: a handler  *)
(* is one step, up to the sti() in the keyboard's, which comes before its  *)
(* send_eoi().                                                             *)
(***************************************************************************)
EXTENDS Rtc

PIT_IRQ == 0
KB_IRQ == 1
SLAVE_IRQ == 2        \* the line of the first controller the second is wired to
RTC_IRQ == 8
Devices == {PIT_IRQ, KB_IRQ, RTC_IRQ}
MasterLines == 0 .. 7
SlaveLines == 8 .. 15

Entry == -1           \* the context of entry(), until it is left
Nobody == -2

VARIABLES
    stage,   \* what entry() does next
    mask,    \* master_mask and slave_mask: the lines inhibited by the kernel
    imr,     \* the lines the controllers inhibit
    irr,     \* latched requests
    isr,     \* lines in service: accepted, and no EOI yet
    owing,   \* the context whose keyboard handler is between sti and send_eoi
    lost     \* history: such a context was killed, or left for good

controllers == <<mask, imr, irr, isr>>
interruptVars == <<rtcVars, stage, controllers, owing, lost>>

InterruptsTypeOK ==
    /\ RtcTypeOK
    /\ stage \in {"i8259_init", "keyboard_init", "rtc_init", "pit_init", "sti", "on"}
    /\ mask \subseteq MasterLines \cup SlaveLines
    /\ imr \subseteq MasterLines \cup SlaveLines
    /\ irr \subseteq Devices
    /\ isr \subseteq Devices \cup {SLAVE_IRQ}
    /\ owing \in Terms \cup {Entry, Nobody}
    /\ lost \in BOOLEAN

InterruptsInit ==
    /\ RtcInit
    /\ stage = "i8259_init"
    /\ mask = MasterLines \cup SlaveLines
    /\ imr = {} /\ irr = {} /\ isr = {}
    /\ owing = Nobody
    /\ lost = FALSE

----------------------------------------------------------------------------
(* The interrupt controllers *)

Lines(irq) == IF irq \in MasterLines THEN MasterLines ELSE SlaveLines

\* Mutant: = for &=.
EnabledAlone(lines, irq) == (lines \ Lines(irq)) \cup (Lines(irq) \ {irq})

Enabled(lines, irq) == lines \ {irq}

\* Writes the mask of one controller.
enable_irq(irq) ==
    /\ mask' = Enabled(mask, irq)
    /\ imr' = (imr \ Lines(irq)) \cup (mask' \cap Lines(irq))

\* The lines an interrupt puts in service.
Served(irq) == IF irq \in MasterLines THEN {irq} ELSE {irq, SLAVE_IRQ}

\* Mutant: the second controller gets its EOI and the first does not.
send_eoi_to_one(service, irq) == service \ {irq}

send_eoi(service, irq) == service \ Served(irq)

Level(irq) == IF irq \in MasterLines THEN irq ELSE SLAVE_IRQ

\* A device raises its line.  The controllers latch the edge, masked or not.
\* The RTC needs its status register C read first, and interrupts once it is
\* told to.
Raise(irq) ==
    /\ irq \notin irr
    /\ irq = RTC_IRQ => stage \in {"pit_init", "sti", "on"}
    /\ irr' = irr \cup {irq}
    /\ UNCHANGED <<rtcVars, stage, mask, imr, isr, owing, lost>>

\* The controllers pass a request on to the CPU, which takes it.
Interrupts(irq) ==
    /\ stage = "on"
    /\ irq \in irr
    /\ Served(irq) \cap imr = {}
    /\ \A line \in isr : Level(irq) < Level(line)
    /\ \A other \in irr :
           Level(other) < Level(irq) => Served(other) \cap imr # {}

\* The handlers of idt_initialize(): the controllers have vectors 32 to 47.
idt == [vector \in 0 .. 255 |->
           CASE vector = 32 -> "pit_handler"
             [] vector = 33 -> "asm_keyboard"
             [] vector = 40 -> "asm_rtc"
             [] vector = 128 -> "sys_call_linkage"
             [] vector \in (0 .. 19) \ {15} -> "exception"
             [] OTHER -> "none"]

Handler(irq) == idt[32 + irq]

----------------------------------------------------------------------------
(* entry(), with interrupts off *)

\* ICW1 clears both masks and all requests; then only the first controller gets
\* a mask, and line 2 of it is enabled.
i8259_init ==
    /\ stage = "i8259_init"
    /\ mask' = Enabled(MasterLines \cup (mask \ MasterLines), SLAVE_IRQ)
    /\ imr' = mask' \cap MasterLines
    /\ irr' = {} /\ isr' = {}
    /\ stage' = "keyboard_init"

\* keyboard_init(), rtc_init() and pit_init() enable their lines.
EnableDevice ==
    /\ UNCHANGED <<irr, isr>>
    /\ \/ stage = "keyboard_init" /\ enable_irq(KB_IRQ) /\ stage' = "rtc_init"
       \/ stage = "rtc_init" /\ enable_irq(RTC_IRQ) /\ stage' = "pit_init"
       \/ stage = "pit_init" /\ enable_irq(PIT_IRQ) /\ stage' = "sti"

EnableInterrupts ==
    /\ stage = "sti"
    /\ stage' = "on"
    /\ UNCHANGED controllers

SetUp ==
    /\ i8259_init \/ EnableDevice \/ EnableInterrupts
    /\ UNCHANGED <<rtcVars, owing, lost>>

----------------------------------------------------------------------------
(* The handlers *)

\* The context that has the CPU.
Here == IF started = {} THEN Entry ELSE active_terminal

\* The context c is gone, with the EOI it may owe.
Forget(c) ==
    /\ owing' = IF owing = c THEN Nobody ELSE owing
    /\ lost' = (lost \/ owing = c)

\* A handler that sends its EOI before anything can interrupt it.
Acknowledge(irq) ==
    /\ irr' = irr \ {irq}
    /\ isr' = send_eoi(isr \cup Served(irq), irq)
    /\ UNCHANGED <<stage, mask, imr>>

\* schedule_process().  The first tick leaves the context of entry() for good,
\* if that has not launched the first shell.
PitInterrupt ==
    /\ Interrupts(PIT_IRQ) /\ Handler(PIT_IRQ) = "pit_handler"
    /\ Acknowledge(PIT_IRQ)
    /\ \/ ScheduleProcess /\ Forget(Entry)
       \/ ScheduleAndKill /\ Forget(Following)

\* keyboard_handler() up to its sti().  Keys other than Alt+Fn change nothing
\* that is modelled here.
KeyboardInterrupt ==
    /\ Interrupts(KB_IRQ) /\ Handler(KB_IRQ) = "asm_keyboard"
    /\ irr' = irr \ {KB_IRQ}
    /\ isr' = isr \cup Served(KB_IRQ)
    /\ owing' = Here
    /\ AskTerminal \/ UNCHANGED rtcVars
    /\ UNCHANGED <<stage, mask, imr, lost>>

KeyboardEoi ==
    /\ owing = Here
    /\ isr' = send_eoi(isr, KB_IRQ)
    /\ owing' = Nobody
    /\ UNCHANGED <<rtcVars, stage, mask, imr, irr, lost>>

RtcHandler ==
    /\ Interrupts(RTC_IRQ) /\ Handler(RTC_IRQ) = "asm_rtc"
    /\ Acknowledge(RTC_IRQ)
    /\ RtcInterrupt
    /\ UNCHANGED <<owing, lost>>

----------------------------------------------------------------------------
(* What is interrupted: entry() and the programs *)

Runs(Step) ==
    /\ stage = "on" /\ owing # Here
    /\ Step
    /\ UNCHANGED <<stage, controllers, owing, lost>>

ProgramStep ==
    \/ Runs(BootShell)
    \/ Runs(OpenOrClose)
    \/ Runs(RtcWrite)
    \/ Runs(StartRead)

SeesInterrupt(t) == active_terminal = t /\ Runs(SeeInterrupt)
FinishesRead(t) == active_terminal = t /\ Runs(FinishRead)

InterruptsNext ==
    \/ \E irq \in Devices : Raise(irq)
    \/ SetUp
    \/ PitInterrupt
    \/ KeyboardInterrupt
    \/ KeyboardEoi
    \/ RtcHandler
    \/ ProgramStep
    \/ \E t \in Terms : SeesInterrupt(t) \/ FinishesRead(t)

InterruptsSpec == InterruptsInit /\ [][InterruptsNext]_interruptVars

\* entry() goes on; PIT and RTC keep raising their lines and users may stop
\* typing; the CPU takes what the controllers pass on.  A tick is rare compared
\* to the steps of the context it interrupts: what a handler or a program could
\* do turn after turn it does.
FairInterrupts ==
    /\ InterruptsSpec
    /\ WF_interruptVars(SetUp)
    /\ WF_interruptVars(Raise(PIT_IRQ))
    /\ WF_interruptVars(Raise(RTC_IRQ))
    /\ WF_interruptVars(PitInterrupt)
    /\ SF_interruptVars(KeyboardInterrupt)
    /\ SF_interruptVars(RtcHandler)
    /\ SF_interruptVars(KeyboardEoi)
    /\ \A t \in Terms : SF_interruptVars(SeesInterrupt(t) \/ FinishesRead(t))

----------------------------------------------------------------------------

\* Whenever a program runs, a line is in service only while a handler of the
\* keyboard, on whatever stack it was suspended, will still send the EOI, or
\* because that handler was killed; and no other line ever is.
InServiceIsOwed ==
    isr = IF owing # Nobody \/ lost THEN {KB_IRQ} ELSE {}

\* A key is always taken in the end, whatever terminal its predecessor's handler
\* was suspended at, unless that handler was killed.
KeysServed == KB_IRQ \in irr ~> (KB_IRQ \notin irr \/ lost)

\* i8259_init() promises to "mask all interrupts on PIC", and the masks of the
\* kernel say so; the second controller has no line masked until rtc_init().
MasksWritten == stage # "i8259_init" => imr = mask

\* When the user pauses, every program that waits for its virtual interrupt gets
\* it, or is killed: neither the other terminals nor an interrupt between the
\* look at the flag and its clearing takes it away, and a suspended keyboard
\* handler, which holds the RTC back, goes on.  Only its kill stops the RTC.
ReaderReturns ==
    <>[](KB_IRQ \notin irr) =>
        \A t \in Terms : reader[t] = "spinning" ~> (reader[t] = "idle" \/ lost)
=============================================================================
