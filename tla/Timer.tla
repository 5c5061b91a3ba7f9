------------------------------- MODULE Timer -------------------------------
(***************************************************************************)
(* The timer driver of drivers/timer.c on top of interrupt dispatch: IRQ0  *)
(* counts ticks, and the main program sleeps by comparing the count with a *)
(* target, halting the processor between two looks.                        *)
(*                                                                         *)
(* The comparison and the HLT are two steps, between which any interrupt   *)
(* may come; the end of a sleep is computed modulo the width of the count. *)
(***************************************************************************)
EXTENDS Interrupts

CONSTANTS
  WIDTH,               \* the counts are uint32_t: 2^32
  SECOND,              \* milliseconds in a second: 1000
  Sleeps,              \* the milliseconds that programs sleep
  Frequencies,         \* the frequencies that timer_init is called with
  TimerDriver,         \* timer_handler
  Others               \* the other lines' handlers, [some lines -> Drivers]

IRQ0 == 0

ASSUME TimerAssumption ==
  /\ WIDTH \in Nat /\ WIDTH > 1 /\ SECOND \in Nat \ {0}
  /\ Sleeps \subseteq 0..(WIDTH - 1) /\ Frequencies \subseteq 1..(WIDTH - 1)
  /\ IRQ0 \in Lines /\ TimerDriver \in Drivers
  /\ DOMAIN Others \subseteq Lines \ {IRQ0}
  /\ \A line \in DOMAIN Others : Others[line] \in Drivers \ {TimerDriver}

VARIABLES
  timer_ticks, timer_frequency,
  boot,                \* what the main program has set up
  pc,                  \* "run", or where it is in timer_sleep_ticks
  end,                 \* the target of the sleep
  length, slept,       \* the ticks asked for, and those since, up to WIDTH
  looked               \* the main program has compared since the last tick

timerVars == <<timer_ticks, timer_frequency, slept, looked>>
sleepVars == <<pc, end, length>>
vars == <<isrVars, timerVars, sleepVars, boot>>

BootSteps == <<"reset", "idt", "pic", "timer", "running">>

-----------------------------------------------------------------------------
(* The interrupt                                                           *)

timer_handler ==
  /\ timer_ticks' = (timer_ticks + 1) % WIDTH
  /\ slept' = IF pc = "run" THEN 0 ELSE IF slept < WIDTH THEN slept + 1 ELSE slept

\* The other handlers change their own drivers only.
Isr ==
  /\ isr_handler
  /\ IF HandlerOf(int_no) = TimerDriver THEN timer_handler
     ELSE UNCHANGED <<timer_ticks, slept>>
  /\ UNCHANGED <<timer_frequency, looked, sleepVars, boot>>

\* The timer is slower than the main program: between two ticks a sleeper compares
\* or is back in HLT.  Other devices interrupt at any moment.
Tick ==
  /\ looked \/ cpu = "hlt" \/ pc = "run"
  /\ Raise(IRQ0)
  /\ looked' = FALSE
  /\ UNCHANGED <<timer_ticks, timer_frequency, slept, sleepVars, boot>>

Device ==
  /\ \E line \in Lines \ {IRQ0} : Raise(line)
  /\ UNCHANGED <<timerVars, sleepVars, boot>>

Interrupt ==
  /\ \/ \E line \in Lines : Accept(line)
     \/ \E line \in {7, 15} : Spurious(line)
  /\ UNCHANGED <<timerVars, sleepVars, boot>>

-----------------------------------------------------------------------------
(* The main program                                                        *)

AtBoot(step) == MainRuns /\ boot = step
Booted(step) == boot' = step /\ UNCHANGED sleepVars

BootIdt == AtBoot("reset") /\ idt_init /\ Booted("idt") /\ UNCHANGED timerVars
BootPic ==
  /\ AtBoot("idt") /\ pic_init /\ Booted("pic")
  /\ UNCHANGED <<timerVars, gates, interrupt_handlers, enabled, cpu, int_no>>

\* timer_init; the divisor is sent to the external interval timer.
timer_init ==
  /\ AtBoot("pic") /\ Booted("timer")
  /\ timer_frequency' \in Frequencies
  /\ register_interrupt_handler(32 + IRQ0, TimerDriver)
  /\ UNCHANGED <<timer_ticks, slept, looked, gates, picVars, enabled, cpu, int_no>>

EnableInterrupts ==
  /\ AtBoot("timer") /\ Booted("running") /\ enabled' = TRUE
  /\ UNCHANGED <<timerVars, gates, interrupt_handlers, picVars, cpu, int_no>>

Running == AtBoot("running") /\ pc = "run"

\* Another driver registers, before or after the first of its interrupts.
OtherInit ==
  /\ Running
  /\ \E line \in DOMAIN Others : register_interrupt_handler(32 + line, Others[line])
  /\ UNCHANGED <<timerVars, sleepVars, boot, gates, picVars, enabled, cpu, int_no>>

Masks ==
  /\ Running
  /\ \/ \E irq \in Lines \cup {CASCADE} : pic_set_mask(irq) \/ pic_clear_mask(irq)
     \/ pic_disable
  /\ UNCHANGED <<timerVars, sleepVars, boot>>

Crash ==
  /\ Running /\ Fault(0)
  /\ UNCHANGED <<timerVars, sleepVars, boot>>

\* The product wraps before the division; a sleep is at least one tick.
MsToTicks(ms, frequency) ==
  LET ticks == ((ms * frequency) % WIDTH) \div SECOND
  IN  IF ticks = 0 THEN 1 ELSE ticks

\* Mutant: the loop runs up to the end and over it.
CompareInclusive == timer_ticks <= end
\* Mutant: the loop waits for the very value of the end.
CompareEqual == timer_ticks # end
Compare == timer_ticks < end

\* timer_sleep_ms and the entry of timer_sleep_ticks.
timer_sleep_ms ==
  /\ Running /\ timer_frequency # 0
  /\ \E ms \in Sleeps : length' = MsToTicks(ms, timer_frequency)
  /\ end' = (timer_ticks + length') % WIDTH
  /\ slept' = 0 /\ pc' = "compare" /\ looked' = TRUE
  /\ UNCHANGED <<isrVars, timer_ticks, timer_frequency, boot>>

\* while (timer_ticks < end)
Look ==
  /\ MainRuns /\ pc = "compare"
  /\ looked' = TRUE
  /\ pc' = IF Compare THEN "hlt" ELSE "run"
  /\ UNCHANGED <<isrVars, timer_ticks, timer_frequency, slept, end, length, boot>>

\* The processor waits; any interrupt takes it back to the comparison.
Hlt ==
  /\ MainRuns /\ pc = "hlt"
  /\ cpu' = "hlt" /\ pc' = "compare"
  /\ UNCHANGED <<gates, interrupt_handlers, picVars, enabled, int_no,
                 timerVars, end, length, boot>>

-----------------------------------------------------------------------------
Init ==
  /\ InterruptsInit
  /\ timer_ticks = 0 /\ timer_frequency = 0 /\ slept = 0 /\ looked = TRUE
  /\ boot = "reset" /\ pc = "run" /\ end = 0 /\ length = 0

Next ==
  \/ BootIdt \/ BootPic \/ timer_init \/ EnableInterrupts
  \/ Tick \/ Device \/ Interrupt \/ Isr
  \/ OtherInit \/ Masks \/ Crash
  \/ timer_sleep_ms \/ Look \/ Hlt

Spec == Init /\ [][Next]_vars

\* The main program goes on when interrupts let it, and the interval timer never
\* stops.
FairSpec ==
  /\ Spec
  /\ SF_vars(Look) /\ SF_vars(Hlt)
  /\ WF_vars(Isr) /\ WF_vars(Interrupt) /\ WF_vars(Tick)

-----------------------------------------------------------------------------
TimerTypeOK ==
  /\ InterruptsTypeOK
  /\ timer_ticks \in 0..(WIDTH - 1) /\ timer_frequency \in 0..(WIDTH - 1)
  /\ end \in 0..(WIDTH - 1) /\ length \in 0..(WIDTH - 1)
  /\ slept \in 0..WIDTH /\ looked \in BOOLEAN
  /\ boot \in {BootSteps[i] : i \in 1..5}
  /\ pc \in {"run", "compare", "hlt"}

Returns == pc = "compare" /\ pc' = "run"

\* The count at the start of the sleep, and whether there is room after its end.
Start == (end - length) % WIDTH
EndsBefore(limit) == Start + length < limit

\* A sleep of n ticks returns after n of them, and after n + 1 at the latest,
\* the one too many when a tick comes between the comparison and the HLT; unless
\* its end wraps (then it returns at once) or is the last value before the wrap
\* (then the tick that is missed costs a whole turn of the counter).
SleepLasts ==
  [][Returns => /\ EndsBefore(WIDTH) => slept >= length
                /\ EndsBefore(WIDTH - 1) => slept <= length + 1]_vars

\* A sleep ends, whatever the other devices do, while the timer's line is open:
\* unless their interrupts leave the main program no instruction for ever, or
\* its end is the last value before the wrap, which it may miss on every turn.
SleepEnds ==
  \/ <>[]~(MainRuns \/ cpu = "hlt")
  \/ (pc # "run" /\ IRQ0 \notin masked /\ EndsBefore(WIDTH - 1)) ~> (pc = "run")
=============================================================================
