---------------------------- MODULE TimerProofs ----------------------------
(***************************************************************************)
(* What holds of interrupt dispatch and of sleeping for every set of lines *)
(* and drivers, every width of the counters and every frequency.           *)
(***************************************************************************)
EXTENDS Timer, TLAPS

-----------------------------------------------------------------------------
(* Arithmetic of the counters                                              *)

LEMMA Remainder ==
  ASSUME NEW n \in Nat \ {0}, NEW x \in Int
  PROVE  /\ x % n \in 0..(n - 1)
         /\ 0 <= x /\ x < n => x % n = x
         /\ n <= x /\ x < 2 * n => x % n = x - n
         /\ -n <= x /\ x < 0 => x % n = x + n
OBVIOUS

LEMMA TicksInRange ==
  ASSUME NEW ms \in Nat, NEW frequency \in Nat
  PROVE  MsToTicks(ms, frequency) \in 0..(WIDTH - 1)
<1> DEFINE p == (ms * frequency) % WIDTH
<1>1. WIDTH \in Nat \ {0} /\ WIDTH > 1 /\ SECOND \in Nat \ {0} /\ ms * frequency \in Int
  BY TimerAssumption
<1>2. p \in 0..(WIDTH - 1)
  BY <1>1, Remainder
<1> HIDE DEF p
<1>3. p \div SECOND \in 0..p
  BY <1>1, <1>2
<1>4. MsToTicks(ms, frequency) = IF p \div SECOND = 0 THEN 1 ELSE p \div SECOND
  BY DEF MsToTicks, p
<1> QED
  BY <1>1, <1>2, <1>3, <1>4

-----------------------------------------------------------------------------
(* The invariant of dispatch                                               *)

\* Interrupts are on only when the tables and the controllers are set up.
BootInv ==
  /\ boot # "reset" => gates = GatesSet
  /\ boot \in {"pic", "timer", "running"} => offsets = [master |-> 32, slave |-> 40]
  /\ boot \in {"timer", "running"} => interrupt_handlers[32] = TimerDriver
  /\ boot # "running" => cpu = "main" /\ enabled = FALSE /\ pc = "run"
  /\ boot = "running" => (enabled = TRUE <=> cpu \in {"main", "hlt"})
  /\ \A v \in Vectors \ {32} : interrupt_handlers[v] # TimerDriver

\* What stands in service belongs to the interrupt being handled.
ServiceInv ==
  /\ cpu \in {"main", "hlt"} => service = {}
  /\ cpu = "stopped" => service = {} /\ int_no \in Exceptions
  /\ cpu = "isr" => \/ service = {} /\ int_no \in Exceptions
                    \/ \E line \in 0..15 : /\ int_no = 32 + line
                                           /\ service \subseteq {line, MasterLine(line)}

DispatchInv == TimerTypeOK /\ BootInv /\ ServiceInv

LEMMA VectorsAreSet ==
  /\ 0..47 \subseteq Vectors /\ GatesSet = 0..47 /\ Exceptions = 0..31
  /\ Vectors \subseteq Nat /\ 32 \in Vectors
BY InterruptsAssumption DEF Vectors, GatesSet, Exceptions

LEMMA VectorOfLine ==
  ASSUME NEW line \in 0..15, offsets = [master |-> 32, slave |-> 40]
  PROVE  Vector(line) = 32 + line
BY DEF Vector

LEMMA DispatchKept ==
  ASSUME DispatchInv, TimerTypeOK',
         UNCHANGED <<gates, interrupt_handlers, offsets, service, enabled, cpu, int_no, boot>>,
         boot # "running" => pc' = pc
  PROVE  DispatchInv'
BY DEF DispatchInv, BootInv, ServiceInv, Vectors

LEMMA RaiseStep ==
  ASSUME DispatchInv, Tick \/ Device
  PROVE  DispatchInv'
<1>1. PICK line \in Lines : Raise(line)
  BY TimerAssumption DEF Tick, Device, IRQ0
<1>2. request' \subseteq Lines
  BY <1>1 DEF Raise, DispatchInv, TimerTypeOK, InterruptsTypeOK
<1>3. /\ UNCHANGED <<gates, interrupt_handlers, offsets, masked, service, enabled, cpu, int_no>>
      /\ UNCHANGED <<timer_ticks, timer_frequency, slept, sleepVars, boot>>
      /\ looked' \in BOOLEAN
  BY <1>1 DEF Raise, Tick, Device, timerVars, DispatchInv, TimerTypeOK
<1>4. TimerTypeOK'
  BY <1>2, <1>3 DEF DispatchInv, TimerTypeOK, InterruptsTypeOK, sleepVars, Vectors
<1> QED
  BY <1>3, <1>4, DispatchKept DEF sleepVars

\* An interrupt comes to isr_handler, never to a vector without a gate.
LEMMA InterruptStep ==
  ASSUME DispatchInv, Interrupt
  PROVE  DispatchInv'
<1> USE DEF DispatchInv
<1>1. /\ cpu \in {"main", "hlt"} /\ enabled = TRUE
      /\ UNCHANGED <<gates, interrupt_handlers, offsets, masked, timerVars, sleepVars, boot>>
  BY DEF Interrupt, Accept, Spurious, TimerTypeOK, InterruptsTypeOK
<1>2. /\ boot = "running" /\ gates = GatesSet /\ offsets = [master |-> 32, slave |-> 40]
      /\ service = {}
  BY <1>1 DEF BootInv, ServiceInv, TimerTypeOK
<1>3. PICK line \in 0..15 : /\ Enter(Vector(line))
                            /\ service' \subseteq {line, MasterLine(line)}
                            /\ request' \subseteq request
  <2>1. CASE \E line \in Lines : Accept(line)
    BY <1>2, <2>1, InterruptsAssumption DEF Accept
  <2>2. CASE \E line \in {7, 15} : Spurious(line)
    BY <1>2, <2>2 DEF Spurious
  <2> QED
    BY <2>1, <2>2 DEF Interrupt
<1>4. Vector(line) = 32 + line
  BY <1>2, VectorOfLine
<1>5. cpu' = "isr" /\ int_no' = 32 + line /\ enabled' = FALSE /\ int_no' \in Vectors
  BY <1>2, <1>3, <1>4, VectorsAreSet DEF Enter
<1>6. service' \subseteq 0..15
  BY <1>3 DEF MasterLine, CASCADE
<1>7. TimerTypeOK'
  BY <1>1, <1>3, <1>5, <1>6 DEF TimerTypeOK, InterruptsTypeOK, timerVars, sleepVars, Vectors
<1>8. BootInv'
  BY <1>1, <1>2, <1>5 DEF BootInv, sleepVars, Vectors
<1>9. ServiceInv'
  BY <1>3, <1>5 DEF ServiceInv, MasterLine
<1> QED
  BY <1>7, <1>8, <1>9

LEMMA HighestOfOne ==
  ASSUME NEW b \in Int, NEW T, \A s \in T : s = b
  PROVE  Highest(T) = T
<1>1. \A a \in T : a \in Highest(T)
  BY DEF Highest
<1>2. \A a \in Highest(T) : a \in T
  BY DEF Highest
<1> QED
  BY <1>1, <1>2

\* The ends that are sent clear all that the interrupt put in service.
LEMMA AllEnded ==
  ASSUME NEW line \in 0..15, NEW bits, bits \subseteq {line, MasterLine(line)}
  PROVE  pic_send_eoi(line, bits) = {}
<1>1. CASE line < 8
  <2>1. \A s \in bits : s = line
    BY <1>1 DEF MasterLine
  <2> DEFINE low == {s \in bits : s < 8}
  <2>2. \A s \in low : s = line
    BY <2>1
  <2>3. \A s \in bits : s \in low
    BY <1>1, <2>1
  <2>4. EndMaster(bits) = bits \ Highest(low)
    BY DEF EndMaster
  <2> HIDE DEF low
  <2>5. Highest(low) = low
    BY <2>2, HighestOfOne
  <2>6. EndMaster(bits) = {}
    BY <2>3, <2>4, <2>5
  <2> QED
    BY <1>1, <2>6 DEF pic_send_eoi
<1>2. CASE line >= 8
  <2>1. \A s \in bits : s = line \/ s = 2
    BY <1>2 DEF MasterLine, CASCADE
  <2> DEFINE high == {s \in bits : s >= 8}
  <2>2. \A s \in high : s = line
    BY <1>2, <2>1
  <2>3. \A s \in bits : s \in high \/ s = 2
    BY <1>2, <2>1
  <2>4. EndSlave(bits) = bits \ Highest(high)
    BY DEF EndSlave
  <2> HIDE DEF high
  <2>5. Highest(high) = high
    BY <2>2, HighestOfOne
  <2> DEFINE rest == EndSlave(bits)
  <2>6. \A s \in rest : s = 2
    BY <2>3, <2>4, <2>5
  <2> HIDE DEF rest
  <2> DEFINE low == {s \in rest : s < 8}
  <2>7. (\A s \in low : s = 2) /\ (\A s \in rest : s \in low)
    BY <2>6
  <2>8. EndMaster(rest) = rest \ Highest(low)
    BY DEF EndMaster
  <2> HIDE DEF low
  <2>9. Highest(low) = low
    BY <2>7, HighestOfOne
  <2>10. EndMaster(rest) = {}
    BY <2>7, <2>8, <2>9
  <2> QED
    BY <1>2, <2>10 DEF pic_send_eoi, rest
<1> QED
  BY <1>1, <1>2

LEMMA IsrStep ==
  ASSUME DispatchInv, Isr
  PROVE  DispatchInv'
<1> USE DEF DispatchInv
<1>1. /\ cpu = "isr" /\ isr_handler
      /\ UNCHANGED <<gates, interrupt_handlers, offsets, masked, request, int_no,
                     timer_frequency, looked, sleepVars, boot>>
  BY DEF Isr, isr_handler
<1>2. boot = "running" /\ pc' = pc /\ end' = end /\ length' = length
  BY <1>1 DEF BootInv, TimerTypeOK, BootSteps, sleepVars
<1>3. timer_ticks' \in 0..(WIDTH - 1) /\ slept' \in 0..WIDTH
  <2>1. CASE timer_handler
    <3>1. (timer_ticks + 1) % WIDTH \in 0..(WIDTH - 1)
      BY TimerAssumption, Remainder DEF TimerTypeOK
    <3> QED
      BY <2>1, <3>1, TimerAssumption DEF timer_handler, TimerTypeOK
  <2>2. CASE UNCHANGED <<timer_ticks, slept>>
    BY <2>2 DEF TimerTypeOK
  <2> QED
    BY <2>1, <2>2 DEF Isr
<1>4. CASE int_no \in Exceptions
  <2>1. service = {}
    BY <1>1, <1>4, VectorsAreSet DEF ServiceInv
  <2>2. \/ cpu' = "stopped" /\ service' = service /\ enabled' = enabled
        \/ cpu' = "main" /\ service' = service /\ enabled' = TRUE
    BY <1>1, <1>4, VectorsAreSet DEF isr_handler
  <2>3. service' = {} /\ enabled' \in BOOLEAN
    BY <2>1, <2>2 DEF TimerTypeOK, InterruptsTypeOK
  <2>4. TimerTypeOK'
    BY <1>1, <1>2, <1>3, <2>2, <2>3 DEF TimerTypeOK, InterruptsTypeOK, Vectors
  <2>5. BootInv'
    BY <1>1, <1>2, <2>2 DEF BootInv, Vectors
  <2>6. ServiceInv'
    BY <1>1, <1>4, <2>2, <2>3, VectorsAreSet DEF ServiceInv
  <2> QED
    BY <2>4, <2>5, <2>6
<1>5. CASE int_no \notin Exceptions
  <2>1. PICK line \in 0..15 : int_no = 32 + line /\ service \subseteq {line, MasterLine(line)}
    BY <1>1, <1>5 DEF ServiceInv
  <2>2. cpu' = "main" /\ enabled' = TRUE /\ service' = pic_send_eoi(line, service)
    BY <1>1, <1>5, <2>1 DEF isr_handler
  <2>3. service' = {}
    BY <2>1, <2>2, AllEnded
  <2>4. TimerTypeOK'
    BY <1>1, <1>2, <1>3, <2>2, <2>3 DEF TimerTypeOK, InterruptsTypeOK, Vectors
  <2>5. BootInv'
    BY <1>1, <1>2, <2>2 DEF BootInv, Vectors
  <2>6. ServiceInv'
    BY <2>2, <2>3 DEF ServiceInv
  <2> QED
    BY <2>4, <2>5, <2>6
<1> QED
  BY <1>4, <1>5

LEMMA BootActions ==
  ASSUME DispatchInv, BootIdt \/ BootPic \/ timer_init \/ EnableInterrupts
  PROVE  DispatchInv'
<1> USE DEF DispatchInv
<1>1. /\ boot # "running" /\ cpu = "main" /\ enabled = FALSE /\ service = {}
      /\ pc = "run" /\ UNCHANGED <<sleepVars, timer_ticks, slept, looked, cpu, int_no>>
      /\ boot' \in {BootSteps[i] : i \in 1..5}
  BY DEF BootIdt, BootPic, timer_init, EnableInterrupts, AtBoot, Booted, MainRuns, idt_init, pic_init,
         timerVars, BootInv, ServiceInv, BootSteps
<1>2. NoHandler # TimerDriver /\ TimerDriver \in Drivers
  BY InterruptsAssumption, TimerAssumption
<1>3. CASE BootIdt
  <2>1. /\ gates' = GatesSet /\ interrupt_handlers' = [v \in Vectors |-> NoHandler]
        /\ boot' = "idt" /\ UNCHANGED <<offsets, masked, request, service, enabled, timer_frequency>>
    BY <1>3 DEF BootIdt, idt_init, Booted, picVars, timerVars
  <2>2. TimerTypeOK'
    BY <1>1, <2>1, VectorsAreSet DEF TimerTypeOK, InterruptsTypeOK, sleepVars, Vectors
  <2>3. BootInv' /\ ServiceInv'
    BY <1>1, <1>2, <2>1, VectorsAreSet DEF BootInv, ServiceInv, sleepVars
  <2> QED
    BY <2>2, <2>3
<1>4. CASE BootPic
  <2>1. /\ boot = "idt" /\ boot' = "pic" /\ pic_init
        /\ UNCHANGED <<gates, interrupt_handlers, enabled, timer_frequency>>
    BY <1>4 DEF BootPic, AtBoot, Booted, timerVars
  <2>2. /\ offsets' = [master |-> 32, slave |-> 40] /\ offsets' \in [master : Nat, slave : Nat]
        /\ masked' \subseteq 0..15 /\ request' = {} /\ service' = {}
    BY <2>1 DEF pic_init
  <2>3. TimerTypeOK'
    BY <1>1, <2>1, <2>2 DEF TimerTypeOK, InterruptsTypeOK, sleepVars, Vectors
  <2>4. BootInv' /\ ServiceInv'
    BY <1>1, <2>1, <2>2 DEF BootInv, ServiceInv, sleepVars, Vectors
  <2> QED
    BY <2>3, <2>4
<1>5. CASE timer_init
  <2>1. /\ boot = "pic" /\ boot' = "timer" /\ timer_frequency' \in 0..(WIDTH - 1)
        /\ interrupt_handlers' = [interrupt_handlers EXCEPT ![32] = TimerDriver]
        /\ UNCHANGED <<gates, offsets, masked, request, service, enabled>>
    BY <1>5, TimerAssumption
    DEF timer_init, AtBoot, Booted, register_interrupt_handler, picVars, IRQ0
  <2>2. /\ interrupt_handlers' \in [Vectors -> Drivers \cup {NoHandler}]
        /\ interrupt_handlers'[32] = TimerDriver
        /\ \A v \in Vectors \ {32} : interrupt_handlers'[v] = interrupt_handlers[v]
    BY <1>2, <2>1, VectorsAreSet DEF TimerTypeOK, InterruptsTypeOK
  <2>3. TimerTypeOK'
    BY <1>1, <2>1, <2>2 DEF TimerTypeOK, InterruptsTypeOK, sleepVars, Vectors
  <2>4. BootInv' /\ ServiceInv'
    BY <1>1, <2>1, <2>2 DEF BootInv, ServiceInv, sleepVars, Vectors
  <2> QED
    BY <2>3, <2>4
<1>6. CASE EnableInterrupts
  <2>1. /\ boot = "timer" /\ boot' = "running" /\ enabled' = TRUE
        /\ UNCHANGED <<gates, interrupt_handlers, offsets, masked, request, service, timer_frequency>>
    BY <1>6 DEF EnableInterrupts, AtBoot, Booted, picVars, timerVars
  <2>2. TimerTypeOK'
    BY <1>1, <2>1 DEF TimerTypeOK, InterruptsTypeOK, sleepVars, Vectors
  <2>3. BootInv' /\ ServiceInv'
    BY <1>1, <2>1 DEF BootInv, ServiceInv, sleepVars, Vectors
  <2> QED
    BY <2>2, <2>3
<1> QED
  BY <1>3, <1>4, <1>5, <1>6

LEMMA RunningActions ==
  ASSUME DispatchInv, OtherInit \/ Masks \/ Crash
  PROVE  DispatchInv'
<1> USE DEF DispatchInv
<1>1. /\ boot = "running" /\ cpu = "main" /\ pc = "run" /\ service = {} /\ gates = GatesSet
      /\ UNCHANGED <<boot, timerVars, sleepVars, gates, offsets, request, service>>
  BY DEF OtherInit, Masks, Crash, Running, AtBoot, MainRuns, SetMasks, pic_set_mask, pic_clear_mask,
         pic_disable, Fault, picVars, ServiceInv, BootInv
<1>2. CASE OtherInit
  <2>1. PICK line \in DOMAIN Others :
          interrupt_handlers' = [interrupt_handlers EXCEPT ![32 + line] = Others[line]]
    BY <1>2 DEF OtherInit, register_interrupt_handler
  <2>2. /\ 32 + line \in Vectors \ {32} /\ Others[line] \in Drivers \ {TimerDriver}
    <3>1. line \in Lines /\ line # 0 /\ Others[line] \in Drivers \ {TimerDriver}
      BY TimerAssumption DEF IRQ0
    <3>2. line \in 0..15
      BY <3>1, InterruptsAssumption
    <3> QED
      BY <3>1, <3>2, VectorsAreSet
  <2>3. /\ interrupt_handlers' \in [Vectors -> Drivers \cup {NoHandler}]
        /\ interrupt_handlers'[32] = interrupt_handlers[32]
        /\ \A v \in Vectors \ {32} : interrupt_handlers[v] # TimerDriver
                                       => interrupt_handlers'[v] # TimerDriver
    BY <2>1, <2>2, VectorsAreSet DEF TimerTypeOK, InterruptsTypeOK
  <2>4. UNCHANGED <<masked, enabled, cpu, int_no>>
    BY <1>2 DEF OtherInit, picVars
  <2>5. TimerTypeOK'
    BY <1>1, <2>3, <2>4 DEF TimerTypeOK, InterruptsTypeOK, sleepVars, timerVars, Vectors
  <2>6. BootInv' /\ ServiceInv'
    BY <1>1, <2>3, <2>4 DEF BootInv, ServiceInv, sleepVars, Vectors
  <2> QED
    BY <2>5, <2>6
<1>3. CASE Masks
  <2>1. \E irq \in 0..15 : masked' = masked \cup {irq} \/ masked' = masked \ {irq} \/ masked' = 0..15
    BY <1>3, InterruptsAssumption
    DEF Masks, pic_set_mask, pic_clear_mask, pic_disable, SetMasks, CASCADE
  <2>2. masked' \subseteq 0..15
    BY <2>1 DEF TimerTypeOK, InterruptsTypeOK
  <2>3. UNCHANGED <<interrupt_handlers, enabled, cpu, int_no>>
    BY <1>3 DEF Masks, pic_set_mask, pic_clear_mask, pic_disable, SetMasks
  <2>4. TimerTypeOK'
    BY <1>1, <2>2, <2>3 DEF TimerTypeOK, InterruptsTypeOK, sleepVars, timerVars, Vectors
  <2> QED
    BY <1>1, <2>3, <2>4, DispatchKept
<1>4. CASE Crash
  <2>1. /\ enabled' = FALSE /\ int_no' = 0 /\ cpu' = "isr"
        /\ UNCHANGED <<masked, interrupt_handlers>>
    BY <1>1, <1>4, VectorsAreSet DEF Crash, Fault, Enter, picVars
  <2>2. 0 \in Vectors /\ 0 \in Exceptions
    BY VectorsAreSet
  <2>3. TimerTypeOK'
    BY <1>1, <2>1, <2>2 DEF TimerTypeOK, InterruptsTypeOK, sleepVars, timerVars, Vectors
  <2>4. BootInv' /\ ServiceInv'
    BY <1>1, <2>1, <2>2 DEF BootInv, ServiceInv, sleepVars, Vectors
  <2> QED
    BY <2>3, <2>4
<1> QED
  BY <1>2, <1>3, <1>4

LEMMA SleepActions ==
  ASSUME DispatchInv, timer_sleep_ms \/ Look \/ Hlt
  PROVE  DispatchInv'
<1> USE DEF DispatchInv
<1>1. /\ cpu = "main" /\ pc' \in {"run", "compare", "hlt"} /\ looked' \in BOOLEAN
      /\ UNCHANGED <<gates, interrupt_handlers, offsets, masked, request, service, enabled, int_no,
                     timer_ticks, timer_frequency, boot>>
  BY DEF timer_sleep_ms, Look, Hlt, Running, AtBoot, MainRuns, isrVars, picVars, timerVars,
         TimerTypeOK
<1>2. boot = "running"
  BY DEF timer_sleep_ms, Look, Hlt, Running, AtBoot, BootInv
<1>3. cpu' \in {"main", "hlt"}
  BY <1>1 DEF timer_sleep_ms, Look, Hlt, isrVars
<1>4. length' \in 0..(WIDTH - 1) /\ end' \in 0..(WIDTH - 1) /\ slept' \in 0..WIDTH
  <2>1. CASE timer_sleep_ms
    <3>1. PICK ms \in Sleeps : length' = MsToTicks(ms, timer_frequency)
      BY <2>1 DEF timer_sleep_ms
    <3>2. length' \in 0..(WIDTH - 1)
      BY <3>1, TicksInRange, TimerAssumption DEF TimerTypeOK
    <3>3. (timer_ticks + length') % WIDTH \in 0..(WIDTH - 1)
      <4>1. timer_ticks + length' \in Int /\ WIDTH \in Nat \ {0}
        BY <3>2, TimerAssumption DEF TimerTypeOK
      <4> QED
        BY <4>1, Remainder
    <3> QED
      BY <2>1, <3>2, <3>3, TimerAssumption DEF timer_sleep_ms
  <2>2. CASE Look \/ Hlt
    BY <2>2 DEF Look, Hlt, timerVars, TimerTypeOK
  <2> QED
    BY <2>1, <2>2
<1>5. TimerTypeOK'
  BY <1>1, <1>3, <1>4 DEF TimerTypeOK, InterruptsTypeOK, Vectors
<1>6. BootInv' /\ ServiceInv'
  BY <1>1, <1>2, <1>3 DEF BootInv, ServiceInv, Vectors
<1> QED
  BY <1>5, <1>6

LEMMA DispatchInductive ==
  ASSUME DispatchInv, [Next]_vars
  PROVE  DispatchInv'
<1>1. CASE UNCHANGED vars
  BY <1>1 DEF DispatchInv, TimerTypeOK, InterruptsTypeOK, BootInv, ServiceInv, Vectors,
              vars, isrVars, picVars, timerVars, sleepVars
<1> QED
  BY <1>1, RaiseStep, InterruptStep, IsrStep, BootActions, RunningActions, SleepActions DEF Next

LEMMA DispatchInitially ==
  ASSUME Init
  PROVE  DispatchInv
<1>1. NoHandler # TimerDriver /\ TimerDriver \in Drivers /\ WIDTH \in Nat /\ WIDTH > 1 /\ 0 \in Vectors
  BY InterruptsAssumption, TimerAssumption, VectorsAreSet
<1>2. InterruptsTypeOK
  BY <1>1 DEF Init, InterruptsInit, InterruptsTypeOK
<1>3. TimerTypeOK
  BY <1>1, <1>2 DEF Init, TimerTypeOK, BootSteps
<1>4. BootInv /\ ServiceInv
  BY <1>1, VectorsAreSet DEF Init, InterruptsInit, BootInv, ServiceInv
<1> QED
  BY <1>3, <1>4 DEF DispatchInv

\* The tables, the registers and the counters stay in their ranges.
THEOREM TimerTypeCorrect == Spec => []TimerTypeOK
<1>1. DispatchInv => TimerTypeOK
  BY DEF DispatchInv
<1> QED
  BY <1>1, DispatchInitially, DispatchInductive, PTL DEF Spec

\* Every interrupt, a spurious one too, is ended at both controllers before the
\* main program goes on.
THEOREM EveryInterruptEnds == Spec => []NothingLeftInService
<1>1. DispatchInv => NothingLeftInService
  BY DEF DispatchInv, ServiceInv, NothingLeftInService
<1> QED
  BY <1>1, DispatchInitially, DispatchInductive, PTL DEF Spec

\* No device halts the machine, whichever lines have a handler.
THEOREM DevicesNeverStop == Spec => []OnlyFaultsStop
<1>1. DispatchInv => OnlyFaultsStop
  BY DEF DispatchInv, ServiceInv, OnlyFaultsStop
<1> QED
  BY <1>1, DispatchInitially, DispatchInductive, PTL DEF Spec

-----------------------------------------------------------------------------
(* How long a sleep lasts                                                  *)

\* The count n ticks after the start of the sleep, for n < WIDTH.
After(n) == IF Start + n < WIDTH THEN Start + n ELSE Start + n - WIDTH

InTimerIsr == cpu = "isr" /\ int_no = 32

\* A tick is pending, being handled, or may still come before the next look.
TickDue == 0 \in request \/ InTimerIsr \/ looked = TRUE \/ cpu = "hlt"

\* A sleeper that is about to look has at most one tick to come after its length,
\* and one that is about to halt has none.
Allowance == length + (IF pc = "compare" THEN 1 ELSE 0)
TicksLeft ==
  IF 0 \in masked THEN slept = 0 /\ ~InTimerIsr
  ELSE /\ 0 \in request => looked = FALSE
       /\ InTimerIsr => looked = FALSE /\ 0 \notin request
       /\ slept + (IF TickDue THEN 1 ELSE 0) <= Allowance

SleepInv ==
  pc # "run" => /\ slept < WIDTH => timer_ticks = After(slept)
                /\ EndsBefore(WIDTH - 1) => TicksLeft

LEMMA Numbers ==
  ASSUME TimerTypeOK
  PROVE  /\ WIDTH \in Nat \ {0} /\ WIDTH > 1
         /\ timer_ticks \in 0..(WIDTH - 1) /\ end \in 0..(WIDTH - 1) /\ length \in 0..(WIDTH - 1)
         /\ slept \in 0..WIDTH
         /\ Start = IF length <= end THEN end - length ELSE end - length + WIDTH
         /\ Start \in 0..(WIDTH - 1)
<1>1. /\ WIDTH \in Nat \ {0} /\ WIDTH > 1
      /\ timer_ticks \in 0..(WIDTH - 1) /\ end \in 0..(WIDTH - 1) /\ length \in 0..(WIDTH - 1)
      /\ slept \in 0..WIDTH
  BY TimerAssumption DEF TimerTypeOK
<1>2. Start = IF length <= end THEN end - length ELSE end - length + WIDTH
  <2>1. end - length \in Int /\ -WIDTH <= end - length /\ end - length < WIDTH
    BY <1>1
  <2>2. /\ 0 <= end - length => Start = end - length
        /\ end - length < 0 => Start = end - length + WIDTH
    BY <1>1, <2>1, Remainder DEF Start
  <2> QED
    BY <1>1, <2>2
<1> QED
  BY <1>1, <1>2

\* While the main program runs, no tick that it could take is pending.
LEMMA NoTickPending ==
  ASSUME DispatchInv, MainRuns, boot = "running", 0 \notin masked
  PROVE  0 \notin request
<1>1. enabled /\ service = {} /\ Deliverable = {}
  BY DEF DispatchInv, BootInv, ServiceInv, MainRuns
<1>2. MasterLine(0) = 0 /\ ~Held(0)
  BY <1>1 DEF MasterLine, Held
<1> QED
  BY <1>1, <1>2 DEF Deliverable

\* The comparison is true before the last tick, and false after it until the wrap.
LEMMA CompareTells ==
  ASSUME TimerTypeOK, SleepInv, pc # "run"
  PROVE  /\ EndsBefore(WIDTH) /\ slept < length => Compare
         /\ EndsBefore(WIDTH - 1) /\ slept <= length + 1 /\ Compare => slept < length
BY Numbers DEF SleepInv, After, EndsBefore, Compare

LEMMA SleepKept ==
  ASSUME SleepInv, pc' = pc,
         UNCHANGED <<timer_ticks, slept, end, length, masked, request, looked, cpu, int_no>>
  PROVE  SleepInv'
BY DEF SleepInv, TicksLeft, TickDue, InTimerIsr, Allowance, After, Start, EndsBefore

LEMMA SleepStarts ==
  ASSUME DispatchInv, DispatchInv', timer_sleep_ms
  PROVE  SleepInv'
<1>1. /\ end' = (timer_ticks + length') % WIDTH /\ slept' = 0 /\ pc' = "compare" /\ looked' = TRUE
      /\ UNCHANGED <<timer_ticks, masked, request, cpu, int_no, boot>>
      /\ MainRuns /\ boot = "running" /\ cpu = "main"
  BY DEF timer_sleep_ms, Running, AtBoot, isrVars, picVars, MainRuns
<1>2. /\ WIDTH \in Nat \ {0} /\ timer_ticks \in 0..(WIDTH - 1) /\ length' \in 0..(WIDTH - 1)
  BY TimerAssumption DEF DispatchInv, TimerTypeOK
<1>3. /\ timer_ticks + length' < WIDTH => end' = timer_ticks + length'
      /\ WIDTH <= timer_ticks + length' => end' = timer_ticks + length' - WIDTH
  <2> DEFINE x == timer_ticks + length'
  <2>1. x \in Int /\ 0 <= x /\ x < 2 * WIDTH
    <3>1. \A t, l \in 0..(WIDTH - 1) : t + l \in Int /\ 0 <= t + l /\ t + l < 2 * WIDTH
      BY <1>2
    <3> QED
      BY <1>2, <3>1
  <2>2. end' = x % WIDTH
    BY <1>1
  <2>3. /\ 0 <= x /\ x < WIDTH => x % WIDTH = x
        /\ WIDTH <= x /\ x < 2 * WIDTH => x % WIDTH = x - WIDTH
    <3> HIDE DEF x
    <3> QED
      BY <1>2, <2>1, Remainder
  <2> HIDE DEF x
  <2>4. /\ x < WIDTH => end' = x
        /\ WIDTH <= x => end' = x - WIDTH
    BY <2>1, <2>2, <2>3
  <2>5. x = timer_ticks + length'
    BY DEF x
  <2>6. ASSUME timer_ticks + length' < WIDTH
        PROVE  end' = timer_ticks + length'
    BY <2>4, <2>5, <2>6
  <2>7. ASSUME WIDTH <= timer_ticks + length'
        PROVE  end' = timer_ticks + length' - WIDTH
    <3>1. end' = x - WIDTH
      BY <2>4, <2>5, <2>7
    <3>2. \A t, l \in 0..(WIDTH - 1) : (t + l) - WIDTH = t + l - WIDTH
      BY <1>2
    <3> QED
      BY <1>2, <2>5, <3>1, <3>2
  <2> QED
    BY <2>6, <2>7
<1>4. Start' = (end' - length') % WIDTH
  BY DEF Start
<1>5. Start' = timer_ticks
  <2> DEFINE y == end' - length'
  <2>1. y \in Int /\ (y = timer_ticks \/ y = timer_ticks - WIDTH)
    <3>1. \A t, l \in 0..(WIDTH - 1) : \A e :
             (/\ t + l < WIDTH => e = t + l
              /\ WIDTH <= t + l => e = t + l - WIDTH)
             => e - l \in Int /\ (e - l = t \/ e - l = t - WIDTH)
      BY <1>2
    <3> QED
      BY <1>2, <1>3, <3>1
  <2>2. Start' = y % WIDTH
    BY <1>4
  <2>3. /\ 0 <= y /\ y < WIDTH => y % WIDTH = y
        /\ -WIDTH <= y /\ y < 0 => y % WIDTH = y + WIDTH
    <3> HIDE DEF y
    <3> QED
      BY <1>2, <2>1, Remainder
  <2> HIDE DEF y
  <2> QED
    BY <1>2, <2>1, <2>2, <2>3
<1>6. timer_ticks' = After(slept)'
  BY <1>1, <1>2, <1>5 DEF After
<1>7. 0 \notin masked' => 0 \notin request'
  BY <1>1, NoTickPending
<1>8. slept' = 0 /\ pc' = "compare" /\ cpu' = "main" /\ length' >= 0
  BY <1>1, <1>2
<1>9. Allowance' = length' + 1 /\ ~InTimerIsr'
  BY <1>8 DEF Allowance, InTimerIsr
<1>10. TicksLeft'
  <2>1. slept' + (IF TickDue' THEN 1 ELSE 0) <= Allowance'
    <3>1. Allowance' = length' + 1 /\ length' \in Nat /\ slept' = 0
      BY <1>2, <1>8, <1>9
    <3>2. (IF TickDue' THEN 1 ELSE 0) \in {0, 1}
      OBVIOUS
    <3>3. \A l \in Nat, i \in {0, 1} : 0 + i <= l + 1
      OBVIOUS
    <3> QED
      BY <3>1, <3>2, <3>3
  <2> QED
    BY <1>1, <1>7, <1>8, <1>9, <2>1 DEF TicksLeft
<1> QED
  BY <1>6, <1>10 DEF SleepInv

LEMMA SleepLooks ==
  ASSUME DispatchInv, DispatchInv', SleepInv, Look
  PROVE  /\ SleepInv'
         /\ Returns => /\ EndsBefore(WIDTH) => slept >= length
                       /\ EndsBefore(WIDTH - 1) => slept <= length + 1
<1>1. /\ MainRuns /\ cpu = "main" /\ pc = "compare" /\ looked' = TRUE
      /\ pc' = IF Compare THEN "hlt" ELSE "run"
      /\ UNCHANGED <<timer_ticks, slept, end, length, masked, request, cpu, int_no, boot>>
  BY DEF Look, MainRuns, isrVars, picVars
<1>2. boot = "running" /\ TimerTypeOK
  BY <1>1 DEF DispatchInv, BootInv
<1>3. EndsBefore(WIDTH - 1) => slept <= length + 1
  BY <1>1, <1>2, Numbers DEF SleepInv, TicksLeft, Allowance
<1>4. pc' = "hlt" /\ EndsBefore(WIDTH - 1) => slept < length
  BY <1>1, <1>2, <1>3, CompareTells
<1>5. pc' = "run" /\ EndsBefore(WIDTH) => slept >= length
  BY <1>1, <1>2, CompareTells, Numbers
<1>6. pc' = "hlt" /\ EndsBefore(WIDTH - 1) => TicksLeft'
  <2>1. 0 \notin masked => 0 \notin request
    BY <1>1, <1>2, NoTickPending
  <2> QED
    BY <1>1, <1>2, <1>4, <2>1, Numbers DEF SleepInv, TicksLeft, Allowance, InTimerIsr, TickDue
<1>7. After(slept)' = After(slept) /\ EndsBefore(WIDTH - 1)' = EndsBefore(WIDTH - 1)
  BY <1>1 DEF After, Start, EndsBefore
<1>8. SleepInv'
  BY <1>1, <1>6, <1>7 DEF SleepInv
<1> QED
  BY <1>1, <1>3, <1>5, <1>8 DEF Returns

LEMMA SleepHalts ==
  ASSUME DispatchInv, DispatchInv', SleepInv, Hlt
  PROVE  SleepInv'
<1>1. /\ MainRuns /\ cpu = "main" /\ pc = "hlt" /\ pc' = "compare" /\ cpu' = "hlt"
      /\ UNCHANGED <<timer_ticks, slept, looked, end, length, masked, request, int_no>>
  BY DEF Hlt, MainRuns, picVars, timerVars
<1>2. boot = "running" /\ TimerTypeOK
  BY <1>1 DEF DispatchInv, BootInv
<1>3. 0 \notin masked => 0 \notin request
  BY <1>1, <1>2, NoTickPending
<1>4. TicksLeft => TicksLeft'
  BY <1>1, <1>2, <1>3, Numbers DEF TicksLeft, Allowance, InTimerIsr, TickDue
<1>5. After(slept)' = After(slept) /\ EndsBefore(WIDTH - 1)' = EndsBefore(WIDTH - 1)
  BY <1>1 DEF After, Start, EndsBefore
<1> QED
  BY <1>1, <1>4, <1>5 DEF SleepInv

LEMMA SleepRaises ==
  ASSUME DispatchInv, SleepInv, Tick \/ Device
  PROVE  SleepInv'
<1>1. UNCHANGED <<timer_ticks, slept, pc, end, length, masked, cpu, int_no>>
  BY DEF Tick, Device, Raise, sleepVars, timerVars
<1>2. After(slept)' = After(slept) /\ EndsBefore(WIDTH - 1)' = EndsBefore(WIDTH - 1)
  BY <1>1 DEF After, Start, EndsBefore
<1>3. CASE Tick
  <2>1. /\ looked = TRUE \/ cpu = "hlt" \/ pc = "run"
        /\ request' = request \cup {0} /\ looked' = FALSE
    BY <1>3 DEF Tick, Raise, IRQ0, DispatchInv, TimerTypeOK
  <2>2. pc # "run" /\ TicksLeft => TicksLeft'
    BY <1>1, <2>1 DEF TicksLeft, Allowance, InTimerIsr, TickDue
  <2> QED
    BY <1>1, <1>2, <2>2 DEF SleepInv
<1>4. CASE Device
  <2>1. (0 \in request' <=> 0 \in request) /\ looked' = looked
    BY <1>4 DEF Device, Raise, IRQ0, timerVars
  <2>2. TicksLeft => TicksLeft'
    BY <1>1, <2>1 DEF TicksLeft, Allowance, InTimerIsr, TickDue
  <2> QED
    BY <1>1, <1>2, <2>2 DEF SleepInv
<1> QED
  BY <1>3, <1>4

\* An interrupt that is not the timer's leaves its request alone.
LEMMA SleepInterrupted ==
  ASSUME DispatchInv, DispatchInv', SleepInv, Interrupt
  PROVE  SleepInv'
<1>1. /\ UNCHANGED <<timer_ticks, slept, looked, pc, end, length, masked>>
      /\ cpu \in {"main", "hlt"} /\ cpu' # "hlt" /\ request' \subseteq request
  BY DEF Interrupt, Accept, Spurious, Enter, sleepVars, timerVars
<1>2. pc # "run" => boot = "running" /\ offsets = [master |-> 32, slave |-> 40] /\ service = {}
  BY <1>1 DEF DispatchInv, BootInv, ServiceInv
<1>3. After(slept)' = After(slept) /\ EndsBefore(WIDTH - 1)' = EndsBefore(WIDTH - 1)
  BY <1>1 DEF After, Start, EndsBefore
<1>4. ASSUME pc # "run"
      PROVE  \/ int_no' = 32 /\ 0 \in request /\ 0 \notin masked /\ 0 \notin request'
             \/ int_no' # 32 /\ (0 \in request' <=> 0 \in request)
  <2>1. CASE \E line \in Lines : Accept(line)
    <3>1. PICK line \in Lines : Accept(line)
      BY <2>1
    <3>2. /\ line \in 0..15 /\ line \in request \ masked
          /\ int_no' = Vector(line) /\ request' = request \ {line}
      BY <3>1, InterruptsAssumption DEF Accept, Enter, Highest, Deliverable
    <3>3. Vector(line) = 32 + line
      BY <1>2, <1>4, <3>2 DEF Vector
    <3> QED
      BY <3>2, <3>3
  <2>2. CASE \E line \in {7, 15} : Spurious(line)
    <3>1. PICK line \in {7, 15} : Spurious(line)
      BY <2>2
    <3>2. int_no' = Vector(line) /\ request' = request
      BY <3>1 DEF Spurious, Enter
    <3>3. Vector(line) = 32 + line
      BY <1>2, <1>4, <3>1 DEF Vector
    <3> QED
      BY <3>1, <3>2, <3>3
  <2> QED
    BY <2>1, <2>2 DEF Interrupt
<1>5. pc # "run" /\ TicksLeft => TicksLeft'
  BY <1>1, <1>4, Numbers DEF TicksLeft, Allowance, InTimerIsr, TickDue, DispatchInv
<1> QED
  BY <1>1, <1>3, <1>5 DEF SleepInv

LEMMA SleepCounts ==
  ASSUME DispatchInv, DispatchInv', SleepInv, Isr
  PROVE  SleepInv'
<1>1. /\ UNCHANGED <<looked, pc, end, length, masked, request, int_no>>
      /\ cpu = "isr" /\ cpu' \in {"main", "stopped"}
  BY DEF Isr, isr_handler, sleepVars
<1>2. pc # "run" => boot = "running" /\ interrupt_handlers[32] = TimerDriver
  BY DEF DispatchInv, BootInv
<1>3. Start' = Start /\ Allowance' = Allowance /\ EndsBefore(WIDTH - 1)' = EndsBefore(WIDTH - 1)
  BY <1>1 DEF Start, EndsBefore, Allowance
<1>4. CASE int_no = 32 /\ pc # "run"
  <2>1. /\ timer_ticks' = (timer_ticks + 1) % WIDTH
        /\ slept' = IF slept < WIDTH THEN slept + 1 ELSE slept
    BY <1>2, <1>4 DEF Isr, HandlerOf, timer_handler
  <2>2. /\ WIDTH \in Nat \ {0} /\ WIDTH > 1 /\ timer_ticks \in 0..(WIDTH - 1)
        /\ slept \in 0..WIDTH /\ Start \in 0..(WIDTH - 1)
    BY Numbers DEF DispatchInv
  <2>3. timer_ticks' = IF timer_ticks + 1 < WIDTH THEN timer_ticks + 1 ELSE 0
    <3>1. /\ timer_ticks + 1 \in Int /\ 0 <= timer_ticks + 1
          /\ timer_ticks + 1 < WIDTH \/ timer_ticks + 1 = WIDTH
      BY <2>2
    <3>2. /\ timer_ticks + 1 < WIDTH => timer_ticks' = timer_ticks + 1
          /\ timer_ticks + 1 = WIDTH => timer_ticks' = timer_ticks + 1 - WIDTH
      <4> DEFINE n == timer_ticks + 1
      <4>1. n \in Int /\ 0 <= n /\ n < 2 * WIDTH
        BY <2>2
      <4> HIDE DEF n
      <4>2. /\ n < WIDTH => n % WIDTH = n
            /\ WIDTH <= n => n % WIDTH = n - WIDTH
        BY <2>2, <4>1, Remainder
      <4>3. timer_ticks' = n % WIDTH
        BY <2>1 DEF n
      <4>4. /\ n < WIDTH => timer_ticks' = n
            /\ n = WIDTH => timer_ticks' = n - WIDTH
        BY <2>2, <4>1, <4>2, <4>3
      <4> QED
        BY <2>2, <4>4 DEF n
    <3> QED
      BY <2>2, <3>1, <3>2
  <2>4. slept < WIDTH => timer_ticks = After(slept)
    BY <1>4 DEF SleepInv
  <2>5. slept' < WIDTH => timer_ticks' = After(slept)'
    BY <1>3, <2>1, <2>2, <2>3, <2>4 DEF After
  <2>6. EndsBefore(WIDTH - 1) => TicksLeft'
    <3>1. Allowance \in Nat
      BY Numbers DEF Allowance, DispatchInv
    <3>2. ASSUME EndsBefore(WIDTH - 1)
          PROVE  0 \notin masked /\ looked = FALSE /\ 0 \notin request /\ slept + 1 <= Allowance
      BY <1>1, <1>4, <3>2 DEF SleepInv, TicksLeft, TickDue, InTimerIsr
    <3>3. ~InTimerIsr' /\ cpu' # "hlt"
      BY <1>1 DEF InTimerIsr
    <3>4. ASSUME EndsBefore(WIDTH - 1)
          PROVE  ~TickDue'
      BY <1>1, <3>2, <3>3, <3>4 DEF TickDue
    <3>5. slept' <= slept + 1
      BY <2>1, <2>2
    <3>6. ASSUME EndsBefore(WIDTH - 1)
          PROVE  slept' + (IF TickDue' THEN 1 ELSE 0) <= Allowance'
      BY <1>3, <2>1, <2>2, <3>1, <3>2, <3>4, <3>5, <3>6
    <3> QED
      BY <1>1, <3>2, <3>3, <3>6 DEF TicksLeft
  <2> QED
    BY <1>3, <2>5, <2>6 DEF SleepInv
<1>5. CASE int_no # 32 /\ pc # "run"
  <2>1. int_no \in Vectors \ {32}
    BY <1>5 DEF DispatchInv, TimerTypeOK, InterruptsTypeOK
  <2>2. HandlerOf(int_no) # TimerDriver
    BY <2>1 DEF HandlerOf, DispatchInv, BootInv
  <2>3. timer_ticks' = timer_ticks /\ slept' = slept
    BY <2>2 DEF Isr
  <2>4. After(slept)' = After(slept)
    BY <1>3, <2>3 DEF After
  <2>5. TicksLeft => TicksLeft'
    BY <1>1, <1>3, <1>5, <2>3, Numbers DEF TicksLeft, TickDue, InTimerIsr, DispatchInv
  <2> QED
    BY <1>1, <1>3, <2>3, <2>4, <2>5 DEF SleepInv
<1>6. CASE pc = "run"
  BY <1>1, <1>6 DEF SleepInv
<1> QED
  BY <1>4, <1>5, <1>6

\* Nothing else happens during a sleep.
LEMMA NotAsleep ==
  ASSUME DispatchInv,
         BootIdt \/ BootPic \/ timer_init \/ EnableInterrupts \/ OtherInit \/ Masks \/ Crash
  PROVE  pc = "run" /\ pc' = "run"
<1>1. boot # "running" => pc = "run"
  BY DEF DispatchInv, BootInv
<1>2. CASE BootIdt \/ BootPic \/ timer_init \/ EnableInterrupts
  BY <1>1, <1>2 DEF BootIdt, BootPic, timer_init, EnableInterrupts, AtBoot, Booted, sleepVars
<1>3. CASE OtherInit \/ Masks \/ Crash
  BY <1>3 DEF OtherInit, Masks, Crash, Running, sleepVars
<1> QED
  BY <1>2, <1>3

LEMMA SleepInductive ==
  ASSUME DispatchInv, DispatchInv', SleepInv, [Next]_vars
  PROVE  /\ SleepInv'
         /\ Returns => /\ EndsBefore(WIDTH) => slept >= length
                       /\ EndsBefore(WIDTH - 1) => slept <= length + 1
<1>1. CASE UNCHANGED vars
  BY <1>1, SleepKept DEF vars, isrVars, picVars, timerVars, sleepVars, Returns
<1>2. CASE BootIdt \/ BootPic \/ timer_init \/ EnableInterrupts \/ OtherInit \/ Masks \/ Crash
  BY <1>2, NotAsleep DEF SleepInv, Returns
<1>3. CASE Tick \/ Device
  <2>1. ~Returns
    BY <1>3 DEF Tick, Device, sleepVars, Returns
  <2> QED
    BY <1>3, <2>1, SleepRaises
<1>4. CASE Interrupt
  <2>1. ~Returns
    BY <1>4 DEF Interrupt, sleepVars, Returns
  <2> QED
    BY <1>4, <2>1, SleepInterrupted
<1>5. CASE Isr
  <2>1. ~Returns
    BY <1>5 DEF Isr, sleepVars, Returns
  <2> QED
    BY <1>5, <2>1, SleepCounts
<1>6. CASE timer_sleep_ms
  <2>1. ~Returns
    BY <1>6 DEF timer_sleep_ms, Running, Returns
  <2> QED
    BY <1>6, <2>1, SleepStarts
<1>7. CASE Look
  BY <1>7, SleepLooks
<1>8. CASE Hlt
  <2>1. ~Returns
    BY <1>8 DEF Hlt, Returns
  <2> QED
    BY <1>8, <2>1, SleepHalts
<1> QED
  BY <1>1, <1>2, <1>3, <1>4, <1>5, <1>6, <1>7, <1>8 DEF Next

\* A sleep of n ticks whose end is reached before the count wraps returns after n
\* or n + 1 ticks, whichever interrupts come between.
THEOREM SleepsLastAsAsked == Spec => SleepLasts
<1> DEFINE Lasts == Returns => /\ EndsBefore(WIDTH) => slept >= length
                               /\ EndsBefore(WIDTH - 1) => slept <= length + 1
<1>1. Init => DispatchInv /\ SleepInv
  BY DispatchInitially DEF Init, SleepInv
<1>2. DispatchInv /\ SleepInv /\ [Next]_vars => DispatchInv' /\ SleepInv'
  BY DispatchInductive, SleepInductive
<1>3. DispatchInv /\ SleepInv /\ [Next]_vars => [Lasts]_vars
  BY DispatchInductive, SleepInductive
<1>4. SleepLasts <=> [][Lasts]_vars
  BY DEF SleepLasts
<1> HIDE DEF Lasts
<1> QED
  BY <1>1, <1>2, <1>3, <1>4, PTL DEF Spec
=============================================================================
