----------------------------- MODULE Interrupts -----------------------------
(***************************************************************************)
(* Interrupt dispatch: the descriptor table and the table of handlers of   *)
(* arch/i386/idt.c, isr_handler of isr.c and the two controllers that      *)
(* pic.c programs.  The controllers, the processor's acceptance of an      *)
(* interrupt and the assembly stub that calls isr_handler are external.    *)
(*                                                                         *)
(* Every gate is an interrupt gate: isr_handler runs with interrupts off   *)
(* and is one step.  The source has no caller of these functions; the main *)
(* program here calls idt_init, then pic_init, and enables interrupts last.*)
(***************************************************************************)
EXTENDS Integers

CONSTANTS
  IDT_ENTRIES,         \* 256
  Lines,               \* the request lines with a device, among 0..15
  Drivers,             \* the handlers that drivers register
  NoHandler            \* NULL

ASSUME InterruptsAssumption ==
  /\ IDT_ENTRIES \in Nat /\ IDT_ENTRIES >= 48
  /\ Lines \subseteq 0..15 \ {2}
  /\ NoHandler \notin Drivers

VARIABLES
  gates,               \* the vectors with a present entry in idt
  interrupt_handlers,
  offsets,             \* the vector offsets of the master and the slave
  masked,              \* the lines masked at the controllers
  request, service,    \* their request and in-service registers
  enabled,             \* the processor's interrupt flag
  cpu,                 \* "main", "hlt" (waiting), "isr" or "stopped"
  int_no               \* the vector isr_handler was called for

picVars == <<offsets, masked, request, service>>
isrVars == <<gates, interrupt_handlers, picVars, enabled, cpu, int_no>>

Vectors == 0..(IDT_ENTRIES - 1)
Exceptions == 0..31
CASCADE == 2           \* the line of the master that the slave is wired to

-----------------------------------------------------------------------------
(* The controllers                                                         *)

MasterLine(line) == IF line >= 8 THEN CASCADE ELSE line

Vector(line) == IF line >= 8 THEN offsets.slave + line - 8 ELSE offsets.master + line

\* A line in service holds back its own and every lower priority.
Held(line) ==
  \E s \in service : IF s < 8 THEN s <= MasterLine(line) ELSE line >= s

Deliverable ==
  {line \in request \ masked : MasterLine(line) \notin masked /\ ~Held(line)}

\* Lower numbers first; the slave's lines stand at the cascade line.
Before(a, b) == \/ MasterLine(a) < MasterLine(b)
                \/ MasterLine(a) = MasterLine(b) /\ a < b
Highest(lines) == {a \in lines : \A b \in lines \ {a} : Before(a, b)}

\* A non-specific end of interrupt clears the highest bit in service.
EndMaster(bits) == bits \ Highest({s \in bits : s < 8})
EndSlave(bits) == bits \ Highest({s \in bits : s >= 8})

Raise(line) ==
  /\ line \notin request
  /\ request' = request \cup {line}
  /\ UNCHANGED <<gates, interrupt_handlers, offsets, masked, service, enabled, cpu, int_no>>

-----------------------------------------------------------------------------
(* pic.c                                                                   *)

\* Mutant: the controllers keep the offsets of the firmware.
PicInitUnmapped ==
  /\ masked' = (0..15) \ {0, 1, CASCADE, 12}
  /\ request' = {} /\ service' = {} /\ UNCHANGED offsets

\* Initialisation clears the registers; 0xF8 and 0xEF leave IRQ 0, 1, 2 and 12 open.
pic_init ==
  /\ offsets' = [master |-> 32, slave |-> 40]
  /\ masked' = (0..15) \ {0, 1, CASCADE, 12}
  /\ request' = {} /\ service' = {}

\* Mutant: the end of a slave's interrupt is not sent to the master.
EoiOnce(irq, bits) == IF irq >= 8 THEN EndSlave(bits) ELSE EndMaster(bits)
pic_send_eoi(irq, bits) == EndMaster(IF irq >= 8 THEN EndSlave(bits) ELSE bits)

\* pic_set_mask, pic_clear_mask and pic_disable; no handler calls them.
SetMasks(lines) ==
  /\ masked' = lines
  /\ UNCHANGED <<gates, interrupt_handlers, offsets, request, service, enabled, cpu, int_no>>
pic_set_mask(irq) == SetMasks(masked \cup {irq})
pic_clear_mask(irq) == SetMasks(masked \ {irq})
pic_disable == SetMasks(0..15)

-----------------------------------------------------------------------------
(* idt.c                                                                   *)

GatesSet == 0..47

idt_init ==
  /\ gates' = GatesSet
  /\ interrupt_handlers' = [v \in Vectors |-> NoHandler]
  /\ UNCHANGED <<picVars, enabled, cpu, int_no>>

register_interrupt_handler(n, handler) ==
  interrupt_handlers' = [interrupt_handlers EXCEPT ![n] = handler]

-----------------------------------------------------------------------------
(* The processor and isr.c                                                 *)

Enter(vector) ==
  /\ enabled' = FALSE
  /\ int_no' = vector
  /\ cpu' = IF vector \in gates THEN "isr" ELSE "stopped"

\* Between two instructions, or in HLT, the processor takes the highest
\* request that the controllers let through.
Accept(line) ==
  /\ cpu \in {"main", "hlt"} /\ enabled
  /\ line \in Highest(Deliverable)
  /\ Enter(Vector(line))
  /\ request' = request \ {line}
  /\ service' = service \cup {line, MasterLine(line)}
  /\ UNCHANGED <<gates, interrupt_handlers, offsets, masked>>

\* An instruction of the main program runs only when no request gets through.
MainRuns == cpu = "main" /\ (enabled => Deliverable = {})

\* A request that is withdrawn too late, with no other to take its place: the
\* controller names its last line and marks nothing in service but, at the
\* master, the cascade.
Spurious(line) ==
  /\ cpu \in {"main", "hlt"} /\ enabled
  /\ line \in {7, 15} /\ ~Held(line) /\ Deliverable = {}
  /\ Enter(Vector(line))
  /\ service' = service \cup ({MasterLine(line)} \ {line})
  /\ UNCHANGED <<gates, interrupt_handlers, offsets, masked, request>>

\* An exception in the main program.
Fault(vector) ==
  /\ MainRuns /\ vector \in Exceptions
  /\ Enter(vector)
  /\ UNCHANGED <<gates, interrupt_handlers, picVars>>

HandlerOf(vector) == interrupt_handlers[vector]

\* isr_handler and the return from the interrupt, which ends a HLT; what the
\* handler does to its driver is conjoined by the module of the driver.
isr_handler ==
  /\ cpu = "isr"
  /\ IF HandlerOf(int_no) = NoHandler /\ int_no \in Exceptions
     THEN cpu' = "stopped" /\ UNCHANGED <<service, enabled>>
     ELSE /\ cpu' = "main" /\ enabled' = TRUE
          /\ service' = IF int_no \in 32..47 THEN pic_send_eoi(int_no - 32, service)
                        ELSE service
  /\ UNCHANGED <<gates, interrupt_handlers, offsets, masked, request, int_no>>

-----------------------------------------------------------------------------
\* What the firmware leaves: no table, its own offsets, every line open.
InterruptsInit ==
  /\ gates = {} /\ interrupt_handlers = [v \in Vectors |-> NoHandler]
  /\ offsets = [master |-> 8, slave |-> 112]
  /\ masked = {} /\ request = {} /\ service = {}
  /\ enabled = FALSE /\ cpu = "main" /\ int_no = 0

InterruptsTypeOK ==
  /\ gates \subseteq Vectors
  /\ interrupt_handlers \in [Vectors -> Drivers \cup {NoHandler}]
  /\ offsets \in [master : Nat, slave : Nat]
  /\ masked \subseteq 0..15 /\ request \subseteq Lines /\ service \subseteq 0..15
  /\ enabled \in BOOLEAN
  /\ cpu \in {"main", "hlt", "isr", "stopped"} /\ int_no \in Vectors

\* Whenever the main program runs, both controllers have been told of the end of
\* every interrupt, the spurious ones included: an end sent to one controller
\* only would shut out every interrupt of lower priority for good.
NothingLeftInService == cpu \in {"main", "hlt"} => service = {}

\* A device never stops the machine: isr_handler halts only for an exception,
\* never for an interrupt that arrives at an exception's vector or has no gate.
OnlyFaultsStop == cpu = "stopped" => int_no \in Exceptions /\ service = {}
=============================================================================
