------------------------------- MODULE Mouse -------------------------------
(***************************************************************************)
(* The PS/2 mouse driver of drivers/mouse.c.  mouse_init talks to the 8042 *)
(* controller by polling, with interrupts off; afterwards IRQ12 collects   *)
(* three bytes to a packet and moves the cursor, between any two steps of  *)
(* the main program, which sets the position and the bounds and copies the *)
(* state when it finds it changed.                                         *)
(*                                                                         *)
(* The controller, the mouse and the keyboard handler that empties the     *)
(* same output buffer are external.  Bytes of packets may be lost, every   *)
(* answer may come after the driver has given up waiting, and a key may be *)
(* struck at any time.                                                     *)
(***************************************************************************)
EXTENDS Integers, Sequences

CONSTANTS
  Sizes,               \* the [x, y] that bounds are set to
  Positions,           \* the [x, y] that the cursor is set to
  Packets,             \* what the mouse sends, three bytes each
  Scancodes,           \* what the keyboard sends
  Leftovers,           \* what the data port may hold when no byte has come
  ACK, CommandByte     \* 0xFA; the controller's command byte at boot

Bytes == 0..255

ASSUME MouseAssumption ==
  /\ Sizes \subseteq [x : Nat \ {0}, y : Nat \ {0}]
  /\ \A p \in Positions : p.x \in Int /\ p.y \in Int
  /\ Packets \subseteq Bytes \X Bytes \X Bytes
  /\ Scancodes \subseteq Bytes /\ Leftovers \subseteq Bytes
  /\ ACK \in Bytes /\ CommandByte \in Bytes

VARIABLES
  output,              \* the controller's output buffer: NoByte or [from, byte]
  replies,             \* answers on their way to it
  wire,                \* the bytes of a packet on their way
  command_byte, reporting,
  request,             \* IRQ12 at the interrupt controllers
  registered, enabled, \* mouse_handler is registered, interrupts are on
  max, mouse_packet, mouse_state, state_changed,
  pc, arg,             \* the main program, and the argument of its call
  copy,                \* what it last read of the state
  rebounded,           \* the bounds were set since the last read
  slip,                \* answers mouse_init went on without, less bytes lost, modulo 3
  misread              \* mouse_init took another byte for the command byte

deviceVars == <<output, replies, wire, command_byte, reporting, request>>
driverVars == <<max, mouse_packet, mouse_state, state_changed>>
mainVars == <<registered, enabled, pc, arg, copy, rebounded>>
ghostVars == <<slip, misread>>
vars == <<deviceVars, driverVars, mainVars, ghostVars>>

\* No call is under way: a parameter ends with its call.
NoArg == [x |-> 0, y |-> 0]
NoByte == [from |-> "none", byte |-> 0]
Bit(byte, mask) == (byte \div mask) % 2 = 1
SetBit(byte, mask) == IF Bit(byte, mask) THEN byte ELSE byte + mask
ClearBit(byte, mask) == IF Bit(byte, mask) THEN byte - mask ELSE byte

-----------------------------------------------------------------------------
(* The devices                                                             *)

\* A byte reaches the empty output buffer; those of the mouse raise IRQ12 if
\* the command byte says so.
Arrive(from, byte) ==
  /\ output = NoByte
  /\ output' = [from |-> from, byte |-> byte]
  /\ request' = (request \/ (from = "mouse" /\ Bit(command_byte, 2)))

SendReply ==
  /\ replies # <<>> /\ Arrive(Head(replies).from, Head(replies).byte)
  /\ replies' = Tail(replies)
  /\ UNCHANGED <<wire, command_byte, reporting, driverVars, mainVars, ghostVars>>

StartPacket ==
  /\ reporting /\ wire = <<>> /\ wire' \in Packets
  /\ UNCHANGED <<output, replies, command_byte, reporting, request, driverVars, mainVars, ghostVars>>

SendByte ==
  /\ wire # <<>> /\ replies = <<>> /\ Arrive("mouse", Head(wire))
  /\ wire' = Tail(wire)
  /\ UNCHANGED <<replies, command_byte, reporting, driverVars, mainVars, ghostVars>>

LoseByte ==
  /\ wire # <<>> /\ wire' = Tail(wire) /\ slip' = (slip - 1) % 3
  /\ UNCHANGED <<output, replies, command_byte, reporting, request, driverVars, mainVars, misread>>

Key ==
  /\ \E s \in Scancodes : Arrive("key", s)
  /\ UNCHANGED <<replies, wire, command_byte, reporting, driverVars, mainVars, ghostVars>>

\* IRQ1, which a late answer of the controller raises as a key does, and
\* keyboard_handler, which takes the byte.
KeyInterrupt ==
  /\ enabled /\ output.from \in {"key", "controller"} /\ Bit(command_byte, 1)
  /\ output' = NoByte
  /\ UNCHANGED <<replies, wire, command_byte, reporting, request, driverVars, mainVars, ghostVars>>

-----------------------------------------------------------------------------
(* mouse_handler                                                           *)

Max0(n) == IF n < 0 THEN 0 ELSE n
Below(n, limit) == IF n >= limit THEN limit - 1 ELSE n
\* Mutant: the lower bound is not checked.
ClampUpperOnly(n, limit) == Below(n, limit)
Clamp(n, limit) == Below(Max0(n), limit)

\* The sign of a movement stands in the first byte.
Delta(flags, sign, byte) == IF Bit(flags, sign) THEN byte - 256 ELSE byte

Valid(packet) ==
  Bit(packet[1], 8) /\ ~Bit(packet[1], 64) /\ ~Bit(packet[1], 128)

\* Mutant: only a movement counts as a change.
ApplyMoves(packet) ==
  /\ mouse_state' = [x |-> Clamp(mouse_state.x + Delta(packet[1], 16, packet[2]), max.x),
                     y |-> Clamp(mouse_state.y - Delta(packet[1], 32, packet[3]), max.y),
                     left |-> Bit(packet[1], 1)]
  /\ state_changed' = (state_changed \/ packet[2] # 0 \/ packet[3] # 0)

Apply(packet) ==
  /\ mouse_state' = [x |-> Clamp(mouse_state.x + Delta(packet[1], 16, packet[2]), max.x),
                     y |-> Clamp(mouse_state.y - Delta(packet[1], 32, packet[3]), max.y),
                     left |-> Bit(packet[1], 1)]
  /\ state_changed' = TRUE

\* Mutant: the index is reset only after the checks.
CollectLateReset(packet) ==
  IF Len(packet) < 3 \/ ~Valid(packet)
  THEN mouse_packet' = packet /\ UNCHANGED <<mouse_state, state_changed>>
  ELSE mouse_packet' = <<>> /\ Apply(packet)

\* mouse_packet holds the mouse_cycle bytes collected so far.
Collect(packet) ==
  IF Len(packet) < 3
  THEN mouse_packet' = packet /\ UNCHANGED <<mouse_state, state_changed>>
  ELSE /\ mouse_packet' = <<>>
       /\ IF Valid(packet) THEN Apply(packet) ELSE UNCHANGED <<mouse_state, state_changed>>

mouse_handler ==
  /\ enabled /\ request /\ registered
  /\ Collect(Append(mouse_packet, output.byte))
  /\ output' = NoByte /\ request' = FALSE
  /\ UNCHANGED <<replies, wire, command_byte, reporting, max, mainVars, ghostVars>>

-----------------------------------------------------------------------------
(* mouse_init                                                              *)

At(step, next) == pc = step /\ pc' = next
Answer(from, byte) == replies' = Append(replies, [from |-> from, byte |-> byte])

\* The bounds, the centre, and the command to read the command byte.
InitStart ==
  /\ At("boot", "read command byte")
  /\ max' \in Sizes
  /\ mouse_state' = [mouse_state EXCEPT !.x = max'.x \div 2, !.y = max'.y \div 2]
  /\ Answer("controller", command_byte)
  /\ UNCHANGED <<output, wire, command_byte, reporting, request, mouse_packet, state_changed,
                 registered, enabled, arg, copy, rebounded, ghostVars>>

\* mouse_read: the byte that has come, whoever sent it, and reading it withdraws
\* IRQ12; or mouse_wait_read gives up after 100000 looks, and the port is read
\* all the same.
mouse_read ==
  \/ output # NoByte /\ output' = NoByte /\ request' = FALSE
  \/ output = NoByte /\ UNCHANGED <<output, request>>
Read == IF output = NoByte THEN Leftovers ELSE {output.byte}

\* Mutant: the interrupt of the mouse is not enabled.
StatusWithoutIrq(status) == ClearBit(status, 32)
NewStatus(status) == ClearBit(SetBit(status, 2), 32)

\* Write the new command byte, then the command for the default settings.
InitCommandByte ==
  /\ At("read command byte", "read ack of defaults")
  /\ mouse_read /\ misread' = (output.from # "controller")
  /\ \E status \in Read : command_byte' = NewStatus(status)
  /\ Answer("mouse", ACK)
  /\ UNCHANGED <<wire, reporting, driverVars, registered, enabled, arg, copy, rebounded, slip>>

\* What is read for an acknowledgement is not looked at.
ReadAck ==
  /\ mouse_read
  /\ slip' = IF output.from = "mouse" THEN slip ELSE (slip + 1) % 3

InitDefaults ==
  /\ At("read ack of defaults", "read ack of reporting")
  /\ ReadAck /\ Answer("mouse", ACK) /\ reporting' = TRUE
  /\ UNCHANGED <<wire, command_byte, driverVars, registered, enabled, arg, copy, rebounded, misread>>

\* The last acknowledgement, and the handler is registered.
InitReporting ==
  /\ At("read ack of reporting", "initialised")
  /\ ReadAck /\ registered' = TRUE
  /\ UNCHANGED <<replies, wire, command_byte, reporting, driverVars, enabled, arg, copy, rebounded,
                 misread>>

EnableInterrupts ==
  /\ At("initialised", "idle") /\ enabled' = TRUE
  /\ UNCHANGED <<deviceVars, driverVars, registered, arg, copy, rebounded, ghostVars>>

mouse_init == InitStart \/ InitCommandByte \/ InitDefaults \/ InitReporting

-----------------------------------------------------------------------------
(* The calls of the main program, one action per store                     *)

SetX(x) == mouse_state' = [mouse_state EXCEPT !.x = x]
SetY(y) == mouse_state' = [mouse_state EXCEPT !.y = y]

\* A comparison reads the coordinate again or uses what was stored before.
Seen(coordinate) == {mouse_state[coordinate], arg[coordinate]}
Step == UNCHANGED <<deviceVars, mouse_packet, registered, enabled, copy, ghostVars>>

mouse_set_position ==
  /\ \/ At("idle", "position y") /\ arg' \in Positions /\ SetX(arg'.x) /\ UNCHANGED state_changed
     \/ /\ At("position y", "x below 0") /\ SetY(arg.y) /\ UNCHANGED <<arg, state_changed>>
     \/ /\ At("x below 0", "y below 0") /\ UNCHANGED <<arg, state_changed>>
        /\ \E x \in Seen("x") : IF x < 0 THEN SetX(0) ELSE UNCHANGED mouse_state
     \/ /\ At("y below 0", "x above max") /\ UNCHANGED <<arg, state_changed>>
        /\ \E y \in Seen("y") : IF y < 0 THEN SetY(0) ELSE UNCHANGED mouse_state
     \/ /\ At("x above max", "y above max") /\ UNCHANGED <<arg, state_changed>>
        /\ \E x \in Seen("x") : IF x >= max.x THEN SetX(max.x - 1) ELSE UNCHANGED mouse_state
     \/ /\ At("y above max", "changed") /\ UNCHANGED <<arg, state_changed>>
        /\ \E y \in Seen("y") : IF y >= max.y THEN SetY(max.y - 1) ELSE UNCHANGED mouse_state
     \/ At("changed", "idle") /\ state_changed' = TRUE /\ arg' = NoArg /\ UNCHANGED mouse_state
  /\ Step /\ UNCHANGED <<max, rebounded>>

mouse_set_bounds ==
  /\ \/ /\ At("idle", "bounds y") /\ arg' \in Sizes
        /\ max' = [max EXCEPT !.x = arg'.x] /\ rebounded' = TRUE /\ UNCHANGED mouse_state
     \/ /\ At("bounds y", "bound x") /\ max' = [max EXCEPT !.y = arg.y]
        /\ UNCHANGED <<arg, mouse_state, rebounded>>
     \/ /\ At("bound x", "bound y") /\ SetX(Below(mouse_state.x, max.x))
        /\ UNCHANGED <<arg, max, rebounded>>
     \/ /\ At("bound y", "idle") /\ SetY(Below(mouse_state.y, max.y)) /\ arg' = NoArg
        /\ UNCHANGED <<max, rebounded>>
  /\ Step /\ UNCHANGED state_changed

\* if (mouse_state_changed()) { mouse_clear_changed(); s = mouse_get_state(); }
ReadState ==
  /\ \/ /\ At("idle", "copy x") /\ state_changed /\ state_changed' = FALSE
        /\ rebounded' = FALSE /\ UNCHANGED copy
     \/ /\ At("copy x", "copy y") /\ copy' = [copy EXCEPT !.x = mouse_state.x]
        /\ UNCHANGED <<state_changed, rebounded>>
     \/ /\ At("copy y", "copy left") /\ copy' = [copy EXCEPT !.y = mouse_state.y]
        /\ UNCHANGED <<state_changed, rebounded>>
     \/ /\ At("copy left", "idle") /\ copy' = [copy EXCEPT !.left = mouse_state.left]
        /\ UNCHANGED <<state_changed, rebounded>>
  /\ UNCHANGED <<deviceVars, max, mouse_packet, mouse_state, registered, enabled, arg, ghostVars>>

-----------------------------------------------------------------------------
Init ==
  /\ output = NoByte /\ replies = <<>> /\ wire = <<>>
  /\ command_byte = CommandByte /\ reporting = FALSE /\ request = FALSE
  /\ registered = FALSE /\ enabled = FALSE
  /\ max \in Sizes /\ mouse_packet = <<>> /\ state_changed = FALSE
  /\ mouse_state = [x |-> 0, y |-> 0, left |-> FALSE]
  /\ pc = "boot" /\ arg = NoArg /\ copy = mouse_state
  /\ slip = 0 /\ misread = FALSE /\ rebounded = TRUE

Next ==
  \/ SendReply \/ StartPacket \/ SendByte \/ LoseByte \/ Key \/ KeyInterrupt
  \/ mouse_handler \/ mouse_init \/ EnableInterrupts
  \/ mouse_set_position \/ mouse_set_bounds \/ ReadState

Spec == Init /\ [][Next]_vars

\* The processor takes a pending interrupt, and boot comes to its end.
FairSpec ==
  /\ Spec
  /\ WF_vars(mouse_handler) /\ WF_vars(KeyInterrupt)
  /\ WF_vars(SendReply) /\ WF_vars(mouse_init) /\ WF_vars(EnableInterrupts)

-----------------------------------------------------------------------------
Point == [x : Int, y : Int, left : BOOLEAN]

BootSteps == {"boot", "read command byte", "read ack of defaults", "read ack of reporting",
              "initialised"}
PositionSteps == {"position y", "x below 0", "y below 0", "x above max", "y above max", "changed"}
BoundSteps == {"bounds y", "bound x", "bound y"}
CopySteps == {"copy x", "copy y", "copy left"}

MouseTypeOK ==
  /\ output \in [from : {"none", "key", "mouse", "controller"}, byte : Bytes]
  /\ replies \in Seq([from : {"mouse", "controller"}, byte : Bytes])
  /\ wire \in Seq(Bytes) /\ command_byte \in Bytes
  /\ mouse_packet \in Seq(Bytes) /\ Len(mouse_packet) < 3
  /\ mouse_state \in Point /\ copy \in Point /\ arg.x \in Int /\ arg.y \in Int
  /\ pc = "bounds y" => arg \in Sizes
  /\ max \in [x : Nat \ {0}, y : Nat \ {0}]
  /\ pc \in BootSteps \cup {"idle"} \cup PositionSteps \cup BoundSteps \cup CopySteps
  /\ {reporting, request, registered, enabled, state_changed, misread, rebounded} \subseteq BOOLEAN
  /\ slip \in 0..2

\* Between two calls the cursor is on the screen, whatever the interrupts did
\* in the middle of mouse_set_position and mouse_set_bounds, and whatever bytes
\* were taken for a packet.
CursorOnScreen ==
  pc = "idle" => mouse_state.x \in 0..(max.x - 1) /\ mouse_state.y \in 0..(max.y - 1)

\* The mouse's bytes that are under way, answers among them; the controller
\* answers once, and first.
FromController == replies # <<>> /\ Head(replies).from = "controller"
UnderWay ==
  Len(wire) + (IF output.from = "mouse" THEN 1 ELSE 0)
            + (IF FromController THEN Len(replies) - 1 ELSE Len(replies))

\* The packets that the driver collects begin where the mouse begins them, shifted
\* by the bytes lost and the answers that mouse_init went on without, and by
\* nothing else: no key, no late answer and no call moves the boundary, and the
\* check of a packet's first byte does not restore it.
InStep ==
  registered => Len(mouse_packet) = (slip - UnderWay) % 3

\* A program that clears the flag before it reads the state never keeps an old
\* one: while the flag is clear, what it read is what there is.  mouse_set_bounds
\* and mouse_init, which move the cursor without setting it, are excepted.
ChangeNotMissed ==
  (pc = "idle" /\ ~state_changed /\ ~rebounded) => copy = mouse_state

\* Every byte is taken from the output buffer that the keyboard and the mouse
\* share, whatever is lost or late, so that neither is shut out; unless mouse_init
\* took another byte for the command byte, and wrote it back with IRQ1 off.
ShutOut == misread /\ ~Bit(command_byte, 1)
InputFlows == output # NoByte ~> (output = NoByte \/ ShutOut)
=============================================================================
