---------------------------- MODULE MouseProofs ----------------------------
(***************************************************************************)
(* What holds of the mouse driver for all sizes of screens, positions,     *)
(* packets and keys.                                                       *)
(***************************************************************************)
EXTENDS Mouse, SequenceTheorems, TLAPS

-----------------------------------------------------------------------------
(* Types                                                                   *)

\* The four parts of the state that actions leave alone together.
DevicesTyped ==
  /\ output \in [from : {"none", "key", "mouse", "controller"}, byte : Bytes]
  /\ replies \in Seq([from : {"mouse", "controller"}, byte : Bytes])
  /\ wire \in Seq(Bytes) /\ command_byte \in Bytes
  /\ reporting \in BOOLEAN /\ request \in BOOLEAN
DriverTyped ==
  /\ mouse_packet \in Seq(Bytes) /\ Len(mouse_packet) < 3
  /\ mouse_state \in Point /\ state_changed \in BOOLEAN
  /\ max \in [x : Nat \ {0}, y : Nat \ {0}]
MainTyped ==
  /\ copy \in Point /\ arg.x \in Int /\ arg.y \in Int
  /\ pc = "bounds y" => arg \in Sizes
  /\ pc \in BootSteps \cup {"idle"} \cup PositionSteps \cup BoundSteps \cup CopySteps
  /\ registered \in BOOLEAN /\ enabled \in BOOLEAN /\ rebounded \in BOOLEAN

GhostsTyped == slip \in 0..2 /\ misread \in BOOLEAN

LEMMA TypesInParts ==
  ASSUME MouseTypeOK
  PROVE  DevicesTyped /\ DriverTyped /\ MainTyped /\ GhostsTyped
BY DEF MouseTypeOK, DevicesTyped, DriverTyped, MainTyped, GhostsTyped

LEMMA TypesInPartsNext ==
  ASSUME DevicesTyped', DriverTyped', MainTyped', GhostsTyped'
  PROVE  MouseTypeOK'
BY DEF MouseTypeOK, DevicesTyped, DriverTyped, MainTyped, GhostsTyped

\* Setting and clearing a bit of a byte gives a byte.
LEMMA StatusIsByte ==
  ASSUME NEW b \in Bytes
  PROVE  NewStatus(b) \in Bytes
BY DEF NewStatus, SetBit, ClearBit, Bit, Bytes

LEMMA DeltaIsInt ==
  ASSUME NEW f, NEW sign, NEW b \in Bytes
  PROVE  Delta(f, sign, b) \in Int
BY DEF Delta, Bytes

\* The clamped coordinate is on a screen that is not empty.
LEMMA ClampInRange ==
  ASSUME NEW n \in Int, NEW limit \in Nat \ {0}
  PROVE  Clamp(n, limit) \in 0..(limit - 1)
BY DEF Clamp, Max0, Below

\* A packet is three bytes when it is applied; the cursor is then on the screen.
LEMMA CollectKeeps ==
  ASSUME DriverTyped, NEW b \in Bytes, Collect(Append(mouse_packet, b)), max' = max
  PROVE  /\ mouse_packet' \in Seq(Bytes) /\ Len(mouse_packet') < 3
         /\ mouse_state' \in Point /\ state_changed' \in BOOLEAN
         /\ \/ UNCHANGED <<mouse_state, state_changed>>
            \/ /\ mouse_state'.x \in 0..(max.x - 1) /\ mouse_state'.y \in 0..(max.y - 1)
               /\ state_changed' = TRUE
<1> DEFINE p == Append(mouse_packet, b)
<1>1. p \in Seq(Bytes) /\ Len(p) = Len(mouse_packet) + 1 /\ Len(p) \in Nat
  BY DEF DriverTyped
<1> HIDE DEF p
<1>2. CASE Len(p) < 3
  BY <1>1, <1>2 DEF Collect, DriverTyped, p
<1>3. CASE ~(Len(p) < 3)
  <2>1. mouse_packet' = <<>>
    BY <1>3 DEF Collect, p
  <2>2. CASE ~Valid(p)
    BY <1>3, <2>1, <2>2 DEF Collect, DriverTyped, p
  <2>3. CASE Valid(p)
    <3>1. p[2] \in Bytes /\ p[3] \in Bytes
      BY <1>1, <1>3 DEF DriverTyped
    <3>2. Apply(p)
      BY <1>3, <2>3 DEF Collect, p
    <3> DEFINE nx == mouse_state.x + Delta(p[1], 16, p[2])
               ny == mouse_state.y - Delta(p[1], 32, p[3])
    <3>3. nx \in Int /\ ny \in Int
      BY <3>1, DeltaIsInt DEF DriverTyped, Point
    <3>4. mouse_state' = [x |-> Clamp(nx, max.x), y |-> Clamp(ny, max.y), left |-> Bit(p[1], 1)]
          /\ state_changed' = TRUE
      BY <3>2 DEF Apply
    <3> HIDE DEF nx, ny
    <3>5. /\ Clamp(nx, max.x) \in 0..(max.x - 1)
          /\ Clamp(ny, max.y) \in 0..(max.y - 1)
      BY <3>3, ClampInRange DEF DriverTyped
    <3>6. max.x \in Nat /\ max.y \in Nat /\ Bit(p[1], 1) \in BOOLEAN
      BY DEF DriverTyped, Bit
    <3>7. mouse_state' \in Point
      BY <3>4, <3>5, <3>6 DEF Point
    <3>8. mouse_packet' \in Seq(Bytes) /\ Len(mouse_packet') < 3
      BY <2>1
    <3>9. mouse_state'.x \in 0..(max.x - 1) /\ mouse_state'.y \in 0..(max.y - 1)
      BY <3>4, <3>5
    <3> QED
      BY <3>4, <3>7, <3>8, <3>9
  <2> QED
    BY <2>2, <2>3
<1> QED
  BY <1>2, <1>3

LEMMA DevicesKept ==
  ASSUME DevicesTyped, UNCHANGED deviceVars
  PROVE  DevicesTyped'
BY DEF DevicesTyped, deviceVars

LEMMA DriverKept ==
  ASSUME DriverTyped, UNCHANGED driverVars
  PROVE  DriverTyped'
BY DEF DriverTyped, driverVars

LEMMA MainKept ==
  ASSUME MainTyped, UNCHANGED mainVars
  PROVE  MainTyped'
BY DEF MainTyped, mainVars

LEMMA GhostsKept ==
  ASSUME GhostsTyped, UNCHANGED ghostVars
  PROVE  GhostsTyped'
BY DEF GhostsTyped, ghostVars

LEMMA HeadAndTail ==
  ASSUME NEW S, NEW s \in Seq(S), s # <<>>
  PROVE  Head(s) \in S /\ Tail(s) \in Seq(S) /\ Len(Tail(s)) = Len(s) - 1
BY HeadTailProperties

LEMMA DeviceSteps ==
  ASSUME MouseTypeOK,
         SendReply \/ StartPacket \/ SendByte \/ LoseByte \/ Key \/ KeyInterrupt
  PROVE  MouseTypeOK'
<1> USE TypesInParts
<1>1. UNCHANGED driverVars /\ UNCHANGED mainVars /\ GhostsTyped'
  <2>1. UNCHANGED driverVars /\ UNCHANGED mainVars
    BY DEF SendReply, StartPacket, SendByte, LoseByte, Key, KeyInterrupt
  <2>2. UNCHANGED ghostVars \/ (slip' = (slip - 1) % 3 /\ misread' = misread)
    BY DEF SendReply, StartPacket, SendByte, LoseByte, Key, KeyInterrupt
  <2>3. slip \in Int /\ (slip - 1) % 3 \in 0..2
    BY DEF GhostsTyped
  <2> QED
    BY <2>1, <2>2, <2>3, GhostsKept DEF GhostsTyped
<1>2. DriverTyped' /\ MainTyped'
  BY <1>1, DriverKept, MainKept
<1>3. ASSUME NEW from \in {"mouse", "controller", "key"}, NEW b \in Bytes, Arrive(from, b)
      PROVE  /\ output' \in [from : {"none", "key", "mouse", "controller"}, byte : Bytes]
             /\ request' \in BOOLEAN
  BY <1>3 DEF Arrive
<1>4. CASE SendReply
  <2>1. /\ Head(replies) \in [from : {"mouse", "controller"}, byte : Bytes]
        /\ Tail(replies) \in Seq([from : {"mouse", "controller"}, byte : Bytes])
    BY <1>4, HeadAndTail DEF SendReply, DevicesTyped
  <2>2. Arrive(Head(replies).from, Head(replies).byte)
    BY <1>4 DEF SendReply
  <2>3. DevicesTyped'
    BY <1>3, <1>4, <2>1, <2>2 DEF SendReply, DevicesTyped
  <2> QED
    BY <1>1, <1>2, <2>3, TypesInPartsNext
<1>5. CASE StartPacket
  <2>1. ASSUME NEW p \in Packets PROVE p \in Seq(Bytes)
    <3>1. PICK a \in Bytes, b \in Bytes, c \in Bytes : p = <<a, b, c>>
      BY MouseAssumption
    <3> QED
      BY <3>1
  <2>2. DevicesTyped'
    BY <1>5, <2>1 DEF StartPacket, DevicesTyped
  <2> QED
    BY <1>1, <1>2, <2>2, TypesInPartsNext
<1>6. CASE SendByte
  <2>1. Head(wire) \in Bytes /\ Tail(wire) \in Seq(Bytes)
    BY <1>6, HeadAndTail DEF SendByte, DevicesTyped
  <2>2. DevicesTyped'
    BY <1>3, <1>6, <2>1 DEF SendByte, DevicesTyped
  <2> QED
    BY <1>1, <1>2, <2>2, TypesInPartsNext
<1>7. CASE LoseByte
  <2>1. Tail(wire) \in Seq(Bytes)
    BY <1>7, HeadAndTail DEF LoseByte, DevicesTyped
  <2>2. DevicesTyped'
    BY <1>7, <2>1 DEF LoseByte, DevicesTyped
  <2> QED
    BY <1>1, <1>2, <2>2, TypesInPartsNext
<1>8. CASE Key
  <2>1. PICK s \in Scancodes : Arrive("key", s)
    BY <1>8 DEF Key
  <2>2. DevicesTyped'
    BY <1>3, <1>8, <2>1, MouseAssumption DEF Key, DevicesTyped
  <2> QED
    BY <1>1, <1>2, <2>2, TypesInPartsNext
<1>9. CASE KeyInterrupt
  <2>1. DevicesTyped'
    BY <1>9 DEF KeyInterrupt, DevicesTyped, NoByte, Bytes
  <2> QED
    BY <1>1, <1>2, <2>1, TypesInPartsNext
<1> QED
  BY <1>4, <1>5, <1>6, <1>7, <1>8, <1>9

LEMMA HandlerStep ==
  ASSUME MouseTypeOK, mouse_handler
  PROVE  MouseTypeOK'
<1> USE TypesInParts
<1>1. output.byte \in Bytes
  BY DEF DevicesTyped
<1>2. Collect(Append(mouse_packet, output.byte)) /\ max' = max
  BY DEF mouse_handler
<1>3. DriverTyped'
  BY <1>1, <1>2, CollectKeeps DEF DriverTyped
<1>4. MainTyped' /\ GhostsTyped'
  <2>1. UNCHANGED mainVars /\ UNCHANGED ghostVars
    BY DEF mouse_handler
  <2> QED
    BY <2>1, MainKept, GhostsKept
<1>5. DevicesTyped'
  <2>1. NoByte \in [from : {"none", "key", "mouse", "controller"}, byte : Bytes]
    BY DEF NoByte, Bytes
  <2>2. /\ output' = NoByte /\ request' = FALSE
        /\ UNCHANGED <<replies, wire, command_byte, reporting>>
    BY DEF mouse_handler
  <2> QED
    BY <2>1, <2>2 DEF DevicesTyped
<1> QED
  BY <1>3, <1>4, <1>5, TypesInPartsNext

LEMMA InitSteps ==
  ASSUME MouseTypeOK, mouse_init \/ EnableInterrupts
  PROVE  MouseTypeOK'
<1> USE TypesInParts
<1> DEFINE Answers == [from : {"mouse", "controller"}, byte : Bytes]
<1>1. NoByte \in [from : {"none", "key", "mouse", "controller"}, byte : Bytes]
  BY DEF NoByte, Bytes
<1>2. ASSUME NEW from \in {"mouse", "controller"}, NEW b \in Bytes, Answer(from, b)
      PROVE  replies' \in Seq(Answers)
  BY <1>2 DEF Answer, DevicesTyped
<1>3. ASSUME mouse_read
      PROVE  /\ output' \in [from : {"none", "key", "mouse", "controller"}, byte : Bytes]
             /\ request' \in BOOLEAN /\ \A status \in Read : status \in Bytes
  BY <1>1, <1>3, MouseAssumption DEF mouse_read, Read, DevicesTyped
<1>4. ASSUME NEW step \in BootSteps, NEW next \in BootSteps \cup {"idle"}, At(step, next),
             UNCHANGED <<copy, arg, rebounded>>, registered' \in BOOLEAN, enabled' \in BOOLEAN
      PROVE  MainTyped'
  <2>1. pc' # "bounds y" /\ pc' \in BootSteps \cup {"idle"}
    BY <1>4 DEF At, BootSteps
  <2> QED
    BY <1>4, <2>1 DEF MainTyped
<1>5. CASE InitStart
  <2>1. max' \in [x : Nat \ {0}, y : Nat \ {0}]
    BY <1>5, MouseAssumption DEF InitStart
  <2>2. max'.x \div 2 \in Int /\ max'.y \div 2 \in Int
    BY <2>1
  <2>3. mouse_state' \in Point
    BY <1>5, <2>2 DEF InitStart, DriverTyped, Point
  <2>4. DriverTyped'
    BY <1>5, <2>1, <2>3 DEF InitStart, DriverTyped
  <2>5. Answer("controller", command_byte) /\ command_byte \in Bytes
    BY <1>5 DEF InitStart, DevicesTyped
  <2>6. DevicesTyped'
    BY <1>2, <1>5, <2>5 DEF InitStart, DevicesTyped
  <2>7. MainTyped'
    BY <1>4, <1>5 DEF InitStart, BootSteps, MainTyped
  <2> QED
    BY <1>5, <2>4, <2>6, <2>7, GhostsKept, TypesInPartsNext DEF InitStart
<1>6. CASE InitCommandByte
  <2>1. mouse_read /\ \E status \in Read : command_byte' = NewStatus(status)
    BY <1>6 DEF InitCommandByte
  <2>2. command_byte' \in Bytes
    BY <1>3, <2>1, StatusIsByte
  <2>3. Answer("mouse", ACK) /\ ACK \in Bytes
    BY <1>6, MouseAssumption DEF InitCommandByte
  <2>3a. DevicesTyped' /\ GhostsTyped'
    <3>1. GhostsTyped'
      BY <1>6 DEF InitCommandByte, GhostsTyped
    <3>2. replies' \in Seq(Answers)
      BY <1>2, <2>3
    <3>3. UNCHANGED <<wire, reporting>>
      BY <1>6 DEF InitCommandByte
    <3> QED
      BY <1>3, <2>1, <2>2, <3>1, <3>2, <3>3 DEF DevicesTyped
  <2>4. MainTyped'
    BY <1>4, <1>6 DEF InitCommandByte, BootSteps, MainTyped
  <2>5. DriverTyped'
    BY <1>6, DriverKept DEF InitCommandByte
  <2> QED
    BY <2>3a, <2>4, <2>5, TypesInPartsNext
<1>7. ASSUME ReadAck, misread' = misread
      PROVE  /\ output' \in [from : {"none", "key", "mouse", "controller"}, byte : Bytes]
             /\ request' \in BOOLEAN /\ GhostsTyped'
  <2>1. mouse_read /\ slip' = IF output.from = "mouse" THEN slip ELSE (slip + 1) % 3
    BY <1>7 DEF ReadAck
  <2>2. slip \in Int /\ (slip + 1) % 3 \in 0..2
    BY DEF GhostsTyped
  <2>3. GhostsTyped'
    BY <1>7, <2>1, <2>2 DEF GhostsTyped
  <2> QED
    BY <1>3, <2>1, <2>3
<1>8. CASE InitDefaults
  <2>1. Answer("mouse", ACK) /\ ACK \in Bytes /\ ReadAck
    BY <1>8, MouseAssumption DEF InitDefaults
  <2>2. DevicesTyped' /\ GhostsTyped'
    BY <1>2, <1>7, <1>8, <2>1 DEF InitDefaults, DevicesTyped
  <2>3. MainTyped'
    BY <1>4, <1>8 DEF InitDefaults, BootSteps, MainTyped
  <2>4. DriverTyped'
    BY <1>8, DriverKept DEF InitDefaults
  <2> QED
    BY <2>2, <2>3, <2>4, TypesInPartsNext
<1>9. CASE InitReporting
  <2>1. DevicesTyped' /\ GhostsTyped'
    BY <1>7, <1>9 DEF InitReporting, DevicesTyped
  <2>2. MainTyped'
    BY <1>4, <1>9 DEF InitReporting, BootSteps, MainTyped
  <2>3. DriverTyped'
    BY <1>9, DriverKept DEF InitReporting
  <2> QED
    BY <2>1, <2>2, <2>3, TypesInPartsNext
<1>10. CASE EnableInterrupts
  <2>1. DevicesTyped' /\ DriverTyped' /\ GhostsTyped'
    <3>1. UNCHANGED deviceVars /\ UNCHANGED driverVars /\ UNCHANGED ghostVars
      BY <1>10 DEF EnableInterrupts
    <3> QED
      BY <3>1, DevicesKept, DriverKept, GhostsKept
  <2>2. MainTyped'
    BY <1>4, <1>10 DEF EnableInterrupts, BootSteps, MainTyped
  <2> QED
    BY <2>1, <2>2, TypesInPartsNext
<1> QED
  BY <1>5, <1>6, <1>8, <1>9, <1>10 DEF mouse_init

LEMMA SetKeepsPoint ==
  ASSUME mouse_state \in Point, NEW n \in Int, SetX(n) \/ SetY(n)
  PROVE  mouse_state' \in Point
BY DEF SetX, SetY, Point

LEMMA SeenIsInt ==
  ASSUME MouseTypeOK
  PROVE  \A n \in Seen("x") \cup Seen("y") : n \in Int
BY DEF MouseTypeOK, Seen, Point

LEMMA SizesArePositive ==
  ASSUME NEW s \in Sizes
  PROVE  s.x \in Nat \ {0} /\ s.y \in Nat \ {0}
BY MouseAssumption

LEMMA BelowIsInt ==
  ASSUME NEW n \in Int, NEW limit \in Nat
  PROVE  Below(n, limit) \in Int
BY DEF Below

LEMMA MainSteps ==
  ASSUME MouseTypeOK, mouse_set_position \/ mouse_set_bounds \/ ReadState
  PROVE  MouseTypeOK'
<1> USE TypesInParts
<1>1. DevicesTyped' /\ GhostsTyped'
  <2>1. UNCHANGED deviceVars /\ UNCHANGED ghostVars
    BY DEF mouse_set_position, mouse_set_bounds, ReadState, Step
  <2> QED
    BY <2>1, DevicesKept, GhostsKept
<1>2. pc' \in BootSteps \cup {"idle"} \cup PositionSteps \cup BoundSteps \cup CopySteps
  BY DEF mouse_set_position, mouse_set_bounds, ReadState, At, PositionSteps, BoundSteps, CopySteps
<1>2a. pc' = "bounds y" => arg' \in Sizes
  BY DEF mouse_set_position, mouse_set_bounds, ReadState, At
<1>3. UNCHANGED <<mouse_packet, registered, enabled>>
  BY DEF mouse_set_position, mouse_set_bounds, ReadState, Step
<1>4. mouse_state \in Point /\ max \in [x : Nat \ {0}, y : Nat \ {0}]
      /\ arg.x \in Int /\ arg.y \in Int
  BY DEF DriverTyped, MainTyped
<1>5. CASE mouse_set_position
  <2>1. UNCHANGED <<max, copy, rebounded>>
    BY <1>5 DEF mouse_set_position, Step
  <2>2. arg'.x \in Int /\ arg'.y \in Int
    <3>1. arg' \in Positions \/ arg' = arg \/ arg' = NoArg
      BY <1>5 DEF mouse_set_position
    <3> QED
      BY <1>4, <3>1, MouseAssumption DEF NoArg
  <2>3. mouse_state' \in Point
    <3>1. \/ mouse_state' = mouse_state
          \/ SetX(arg'.x) \/ SetY(arg.y)
          \/ SetX(0) \/ SetY(0) \/ SetX(max.x - 1) \/ SetY(max.y - 1)
      BY <1>5 DEF mouse_set_position
    <3>2. {0, max.x - 1, max.y - 1} \subseteq Int
      BY <1>4
    <3> QED
      BY <1>4, <2>2, <3>1, <3>2, SetKeepsPoint
  <2>4. state_changed' \in BOOLEAN
    BY <1>5 DEF mouse_set_position, DriverTyped
  <2>5. DriverTyped' /\ MainTyped'
    BY <1>2, <1>2a, <1>3, <2>1, <2>2, <2>3, <2>4 DEF DriverTyped, MainTyped
  <2> QED
    BY <1>1, <2>5, TypesInPartsNext
<1>6. CASE mouse_set_bounds
  <2>1. state_changed' = state_changed /\ copy' = copy
    BY <1>6 DEF mouse_set_bounds, Step
  <2>2. arg'.x \in Int /\ arg'.y \in Int
    <3>1. arg' \in Sizes \/ arg' = arg \/ arg' = NoArg
      BY <1>6 DEF mouse_set_bounds
    <3> QED
      BY <1>4, <3>1, SizesArePositive DEF NoArg
  <2>3. max' \in [x : Nat \ {0}, y : Nat \ {0}]
    <3>1. \/ max' = max
          \/ arg' \in Sizes /\ max' = [max EXCEPT !.x = arg'.x]
          \/ pc = "bounds y" /\ max' = [max EXCEPT !.y = arg.y]
      BY <1>6 DEF mouse_set_bounds, At
    <3>2. pc = "bounds y" => arg.y \in Nat \ {0}
      BY SizesArePositive DEF MainTyped
    <3> QED
      BY <1>4, <3>1, <3>2, SizesArePositive
  <2>4. mouse_state' \in Point
    BY <1>4, <1>6, BelowIsInt, SetKeepsPoint DEF mouse_set_bounds, Point
  <2>5. rebounded' \in BOOLEAN
    BY <1>6 DEF mouse_set_bounds, MainTyped
  <2>6. DriverTyped' /\ MainTyped'
    BY <1>2, <1>2a, <1>3, <2>1, <2>2, <2>3, <2>4, <2>5 DEF DriverTyped, MainTyped
  <2> QED
    BY <1>1, <2>6, TypesInPartsNext
<1>7. CASE ReadState
  <2>1. UNCHANGED <<max, mouse_state, arg>>
    BY <1>7 DEF ReadState
  <2>2. copy' \in Point
    BY <1>4, <1>7 DEF ReadState, MainTyped, Point
  <2>3. state_changed' \in BOOLEAN /\ rebounded' \in BOOLEAN
    BY <1>7 DEF ReadState, DriverTyped, MainTyped
  <2>4. DriverTyped' /\ MainTyped'
    BY <1>2, <1>2a, <1>3, <1>4, <2>1, <2>2, <2>3 DEF DriverTyped, MainTyped
  <2> QED
    BY <1>1, <2>4, TypesInPartsNext
<1> QED
  BY <1>5, <1>6, <1>7

\* The state of the driver and of what it talks to keeps its types: a packet has
\* at most two bytes between interrupts, and a byte stays a byte.
THEOREM MouseTypeCorrect == Spec => []MouseTypeOK
<1>1. Init => MouseTypeOK
  <2> SUFFICES ASSUME Init PROVE MouseTypeOK
    OBVIOUS
  <2>1. max \in [x : Nat \ {0}, y : Nat \ {0}]
    BY MouseAssumption DEF Init
  <2>2. DevicesTyped
    <3>1. NoByte \in [from : {"none", "key", "mouse", "controller"}, byte : Bytes]
      BY DEF NoByte, Bytes
    <3>2. output = NoByte /\ replies = <<>> /\ wire = <<>> /\ command_byte \in Bytes
          /\ reporting = FALSE /\ request = FALSE
      BY MouseAssumption DEF Init
    <3>3. replies \in Seq([from : {"mouse", "controller"}, byte : Bytes]) /\ wire \in Seq(Bytes)
      BY <3>2
    <3> QED
      BY <3>1, <3>2, <3>3 DEF DevicesTyped
  <2>3. mouse_state \in Point /\ mouse_state.x = 0 /\ mouse_state.y = 0
    BY DEF Init, Point
  <2>4. DriverTyped
    <3>1. mouse_packet = <<>> /\ state_changed = FALSE
      BY DEF Init
    <3>2. mouse_packet \in Seq(Bytes) /\ Len(mouse_packet) < 3
      BY <3>1
    <3> QED
      BY <2>1, <2>3, <3>1, <3>2 DEF DriverTyped
  <2>5. MainTyped
    <3>1. copy = mouse_state /\ arg = NoArg /\ pc = "boot"
          /\ registered = FALSE /\ enabled = FALSE /\ rebounded = TRUE
      BY DEF Init
    <3>2. copy \in Point /\ arg.x \in Int /\ arg.y \in Int
      BY <2>3, <3>1 DEF NoArg
    <3>3. pc # "bounds y" /\ pc \in BootSteps
      BY <3>1 DEF BootSteps
    <3> QED
      BY <3>1, <3>2, <3>3 DEF MainTyped
  <2>6. GhostsTyped
    <3>1. slip = 0 /\ misread = FALSE
      BY DEF Init
    <3>2. slip \in 0..2
      BY <3>1
    <3> QED
      BY <3>1, <3>2 DEF GhostsTyped
  <2> QED
    BY <2>2, <2>4, <2>5, <2>6 DEF MouseTypeOK, DevicesTyped, DriverTyped, MainTyped, GhostsTyped
<1>2. MouseTypeOK /\ [Next]_vars => MouseTypeOK'
  <2> SUFFICES ASSUME MouseTypeOK, [Next]_vars PROVE MouseTypeOK'
    OBVIOUS
  <2>1. CASE UNCHANGED vars
    <3>1. UNCHANGED deviceVars /\ UNCHANGED driverVars /\ UNCHANGED mainVars /\ UNCHANGED ghostVars
      BY <2>1 DEF vars
    <3> QED
      BY <3>1, DevicesKept, DriverKept, MainKept, GhostsKept, TypesInParts, TypesInPartsNext
  <2> QED
    BY <2>1, DeviceSteps, HandlerStep, InitSteps, MainSteps DEF Next
<1> QED
  BY <1>1, <1>2, PTL DEF Spec

-----------------------------------------------------------------------------
(* The cursor between the stores of the main program                       *)

InX == mouse_state.x \in 0..(max.x - 1)
InY == mouse_state.y \in 0..(max.y - 1)

\* A coordinate is what the call stored, until the interrupt clamps it; each
\* comparison that has been made leaves one side less to go wrong.
XStands ==
  /\ pc \in {"position y", "x below 0"} => InX \/ mouse_state.x = arg.x
  /\ pc \in {"y below 0", "x above max"} => InX \/ (mouse_state.x = arg.x /\ arg.x >= 0)
  /\ pc \in {"bounds y", "bound x"} => mouse_state.x >= 0
  /\ pc \notin {"boot", "position y", "x below 0", "y below 0", "x above max",
                "bounds y", "bound x"} => InX
YStands ==
  /\ pc \in {"x below 0", "y below 0"} => InY \/ mouse_state.y = arg.y
  /\ pc \in {"x above max", "y above max"} => InY \/ (mouse_state.y = arg.y /\ arg.y >= 0)
  /\ pc \in {"bound x", "bound y"} => mouse_state.y >= 0
  /\ pc \notin {"boot", "x below 0", "y below 0", "x above max", "y above max",
                "bound x", "bound y"} => InY
CursorInv == XStands /\ YStands

LEMMA CursorKept ==
  ASSUME CursorInv, UNCHANGED <<mouse_state, max, pc, arg>>
  PROVE  CursorInv'
BY DEF CursorInv, XStands, YStands, InX, InY

\* On the screen, a coordinate satisfies whatever any step asks of it.
LEMMA CursorClamped ==
  ASSUME mouse_state \in Point, max \in [x : Nat \ {0}, y : Nat \ {0}], InX, InY
  PROVE  CursorInv
<1>1. mouse_state.x >= 0 /\ mouse_state.y >= 0
  BY DEF InX, InY, Point
<1> QED
  BY <1>1 DEF CursorInv, XStands, YStands

LEMMA CursorHandler ==
  ASSUME MouseTypeOK, MouseTypeOK', CursorInv, mouse_handler
  PROVE  CursorInv'
<1>1. output.byte \in Bytes /\ DriverTyped /\ DriverTyped'
  BY DEF MouseTypeOK, DriverTyped
<1>2. Collect(Append(mouse_packet, output.byte)) /\ UNCHANGED <<max, pc, arg>>
  BY DEF mouse_handler, mainVars
<1>3. \/ UNCHANGED <<mouse_state, state_changed>>
      \/ /\ mouse_state'.x \in 0..(max.x - 1) /\ mouse_state'.y \in 0..(max.y - 1)
         /\ state_changed' = TRUE
  BY <1>1, <1>2, CollectKeeps
<1>4. CASE UNCHANGED mouse_state
  BY <1>2, <1>4, CursorKept
<1>5. CASE mouse_state'.x \in 0..(max.x - 1) /\ mouse_state'.y \in 0..(max.y - 1)
  <2>1. InX' /\ InY'
    BY <1>2, <1>5 DEF InX, InY
  <2>2. mouse_state'.x >= 0 /\ mouse_state'.y >= 0
    BY <1>1, <1>2, <1>5 DEF DriverTyped
  <2> QED
    BY <2>1, <2>2 DEF CursorInv, XStands, YStands
<1> QED
  BY <1>3, <1>4, <1>5

LEMMA CursorInit ==
  ASSUME MouseTypeOK, MouseTypeOK', CursorInv, mouse_init \/ EnableInterrupts
  PROVE  CursorInv'
<1>1. CASE InitStart
  <2>1. max'.x \in Nat \ {0} /\ max'.y \in Nat \ {0}
    BY DEF MouseTypeOK
  <2>2. mouse_state'.x = max'.x \div 2 /\ mouse_state'.y = max'.y \div 2
    BY <1>1 DEF InitStart, MouseTypeOK, Point
  <2>3. InX' /\ InY'
    BY <2>1, <2>2 DEF InX, InY
  <2>4. pc' = "read command byte"
    BY <1>1 DEF InitStart, At
  <2> QED
    BY <2>3, <2>4 DEF CursorInv, XStands, YStands
<1>2. CASE InitCommandByte \/ InitDefaults \/ InitReporting \/ EnableInterrupts
  <2>1. /\ UNCHANGED <<mouse_state, max>>
        /\ pc \in BootSteps \ {"boot"} /\ pc' \in (BootSteps \ {"boot"}) \cup {"idle"}
    BY <1>2 DEF InitCommandByte, InitDefaults, InitReporting, EnableInterrupts, driverVars, At, BootSteps
  <2>2. InX /\ InY
    BY <2>1 DEF CursorInv, XStands, YStands, BootSteps
  <2>3. InX' /\ InY'
    BY <2>1, <2>2 DEF InX, InY
  <2> QED
    BY <2>1, <2>3 DEF CursorInv, XStands, YStands, BootSteps
<1> QED
  BY <1>1, <1>2 DEF mouse_init

LEMMA CursorPosition ==
  ASSUME MouseTypeOK, MouseTypeOK', CursorInv, mouse_set_position
  PROVE  CursorInv'
<1> DEFINE x == mouse_state.x
           y == mouse_state.y
<1>1. /\ max' = max /\ max.x \in Nat \ {0} /\ max.y \in Nat \ {0}
      /\ mouse_state \in Point /\ x \in Int /\ y \in Int /\ arg.x \in Int /\ arg.y \in Int
  BY DEF mouse_set_position, MouseTypeOK, Point
<1>2. \A n \in Int : /\ SetX(n) => mouse_state'.x = n /\ mouse_state'.y = y
                     /\ SetY(n) => mouse_state'.x = x /\ mouse_state'.y = n
  BY <1>1 DEF SetX, SetY, Point
<1>3. CASE At("idle", "position y") /\ arg' \in Positions /\ SetX(arg'.x)
  <2>1. arg'.x \in Int
    BY <1>3, MouseAssumption
  <2>2. mouse_state'.x = arg'.x /\ mouse_state'.y = y
    BY <1>2, <1>3, <2>1
  <2> QED
    BY <1>1, <1>3, <2>2 DEF CursorInv, XStands, YStands, InX, InY, At
<1>4. CASE At("position y", "x below 0") /\ SetY(arg.y) /\ arg' = arg
  <2>1. mouse_state'.x = x /\ mouse_state'.y = arg.y
    BY <1>1, <1>2, <1>4
  <2> QED
    BY <1>1, <1>4, <2>1 DEF CursorInv, XStands, YStands, InX, InY, At
<1>5. CASE /\ At("x below 0", "y below 0") /\ arg' = arg
           /\ \E n \in Seen("x") : IF n < 0 THEN SetX(0) ELSE UNCHANGED mouse_state
  <2>1. PICK n \in {x, arg.x} : IF n < 0 THEN SetX(0) ELSE UNCHANGED mouse_state
    BY <1>5 DEF Seen
  <2>2. /\ mouse_state'.y = y
        /\ IF n < 0 THEN mouse_state'.x = 0 ELSE mouse_state'.x = x
    BY <1>2, <2>1
  <2>3. InX \/ x = arg.x
    BY <1>5 DEF CursorInv, XStands, At
  <2>4. InX' \/ (mouse_state'.x = arg.x /\ arg.x >= 0)
    BY <1>1, <2>1, <2>2, <2>3 DEF InX
  <2> QED
    BY <1>1, <1>5, <2>2, <2>4 DEF CursorInv, XStands, YStands, InY, At
<1>6. CASE /\ At("y below 0", "x above max") /\ arg' = arg
           /\ \E n \in Seen("y") : IF n < 0 THEN SetY(0) ELSE UNCHANGED mouse_state
  <2>1. PICK n \in {y, arg.y} : IF n < 0 THEN SetY(0) ELSE UNCHANGED mouse_state
    BY <1>6 DEF Seen
  <2>2. /\ mouse_state'.x = x
        /\ IF n < 0 THEN mouse_state'.y = 0 ELSE mouse_state'.y = y
    BY <1>2, <2>1
  <2>3. InY \/ y = arg.y
    BY <1>6 DEF CursorInv, YStands, At
  <2>4. InY' \/ (mouse_state'.y = arg.y /\ arg.y >= 0)
    BY <1>1, <2>1, <2>2, <2>3 DEF InY
  <2> QED
    BY <1>1, <1>6, <2>2, <2>4 DEF CursorInv, XStands, YStands, InX, At
<1>7. CASE /\ At("x above max", "y above max") /\ arg' = arg
           /\ \E n \in Seen("x") : IF n >= max.x THEN SetX(max.x - 1) ELSE UNCHANGED mouse_state
  <2>1. PICK n \in {x, arg.x} : IF n >= max.x THEN SetX(max.x - 1) ELSE UNCHANGED mouse_state
    BY <1>7 DEF Seen
  <2>2. /\ mouse_state'.y = y
        /\ IF n >= max.x THEN mouse_state'.x = max.x - 1 ELSE mouse_state'.x = x
    BY <1>1, <1>2, <2>1
  <2>3. InX \/ (x = arg.x /\ arg.x >= 0)
    BY <1>7 DEF CursorInv, XStands, At
  <2>4. InX'
    BY <1>1, <2>1, <2>2, <2>3 DEF InX
  <2> QED
    BY <1>1, <1>7, <2>2, <2>4 DEF CursorInv, XStands, YStands, InY, At
<1>8. CASE /\ At("y above max", "changed") /\ arg' = arg
           /\ \E n \in Seen("y") : IF n >= max.y THEN SetY(max.y - 1) ELSE UNCHANGED mouse_state
  <2>1. PICK n \in {y, arg.y} : IF n >= max.y THEN SetY(max.y - 1) ELSE UNCHANGED mouse_state
    BY <1>8 DEF Seen
  <2>2. /\ mouse_state'.x = x
        /\ IF n >= max.y THEN mouse_state'.y = max.y - 1 ELSE mouse_state'.y = y
    BY <1>1, <1>2, <2>1
  <2>3. InY \/ (y = arg.y /\ arg.y >= 0)
    BY <1>8 DEF CursorInv, YStands, At
  <2>4. InY'
    BY <1>1, <2>1, <2>2, <2>3 DEF InY
  <2> QED
    BY <1>1, <1>8, <2>2, <2>4 DEF CursorInv, XStands, YStands, InX, At
<1>9. CASE At("changed", "idle") /\ arg' = NoArg /\ UNCHANGED mouse_state
  BY <1>1, <1>9 DEF CursorInv, XStands, YStands, InX, InY, At
<1> QED
  BY <1>3, <1>4, <1>5, <1>6, <1>7, <1>8, <1>9 DEF mouse_set_position

LEMMA BelowInRange ==
  ASSUME NEW n \in Int, n >= 0, NEW limit \in Nat \ {0}
  PROVE  Below(n, limit) \in 0..(limit - 1)
BY DEF Below

LEMMA CursorBounds ==
  ASSUME MouseTypeOK, MouseTypeOK', CursorInv, mouse_set_bounds
  PROVE  CursorInv'
<1>1. /\ mouse_state \in Point /\ max \in [x : Nat \ {0}, y : Nat \ {0}]
      /\ max.x \in Nat \ {0} /\ max.y \in Nat \ {0}
      /\ mouse_state.x \in Int /\ mouse_state.y \in Int
  BY DEF MouseTypeOK, Point
<1>2. InX => mouse_state.x >= 0
  BY <1>1 DEF InX
<1>3. InY => mouse_state.y >= 0
  BY <1>1 DEF InY
<1>4. CASE At("idle", "bounds y") /\ max' = [max EXCEPT !.x = arg'.x] /\ UNCHANGED mouse_state
  <2>1. max'.y = max.y
    BY <1>1, <1>4
  <2>2. pc = "idle" /\ pc' = "bounds y" /\ mouse_state' = mouse_state
    BY <1>4 DEF At
  <2>3. InX /\ InY
    BY <2>2 DEF CursorInv, XStands, YStands
  <2>4. InY' /\ mouse_state'.x >= 0
    BY <1>2, <2>1, <2>2, <2>3 DEF InY
  <2> QED
    BY <2>2, <2>4 DEF CursorInv, XStands, YStands
<1>5. CASE At("bounds y", "bound x") /\ UNCHANGED mouse_state
  <2>1. pc = "bounds y" /\ pc' = "bound x" /\ mouse_state' = mouse_state
    BY <1>5 DEF At
  <2>2. mouse_state.x >= 0 /\ InY
    BY <2>1 DEF CursorInv, XStands, YStands
  <2> QED
    BY <1>3, <2>1, <2>2 DEF CursorInv, XStands, YStands
<1>6. CASE At("bound x", "bound y") /\ SetX(Below(mouse_state.x, max.x)) /\ UNCHANGED max
  <2>1. /\ mouse_state'.x = Below(mouse_state.x, max.x)
        /\ mouse_state'.y = mouse_state.y
    BY <1>1, <1>6 DEF SetX, Point
  <2>2. pc = "bound x" /\ pc' = "bound y" /\ max' = max
    BY <1>6 DEF At
  <2>3. mouse_state.x >= 0 /\ mouse_state.y >= 0
    BY <2>2 DEF CursorInv, XStands, YStands
  <2>4. InX'
    BY <1>1, <2>1, <2>2, <2>3, BelowInRange DEF InX
  <2> QED
    BY <2>1, <2>2, <2>3, <2>4 DEF CursorInv, XStands, YStands
<1>7. CASE At("bound y", "idle") /\ SetY(Below(mouse_state.y, max.y)) /\ UNCHANGED max
  <2>1. /\ mouse_state'.y = Below(mouse_state.y, max.y)
        /\ mouse_state'.x = mouse_state.x
    BY <1>1, <1>7 DEF SetY, Point
  <2>2. pc = "bound y" /\ pc' = "idle" /\ max' = max
    BY <1>7 DEF At
  <2>3. InX /\ mouse_state.y >= 0
    BY <2>2 DEF CursorInv, XStands, YStands
  <2>4. InX' /\ InY'
    BY <1>1, <2>1, <2>2, <2>3, BelowInRange DEF InX, InY
  <2> QED
    BY <2>2, <2>4 DEF CursorInv, XStands, YStands
<1> QED
  BY <1>4, <1>5, <1>6, <1>7 DEF mouse_set_bounds

LEMMA CursorRead ==
  ASSUME CursorInv, ReadState
  PROVE  CursorInv'
<1>1. UNCHANGED <<mouse_state, max, arg>>
  BY DEF ReadState
<1>2. /\ pc \in {"idle"} \cup CopySteps /\ pc' \in {"idle"} \cup CopySteps
  BY DEF ReadState, At, CopySteps
<1> QED
  BY <1>1, <1>2 DEF CursorInv, XStands, YStands, InX, InY, CopySteps

\* Whatever the interrupt does between the stores of the main program, and
\* whatever bytes it takes for a packet, between two calls the cursor is on the
\* screen.
THEOREM CursorStaysOnScreen == Spec => []CursorOnScreen
<1>1. Init => CursorInv
  BY DEF Init, CursorInv, XStands, YStands
<1>2. MouseTypeOK /\ MouseTypeOK' /\ CursorInv /\ [Next]_vars => CursorInv'
  <2> SUFFICES ASSUME MouseTypeOK, MouseTypeOK', CursorInv, [Next]_vars PROVE CursorInv'
    OBVIOUS
  <2>1. CASE SendReply \/ StartPacket \/ SendByte \/ LoseByte \/ Key \/ KeyInterrupt \/ UNCHANGED vars
    <3>1. UNCHANGED <<mouse_state, max, pc, arg>>
      BY <2>1 DEF SendReply, StartPacket, SendByte, LoseByte, Key, KeyInterrupt, vars, driverVars, mainVars
    <3> QED
      BY <3>1, CursorKept
  <2> QED
    BY <2>1, CursorHandler, CursorInit, CursorPosition, CursorBounds, CursorRead DEF Next
<1>3. CursorInv => CursorOnScreen
  BY DEF CursorInv, XStands, YStands, InX, InY, CursorOnScreen
<1> QED
  BY <1>1, <1>2, <1>3, MouseTypeCorrect, PTL DEF Spec

-----------------------------------------------------------------------------
(* What the reader has seen                                                *)

ReaderInv ==
  /\ pc \in BootSteps \cup BoundSteps => rebounded = TRUE
  /\ (state_changed = FALSE /\ rebounded = FALSE) =>
       /\ pc = "idle" => copy = mouse_state
       /\ pc = "copy y" => copy.x = mouse_state.x
       /\ pc = "copy left" => copy.x = mouse_state.x /\ copy.y = mouse_state.y

LEMMA ReaderKept ==
  ASSUME ReaderInv, UNCHANGED <<mouse_state, state_changed, pc, copy, rebounded>>
  PROVE  ReaderInv'
BY DEF ReaderInv

LEMMA ReaderRead ==
  ASSUME MouseTypeOK, MouseTypeOK', ReaderInv, ReadState
  PROVE  ReaderInv'
<1>1. mouse_state' = mouse_state /\ mouse_state \in Point /\ copy \in Point /\ copy' \in Point
  BY DEF ReadState, MouseTypeOK
<1>2. CASE At("idle", "copy x")
  BY <1>2 DEF ReaderInv, At, BootSteps, BoundSteps
<1>3. CASE /\ At("copy x", "copy y") /\ copy' = [copy EXCEPT !.x = mouse_state.x]
           /\ UNCHANGED <<state_changed, rebounded>>
  <2>1. copy'.x = mouse_state.x
    BY <1>1, <1>3 DEF Point
  <2> QED
    BY <1>1, <1>3, <2>1 DEF ReaderInv, At, BootSteps, BoundSteps
<1>4. CASE /\ At("copy y", "copy left") /\ copy' = [copy EXCEPT !.y = mouse_state.y]
           /\ UNCHANGED <<state_changed, rebounded>>
  <2>1. copy'.x = copy.x /\ copy'.y = mouse_state.y
    BY <1>1, <1>4 DEF Point
  <2> QED
    BY <1>1, <1>4, <2>1 DEF ReaderInv, At, BootSteps, BoundSteps
<1>5. CASE /\ At("copy left", "idle") /\ copy' = [copy EXCEPT !.left = mouse_state.left]
           /\ UNCHANGED <<state_changed, rebounded>>
  <2>1. copy'.x = copy.x /\ copy'.y = copy.y /\ copy'.left = mouse_state.left
    BY <1>1, <1>5 DEF Point
  <2>2. (copy.x = mouse_state.x /\ copy.y = mouse_state.y) => copy' = mouse_state
    BY <1>1, <2>1 DEF Point
  <2> QED
    BY <1>1, <1>5, <2>2 DEF ReaderInv, At, BootSteps, BoundSteps
<1> QED
  BY <1>2, <1>3, <1>4, <1>5 DEF ReadState

LEMMA ReaderOthers ==
  ASSUME MouseTypeOK, MouseTypeOK', ReaderInv,
         mouse_handler \/ mouse_init \/ EnableInterrupts \/ mouse_set_position \/ mouse_set_bounds
  PROVE  ReaderInv'
<1>1. CASE mouse_handler
  <2>1. output.byte \in Bytes /\ DriverTyped
    BY DEF MouseTypeOK, DriverTyped
  <2>2. Collect(Append(mouse_packet, output.byte)) /\ UNCHANGED <<max, pc, copy, rebounded>>
    BY <1>1 DEF mouse_handler, mainVars
  <2>3. UNCHANGED <<mouse_state, state_changed>> \/ state_changed' = TRUE
    BY <2>1, <2>2, CollectKeeps
  <2> QED
    BY <2>2, <2>3 DEF ReaderInv
<1>2. CASE mouse_init \/ EnableInterrupts
  <2>1. pc \in BootSteps /\ pc' \in BootSteps \cup {"idle"} /\ UNCHANGED <<rebounded, copy>>
    BY <1>2 DEF mouse_init, InitStart, InitCommandByte, InitDefaults, InitReporting,
                EnableInterrupts, At, BootSteps
  <2> QED
    BY <2>1 DEF ReaderInv, BootSteps
<1>3. CASE mouse_set_position
  <2>1. /\ pc' \in PositionSteps \cup {"idle"} /\ UNCHANGED <<rebounded, copy>>
        /\ pc' = "idle" => state_changed' = TRUE
    BY <1>3 DEF mouse_set_position, Step, At, PositionSteps
  <2> QED
    BY <2>1 DEF ReaderInv, BootSteps, BoundSteps, PositionSteps
<1>4. CASE mouse_set_bounds
  <2>1. pc' \in BoundSteps \cup {"idle"} /\ rebounded' = TRUE
    BY <1>4 DEF mouse_set_bounds, At, BoundSteps, ReaderInv
  <2> QED
    BY <2>1 DEF ReaderInv
<1> QED
  BY <1>1, <1>2, <1>3, <1>4

\* A program that clears the flag before it copies the state never keeps an old
\* one, whenever the interrupt comes.
THEOREM ChangesReachReader == Spec => []ChangeNotMissed
<1>1. Init => ReaderInv
  BY DEF Init, ReaderInv
<1>2. MouseTypeOK /\ MouseTypeOK' /\ ReaderInv /\ [Next]_vars => ReaderInv'
  <2> SUFFICES ASSUME MouseTypeOK, MouseTypeOK', ReaderInv, [Next]_vars PROVE ReaderInv'
    OBVIOUS
  <2>1. CASE SendReply \/ StartPacket \/ SendByte \/ LoseByte \/ Key \/ KeyInterrupt \/ UNCHANGED vars
    <3>1. UNCHANGED <<mouse_state, state_changed, pc, copy, rebounded>>
      BY <2>1 DEF SendReply, StartPacket, SendByte, LoseByte, Key, KeyInterrupt, vars, driverVars, mainVars
    <3> QED
      BY <3>1, ReaderKept
  <2> QED
    BY <2>1, ReaderRead, ReaderOthers DEF Next
<1>3. MouseTypeOK /\ ReaderInv => ChangeNotMissed
  BY DEF ReaderInv, ChangeNotMissed, MouseTypeOK
<1> QED
  BY <1>1, <1>2, <1>3, MouseTypeCorrect, PTL DEF Spec

-----------------------------------------------------------------------------
(* Packets                                                                 *)

\* The controller's answer is the first of those on their way.
Orderly == \A i \in 2..Len(replies) : replies[i].from = "mouse"

\* How many answers of the mouse are on their way, and how many mouse_init is
\* still to read of those it has asked for.
Outstanding == IF FromController THEN Len(replies) - 1 ELSE Len(replies)
InBuffer == IF output.from = "mouse" THEN 1 ELSE 0
Owing == IF pc \in {"read ack of defaults", "read ack of reporting"} THEN 1 ELSE 0

\* Until the command byte is written the mouse has sent nothing.
InitStage ==
  /\ pc = "boot" => replies = <<>>
  /\ pc \in {"boot", "read command byte"} =>
       wire = <<>> /\ reporting = FALSE /\ output.from # "mouse" /\ Outstanding = 0
  /\ pc \in BootSteps \ {"initialised"} => mouse_packet = <<>> /\ registered = FALSE
  /\ registered = FALSE => pc \in BootSteps \ {"initialised"}

Aligned == Len(mouse_packet) = (slip + Owing - UnderWay) % 3

PacketInv ==
  /\ request = TRUE => output.from = "mouse"
  /\ Orderly /\ InitStage /\ Aligned

LEMMA FirstOf ==
  ASSUME NEW S, NEW s \in Seq(S)
  PROVE  /\ Len(s) \in Nat /\ (s = <<>> <=> Len(s) = 0)
         /\ s # <<>> => (Len(s) >= 1 /\ Head(s) = s[1])
<1>1. s # <<>> => Len(s) \in Nat \ {0}
  BY EmptySeq
<1>2. Len(s) \in Nat /\ Len(<<>>) = 0
  BY LenProperties, EmptySeq
<1>3. ASSUME s # <<>> PROVE Head(s) = s[1]
  BY <1>3
<1> QED
  BY <1>1, <1>2, <1>3

LEMMA CountTypes ==
  ASSUME MouseTypeOK
  PROVE  /\ Len(wire) \in Nat /\ Len(replies) \in Nat /\ Outstanding \in Nat
         /\ InBuffer \in {0, 1} /\ Owing \in {0, 1} /\ slip \in 0..2
         /\ Len(mouse_packet) \in 0..2
         /\ UnderWay = Len(wire) + InBuffer + Outstanding
         /\ UnderWay \in Int /\ InBuffer \in Int /\ Owing \in Int /\ slip \in Int
<1>1. replies \in Seq([from : {"mouse", "controller"}, byte : Bytes]) /\ wire \in Seq(Bytes)
      /\ mouse_packet \in Seq(Bytes) /\ Len(mouse_packet) < 3 /\ slip \in 0..2
  BY DEF MouseTypeOK
<1>2. /\ Len(replies) \in Nat /\ Len(wire) \in Nat /\ Len(mouse_packet) \in 0..2
      /\ replies # <<>> => Len(replies) >= 1
  <2>1. /\ Len(wire) \in Nat /\ Len(mouse_packet) \in Nat /\ Len(mouse_packet) < 3
        /\ Len(replies) \in Nat /\ (replies # <<>> => Len(replies) >= 1)
    BY <1>1, FirstOf
  <2>2. \A n \in Nat : n < 3 => n \in 0..2
    OBVIOUS
  <2> QED
    BY <2>1, <2>2, Zenon
<1>3. Outstanding \in Nat
  BY <1>2 DEF Outstanding, FromController
<1>4. UnderWay = Len(wire) + InBuffer + Outstanding
  BY <1>2 DEF Outstanding, InBuffer, UnderWay
<1> QED
  BY <1>1, <1>2, <1>3, <1>4 DEF InBuffer, Owing

LEMMA CountTypesNext ==
  ASSUME MouseTypeOK'
  PROVE  /\ Len(wire') \in Nat /\ Len(replies') \in Nat /\ Outstanding' \in Nat
         /\ InBuffer' \in {0, 1} /\ Owing' \in {0, 1} /\ slip' \in 0..2
         /\ Len(mouse_packet') \in 0..2
         /\ UnderWay' = Len(wire') + InBuffer' + Outstanding'
         /\ UnderWay' \in Int /\ InBuffer' \in Int /\ Owing' \in Int /\ slip' \in Int
<1>1. replies' \in Seq([from : {"mouse", "controller"}, byte : Bytes]) /\ wire' \in Seq(Bytes)
      /\ mouse_packet' \in Seq(Bytes) /\ Len(mouse_packet') < 3 /\ slip' \in 0..2
  BY DEF MouseTypeOK
<1>2. /\ Len(replies') \in Nat /\ Len(wire') \in Nat /\ Len(mouse_packet') \in 0..2
      /\ replies' # <<>> => Len(replies') >= 1
  <2>1. /\ Len(wire') \in Nat /\ Len(mouse_packet') \in Nat /\ Len(mouse_packet') < 3
        /\ Len(replies') \in Nat /\ (replies' # <<>> => Len(replies') >= 1)
    BY <1>1, FirstOf
  <2>2. \A n \in Nat : n < 3 => n \in 0..2
    OBVIOUS
  <2> QED
    BY <2>1, <2>2, Zenon
<1>3. Outstanding' \in Nat
  BY <1>2 DEF Outstanding, FromController
<1>4. UnderWay' = Len(wire') + InBuffer' + Outstanding'
  BY <1>2 DEF Outstanding, InBuffer, UnderWay
<1> QED
  BY <1>1, <1>2, <1>3, <1>4 DEF InBuffer, Owing

\* What is asked for is one more answer of the mouse.
LEMMA AskMouse ==
  ASSUME MouseTypeOK, Orderly, NEW b, Answer("mouse", b)
  PROVE  Orderly' /\ Outstanding' = Outstanding + 1
<1>1. replies \in Seq([from : {"mouse", "controller"}, byte : Bytes]) /\ Len(replies) \in Nat
  BY CountTypes DEF MouseTypeOK
<1>2. /\ Len(replies') = Len(replies) + 1 /\ replies' # <<>>
      /\ replies'[Len(replies) + 1].from = "mouse"
      /\ \A i \in 1..Len(replies) : replies'[i] = replies[i]
      /\ Head(replies') = replies'[1]
      /\ replies # <<>> => (Len(replies) >= 1 /\ Head(replies) = replies[1])
      /\ replies = <<>> => Len(replies) = 0
  BY <1>1 DEF Answer
<1>3. Orderly'
  BY <1>1, <1>2 DEF Orderly
<1>4. FromController' <=> FromController
  BY <1>1, <1>2 DEF FromController
<1> QED
  BY <1>1, <1>2, <1>3, <1>4 DEF Outstanding

\* An answer that arrives is in the buffer instead.
LEMMA AnswerArrives ==
  ASSUME MouseTypeOK, Orderly, replies # <<>>, replies' = Tail(replies)
  PROVE  Orderly' /\ Outstanding' = IF Head(replies).from = "mouse" THEN Outstanding - 1 ELSE Outstanding
<1>1. replies \in Seq([from : {"mouse", "controller"}, byte : Bytes]) /\ Len(replies) \in Nat
      /\ Len(replies) >= 1
  BY FirstOf DEF MouseTypeOK
<1>2. /\ Len(replies') = Len(replies) - 1
      /\ \A i \in 1..(Len(replies) - 1) : replies'[i] = replies[i + 1]
      /\ replies' # <<>> => (Len(replies') >= 1 /\ Head(replies') = replies'[1])
      /\ Head(replies).from \in {"mouse", "controller"}
  <2>1. Head(replies) \in [from : {"mouse", "controller"}, byte : Bytes]
    BY <1>1, HeadTailProperties
  <2>2. Tail(replies) \in Seq([from : {"mouse", "controller"}, byte : Bytes])
        /\ Len(Tail(replies)) = Len(replies) - 1
        /\ \A i \in 1..Len(Tail(replies)) : Tail(replies)[i] = replies[i + 1]
    BY <1>1, HeadTailProperties
  <2>3. replies' # <<>> => (Len(replies') >= 1 /\ Head(replies') = replies'[1])
    BY <2>2, FirstOf
  <2> QED
    BY <2>1, <2>2, <2>3
<1>3. Orderly'
  BY <1>1, <1>2 DEF Orderly
<1>4. replies' # <<>> => Head(replies').from = "mouse"
  BY <1>1, <1>2 DEF Orderly
<1> QED
  BY <1>1, <1>2, <1>3, <1>4 DEF Outstanding, FromController

\* Arithmetic modulo three.
LEMMA Modulo ==
  /\ \A n \in Int : (n - 3) % 3 = n % 3 /\ n % 3 \in 0..2
  /\ \A k \in 0..2, n \in Int :
       /\ (((k - 1) % 3) + n + 1) % 3 = (k + n) % 3
       /\ (((k + 1) % 3) + n - 1) % 3 = (k + n) % 3
  /\ \A n \in Int : (n + 1) % 3 = IF n % 3 = 2 THEN 0 ELSE (n % 3) + 1
OBVIOUS

LEMMA PacketKept ==
  ASSUME PacketInv, UNCHANGED <<deviceVars, mouse_packet, registered, pc, slip>>
  PROVE  PacketInv'
BY DEF PacketInv, Orderly, InitStage, Aligned, Owing, UnderWay, Outstanding, FromController, deviceVars

LEMMA PacketMain ==
  ASSUME MouseTypeOK, MouseTypeOK', PacketInv,
         EnableInterrupts \/ mouse_set_position \/ mouse_set_bounds \/ ReadState
  PROVE  PacketInv'
<1>1. UNCHANGED <<deviceVars, mouse_packet, registered, slip>>
  BY DEF EnableInterrupts, mouse_set_position, mouse_set_bounds, ReadState, Step, driverVars, ghostVars
<1>2. pc \notin BootSteps \ {"initialised"} /\ pc' \notin BootSteps \ {"initialised"}
  BY DEF EnableInterrupts, mouse_set_position, mouse_set_bounds, ReadState, At, BootSteps
<1>3. Owing' = Owing /\ UnderWay' = UnderWay /\ Outstanding' = Outstanding
  BY <1>1, <1>2 DEF Owing, UnderWay, Outstanding, FromController, BootSteps, deviceVars
<1> QED
  BY <1>1, <1>2, <1>3 DEF PacketInv, Orderly, InitStage, Aligned, deviceVars, BootSteps

LEMMA PacketHandler ==
  ASSUME MouseTypeOK, MouseTypeOK', PacketInv, mouse_handler
  PROVE  PacketInv'
<1> DEFINE p == Append(mouse_packet, output.byte)
<1>1. /\ output' = NoByte /\ request' = FALSE /\ request = TRUE /\ registered = TRUE
      /\ Collect(p) /\ UNCHANGED <<replies, wire, registered, pc, slip, reporting>>
  BY DEF mouse_handler, mainVars, ghostVars, MouseTypeOK
<1>2. /\ mouse_packet \in Seq(Bytes)
      /\ p \in Seq(Bytes) /\ Len(p) = Len(mouse_packet) + 1
  BY TypesInParts DEF DevicesTyped, DriverTyped
<1>3. output'.from = "none" /\ output.from = "mouse"
  BY <1>1 DEF NoByte, PacketInv
<1>4. pc \notin BootSteps \ {"initialised"}
  BY <1>1 DEF PacketInv, InitStage
<1>5. Len(mouse_packet') = IF Len(p) < 3 THEN Len(p) ELSE 0
  BY <1>1 DEF Collect
<1> HIDE DEF p
<1>6. InBuffer = 1 /\ InBuffer' = 0 /\ Outstanding' = Outstanding /\ Owing' = Owing
  BY <1>1, <1>3 DEF InBuffer, Outstanding, FromController, Owing
<1>7. UnderWay' = UnderWay - 1 /\ UnderWay \in Int
  BY <1>1, <1>6, CountTypes, CountTypesNext
<1> DEFINE n == slip + Owing - UnderWay
<1>8. n \in Int /\ slip' + Owing' - UnderWay' = n + 1 /\ Len(mouse_packet) = n % 3
  <2>1. slip \in Int /\ Owing \in Int /\ slip' = slip
    BY <1>1, CountTypes
  <2>2. Len(mouse_packet) = n % 3
    BY DEF PacketInv, Aligned
  <2> QED
    BY <1>6, <1>7, <2>1, <2>2
<1> HIDE DEF n
<1>9. Len(mouse_packet') = (n + 1) % 3
  BY <1>2, <1>5, <1>8, CountTypes, Modulo
<1>10. Aligned'
  BY <1>8, <1>9 DEF Aligned
<1> QED
  BY <1>1, <1>3, <1>4, <1>10 DEF PacketInv, Orderly, InitStage, BootSteps

LEMMA PacketDevices ==
  ASSUME MouseTypeOK, MouseTypeOK', PacketInv,
         SendReply \/ StartPacket \/ SendByte \/ LoseByte \/ Key \/ KeyInterrupt
  PROVE  PacketInv'
<1>1. UNCHANGED <<mouse_packet, registered, pc>>
  BY DEF SendReply, StartPacket, SendByte, LoseByte, Key, KeyInterrupt, driverVars, mainVars
<1>2. wire \in Seq(Bytes) /\ request \in BOOLEAN /\ Owing' = Owing
  BY <1>1, TypesInParts DEF DevicesTyped, Owing
<1>3. NoByte.from = "none"
  BY DEF NoByte
\* A step that moves a byte on leaves the sum as it is.
<1>4. ASSUME UnderWay' = UnderWay, slip' = slip
      PROVE  Aligned'
  BY <1>1, <1>2, <1>4 DEF PacketInv, Aligned
<1>5. CASE SendReply
  <2>1. /\ replies # <<>> /\ output = NoByte
        /\ output'.from = Head(replies).from /\ replies' = Tail(replies)
        /\ request' = TRUE => request = TRUE \/ output'.from = "mouse"
        /\ UNCHANGED <<wire, reporting, slip>>
    BY <1>2, <1>5 DEF SendReply, Arrive, ghostVars
  <2>2. request' = TRUE => output'.from = "mouse"
    BY <1>3, <2>1 DEF PacketInv
  <2>3. Orderly' /\ Outstanding' = IF Head(replies).from = "mouse" THEN Outstanding - 1 ELSE Outstanding
    BY <2>1, AnswerArrives DEF PacketInv
  <2>4. InBuffer = 0 /\ InBuffer' = IF Head(replies).from = "mouse" THEN 1 ELSE 0
    BY <1>3, <2>1 DEF InBuffer
  <2>5. UnderWay' = UnderWay
    BY <2>1, <2>3, <2>4, CountTypes, CountTypesNext
  <2>6. Aligned'
    BY <1>4, <2>1, <2>5
  <2>7. ASSUME pc \in {"boot", "read command byte"}
        PROVE  output'.from # "mouse" /\ Outstanding' = 0 /\ pc # "boot"
    <3>1. Outstanding = 0 /\ (pc = "boot" => replies = <<>>)
      BY <2>7 DEF PacketInv, InitStage
    <3>2. Head(replies).from # "mouse"
      BY <2>3, <3>1, CountTypesNext
    <3> QED
      BY <2>1, <2>3, <3>1, <3>2
  <2>8. InitStage'
    BY <1>1, <2>1, <2>7 DEF PacketInv, InitStage
  <2> QED
    BY <2>2, <2>3, <2>6, <2>8 DEF PacketInv
<1>6. CASE StartPacket
  <2>1. /\ reporting = TRUE /\ wire = <<>> /\ Len(wire') = 3 /\ Len(wire) = 0
        /\ UNCHANGED <<output, replies, reporting, request, slip>>
    BY <1>6, MouseAssumption DEF StartPacket, ghostVars, MouseTypeOK
  <2>2. InBuffer' = InBuffer /\ Outstanding' = Outstanding
    BY <2>1 DEF InBuffer, Outstanding, FromController
  <2>3. UnderWay' = UnderWay + 3 /\ UnderWay \in Int
    BY <2>1, <2>2, CountTypes, CountTypesNext
  <2> DEFINE n == slip + Owing - UnderWay
  <2>4. n \in Int /\ slip' + Owing' - UnderWay' = n - 3 /\ Len(mouse_packet) = n % 3
    <3>1. slip \in Int /\ Owing \in Int /\ slip' = slip
      BY <2>1, CountTypes
    <3>2. Len(mouse_packet) = n % 3
      BY DEF PacketInv, Aligned
    <3> QED
      BY <1>2, <2>3, <3>1, <3>2
  <2> HIDE DEF n
  <2>5. Aligned'
    BY <1>1, <2>4, Modulo DEF Aligned
  <2>6. InitStage'
    BY <1>1, <2>1, <2>2 DEF PacketInv, InitStage
  <2> QED
    BY <2>1, <2>5, <2>6 DEF PacketInv, Orderly
<1>7. CASE SendByte
  <2>1. /\ wire # <<>> /\ replies = <<>> /\ output = NoByte /\ output'.from = "mouse"
        /\ wire' = Tail(wire) /\ UNCHANGED <<replies, reporting, slip>>
    BY <1>7 DEF SendByte, Arrive, ghostVars
  <2>2. Len(wire') = Len(wire) - 1
    BY <1>2, <2>1, HeadAndTail
  <2>3. InBuffer = 0 /\ InBuffer' = 1 /\ Outstanding' = Outstanding
    BY <1>3, <2>1 DEF InBuffer, Outstanding, FromController
  <2>4. UnderWay' = UnderWay
    BY <2>2, <2>3, CountTypes, CountTypesNext
  <2>5. pc \notin {"boot", "read command byte"}
    BY <2>1 DEF PacketInv, InitStage
  <2>6. InitStage'
    BY <1>1, <2>1, <2>5 DEF PacketInv, InitStage
  <2> QED
    BY <1>4, <2>1, <2>4, <2>6 DEF PacketInv, Orderly
<1>8. CASE LoseByte
  <2>1. /\ wire # <<>> /\ wire' = Tail(wire) /\ slip' = (slip - 1) % 3
        /\ UNCHANGED <<output, replies, request, reporting>>
    BY <1>8 DEF LoseByte
  <2>2. Len(wire') = Len(wire) - 1
    BY <1>2, <2>1, HeadAndTail
  <2>3. InBuffer' = InBuffer /\ Outstanding' = Outstanding
    BY <2>1 DEF InBuffer, Outstanding, FromController
  <2>4. UnderWay' = UnderWay - 1 /\ UnderWay \in Int
    BY <2>2, <2>3, CountTypes, CountTypesNext
  <2> DEFINE n == Owing - UnderWay
  <2>5. /\ n \in Int /\ slip' + Owing' - UnderWay' = ((slip - 1) % 3) + n + 1
        /\ Len(mouse_packet) = (slip + n) % 3
    <3>1. slip \in Int /\ Owing \in Int /\ (slip - 1) % 3 \in Int /\ slip' = (slip - 1) % 3
      BY <2>1, CountTypes
    <3>2. Len(mouse_packet) = (slip + Owing - UnderWay) % 3
      BY DEF PacketInv, Aligned
    <3>3. slip + Owing - UnderWay = slip + n
      BY <2>4, <3>1
    <3> QED
      BY <1>2, <2>4, <3>1, <3>2, <3>3
  <2> HIDE DEF n
  <2>6. Aligned'
    BY <1>1, <2>5, CountTypes, Modulo DEF Aligned
  <2>7. pc \notin {"boot", "read command byte"}
    BY <2>1 DEF PacketInv, InitStage
  <2>8. InitStage'
    BY <1>1, <2>1, <2>7 DEF PacketInv, InitStage
  <2> QED
    BY <2>1, <2>6, <2>8 DEF PacketInv, Orderly
<1>9. CASE Key \/ KeyInterrupt
  <2>1. /\ output.from # "mouse" /\ output'.from # "mouse"
        /\ request' = TRUE => request = TRUE
        /\ UNCHANGED <<replies, wire, reporting, slip>>
    BY <1>2, <1>3, <1>9 DEF Key, KeyInterrupt, Arrive, ghostVars
  <2>2. InBuffer' = InBuffer /\ Outstanding' = Outstanding
    BY <2>1 DEF InBuffer, Outstanding, FromController
  <2>3. UnderWay' = UnderWay
    BY <2>1, <2>2, CountTypes, CountTypesNext
  <2>4. InitStage'
    BY <1>1, <2>1, <2>2 DEF PacketInv, InitStage
  <2> QED
    BY <1>4, <2>1, <2>3, <2>4 DEF PacketInv, Orderly
<1> QED
  BY <1>5, <1>6, <1>7, <1>8, <1>9

LEMMA PacketInit ==
  ASSUME MouseTypeOK, MouseTypeOK', PacketInv, mouse_init
  PROVE  PacketInv'
<1>1. UNCHANGED <<wire, mouse_packet>> /\ Orderly /\ InitStage /\ Aligned
  BY DEF mouse_init, InitStart, InitCommandByte, InitDefaults, InitReporting, driverVars, PacketInv
\* Reading the port empties it, and withdraws IRQ12.
<1>2. ASSUME mouse_read
      PROVE  InBuffer' = 0 /\ output'.from # "mouse" /\ (request' = TRUE => output'.from = "mouse")
  <2>1. NoByte.from = "none"
    BY DEF NoByte
  <2>2. request = TRUE => output.from = "mouse"
    BY DEF PacketInv
  <2> QED
    BY <1>2, <2>1, <2>2 DEF mouse_read, InBuffer
<1>3. CASE InitStart
  <2>1. /\ pc = "boot" /\ pc' = "read command byte" /\ Answer("controller", command_byte)
        /\ UNCHANGED <<output, reporting, request, registered, slip>>
    BY <1>3 DEF InitStart, At, ghostVars
  <2>2. replies = <<>> /\ wire = <<>> /\ reporting = FALSE /\ output.from # "mouse" /\ Outstanding = 0
    BY <1>1, <2>1 DEF InitStage
  <2>3. Len(replies') = 1 /\ replies' # <<>> /\ Head(replies').from = "controller"
    <3> DEFINE reply == [from |-> "controller", byte |-> command_byte]
    <3>1. replies' = Append(<<>>, reply)
      BY <2>1, <2>2 DEF Answer
    <3>2. reply.from = "controller"
      OBVIOUS
    <3> HIDE DEF reply
    <3> QED
      BY <3>1, <3>2
  <2>4. Outstanding' = 0 /\ InBuffer' = InBuffer /\ Owing' = 0 /\ Owing = 0
    <3>1. FromController'
      BY <2>3 DEF FromController
    <3>2. Outstanding' = 0
      BY <2>3, <3>1 DEF Outstanding
    <3>3. InBuffer' = InBuffer
      BY <2>1 DEF InBuffer
    <3>4. Owing' = 0 /\ Owing = 0
      BY <2>1 DEF Owing
    <3> QED
      BY <3>2, <3>3, <3>4
  <2>5. Orderly'
    BY <2>3 DEF Orderly
  <2>6. UnderWay' = UnderWay
    BY <1>1, <2>2, <2>4, CountTypes, CountTypesNext
  <2>7. Aligned'
    BY <1>1, <2>1, <2>4, <2>6 DEF Aligned
  <2>8. InitStage'
    BY <1>1, <2>1, <2>2, <2>4 DEF InitStage, BootSteps
  <2> QED
    BY <2>1, <2>5, <2>7, <2>8 DEF PacketInv
<1>4. CASE InitCommandByte
  <2>1. /\ pc = "read command byte" /\ pc' = "read ack of defaults"
        /\ mouse_read /\ Answer("mouse", ACK) /\ UNCHANGED <<reporting, registered, slip>>
    BY <1>4 DEF InitCommandByte, At
  <2>2. output.from # "mouse" /\ registered = FALSE /\ mouse_packet = <<>>
    BY <1>1, <2>1 DEF InitStage, BootSteps
  <2>3. InBuffer = 0 /\ InBuffer' = 0 /\ Owing = 0 /\ Owing' = 1
    BY <1>2, <2>1, <2>2 DEF InBuffer, Owing
  <2>4. Orderly' /\ Outstanding' = Outstanding + 1
    BY <1>1, <2>1, AskMouse
  <2>5. UnderWay' = UnderWay + 1 /\ UnderWay \in Int
    BY <1>1, <2>3, <2>4, CountTypes, CountTypesNext
  <2>6. slip' + Owing' - UnderWay' = slip + Owing - UnderWay
    <3>1. slip \in Int /\ slip' = slip
      BY <2>1, CountTypes
    <3> QED
      BY <2>3, <2>5, <3>1
  <2>7. Aligned'
    BY <1>1, <2>6 DEF Aligned
  <2>8. InitStage'
    BY <1>1, <2>1, <2>2 DEF InitStage, BootSteps
  <2> QED
    BY <1>2, <2>1, <2>4, <2>7, <2>8 DEF PacketInv
\* An acknowledgement read is a byte less under way, and one not read a slip.
<1>5. ASSUME ReadAck, NEW asked \in {0, 1}, Outstanding' = Outstanding + asked,
             Owing = 1, Owing' = asked
      PROVE  Aligned'
  <2>1. /\ mouse_read
        /\ slip' = IF output.from = "mouse" THEN slip ELSE (slip + 1) % 3
    BY <1>5 DEF ReadAck
  <2>2. InBuffer' = 0 /\ InBuffer = IF output.from = "mouse" THEN 1 ELSE 0
    BY <1>2, <2>1 DEF InBuffer
  <2>3. UnderWay' = UnderWay + asked - InBuffer /\ UnderWay \in Int
    BY <1>1, <1>5, <2>2, CountTypes, CountTypesNext
  <2> DEFINE n == 1 - UnderWay
  <2>4. n \in Int /\ Len(mouse_packet) = (slip + n) % 3
    BY <1>1, <1>5, <2>3, CountTypes DEF Aligned
  <2>5. slip' + Owing' - UnderWay' = slip' + n - 1 + InBuffer /\ slip' \in Int
    <3>1. slip' \in Int /\ InBuffer \in Int /\ asked \in Int
      BY CountTypes, CountTypesNext
    <3> QED
      BY <1>5, <2>3, <3>1
  <2> HIDE DEF n
  <2>6. CASE output.from = "mouse"
    <3>1. slip' + Owing' - UnderWay' = slip + n
      BY <2>1, <2>2, <2>4, <2>5, <2>6, CountTypes
    <3> QED
      BY <1>1, <2>4, <3>1 DEF Aligned
  <2>7. CASE output.from # "mouse"
    <3>1. slip' + Owing' - UnderWay' = ((slip + 1) % 3) + n - 1
      BY <2>1, <2>2, <2>4, <2>5, <2>7
    <3>2. (((slip + 1) % 3) + n - 1) % 3 = (slip + n) % 3
      BY <2>4, CountTypes, Modulo
    <3> QED
      BY <1>1, <2>4, <3>1, <3>2 DEF Aligned
  <2> QED
    BY <2>6, <2>7
<1>6. CASE InitDefaults
  <2>1. /\ pc = "read ack of defaults" /\ pc' = "read ack of reporting"
        /\ ReadAck /\ Answer("mouse", ACK) /\ UNCHANGED registered
    BY <1>6 DEF InitDefaults, At
  <2>2. Orderly' /\ Outstanding' = Outstanding + 1
    BY <1>1, <2>1, AskMouse
  <2>3. Owing = 1 /\ Owing' = 1
    BY <2>1 DEF Owing
  <2>4. Aligned'
    BY <1>5, <2>1, <2>2, <2>3
  <2>5. InitStage'
    BY <1>1, <2>1 DEF InitStage, BootSteps
  <2> QED
    BY <1>2, <2>1, <2>2, <2>4, <2>5 DEF PacketInv, ReadAck
<1>7. CASE InitReporting
  <2>1. /\ pc = "read ack of reporting" /\ pc' = "initialised"
        /\ ReadAck /\ registered' = TRUE /\ UNCHANGED replies
    BY <1>7 DEF InitReporting, At
  <2>2. Orderly' /\ Outstanding' = Outstanding + 0
    <3>1. Orderly' /\ Outstanding' = Outstanding
      BY <1>1, <2>1 DEF Orderly, Outstanding, FromController
    <3>2. Outstanding \in Int
      BY CountTypes
    <3> QED
      BY <3>1, <3>2
  <2>3. Owing = 1 /\ Owing' = 0
    BY <2>1 DEF Owing
  <2>4. Aligned'
    BY <1>5, <2>1, <2>2, <2>3
  <2>5. InitStage'
    BY <2>1 DEF InitStage, BootSteps
  <2> QED
    BY <1>2, <2>1, <2>2, <2>4, <2>5 DEF PacketInv, ReadAck
<1> QED
  BY <1>3, <1>4, <1>6, <1>7 DEF mouse_init

\* Once the handler is registered, the packets it collects begin where the mouse
\* begins them, shifted by just as many bytes as were lost on the way, less the
\* answers that mouse_init went on without: at whatever step a key comes between,
\* an answer is late or a call is made, nothing else moves the boundary.
THEOREM DriverStaysInStep == Spec => []InStep
<1>1. Init => PacketInv
  <2> SUFFICES ASSUME Init PROVE PacketInv
    OBVIOUS
  <2>1. /\ output.from = "none" /\ replies = <<>> /\ wire = <<>> /\ request = FALSE
        /\ mouse_packet = <<>> /\ registered = FALSE /\ reporting = FALSE /\ pc = "boot" /\ slip = 0
    BY DEF Init, NoByte
  <2>2. Len(replies) = 0 /\ Len(wire) = 0 /\ Len(mouse_packet) = 0 /\ ~FromController
    BY <2>1 DEF FromController
  <2>3. UnderWay = 0 /\ Outstanding = 0 /\ Owing = 0
    BY <2>1, <2>2 DEF UnderWay, Outstanding, Owing
  <2>4. Aligned
    BY <2>1, <2>2, <2>3 DEF Aligned
  <2> QED
    BY <2>1, <2>2, <2>3, <2>4 DEF PacketInv, InitStage, Orderly, BootSteps
<1>2. MouseTypeOK /\ MouseTypeOK' /\ PacketInv /\ [Next]_vars => PacketInv'
  <2> SUFFICES ASSUME MouseTypeOK, MouseTypeOK', PacketInv, [Next]_vars PROVE PacketInv'
    OBVIOUS
  <2>1. CASE UNCHANGED vars
    <3>1. UNCHANGED <<deviceVars, mouse_packet, registered, pc, slip>>
      BY <2>1 DEF vars, driverVars, mainVars, ghostVars
    <3> QED
      BY <3>1, PacketKept
  <2> QED
    BY <2>1, PacketDevices, PacketHandler, PacketInit, PacketMain DEF Next
<1>3. MouseTypeOK /\ PacketInv => InStep
  <2> SUFFICES ASSUME MouseTypeOK, PacketInv, registered PROVE Len(mouse_packet) = (slip - UnderWay) % 3
    BY DEF InStep
  <2>1. registered = TRUE
    BY DEF MouseTypeOK
  <2>2. Owing = 0
    BY <2>1 DEF PacketInv, InitStage, Owing, BootSteps
  <2> QED
    BY <2>2, CountTypes DEF PacketInv, Aligned
<1> QED
  BY <1>1, <1>2, <1>3, MouseTypeCorrect, PTL DEF Spec
=============================================================================
