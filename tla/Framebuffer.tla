---------------------------- MODULE Framebuffer ----------------------------
(***************************************************************************)
(* The linear frame buffer of gui/framebuffer.c, its optional back buffer, *)
(* and the memory functions of lib/string.c that it moves pixels with.     *)
(* A buffer is a function from pixel offsets to colours.                   *)
(***************************************************************************)
EXTENDS Integers, Sequences

CONSTANTS
  Modes,               \* what multiboot may report: [rgb, width, height, pitch]
  BACK_SIZE            \* the pixels of the static array, 1024 * 768

ASSUME FramebufferAssumption ==
  /\ \A m \in Modes : /\ m.width \in Nat /\ m.height \in Nat /\ m.pitch \in Nat
                      /\ m.width <= m.pitch /\ m.rgb \in BOOLEAN
  /\ BACK_SIZE \in Nat

VARIABLES
  mboot,               \* what it does report
  fb_info,             \* address is "none" or "front"; pitch counts pixels
  memory,              \* the contents of the "front" and the "back" buffer
  back_buffer,         \* it was allocated
  double_buffering,
  draw_target,
  overrun              \* a call went past the end of a buffer: the model stops

fbVars == <<mboot, fb_info, memory, back_buffer, double_buffering, draw_target, overrun>>

Buffers == {"none", "front", "back"}
Size == fb_info.pitch * fb_info.height
Offsets == 0..(Size - 1)

-----------------------------------------------------------------------------
(* lib/string.c                                                            *)

\* Cells i .. i + n - 1 of the buffer m.
Run(i, n) == i..(i + n - 1)

\* memcpy goes upwards, and reads what it wrote if the ranges overlap so.
memcpy(m, to, from, n) ==
  LET copied[i \in Run(0, n)] ==
        IF from + i \in Run(to, i) THEN copied[from + i - to] ELSE m[from + i]
  IN  [o \in DOMAIN m |-> IF o \in Run(to, n) THEN copied[o - to] ELSE m[o]]

\* memmove chooses its direction and never reads what it wrote.
memmove(m, to, from, n) ==
  [o \in DOMAIN m |-> IF o \in Run(to, n) THEN m[from + o - to] ELSE m[o]]

-----------------------------------------------------------------------------
(* Pixels                                                                  *)

OnScreen(x, y) == x \in 0..(fb_info.width - 1) /\ y \in 0..(fb_info.height - 1)
Offset(x, y) == y * fb_info.pitch + x

fb_put_pixel(x, y) == IF OnScreen(x, y) THEN {Offset(x, y)} ELSE {}
fb_get_pixel(x, y) ==
  IF OnScreen(x, y) /\ Offset(x, y) \in DOMAIN memory[draw_target]
  THEN memory[draw_target][Offset(x, y)] ELSE 0

\* A call that reads or writes the cells of a buffer.
SetBuffer(buffer, cells, contents) ==
  /\ memory' = [memory EXCEPT ![buffer] = contents]
  /\ overrun' = (cells \ DOMAIN memory[buffer] # {})
  /\ UNCHANGED <<mboot, fb_info, back_buffer, double_buffering, draw_target>>

fb_clear(color) ==
  SetBuffer(draw_target, Offsets,
            [o \in DOMAIN memory[draw_target] |-> IF o \in Offsets THEN color ELSE memory[draw_target][o]])

\* The order of the rows depends on the direction of the copy.
Forward(sx, sy, dx, dy) == dy < sy \/ (dy = sy /\ dx < sx)
RowOrder(sx, sy, dx, dy, n) ==
  [i \in 1..n |-> IF Forward(sx, sy, dx, dy) THEN i - 1 ELSE n - i]

fb_copy_rect(sx, sy, dx, dy, width, height) ==
  LET order == RowOrder(sx, sy, dx, dy, height)
      CopyRow(m, y) ==
        IF Forward(sx, sy, dx, dy)
        THEN memcpy(m, Offset(dx, dy + y), Offset(sx, sy + y), width)
        ELSE memmove(m, Offset(dx, dy + y), Offset(sx, sy + y), width)
      after[i \in 0..height] ==
        IF i = 0 THEN memory[draw_target] ELSE CopyRow(after[i - 1], order[i])
      cells == UNION {Run(Offset(sx, sy + y), width) \cup Run(Offset(dx, dy + y), width) :
                        y \in 0..(height - 1)}
  IN  SetBuffer(draw_target, cells,
                IF cells \subseteq DOMAIN memory[draw_target] THEN after[height]
                ELSE memory[draw_target])

-----------------------------------------------------------------------------
(* Buffers                                                                 *)

fb_init ==
  /\ IF mboot.rgb
     THEN /\ fb_info' = [address |-> "front", width |-> mboot.width, height |-> mboot.height,
                         pitch |-> mboot.pitch]
          /\ draw_target' = "front"
     ELSE UNCHANGED <<fb_info, draw_target>>
  /\ UNCHANGED <<mboot, memory, back_buffer, double_buffering, overrun>>

\* What both have of the back buffer is copied.
fb_swap_buffers ==
  /\ IF double_buffering /\ back_buffer
     THEN /\ overrun' = (Size > BACK_SIZE)
          /\ memory' = [memory EXCEPT ![fb_info.address] =
                          [o \in DOMAIN @ |-> IF o \in DOMAIN memory["back"] THEN memory["back"][o] ELSE @[o]]]
     ELSE UNCHANGED <<overrun, memory>>
  /\ UNCHANGED <<mboot, fb_info, back_buffer, double_buffering, draw_target>>

\* Mutant: switching off leaves the pixels to the back buffer.
DisableKeepsTarget(enable) ==
  \/ /\ enable /\ ~back_buffer
     /\ back_buffer' = TRUE /\ draw_target' = "back" /\ double_buffering' = TRUE
  \/ ~enable /\ double_buffering' = FALSE /\ UNCHANGED <<back_buffer, draw_target>>
  \/ enable /\ back_buffer /\ UNCHANGED <<back_buffer, draw_target, double_buffering>>

\* Once the buffer is there, enabling does nothing.
SetDoubleBuffer(enable) ==
  \/ /\ enable /\ ~back_buffer
     /\ back_buffer' = TRUE /\ draw_target' = "back" /\ double_buffering' = TRUE
  \/ /\ ~enable
     /\ draw_target' = fb_info.address /\ double_buffering' = FALSE /\ UNCHANGED back_buffer
  \/ enable /\ back_buffer /\ UNCHANGED <<back_buffer, draw_target, double_buffering>>

fb_set_double_buffer(enable) ==
  SetDoubleBuffer(enable) /\ UNCHANGED <<mboot, fb_info, memory, overrun>>

\* The screen holds what the boot loader left, here no two pixels alike; the
\* back buffer is zero.
Cells(b) == CASE b = "front" -> 0..(mboot.pitch * mboot.height - 1)
              [] b = "back" -> 0..(BACK_SIZE - 1)
              [] OTHER -> {}

FbInit ==
  /\ mboot \in Modes
  /\ fb_info = [address |-> "none", width |-> 0, height |-> 0, pitch |-> 0]
  /\ memory = [b \in Buffers |-> [o \in Cells(b) |-> IF b = "front" THEN 10 + o ELSE 0]]
  /\ overrun = FALSE
  /\ back_buffer = FALSE /\ double_buffering = FALSE /\ draw_target = "none"
=============================================================================
