------------------------------ MODULE Graphics ------------------------------
(***************************************************************************)
(* The drawing primitives of gui/graphics.c and the text of gui/font.c on  *)
(* the frame buffer.  Each operation is the set of offsets that its loops  *)
(* write, clipped as the code clips; rows are written through the address  *)
(* of a buffer, single pixels through fb_put_pixel, whose target is        *)
(* another variable of the frame buffer.                                   *)
(*                                                                         *)
(* One colour channel stands for three; the font and the cursor are small  *)
(* pictures of the same form.                                              *)
(***************************************************************************)
EXTENDS Framebuffer, FiniteSets

CONSTANTS
  Xs, Ys, Lengths, Radii,   \* the arguments that programs draw with
  Copies,              \* arguments of fb_copy_rect, which does not clip
  Spots,               \* where the mouse puts the cursor: on the screen
  WHITE, DARK,         \* COLOR_WHITE and COLOR_DARK_GRAY
  Ink, ClearInk,       \* the colour of the drawing calls and of fb_clear
  MaxSteps,            \* bounds the steps; a drawing call is the last one
  Shades,              \* <<color_top, color_bottom>> of the gradients
  Bitmap,              \* [pixel -> [color, alpha]]
  cursor_data,         \* [pixel -> 0 (transparent), 1 (white) or 2 (black)]
  Glyph,               \* the pixels set in a character
  FONT_WIDTH, FONT_HEIGHT,
  Texts                \* sequences of "char", "newline" and "tab"

ASSUME GraphicsAssumption ==
  /\ Xs \subseteq Int /\ Ys \subseteq Int /\ Lengths \subseteq Nat /\ Radii \subseteq Nat
  /\ Spots \subseteq Int \X Int
  /\ Copies \subseteq [sx : Nat, sy : Nat, x : Nat, y : Nat, width : Nat, height : Nat]
  /\ {WHITE, DARK, Ink, ClearInk} \subseteq Int
  /\ Shades \subseteq (0..255) \X (0..255)
  /\ DOMAIN Bitmap \subseteq Int \X Int
  /\ \A p \in DOMAIN Bitmap : Bitmap[p].color \in Int /\ Bitmap[p].alpha \in 0..255
  /\ FONT_WIDTH \in Nat \ {0} /\ FONT_HEIGHT \in Nat \ {0}
  /\ Glyph \subseteq (0..(FONT_WIDTH - 1)) \X (0..(FONT_HEIGHT - 1))
  /\ Texts \in Seq(Seq({"char", "newline", "tab"}))

VARIABLES
  cursor_bg,           \* [x, y, pixels]
  steps,               \* made so far
  last,                \* the call of this step
  undo,                \* what gfx_save_cursor_bg saw, if only the cursor was drawn since
  parted               \* fb_init found double buffering on, and it was not switched off since

vars == <<fbVars, cursor_bg, steps, last, undo, parted>>

Abs(n) == IF n < 0 THEN -n ELSE n
AtLeast0(n) == IF n < 0 THEN 0 ELSE n
AtMost(n, limit) == IF n > limit THEN limit ELSE n

\* What the functions that write rows take for the target.
Target == IF double_buffering THEN "back" ELSE fb_info.address

-----------------------------------------------------------------------------
(* The cells that the loops write                                          *)

gfx_draw_hline(x, y, length) ==
  LET x1 == AtLeast0(x)  x2 == AtMost(x + length, fb_info.width)
  IN  IF y \notin 0..(fb_info.height - 1) \/ x1 >= x2 THEN {} ELSE Run(Offset(x1, y), x2 - x1)

gfx_draw_vline(x, y, length) ==
  LET y1 == AtLeast0(y)  y2 == AtMost(y + length, fb_info.height)
  IN  IF x \notin 0..(fb_info.width - 1) THEN {} ELSE {Offset(x, py) : py \in y1..(y2 - 1)}

gfx_fill_rect(x, y, width, height) ==
  LET x1 == AtLeast0(x)  x2 == AtMost(x + width, fb_info.width)
      y1 == AtLeast0(y)  y2 == AtMost(y + height, fb_info.height)
  IN  IF x1 >= x2 THEN {} ELSE UNION {Run(Offset(x1, py), x2 - x1) : py \in y1..(y2 - 1)}

gfx_draw_rect(x, y, width, height) ==
  gfx_draw_hline(x, y, width) \cup gfx_draw_hline(x, y + height - 1, width)
    \cup gfx_draw_vline(x, y, height) \cup gfx_draw_vline(x + width - 1, y, height)

\* The loop of gfx_draw_line up to the pixel that ends it.
LinePoints(x1, y1, x2, y2) ==
  LET dx == Abs(x2 - x1)  sx == IF x1 < x2 THEN 1 ELSE -1
      dy == Abs(y2 - y1)  sy == IF y1 < y2 THEN 1 ELSE -1
      at[i \in 0..(dx + dy)] ==
        IF i = 0 THEN [x |-> x1, y |-> y1, err |-> dx - dy]
        ELSE LET p == at[i - 1]
                 across == 2 * p.err > -dy
                 along == 2 * p.err < dx
             IN  [x |-> IF across THEN p.x + sx ELSE p.x,
                  y |-> IF along THEN p.y + sy ELSE p.y,
                  err |-> p.err - (IF across THEN dy ELSE 0) + (IF along THEN dx ELSE 0)]
      Ends(i) == at[i].x = x2 /\ at[i].y = y2
      n == CHOOSE i \in 0..(dx + dy) : Ends(i) /\ \A j \in 0..(i - 1) : ~Ends(j)
  IN  {<<at[i].x, at[i].y>> : i \in 0..n}

\* The pairs x, y of the midpoint loop, which both circles share.
Octant(radius) ==
  LET at[y \in 0..(radius + 1)] ==
        IF y = 0 THEN [x |-> radius, err |-> 0]
        ELSE LET p == at[y - 1]
                 err == p.err + 1 + 2 * y
             IN  IF 2 * (err - p.x) + 1 > 0
                 THEN [x |-> p.x - 1, err |-> err + 1 - 2 * (p.x - 1)]
                 ELSE [x |-> p.x, err |-> err]
  IN  {<<at[y].x, y>> : y \in {y \in 0..radius : at[y].x >= y}}

CirclePoints(cx, cy, radius) ==
  UNION {{<<cx + sx * p[1], cy + sy * p[2]>>, <<cx + sx * p[2], cy + sy * p[1]>>} :
           p \in Octant(radius), sx \in {-1, 1}, sy \in {-1, 1}}

gfx_fill_circle(cx, cy, radius) ==
  UNION {gfx_draw_hline(cx - p[1], cy + s * p[2], 2 * p[1] + 1)
           \cup gfx_draw_hline(cx - p[2], cy + s * p[1], 2 * p[2] + 1) :
           p \in Octant(radius), s \in {-1, 1}}

PutPixels(points) == UNION {fb_put_pixel(p[1], p[2]) : p \in points}

-----------------------------------------------------------------------------
(* Calls                                                                   *)

Call(op, x, y, width, height) == [op |-> op, x |-> x, y |-> y, width |-> width, height |-> height]

None == Call("none", 0, 0, 0, 0)

Does(call, buffer, cells, contents) ==
  /\ SetBuffer(buffer, cells, contents)
  /\ steps' = MaxSteps /\ last' = call
  /\ undo' = {} /\ UNCHANGED <<cursor_bg, parted>>

\* A stroke is a set of cells and its colour; later strokes cover.
Stroke(cells, color) == <<[cells |-> cells, color |-> color]>>
Draw(call, buffer, strokes) ==
  Does(call, buffer, UNION {strokes[i].cells : i \in DOMAIN strokes},
       [o \in DOMAIN memory[buffer] |->
          LET on == {i \in DOMAIN strokes : o \in strokes[i].cells}
          IN  IF on = {} THEN memory[buffer][o]
              ELSE strokes[CHOOSE i \in on : \A j \in on : j <= i].color])

\* The target with the pixels of a picture put at x, y.
PictureCells(x, y, pixels) == UNION {fb_put_pixel(x + p[1], y + p[2]) : p \in pixels}
Overlaid(x, y, picture) ==
  [o \in DOMAIN memory[draw_target] |->
     LET on == {p \in DOMAIN picture : o \in fb_put_pixel(x + p[1], y + p[2])}
     IN  IF on = {} THEN memory[draw_target][o] ELSE picture[CHOOSE p \in on : TRUE]]

FillRect(x, y, width, height) ==
  Draw(Call("fill", x, y, width, height), Target, Stroke(gfx_fill_rect(x, y, width, height), Ink))
DrawRect(x, y, width, height) ==
  Draw(Call("rect", x, y, width, height), Target, Stroke(gfx_draw_rect(x, y, width, height), Ink))
Hline(x, y, length) ==
  Draw(Call("fill", x, y, length, 1), Target, Stroke(gfx_draw_hline(x, y, length), Ink))
Vline(x, y, length) ==
  Draw(Call("fill", x, y, 1, length), Target, Stroke(gfx_draw_vline(x, y, length), Ink))
DrawLine(x1, y1, x2, y2) ==
  Draw(Call("line", x1, y1, x2 - x1, y2 - y1), draw_target,
       Stroke(PutPixels(LinePoints(x1, y1, x2, y2)), Ink))
DrawCircle(cx, cy, radius) ==
  Draw(Call("circle", cx, cy, radius, radius), draw_target,
       Stroke(PutPixels(CirclePoints(cx, cy, radius)), Ink))
FillCircle(cx, cy, radius) ==
  Draw(Call("disc", cx, cy, radius, radius), Target, Stroke(gfx_fill_circle(cx, cy, radius), Ink))

\* gfx_draw_panel_raised and gfx_draw_panel_sunken.
Panel(op, x, y, width, height, first, second) ==
  Draw(Call(op, x, y, width, height), Target,
       Stroke(gfx_fill_rect(x, y, width, height), Ink)
         \o Stroke(gfx_draw_hline(x, y, width) \cup gfx_draw_vline(x, y, height), first)
         \o Stroke(gfx_draw_hline(x, y + height - 1, width)
                     \cup gfx_draw_vline(x + width - 1, y, height), second))

\* The product is unsigned: below zero, 2^32 - d * t is divided, whose quotient
\* modulo 256 is that of 65536 * (65536 % max) - d * t.
interpolate_color(c1, c2, t, max) ==
  LET wrapped == IF (c2 - c1) * t < 0 THEN 65536 * (65536 % max) ELSE 0
  IN  (c1 + (wrapped + (c2 - c1) * t) \div max) % 256
Gradient(x, y, width, height, top, bottom) ==
  Draw([op |-> "gradient", x |-> x, y |-> y, width |-> width, height |-> height,
        top |-> top, bottom |-> bottom], Target,
       [i \in 1..height |-> [cells |-> gfx_draw_hline(x, y + i - 1, width),
                             color |-> interpolate_color(top, bottom, i - 1, height)]])

DrawBitmap(x, y) ==
  Does(Call("bitmap", x, y, 0, 0), draw_target, PictureCells(x, y, DOMAIN Bitmap),
       Overlaid(x, y, [p \in DOMAIN Bitmap |-> Bitmap[p].color]))

gfx_blend_colors(fg, bg, alpha) == (fg * alpha + bg * (255 - alpha)) \div 255
Visible == {p \in DOMAIN Bitmap : Bitmap[p].alpha > 0}
DrawBitmapAlpha(x, y) ==
  Does(Call("blend", x, y, 0, 0), draw_target, PictureCells(x, y, Visible),
       Overlaid(x, y, [p \in Visible |->
                         gfx_blend_colors(Bitmap[p].color, fb_get_pixel(x + p[1], y + p[2]), Bitmap[p].alpha)]))

-----------------------------------------------------------------------------
(* Text: font_draw_string calls font_draw_char for each character.         *)

FontBox == (0..(FONT_WIDTH - 1)) \X (0..(FONT_HEIGHT - 1))

TextPoints(x, y, text, pixels) ==
  LET at[i \in 1..(Len(text) + 1)] ==
        IF i = 1 THEN [x |-> x, y |-> y]
        ELSE LET p == at[i - 1]
             IN  CASE text[i - 1] = "newline" -> [x |-> x, y |-> p.y + FONT_HEIGHT]
                   [] text[i - 1] = "tab" -> [p EXCEPT !.x = p.x + 4 * FONT_WIDTH]
                   [] OTHER -> [p EXCEPT !.x = p.x + FONT_WIDTH]
  IN  UNION {{<<at[i].x + p[1], at[i].y + p[2]>> : p \in pixels} :
               i \in {i \in DOMAIN text : text[i] = "char"}}

\* A background of colour 0 is left as it is.
DrawString(x, y, n, bg) ==
  Draw([op |-> "text", x |-> x, y |-> y, text |-> Texts[n], bg |-> bg], draw_target,
       Stroke(IF bg = 0 THEN {} ELSE PutPixels(TextPoints(x, y, Texts[n], FontBox \ Glyph)), bg)
         \o Stroke(PutPixels(TextPoints(x, y, Texts[n], Glyph)), Ink))

font_get_string_width(text) ==
  LET at[i \in 0..Len(text)] ==
        IF i = 0 THEN [width |-> 0, max |-> 0]
        ELSE LET a == at[i - 1]
             IN  CASE text[i] = "newline" ->
                        [width |-> 0, max |-> IF a.width > a.max THEN a.width ELSE a.max]
                   [] text[i] = "tab" -> [a EXCEPT !.width = a.width + 4 * FONT_WIDTH]
                   [] OTHER -> [a EXCEPT !.width = a.width + FONT_WIDTH]
      end == at[Len(text)]
  IN  IF end.width > end.max THEN end.width ELSE end.max

-----------------------------------------------------------------------------
(* The cursor                                                              *)

CursorStep == steps' = steps + 1 /\ last' = None /\ UNCHANGED parted
Arrow == {p \in DOMAIN cursor_data : cursor_data[p] # 0}

gfx_save_cursor_bg(x, y) ==
  /\ cursor_bg' = [x |-> x, y |-> y,
                   pixels |-> [p \in DOMAIN cursor_data |-> fb_get_pixel(x + p[1], y + p[2])]]
  /\ undo' = {[x |-> x, y |-> y, contents |-> memory[draw_target]]}
  /\ SetBuffer(draw_target, PictureCells(x, y, DOMAIN cursor_data), memory[draw_target])
  /\ CursorStep

gfx_draw_cursor(x, y) ==
  /\ SetBuffer(draw_target, PictureCells(x, y, Arrow),
               Overlaid(x, y, [p \in Arrow |-> IF cursor_data[p] = 1 THEN WHITE ELSE 0]))
  /\ undo' = {u \in undo : u.x = x /\ u.y = y}
  /\ CursorStep /\ UNCHANGED cursor_bg

\* Mutant: whatever was saved is put back, wherever it comes from.
RestoreAnywhere(x, y) == Overlaid(x, y, cursor_bg.pixels)
Restored(x, y) ==
  IF cursor_bg.x = x /\ cursor_bg.y = y THEN Overlaid(x, y, cursor_bg.pixels)
  ELSE memory[draw_target]
gfx_restore_cursor_bg(x, y) ==
  /\ SetBuffer(draw_target,
               IF cursor_bg.x = x /\ cursor_bg.y = y THEN PictureCells(x, y, DOMAIN cursor_data) ELSE {},
               Restored(x, y))
  /\ CursorStep /\ UNCHANGED <<cursor_bg, undo>>

-----------------------------------------------------------------------------
Init ==
  /\ FbInit
  /\ cursor_bg = [x |-> -1, y |-> -1, pixels |-> [p \in DOMAIN cursor_data |-> 0]]
  /\ steps = 0 /\ last = None /\ undo = {} /\ parted = FALSE

Ready == ~overrun /\ steps < MaxSteps
NoCall == steps' = steps + 1 /\ last' = None /\ UNCHANGED cursor_bg

InitFb ==
  /\ Ready /\ fb_init /\ NoCall
  /\ undo' = {} /\ parted' = IF mboot.rgb THEN double_buffering ELSE parted

Toggle ==
  /\ Ready /\ NoCall
  /\ \E enable \in BOOLEAN : fb_set_double_buffer(enable) /\ parted' = (parted /\ enable)
  /\ undo' = {}

Swap ==
  /\ Ready /\ fb_swap_buffers /\ NoCall /\ UNCHANGED parted
  /\ undo' = IF double_buffering /\ draw_target = fb_info.address THEN {} ELSE undo

DrawSomething ==
  /\ Ready
  /\ \E x \in Xs, y \in Ys :
       \/ \E w, h \in Lengths :
            \/ FillRect(x, y, w, h)
            \/ DrawRect(x, y, w, h)
            \/ Panel("raised", x, y, w, h, WHITE, DARK)
            \/ Panel("sunken", x, y, w, h, DARK, WHITE)
            \/ \E s \in Shades : Gradient(x, y, w, h, s[1], s[2])
       \/ \E n \in Lengths : Hline(x, y, n) \/ Vline(x, y, n)
       \/ \E x2 \in Xs, y2 \in Ys : DrawLine(x, y, x2, y2)
       \/ \E r \in Radii : DrawCircle(x, y, r) \/ FillCircle(x, y, r)
       \/ DrawBitmap(x, y) \/ DrawBitmapAlpha(x, y)
       \/ \E n \in DOMAIN Texts, bg \in {0, DARK} : DrawString(x, y, n, bg)

Clear ==
  /\ Ready
  /\ fb_clear(ClearInk)
  /\ steps' = steps + 1 /\ last' = Call("clear", 0, 0, fb_info.width, fb_info.height)
  /\ undo' = {} /\ UNCHANGED <<cursor_bg, parted>>

CopyRect ==
  /\ Ready
  /\ \E c \in Copies :
       /\ \A z \in {c.x, c.sx} : z + c.width <= fb_info.width
       /\ \A z \in {c.y, c.sy} : z + c.height <= fb_info.height
       /\ fb_copy_rect(c.sx, c.sy, c.x, c.y, c.width, c.height)
       /\ last' = [op |-> "copy", sx |-> c.sx, sy |-> c.sy, x |-> c.x, y |-> c.y,
                   width |-> c.width, height |-> c.height]
  /\ steps' = MaxSteps /\ undo' = {} /\ UNCHANGED <<cursor_bg, parted>>

Cursor ==
  /\ Ready
  /\ \E s \in Spots : \/ gfx_save_cursor_bg(s[1], s[2])
                      \/ gfx_draw_cursor(s[1], s[2])
                      \/ gfx_restore_cursor_bg(s[1], s[2])

Next == InitFb \/ Toggle \/ Swap \/ DrawSomething \/ Clear \/ CopyRect \/ Cursor

Spec == Init /\ [][Next]_vars

-----------------------------------------------------------------------------
(* What each call promises, pixel by pixel.                                *)

InBox(c, p) == p[1] \in c.x..(c.x + c.width - 1) /\ p[2] \in c.y..(c.y + c.height - 1)

\* The upper and left, the lower and right edges: where one of the lengths is
\* zero the others are still drawn, beside the empty box.
Edges(c, p, x, y) ==
  \/ p[2] = y /\ p[1] \in c.x..(c.x + c.width - 1)
  \/ p[1] = x /\ p[2] \in c.y..(c.y + c.height - 1)
FirstEdge(c, p) == Edges(c, p, c.x, c.y)
LastEdge(c, p) == Edges(c, p, c.x + c.width - 1, c.y + c.height - 1)

\* The line within half a pixel; what is exactly half a pixel off is free.
Between(a, b, v) == v \in a..b \/ v \in b..a
LineRight(c, p, changed, painted) ==
  LET longer == IF Abs(c.width) > Abs(c.height) THEN Abs(c.width) ELSE Abs(c.height)
      off == 2 * Abs((p[1] - c.x) * c.height - (p[2] - c.y) * c.width)
      inside == Between(c.x, c.x + c.width, p[1]) /\ Between(c.y, c.y + c.height, p[2])
  IN  /\ changed => inside /\ off <= longer
      /\ inside /\ (off < longer \/ off = 0) => painted

\* The circle within a pixel and a half inwards and half a pixel outwards: the
\* error of the loop runs ahead by two in each step.
Square(c, p) == (p[1] - c.x) * (p[1] - c.x) + (p[2] - c.y) * (p[2] - c.y)
Axial(c, p) == Abs(p[1] - c.x) + Abs(p[2] - c.y) = c.width /\ (p[1] = c.x \/ p[2] = c.y)
Within(c, p) == Square(c, p) <= c.width * c.width + c.width
CircleRight(c, p, changed, painted) ==
  /\ changed => Within(c, p) /\ (c.width > 0 => Square(c, p) >= (c.width - 1) * (c.width - 2))
  /\ Axial(c, p) => painted
DiscRight(c, p, changed, painted) ==
  /\ changed => Within(c, p)
  /\ Axial(c, p) \/ (c.width > 0 /\ Square(c, p) <= (c.width - 1) * (c.width - 1)) => painted

\* Where the i-th character of a text stands.
Stands(c, i) ==
  LET newlines == {j \in 1..(i - 1) : c.text[j] = "newline"}
      line == {j \in 1..(i - 1) : \A k \in newlines : j > k}
      tabs == {j \in line : c.text[j] = "tab"}
  IN  <<c.x + FONT_WIDTH * (Cardinality(line) + 3 * Cardinality(tabs)),
        c.y + FONT_HEIGHT * Cardinality(newlines)>>
TextRight(c, p, old, new) ==
  LET on(pixels) == {i \in DOMAIN c.text :
                       /\ c.text[i] = "char"
                       /\ <<p[1] - Stands(c, i)[1], p[2] - Stands(c, i)[2]>> \in pixels}
  IN  /\ new = IF on(Glyph) # {} THEN Ink
               ELSE IF on(FontBox) # {} /\ c.bg # 0 THEN c.bg ELSE old
      /\ on(FontBox) # {} => p[1] < c.x + font_get_string_width(c.text)

GradientRight(c, p, old, new) ==
  LET t == p[2] - c.y
  IN  IF ~InBox(c, p) THEN new = old
      ELSE t = 0 \/ c.top <= c.bottom \/ 65536 % c.height = 0 =>
             c.height * (new - c.top) \in ((c.bottom - c.top) * t - (c.height - 1))..((c.bottom - c.top) * t)

BlendRight(b, old, new) ==
  255 * new - (b.color * b.alpha + old * (255 - b.alpha)) \in -254..0

Right(c, p, was, new) ==
  LET old == was[Offset(p[1], p[2])]
      changed == new # old
      painted == new = Ink
      at == IF c.op \in {"bitmap", "blend"} THEN <<p[1] - c.x, p[2] - c.y>> ELSE p
  IN  CASE c.op = "clear" -> new = ClearInk
        [] c.op = "fill" -> new = IF InBox(c, p) THEN Ink ELSE old
        [] c.op = "rect" -> new = IF FirstEdge(c, p) \/ LastEdge(c, p) THEN Ink ELSE old
        [] c.op \in {"raised", "sunken"} ->
             new = IF LastEdge(c, p) THEN IF c.op = "raised" THEN DARK ELSE WHITE
                   ELSE IF FirstEdge(c, p) THEN IF c.op = "raised" THEN WHITE ELSE DARK
                   ELSE IF InBox(c, p) THEN Ink ELSE old
        [] c.op = "line" -> LineRight(c, p, changed, painted) /\ (changed => painted)
        [] c.op = "circle" -> CircleRight(c, p, changed, painted) /\ (changed => painted)
        [] c.op = "disc" -> DiscRight(c, p, changed, painted) /\ (changed => painted)
        [] c.op = "gradient" -> GradientRight(c, p, old, new)
        [] c.op = "text" -> TextRight(c, p, old, new)
        [] c.op = "copy" ->
             new = IF InBox(c, p) THEN was[Offset(p[1] + c.sx - c.x, p[2] + c.sy - c.y)] ELSE old
        [] c.op = "bitmap" -> new = IF at \in DOMAIN Bitmap THEN Bitmap[at].color ELSE old
        [] c.op = "blend" -> IF at \in DOMAIN Bitmap THEN BlendRight(Bitmap[at], old, new)
                             ELSE new = old

\* Every drawing call paints in one buffer exactly the pixels of its shape that
\* are on the screen, whatever part of it lies outside and whatever was drawn,
\* switched, swapped and initialised before, and it leaves the other buffer
\* alone.  That buffer is the one that double buffering selects, for the
\* functions that write rows and for those that write pixels; if fb_init came
\* while double buffering was on, it may be either.  Only where the screen is
\* larger than the back buffer can a call run past the end of one.  Of a
\* gradient that gets darker only the first row is promised, unless the height
\* divides 65536.
DrawsItsShape ==
  [][last' # None =>
       /\ overrun' => Size > BACK_SIZE
       /\ ~overrun' =>
            \E b \in Buffers :
              /\ b = Target \/ parted
              /\ \A other \in Buffers \ {b} : memory'[other] = memory[other]
              /\ \A x \in 0..(fb_info.width - 1), y \in 0..(fb_info.height - 1) :
                   Offset(x, y) \in DOMAIN memory[b] =>
                     Right(last', <<x, y>>, memory[b], memory'[b][Offset(x, y)])
    ]_vars

\* Saving what is under the cursor, drawing it and restoring gives the picture
\* back, at the edges too, and restoring elsewhere than saved changes nothing.
CursorUndone ==
  [][\A s \in Spots, u \in undo :
       gfx_restore_cursor_bg(s[1], s[2]) =>
         memory'[draw_target] =
           IF s = <<u.x, u.y>> THEN u.contents ELSE memory[draw_target]]_vars
=============================================================================
