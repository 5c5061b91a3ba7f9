--------------------------- MODULE GraphicsProofs ---------------------------
(***************************************************************************)
(* Theorems about drawing for screens of any size and pitch, any cursor,   *)
(* any pictures and any arguments of the calls.                            *)
(***************************************************************************)
EXTENDS Graphics, WellFoundedInduction, FiniteSetTheorems, TLAPS

-----------------------------------------------------------------------------
(* Loops                                                                   *)

\* A non-empty set of naturals has a least member, from the well-foundedness of <.
LEMMA LeastNatural ==
  ASSUME NEW S, S \subseteq Nat, S # {}
  PROVE  \E n \in S : \A m \in S : n <= m
<1>1. PICK n \in S : \A m \in S : ~(<<m, n>> \in OpToRel(<, Nat))
  BY NatLessThanWellFounded, WFMin, Zenon
<1>2. \A m \in S : ~(m < n)
  BY <1>1, Zenon DEF OpToRel
<1> QED
  BY <1>2

\* Counting from 0 to n.
LEMMA UpToN ==
  ASSUME NEW n \in Nat, NEW T, 0 \in T, \A k \in 1..n : k - 1 \in T => k \in T
  PROVE  \A k \in 0..n : k \in T
<1> DEFINE missed == {k \in 0..n : k \notin T}
<1> SUFFICES ASSUME missed # {} PROVE FALSE
  OBVIOUS
<1>1. missed \subseteq Nat
  OBVIOUS
<1> HIDE DEF missed
<1>2. PICK k \in missed : \A m \in missed : k <= m
  BY <1>1, LeastNatural
<1>3. k \in 0..n /\ k \notin T
  BY <1>2 DEF missed
<1>4. k \in 1..n /\ k - 1 \in 0..n /\ ~(k <= k - 1)
  BY <1>3
<1>5. k - 1 \in T
  BY <1>2, <1>4 DEF missed
<1> QED
  BY <1>3, <1>4, <1>5

\* A loop of n steps from b, step j of which turns the value s into G[j][s],
\* computes something.
Computes(n, S, b, G) ==
  \E f \in [0..n -> S] : f[0] = b /\ \A j \in 1..n : f[j] = G[j][f[j - 1]]

LEMMA LoopExists ==
  ASSUME NEW n \in Nat, NEW S, NEW b \in S, NEW G \in [1..n -> [S -> S]]
  PROVE  Computes(n, S, b, G)
<1> DEFINE Runs(f, k) == f[0] = b /\ \A j \in 1..k : f[j] = G[j][f[j - 1]]
           T == {k \in 0..n : \E f \in [0..k -> S] : Runs(f, k)}
<1>1. 0 \in T
  <2> DEFINE g == [j \in 0..0 |-> b]
  <2>1. g \in [0..0 -> S] /\ g[0] = b
    OBVIOUS
  <2> HIDE DEF g
  <2>2. Runs(g, 0)
    BY <2>1
  <2> QED
    BY <2>1, <2>2
<1>2. ASSUME NEW k \in 1..n, k - 1 \in T PROVE k \in T
  <2>1. PICK f \in [0..(k - 1) -> S] : Runs(f, k - 1)
    BY <1>2
  <2> DEFINE v == G[k][f[k - 1]]
             g == [j \in 0..k |-> IF j = k THEN v ELSE f[j]]
  <2>2. k \in Nat /\ k # 0 /\ k - 1 \in 0..(k - 1) /\ k \in 0..n /\ k \in 0..k /\ 0 \in 0..k
    OBVIOUS
  <2>3. v \in S
    <3>1. f[k - 1] \in S /\ G[k] \in [S -> S]
      BY <2>2
    <3> QED
      BY <3>1
  <2> HIDE DEF v
  <2>4. g \in [0..k -> S]
    BY <2>2, <2>3
  <2>5. g[k] = v /\ \A j \in 0..k : j # k => g[j] = f[j]
    BY <2>2
  <2> HIDE DEF g
  <2>6. g[0] = b
    BY <2>1, <2>2, <2>5
  <2>7. ASSUME NEW j \in 1..k PROVE g[j] = G[j][g[j - 1]]
    <3>1. j - 1 \in 0..k /\ j - 1 # k
      BY <2>2
    <3>2. g[j - 1] = f[j - 1]
      BY <2>5, <3>1
    <3>3. CASE j = k
      BY <2>5, <3>2, <3>3 DEF v
    <3>4. CASE j # k
      <4>1. j \in 1..(k - 1) /\ j \in 0..k
        BY <2>2, <3>4
      <4>2. f[j] = G[j][f[j - 1]]
        BY <2>1, <4>1
      <4> QED
        BY <2>5, <3>2, <3>4, <4>1, <4>2
    <3> QED
      BY <3>3, <3>4
  <2>8. Runs(g, k)
    BY <2>6, <2>7
  <2> QED
    BY <2>2, <2>4, <2>8
<1>3. n \in T
  <2> HIDE DEF T
  <2>1. \A k \in 0..n : k \in T
    BY <1>1, <1>2, UpToN
  <2> QED
    BY <2>1
<1> QED
  BY <1>3 DEF Computes

-----------------------------------------------------------------------------
(* The buffers                                                             *)

\* No buffer changes its size, and the functions that write rows and those that
\* write pixels write to the same one unless fb_init has parted them.
BuffersOK ==
  /\ DOMAIN memory = Buffers
  /\ \A b \in Buffers : memory[b] = [o \in Cells(b) |-> memory[b][o]]
  /\ fb_info.address \in Buffers
  /\ draw_target \in {"back", fb_info.address}
  /\ parted \in BOOLEAN /\ double_buffering \in BOOLEAN
  /\ parted = FALSE => draw_target = Target

\* What the cursor can cover.
Covered(x, y) == UNION {fb_put_pixel(x + p[1], y + p[2]) : p \in DOMAIN cursor_data}

\* What was saved is what the buffer held, and since then it has changed under
\* the cursor only.
UndoOK ==
  \A u \in undo :
    /\ cursor_bg.x = u.x /\ cursor_bg.y = u.y
    /\ DOMAIN cursor_bg.pixels = DOMAIN cursor_data
    /\ \A p \in DOMAIN cursor_data :
         OnScreen(u.x + p[1], u.y + p[2]) /\ Offset(u.x + p[1], u.y + p[2]) \in Cells(draw_target) =>
           cursor_bg.pixels[p] = u.contents[Offset(u.x + p[1], u.y + p[2])]
    /\ u.contents = [o \in Cells(draw_target) |-> u.contents[o]]
    /\ \A o \in Cells(draw_target) \ Covered(u.x, u.y) : memory[draw_target][o] = u.contents[o]

CursorInv == BuffersOK /\ UndoOK

LEMMA TargetIsBuffer == BuffersOK => draw_target \in Buffers /\ Target \in Buffers
BY DEF BuffersOK, Buffers, Target

LEMMA BufferCells == BuffersOK => \A b \in Buffers : DOMAIN memory[b] = Cells(b)
<1> SUFFICES ASSUME BuffersOK, NEW b \in Buffers PROVE DOMAIN memory[b] = Cells(b)
  OBVIOUS
<1>1. memory[b] = [o \in Cells(b) |-> memory[b][o]]
  BY DEF BuffersOK
<1> QED
  BY <1>1

\* Storing a whole buffer keeps the shape of all.
LEMMA BufferStored ==
  ASSUME BuffersOK, NEW b \in Buffers, NEW cells, NEW m,
         SetBuffer(b, cells, m), m = [o \in Cells(b) |-> m[o]]
  PROVE  /\ DOMAIN memory' = Buffers
         /\ \A c \in Buffers : memory'[c] = IF c = b THEN m ELSE memory[c]
         /\ \A c \in Buffers : memory'[c] = [o \in Cells(c) |-> memory'[c][o]]
         /\ fb_info' = fb_info /\ draw_target' = draw_target /\ mboot' = mboot
         /\ double_buffering' = double_buffering
         /\ \A c : Cells(c)' = Cells(c)
<1>1. memory' = [memory EXCEPT ![b] = m] /\ DOMAIN memory = Buffers
  BY DEF SetBuffer, BuffersOK
<1>2. DOMAIN memory' = Buffers
  BY <1>1
<1>3. \A c \in Buffers : memory'[c] = IF c = b THEN m ELSE memory[c]
  BY <1>1
<1>4. fb_info' = fb_info /\ draw_target' = draw_target /\ double_buffering' = double_buffering
      /\ mboot' = mboot
  BY DEF SetBuffer
<1>5. \A c : Cells(c)' = Cells(c)
  BY <1>4 DEF Cells
<1>6. ASSUME NEW c \in Buffers PROVE memory'[c] = [o \in Cells(c) |-> memory'[c][o]]
  <2>1. memory[c] = [o \in Cells(c) |-> memory[c][o]]
    BY DEF BuffersOK
  <2>2. CASE c = b
    BY <1>3, <2>2
  <2>3. CASE c # b
    BY <1>3, <2>1, <2>3
  <2> QED
    BY <2>2, <2>3
<1> QED
  BY <1>2, <1>3, <1>4, <1>5, <1>6

LEMMA StoredKeepsBuffers ==
  ASSUME BuffersOK, NEW b \in Buffers, NEW cells, NEW m,
         SetBuffer(b, cells, m), m = [o \in Cells(b) |-> m[o]], parted' = parted
  PROVE  BuffersOK'
<1>1. /\ DOMAIN memory' = Buffers
      /\ \A c \in Buffers : memory'[c] = [o \in Cells(c) |-> memory'[c][o]]
      /\ fb_info' = fb_info /\ draw_target' = draw_target
      /\ double_buffering' = double_buffering
      /\ \A c : Cells(c)' = Cells(c)
  BY BufferStored
<1>2. \A c \in Buffers : memory'[c] = [o \in Cells(c)' |-> memory'[c][o]]
  BY <1>1
<1>3. Target' = Target /\ Buffers' = Buffers
  BY <1>1 DEF Target, Buffers
<1> QED
  BY <1>1, <1>2, <1>3 DEF BuffersOK

LEMMA StoredKeepsInv ==
  ASSUME CursorInv, NEW b \in Buffers, NEW cells, NEW m,
         SetBuffer(b, cells, m), m = [o \in Cells(b) |-> m[o]], undo' = {}, parted' = parted
  PROVE  CursorInv'
BY StoredKeepsBuffers DEF CursorInv, UndoOK

-----------------------------------------------------------------------------
(* Drawing                                                                 *)

LEMMA DrawKeepsInv ==
  ASSUME CursorInv, NEW call, NEW b \in Buffers, NEW strokes, Draw(call, b, strokes)
  PROVE  CursorInv'
<1> DEFINE m == [o \in DOMAIN memory[b] |->
                   LET on == {i \in DOMAIN strokes : o \in strokes[i].cells}
                   IN  IF on = {} THEN memory[b][o]
                       ELSE strokes[CHOOSE i \in on : \A j \in on : j <= i].color]
           cells == UNION {strokes[i].cells : i \in DOMAIN strokes}
<1>1. SetBuffer(b, cells, m) /\ undo' = {} /\ parted' = parted
  BY DEF Draw, Does
<1>2. DOMAIN memory[b] = Cells(b)
  BY BufferCells DEF CursorInv
<1>3. m = [o \in Cells(b) |-> m[o]]
  BY <1>2
<1> HIDE DEF m, cells
<1> QED
  BY <1>1, <1>3, StoredKeepsInv

LEMMA OverlaidShape ==
  ASSUME BuffersOK, NEW x, NEW y, NEW picture
  PROVE  Overlaid(x, y, picture) = [o \in Cells(draw_target) |-> Overlaid(x, y, picture)[o]]
<1>1. DOMAIN memory[draw_target] = Cells(draw_target)
  BY BufferCells, TargetIsBuffer
<1> QED
  BY <1>1 DEF Overlaid

LEMMA OverlayKeepsInv ==
  ASSUME CursorInv, NEW call, NEW x, NEW y, NEW cells, NEW picture,
         Does(call, draw_target, cells, Overlaid(x, y, picture))
  PROVE  CursorInv'
<1> DEFINE m == Overlaid(x, y, picture)
<1>1. SetBuffer(draw_target, cells, m) /\ undo' = {} /\ parted' = parted
  BY DEF Does
<1>2. m = [o \in Cells(draw_target) |-> m[o]]
  BY OverlaidShape DEF CursorInv
<1>3. draw_target \in Buffers
  BY TargetIsBuffer DEF CursorInv
<1> HIDE DEF m
<1> QED
  BY <1>1, <1>2, <1>3, StoredKeepsInv

\* Every call of DrawSomething paints in one of three ways.
LEMMA SomethingKeepsInv ==
  ASSUME CursorInv, DrawSomething
  PROVE  CursorInv'
<1>2. draw_target \in Buffers /\ Target \in Buffers
  BY TargetIsBuffer DEF CursorInv
<1> DEFINE Strokes(b) == \E call, strokes : Draw(call, b, strokes)
           Overlays == \E call, x, y, cells, picture :
                         Does(call, draw_target, cells, Overlaid(x, y, picture))
<1>3. Strokes(Target) \/ Strokes(draw_target) \/ Overlays
  <2>1. PICK x \in Xs, y \in Ys :
          \/ \E w, h \in Lengths :
               \/ FillRect(x, y, w, h)
               \/ DrawRect(x, y, w, h)
               \/ Panel("raised", x, y, w, h, WHITE, DARK)
               \/ Panel("sunken", x, y, w, h, DARK, WHITE)
               \/ \E s \in Shades : Gradient(x, y, w, h, s[1], s[2])
          \/ \E n \in Lengths : Hline(x, y, n) \/ Vline(x, y, n)
          \/ \E x2 \in Xs, y2 \in Ys : DrawLine(x, y, x2, y2)
          \/ \E r \in Radii : DrawCircle(x, y, r) \/ FillCircle(x, y, r)
          \/ DrawBitmap(x, y) \/ DrawBitmapAlpha(x, y)
          \/ \E n \in DOMAIN Texts, bg \in {0, DARK} : DrawString(x, y, n, bg)
    BY DEF DrawSomething
  <2>2. ASSUME NEW w, NEW h, FillRect(x, y, w, h) PROVE Strokes(Target)
    BY <2>2 DEF FillRect
  <2>3. ASSUME NEW w, NEW h, DrawRect(x, y, w, h) PROVE Strokes(Target)
    BY <2>3 DEF DrawRect
  <2>4. ASSUME NEW op, NEW w, NEW h, NEW c, NEW d, Panel(op, x, y, w, h, c, d) PROVE Strokes(Target)
    BY <2>4 DEF Panel
  <2>5. ASSUME NEW w, NEW h, NEW c, NEW d, Gradient(x, y, w, h, c, d) PROVE Strokes(Target)
    BY <2>5 DEF Gradient
  <2>6. ASSUME NEW n, Hline(x, y, n) \/ Vline(x, y, n) PROVE Strokes(Target)
    BY <2>6 DEF Hline, Vline
  <2>7. ASSUME NEW x2, NEW y2, DrawLine(x, y, x2, y2) PROVE Strokes(draw_target)
    BY <2>7 DEF DrawLine
  <2>8. ASSUME NEW r, DrawCircle(x, y, r) \/ FillCircle(x, y, r)
        PROVE  Strokes(draw_target) \/ Strokes(Target)
    BY <2>8 DEF DrawCircle, FillCircle
  <2>9. DrawBitmap(x, y) \/ DrawBitmapAlpha(x, y) => Overlays
    BY DEF DrawBitmap, DrawBitmapAlpha
  <2>10. ASSUME NEW n, NEW bg, DrawString(x, y, n, bg) PROVE Strokes(draw_target)
    BY <2>10 DEF DrawString
  <2> HIDE DEF Strokes, Overlays
  <2> QED
    BY <2>1, <2>2, <2>3, <2>4, <2>5, <2>6, <2>7, <2>8, <2>9, <2>10, Zenon
<1> QED
  BY <1>2, <1>3, DrawKeepsInv, OverlayKeepsInv, Zenon

-----------------------------------------------------------------------------
(* The cursor                                                              *)

LEMMA SaveKeepsInv ==
  ASSUME CursorInv, NEW x, NEW y, gfx_save_cursor_bg(x, y)
  PROVE  CursorInv'
<1> DEFINE m == memory[draw_target]
           seen == PictureCells(x, y, DOMAIN cursor_data)
<1>1. draw_target \in Buffers /\ BuffersOK /\ parted' = parted
  BY TargetIsBuffer DEF CursorInv, gfx_save_cursor_bg, CursorStep
<1>2. SetBuffer(draw_target, seen, m)
  BY DEF gfx_save_cursor_bg
<1>3. m = [o \in Cells(draw_target) |-> m[o]] /\ DOMAIN m = Cells(draw_target)
  BY <1>1, BufferCells DEF BuffersOK
<1> HIDE DEF seen
<1>4. BuffersOK'
  <2> HIDE DEF m
  <2> QED
    BY <1>1, <1>2, <1>3, StoredKeepsBuffers
<1>5. /\ memory'[draw_target] = m /\ fb_info' = fb_info /\ draw_target' = draw_target
      /\ \A c : Cells(c)' = Cells(c)
  <2> HIDE DEF m
  <2> QED
    BY <1>1, <1>2, <1>3, BufferStored
<1>6. UndoOK'
  <2>2. /\ cursor_bg' = [x |-> x, y |-> y,
                        pixels |-> [p \in DOMAIN cursor_data |-> fb_get_pixel(x + p[1], y + p[2])]]
        /\ undo' = {[x |-> x, y |-> y, contents |-> m]}
    BY DEF gfx_save_cursor_bg
  <2> DEFINE pixels == [p \in DOMAIN cursor_data |-> fb_get_pixel(x + p[1], y + p[2])]
  <2>3. \A p \in DOMAIN cursor_data :
          OnScreen(x + p[1], y + p[2]) /\ Offset(x + p[1], y + p[2]) \in Cells(draw_target) =>
            pixels[p] = m[Offset(x + p[1], y + p[2])]
    BY <1>3 DEF fb_get_pixel
  <2>4. DOMAIN pixels = DOMAIN cursor_data
    OBVIOUS
  <2>5. \A a, b : OnScreen(a, b)' = OnScreen(a, b) /\ Offset(a, b)' = Offset(a, b)
    BY <1>5 DEF OnScreen, Offset
  <2>6. memory'[draw_target'] = m
    BY <1>5
  <2>7. cursor_bg'.x = x /\ cursor_bg'.y = y /\ cursor_bg'.pixels = pixels
    BY <2>2
  <2>9. \A c : Cells(draw_target)' = Cells(draw_target)
    BY <1>5 DEF Cells
  <2> HIDE DEF m, pixels
  <2> SUFFICES ASSUME NEW u \in undo'
               PROVE  /\ cursor_bg'.x = u.x /\ cursor_bg'.y = u.y
                      /\ DOMAIN cursor_bg'.pixels = DOMAIN cursor_data
                      /\ \A p \in DOMAIN cursor_data :
                           (OnScreen(u.x + p[1], u.y + p[2])'
                            /\ Offset(u.x + p[1], u.y + p[2])' \in Cells(draw_target)') =>
                             cursor_bg'.pixels[p] = u.contents[Offset(u.x + p[1], u.y + p[2])']
                      /\ u.contents = [o \in Cells(draw_target)' |-> u.contents[o]]
                      /\ \A o \in Cells(draw_target)' \ Covered(u.x, u.y)' :
                           memory'[draw_target'][o] = u.contents[o]
    BY DEF UndoOK
  <2>8. u.x = x /\ u.y = y /\ u.contents = m
    BY <2>2
  <2> QED
    BY <1>3, <2>3, <2>4, <2>5, <2>6, <2>7, <2>8, <2>9
<1> QED
  BY <1>4, <1>6 DEF CursorInv

\* What has to be shown of a step that stores a buffer drawn on at the cursor only.
LEMMA CursorStepKeepsInv ==
  ASSUME CursorInv, NEW cells, NEW m, SetBuffer(draw_target, cells, m), parted' = parted,
         m = [o \in Cells(draw_target) |-> m[o]], cursor_bg' = cursor_bg, undo' \subseteq undo,
         \A u \in undo' : \A o \in Cells(draw_target) \ Covered(u.x, u.y) : m[o] = memory[draw_target][o]
  PROVE  CursorInv'
<1>1. draw_target \in Buffers /\ BuffersOK
  BY TargetIsBuffer DEF CursorInv
<1>2. /\ memory'[draw_target] = m
      /\ draw_target' = draw_target /\ fb_info' = fb_info
      /\ \A c : Cells(c)' = Cells(c)
  BY <1>1, BufferStored
<1>3. Cells(draw_target)' = Cells(draw_target)
  BY <1>1, <1>2 DEF SetBuffer, Cells
<1>5. BuffersOK'
  BY <1>1, StoredKeepsBuffers
<1>6. \A a, b : OnScreen(a, b)' = OnScreen(a, b) /\ Offset(a, b)' = Offset(a, b)
  BY <1>2 DEF OnScreen, Offset
<1>7. \A a, b : fb_put_pixel(a, b)' = fb_put_pixel(a, b)
  BY <1>6 DEF fb_put_pixel
<1>8. \A a, b : Covered(a, b)' = Covered(a, b)
  BY <1>7 DEF Covered
<1>9. UndoOK'
  <2> SUFFICES ASSUME NEW u \in undo'
               PROVE  /\ cursor_bg'.x = u.x /\ cursor_bg'.y = u.y
                      /\ DOMAIN cursor_bg'.pixels = DOMAIN cursor_data
                      /\ \A p \in DOMAIN cursor_data :
                           (OnScreen(u.x + p[1], u.y + p[2])'
                            /\ Offset(u.x + p[1], u.y + p[2])' \in Cells(draw_target)') =>
                             cursor_bg'.pixels[p] = u.contents[Offset(u.x + p[1], u.y + p[2])']
                      /\ u.contents = [o \in Cells(draw_target)' |-> u.contents[o]]
                      /\ \A o \in Cells(draw_target)' \ Covered(u.x, u.y)' :
                           memory'[draw_target'][o] = u.contents[o]
    BY DEF UndoOK
  <2>1. u \in undo
    OBVIOUS
  <2>2. /\ cursor_bg.x = u.x /\ cursor_bg.y = u.y
        /\ DOMAIN cursor_bg.pixels = DOMAIN cursor_data
        /\ \A p \in DOMAIN cursor_data :
             OnScreen(u.x + p[1], u.y + p[2]) /\ Offset(u.x + p[1], u.y + p[2]) \in Cells(draw_target) =>
               cursor_bg.pixels[p] = u.contents[Offset(u.x + p[1], u.y + p[2])]
        /\ u.contents = [o \in Cells(draw_target) |-> u.contents[o]]
        /\ \A o \in Cells(draw_target) \ Covered(u.x, u.y) : memory[draw_target][o] = u.contents[o]
    BY <2>1 DEF CursorInv, UndoOK
  <2>3. \A o \in Cells(draw_target)' \ Covered(u.x, u.y)' : memory'[draw_target'][o] = u.contents[o]
    BY <1>2, <1>3, <1>8, <2>2
  <2> QED
    BY <1>2, <1>3, <1>6, <2>2, <2>3
<1> QED
  BY <1>5, <1>9 DEF CursorInv

\* A picture is put on the pixels of its own place and on no others.
LEMMA OverlaidElsewhere ==
  ASSUME BuffersOK, NEW x, NEW y, NEW picture, DOMAIN picture \subseteq DOMAIN cursor_data,
         NEW o \in Cells(draw_target), o \notin Covered(x, y)
  PROVE  Overlaid(x, y, picture)[o] = memory[draw_target][o]
<1>1. {p \in DOMAIN picture : o \in fb_put_pixel(x + p[1], y + p[2])} = {}
  BY DEF Covered
<1>2. o \in DOMAIN memory[draw_target]
  BY BufferCells, TargetIsBuffer
<1> QED
  BY <1>1, <1>2 DEF Overlaid

LEMMA DrawCursorKeepsInv ==
  ASSUME CursorInv, NEW x, NEW y, gfx_draw_cursor(x, y)
  PROVE  CursorInv'
<1> DEFINE picture == [p \in Arrow |-> IF cursor_data[p] = 1 THEN WHITE ELSE 0]
           m == Overlaid(x, y, picture)
           cells == PictureCells(x, y, Arrow)
<1>1. /\ SetBuffer(draw_target, cells, m) /\ cursor_bg' = cursor_bg /\ parted' = parted
      /\ undo' = {u \in undo : u.x = x /\ u.y = y}
  BY DEF gfx_draw_cursor, CursorStep
<1>2. m = [o \in Cells(draw_target) |-> m[o]]
  BY OverlaidShape DEF CursorInv
<1>3. DOMAIN picture \subseteq DOMAIN cursor_data
  BY DEF Arrow
<1> HIDE DEF picture, cells
<1>4. \A o \in Cells(draw_target) \ Covered(x, y) : m[o] = memory[draw_target][o]
  BY <1>3, OverlaidElsewhere DEF CursorInv
<1> HIDE DEF m
<1>5. \A u \in undo' : \A o \in Cells(draw_target) \ Covered(u.x, u.y) : m[o] = memory[draw_target][o]
  BY <1>1, <1>4
<1>6. undo' \subseteq undo
  BY <1>1
<1> QED
  BY <1>1, <1>2, <1>5, <1>6, CursorStepKeepsInv

\* Putting back what was saved where it was saved gives the buffer as it was.
LEMMA RestoredIsSaved ==
  ASSUME CursorInv, NEW u \in undo
  PROVE  Overlaid(u.x, u.y, cursor_bg.pixels) = u.contents
<1> DEFINE x == u.x
           y == u.y
           m == memory[draw_target]
           picture == cursor_bg.pixels
           S == Cells(draw_target)
           On(o) == {p \in DOMAIN picture : o \in fb_put_pixel(x + p[1], y + p[2])}
<1>1. /\ DOMAIN picture = DOMAIN cursor_data
      /\ \A p \in DOMAIN cursor_data :
           OnScreen(x + p[1], y + p[2]) /\ Offset(x + p[1], y + p[2]) \in S =>
             picture[p] = u.contents[Offset(x + p[1], y + p[2])]
      /\ u.contents = [o \in S |-> u.contents[o]]
      /\ \A o \in S \ Covered(x, y) : m[o] = u.contents[o]
  BY DEF CursorInv, UndoOK
<1>2. Overlaid(x, y, picture) =
        [o \in S |-> IF On(o) = {} THEN m[o] ELSE picture[CHOOSE p \in On(o) : TRUE]]
  <2>1. DOMAIN memory[draw_target] = S
    BY BufferCells, TargetIsBuffer DEF CursorInv
  <2> QED
    BY <2>1 DEF Overlaid
<1> HIDE DEF S
<1>3. ASSUME NEW o \in S
      PROVE  (IF On(o) = {} THEN m[o] ELSE picture[CHOOSE p \in On(o) : TRUE]) = u.contents[o]
  <2>1. CASE On(o) = {}
    <3>1. o \notin Covered(x, y)
      BY <1>1, <2>1 DEF Covered
    <3> QED
      BY <1>1, <2>1, <3>1
  <2>2. CASE On(o) # {}
    <3> DEFINE p == CHOOSE p \in On(o) : TRUE
    <3>1. p \in On(o)
      BY <2>2
    <3> HIDE DEF p
    <3>2. p \in DOMAIN cursor_data /\ o \in fb_put_pixel(x + p[1], y + p[2])
      BY <1>1, <3>1
    <3>3. OnScreen(x + p[1], y + p[2]) /\ o = Offset(x + p[1], y + p[2])
      BY <3>2 DEF fb_put_pixel
    <3>4. picture[p] = u.contents[o]
      BY <1>1, <1>3, <3>2, <3>3
    <3> QED
      BY <2>2, <3>4 DEF p
  <2> QED
    BY <2>1, <2>2
<1> HIDE DEF On, m, picture, x, y
<1>4. Overlaid(x, y, picture) = [o \in S |-> u.contents[o]]
  BY <1>2, <1>3
<1> QED
  BY <1>1, <1>4 DEF x, y, picture

LEMMA RestoreKeepsInv ==
  ASSUME CursorInv, NEW x, NEW y, gfx_restore_cursor_bg(x, y)
  PROVE  CursorInv'
<1> DEFINE m == Restored(x, y)
           cells == IF cursor_bg.x = x /\ cursor_bg.y = y THEN PictureCells(x, y, DOMAIN cursor_data)
                    ELSE {}
<1>1. /\ SetBuffer(draw_target, cells, m) /\ cursor_bg' = cursor_bg /\ undo' = undo
      /\ parted' = parted
  BY DEF gfx_restore_cursor_bg, CursorStep
<1> HIDE DEF cells
<1>2. m = [o \in Cells(draw_target) |-> m[o]]
  <2>1. memory[draw_target] = [o \in Cells(draw_target) |-> memory[draw_target][o]]
    BY TargetIsBuffer DEF CursorInv, BuffersOK
  <2> QED
    BY <2>1, OverlaidShape DEF Restored, CursorInv
<1>3. ASSUME NEW u \in undo, NEW o \in Cells(draw_target), o \notin Covered(u.x, u.y)
      PROVE  m[o] = memory[draw_target][o]
  <2>1. CASE cursor_bg.x = x /\ cursor_bg.y = y
    <3>1. u.x = x /\ u.y = y /\ DOMAIN cursor_bg.pixels \subseteq DOMAIN cursor_data
      BY <2>1 DEF CursorInv, UndoOK
    <3> QED
      BY <1>3, <2>1, <3>1, OverlaidElsewhere DEF Restored, CursorInv
  <2>2. CASE ~(cursor_bg.x = x /\ cursor_bg.y = y)
    BY <2>2 DEF Restored
  <2> QED
    BY <2>1, <2>2
<1> HIDE DEF m
<1> QED
  BY <1>1, <1>2, <1>3, CursorStepKeepsInv

-----------------------------------------------------------------------------
(* Steps                                                                   *)

LEMMA InitCursorInv == Init => CursorInv
<1> SUFFICES ASSUME Init PROVE CursorInv
  OBVIOUS
<1>1. /\ memory = [b \in Buffers |-> [o \in Cells(b) |-> IF b = "front" THEN 10 + o ELSE 0]]
      /\ fb_info.address = "none" /\ draw_target = "none" /\ double_buffering = FALSE
      /\ undo = {} /\ parted = FALSE
  BY DEF Init, FbInit
<1>2. \A b \in Buffers : memory[b] = [o \in Cells(b) |-> memory[b][o]]
  <2> SUFFICES ASSUME NEW b \in Buffers PROVE memory[b] = [o \in Cells(b) |-> memory[b][o]]
    OBVIOUS
  <2>1. memory[b] = [o \in Cells(b) |-> IF b = "front" THEN 10 + o ELSE 0]
    BY <1>1
  <2> QED
    BY <2>1
<1> QED
  BY <1>1, <1>2 DEF CursorInv, BuffersOK, UndoOK, Buffers, Target

LEMMA InitFbKeepsInv ==
  ASSUME CursorInv, InitFb
  PROVE  CursorInv'
<1>1. /\ undo' = {} /\ memory' = memory /\ mboot' = mboot /\ double_buffering' = double_buffering
      /\ parted' = IF mboot.rgb THEN double_buffering ELSE parted
  BY DEF InitFb, fb_init
<1>2. /\ DOMAIN memory = Buffers /\ \A b \in Buffers : memory[b] = [o \in Cells(b) |-> memory[b][o]]
      /\ parted \in BOOLEAN /\ double_buffering \in BOOLEAN
  BY DEF CursorInv, BuffersOK
<1>3. \A b : Cells(b)' = Cells(b)
  BY <1>1 DEF Cells
<1>4. \A b \in Buffers : memory'[b] = [o \in Cells(b)' |-> memory'[b][o]]
  BY <1>1, <1>2, <1>3
<1>5. CASE mboot.rgb
  <2>1. fb_info'.address = "front" /\ draw_target' = "front" /\ parted' = double_buffering
    BY <1>1, <1>5 DEF InitFb, fb_init
  <2>2. parted' = FALSE => draw_target' = Target'
    BY <1>1, <2>1 DEF Target
  <2> QED
    BY <1>1, <1>2, <1>4, <2>1, <2>2 DEF CursorInv, BuffersOK, UndoOK, Buffers
<1>6. CASE ~mboot.rgb
  <2>1. fb_info' = fb_info /\ draw_target' = draw_target /\ parted' = parted
    BY <1>1, <1>6 DEF InitFb, fb_init
  <2> QED
    BY <1>1, <1>2, <1>4, <2>1 DEF CursorInv, BuffersOK, UndoOK, Target, Buffers
<1> QED
  BY <1>5, <1>6

LEMMA ToggleKeepsInv ==
  ASSUME CursorInv, Toggle
  PROVE  CursorInv'
<1>1. PICK enable \in BOOLEAN : SetDoubleBuffer(enable) /\ parted' = (parted /\ enable)
  BY DEF Toggle, fb_set_double_buffer
<1>2. undo' = {} /\ memory' = memory /\ fb_info' = fb_info /\ mboot' = mboot
  BY DEF Toggle, fb_set_double_buffer
<1>3. \A b : Cells(b)' = Cells(b)
  BY <1>2 DEF Cells
<1>4. /\ DOMAIN memory = Buffers /\ \A b \in Buffers : memory[b] = [o \in Cells(b) |-> memory[b][o]]
      /\ parted \in BOOLEAN /\ double_buffering \in BOOLEAN
      /\ fb_info.address \in Buffers /\ draw_target \in {"back", fb_info.address}
      /\ parted = FALSE => draw_target = Target
  BY DEF CursorInv, BuffersOK
<1>5. \A b \in Buffers : memory'[b] = [o \in Cells(b)' |-> memory'[b][o]]
  BY <1>2, <1>3, <1>4
<1>6. /\ draw_target' \in {"back", fb_info'.address}
      /\ parted' \in BOOLEAN /\ double_buffering' \in BOOLEAN
      /\ parted' = FALSE => draw_target' = Target'
  <2>1. CASE enable = TRUE
    <3>1. parted' = parted
      BY <1>1, <1>4, <2>1
    <3>2. CASE back_buffer
      <4>1. draw_target' = draw_target /\ double_buffering' = double_buffering
        BY <1>1, <2>1, <3>2 DEF SetDoubleBuffer
      <4> QED
        BY <1>2, <1>4, <3>1, <4>1 DEF Target
    <3>3. CASE ~back_buffer
      <4>1. draw_target' = "back" /\ double_buffering' = TRUE
        BY <1>1, <2>1, <3>3 DEF SetDoubleBuffer
      <4> QED
        BY <1>4, <3>1, <4>1 DEF Target
    <3> QED
      BY <3>2, <3>3
  <2>2. CASE enable = FALSE
    <3>1. draw_target' = fb_info.address /\ double_buffering' = FALSE /\ parted' = FALSE
      BY <1>1, <2>2 DEF SetDoubleBuffer
    <3> QED
      BY <1>2, <3>1 DEF Target
  <2> QED
    BY <2>1, <2>2
<1>7. BuffersOK'
  BY <1>2, <1>4, <1>5, <1>6 DEF BuffersOK, Buffers
<1> QED
  BY <1>2, <1>7 DEF CursorInv, UndoOK

\* Swapping stores into a buffer that is not drawn on, or not at all, or what
\* was saved is forgotten.
LEMMA SwapKeepsInv ==
  ASSUME CursorInv, Swap
  PROVE  CursorInv'
<1> DEFINE a == fb_info.address
           m == [o \in DOMAIN memory[a] |->
                   IF o \in DOMAIN memory["back"] THEN memory["back"][o] ELSE memory[a][o]]
<1>1. /\ UNCHANGED <<mboot, fb_info, double_buffering, draw_target, cursor_bg, parted>>
      /\ undo' = IF double_buffering /\ draw_target = a THEN {} ELSE undo
      /\ memory' = memory \/ (double_buffering /\ memory' = [memory EXCEPT ![a] = m])
  BY DEF Swap, fb_swap_buffers, NoCall
<1>2. /\ DOMAIN memory = Buffers /\ \A b \in Buffers : memory[b] = [o \in Cells(b) |-> memory[b][o]]
      /\ a \in Buffers /\ draw_target \in Buffers
  BY TargetIsBuffer DEF CursorInv, BuffersOK
<1>3. m = [o \in Cells(a) |-> m[o]]
  <2>1. DOMAIN memory[a] = Cells(a)
    BY <1>2, BufferCells DEF CursorInv
  <2> QED
    BY <2>1
<1> HIDE DEF m, a
<1>4. \A c : Cells(c)' = Cells(c)
  BY <1>1 DEF Cells
<1>5. DOMAIN memory' = Buffers
  BY <1>1, <1>2
<1>6. \A b \in Buffers : memory'[b] = memory[b] \/ (b = a /\ memory'[b] = m /\ double_buffering)
  BY <1>1, <1>2
<1>7. \A b \in Buffers : memory'[b] = [o \in Cells(b)' |-> memory'[b][o]]
  BY <1>2, <1>3, <1>4, <1>6
<1>8. BuffersOK'
  BY <1>1, <1>5, <1>7 DEF CursorInv, BuffersOK, Target, Buffers
<1>9. CASE double_buffering /\ draw_target = a
  <2>1. undo' = {}
    BY <1>1, <1>9
  <2> QED
    BY <1>8, <2>1 DEF CursorInv, UndoOK
<1>10. CASE ~(double_buffering /\ draw_target = a)
  <2>1. undo' = undo /\ memory'[draw_target] = memory[draw_target]
    BY <1>1, <1>2, <1>6, <1>10
  <2>2. \A v, w : OnScreen(v, w)' = OnScreen(v, w) /\ Offset(v, w)' = Offset(v, w)
    BY <1>1 DEF OnScreen, Offset
  <2>3. \A v, w : fb_put_pixel(v, w)' = fb_put_pixel(v, w)
    BY <2>2 DEF fb_put_pixel
  <2>4. \A v, w : Covered(v, w)' = Covered(v, w)
    BY <2>3 DEF Covered
  <2>5. Cells(draw_target)' = Cells(draw_target)
    BY <1>1 DEF Cells
  <2>6. UndoOK'
    BY <1>1, <2>1, <2>2, <2>4, <2>5 DEF CursorInv, UndoOK
  <2> QED
    BY <1>8, <2>6 DEF CursorInv
<1> QED
  BY <1>9, <1>10

-----------------------------------------------------------------------------
(* Pixels and their cells                                                  *)

\* The mode that multiboot reported, or none yet.
ModeOK ==
  /\ mboot \in Modes
  /\ fb_info.width \in Nat /\ fb_info.height \in Nat /\ fb_info.pitch \in Nat
  /\ fb_info.width <= fb_info.pitch
  /\ \/ fb_info.address = "none" /\ fb_info.height = 0
     \/ fb_info.address = "front" /\ fb_info.pitch = mboot.pitch /\ fb_info.height = mboot.height

\* A cell belongs to one pixel.
LEMMA CellsApart ==
  ASSUME NEW n \in Nat, NEW x \in 0..(n - 1), NEW a \in 0..(n - 1), NEW y \in Int, NEW b \in Int,
         y * n + x = b * n + a
  PROVE  x = a /\ y = b
<1>1. CASE y = b
  BY <1>1
<1>2. CASE y < b
  <2>1. (b - y) * n >= n
    BY <1>2
  <2>2. (b - y) * n = b * n - y * n /\ b * n \in Int /\ y * n \in Int
    OBVIOUS
  <2> QED
    BY <2>1, <2>2
<1>3. CASE y > b
  <2>1. (y - b) * n >= n
    BY <1>3
  <2>2. (y - b) * n = y * n - b * n /\ b * n \in Int /\ y * n \in Int
    OBVIOUS
  <2> QED
    BY <2>1, <2>2
<1> QED
  BY <1>1, <1>2, <1>3

LEMMA PixelsOnScreen ==
  ASSUME ModeOK, NEW x, NEW y, OnScreen(x, y)
  PROVE  /\ x \in Int /\ y \in Int /\ 0 <= x /\ x < fb_info.width /\ 0 <= y /\ y < fb_info.height
         /\ x \in 0..(fb_info.pitch - 1) /\ Offset(x, y) \in Offsets
<1> DEFINE w == fb_info.width
           h == fb_info.height
           n == fb_info.pitch
<1>1. w \in Nat /\ h \in Nat /\ n \in Nat /\ w <= n
  BY DEF ModeOK
<1>2. x \in 0..(w - 1) /\ y \in 0..(h - 1)
  BY DEF OnScreen
<1>3. Offset(x, y) = y * n + x /\ Offsets = 0..(n * h - 1)
  BY DEF Offset, Offsets, Size
<1> HIDE DEF w, h, n
<1>4. x \in Int /\ y \in Int /\ 0 <= x /\ x < w /\ 0 <= y /\ y < h /\ x \in 0..(n - 1)
  BY <1>1, <1>2
<1>5. y * n + x \in 0..(n * h - 1)
  <2>1. y * n \in Nat /\ h * n \in Nat /\ (h - 1 - y) * n \in Nat
    BY <1>1, <1>4
  <2>2. (h - 1 - y) * n = h * n - n - y * n /\ n * h = h * n
    BY <1>1, <1>4
  <2> QED
    BY <1>1, <1>4, <2>1, <2>2
<1> QED
  BY <1>3, <1>4, <1>5 DEF w, h, n

LEMMA SameCell ==
  ASSUME ModeOK, NEW x, NEW y, OnScreen(x, y), NEW a \in 0..(fb_info.pitch - 1), NEW b \in Int
  PROVE  Offset(x, y) = Offset(a, b) <=> x = a /\ y = b
<1> DEFINE n == fb_info.pitch
<1>1. n \in Nat /\ x \in 0..(n - 1) /\ y \in Int /\ a \in 0..(n - 1)
  BY PixelsOnScreen DEF ModeOK
<1>2. Offset(x, y) = y * n + x /\ Offset(a, b) = b * n + a
  BY DEF Offset
<1> HIDE DEF n
<1> QED
  BY <1>1, <1>2, CellsApart

\* The cells of a stretch of a row are those of its pixels.
LEMMA RunOfRow ==
  ASSUME ModeOK, NEW x, NEW y, OnScreen(x, y), NEW x1 \in Nat, NEW x2 \in Nat, x1 <= x2,
         x2 <= fb_info.width, NEW b \in Int
  PROVE  Offset(x, y) \in Run(Offset(x1, b), x2 - x1) <=> y = b /\ x1 <= x /\ x < x2
<1> DEFINE n == fb_info.pitch
           k == Offset(x, y) - Offset(x1, b)
<1>1. n \in Nat /\ fb_info.width \in Nat /\ fb_info.width <= n /\ x \in Int /\ y \in Int
      /\ x \in 0..(n - 1)
  BY PixelsOnScreen DEF ModeOK
<1>2. Offset(x, y) = y * n + x /\ Offset(x1, b) = b * n + x1
  BY DEF Offset
<1>3. y * n \in Int /\ b * n \in Int
  BY <1>1
<1>4. ASSUME Offset(x, y) \in Run(Offset(x1, b), x2 - x1) PROVE y = b /\ x1 <= x /\ x < x2
  <2>1. Offset(x, y) \in (b * n + x1)..(b * n + x1 + (x2 - x1) - 1)
    BY <1>2, <1>4 DEF Run
  <2> HIDE DEF k
  <2>2. k \in Int /\ 0 <= k /\ k < x2 - x1 /\ y * n + x = b * n + (x1 + k)
    BY <1>1, <1>2, <1>3, <2>1 DEF k
  <2>3. x1 + k \in 0..(n - 1)
    BY <1>1, <2>2
  <2>4. x = x1 + k /\ y = b
    BY <1>1, <2>2, <2>3, CellsApart
  <2> QED
    BY <2>2, <2>4
<1>5. ASSUME y = b, x1 <= x, x < x2 PROVE Offset(x, y) \in Run(Offset(x1, b), x2 - x1)
  BY <1>1, <1>2, <1>3, <1>5 DEF Run
<1> QED
  BY <1>4, <1>5

LEMMA HlineCells ==
  ASSUME ModeOK, NEW x, NEW y, OnScreen(x, y), NEW a \in Int, NEW b \in Int, NEW l \in Int
  PROVE  Offset(x, y) \in gfx_draw_hline(a, b, l) <=> y = b /\ a <= x /\ x < a + l
<1> DEFINE x1 == AtLeast0(a)
           x2 == AtMost(a + l, fb_info.width)
<1>1. /\ fb_info.width \in Nat /\ fb_info.height \in Nat /\ x \in Int /\ y \in Int
      /\ 0 <= x /\ x < fb_info.width /\ 0 <= y /\ y < fb_info.height
  BY PixelsOnScreen DEF ModeOK
<1>2. x1 \in Nat /\ x2 \in Int /\ x2 <= fb_info.width /\ (a <= x <=> x1 <= x) /\ (x < a + l <=> x < x2)
  BY <1>1 DEF AtLeast0, AtMost
<1>3. gfx_draw_hline(a, b, l) =
        IF b \notin 0..(fb_info.height - 1) \/ x1 >= x2 THEN {} ELSE Run(Offset(x1, b), x2 - x1)
  BY DEF gfx_draw_hline
<1> HIDE DEF x1, x2
<1>4. CASE b \notin 0..(fb_info.height - 1) \/ x1 >= x2
  <2>1. ~(y = b /\ x1 <= x /\ x < x2)
    BY <1>1, <1>2, <1>4
  <2> QED
    BY <1>2, <1>3, <1>4, <2>1
<1>5. CASE ~(b \notin 0..(fb_info.height - 1) \/ x1 >= x2)
  <2>1. x2 \in Nat /\ x1 <= x2
    BY <1>2, <1>5
  <2>2. Offset(x, y) \in Run(Offset(x1, b), x2 - x1) <=> y = b /\ x1 <= x /\ x < x2
    BY <1>2, <2>1, RunOfRow
  <2> QED
    BY <1>2, <1>3, <1>5, <2>2
<1> QED
  BY <1>4, <1>5

LEMMA VlineCells ==
  ASSUME ModeOK, NEW x, NEW y, OnScreen(x, y), NEW a \in Int, NEW b \in Int, NEW l \in Int
  PROVE  Offset(x, y) \in gfx_draw_vline(a, b, l) <=> x = a /\ b <= y /\ y < b + l
<1> DEFINE y1 == AtLeast0(b)
           y2 == AtMost(b + l, fb_info.height)
<1>1. /\ fb_info.width \in Nat /\ fb_info.height \in Nat /\ fb_info.pitch \in Nat
      /\ fb_info.width <= fb_info.pitch /\ x \in Int /\ y \in Int
      /\ 0 <= x /\ x < fb_info.width /\ 0 <= y /\ y < fb_info.height
  BY PixelsOnScreen DEF ModeOK
<1>2. y1 \in Int /\ y2 \in Int /\ (b <= y <=> y1 <= y) /\ (y < b + l <=> y < y2)
  BY <1>1 DEF AtLeast0, AtMost
<1>3. gfx_draw_vline(a, b, l) =
        IF a \notin 0..(fb_info.width - 1) THEN {} ELSE {Offset(a, py) : py \in y1..(y2 - 1)}
  BY DEF gfx_draw_vline
<1> HIDE DEF y1, y2
<1>4. CASE a \notin 0..(fb_info.width - 1)
  <2>1. x # a
    BY <1>1, <1>4
  <2> QED
    BY <1>3, <1>4, <2>1
<1>5. CASE a \in 0..(fb_info.width - 1)
  <2>1. a \in 0..(fb_info.pitch - 1)
    BY <1>1, <1>5
  <2>2. \A py \in y1..(y2 - 1) : Offset(x, y) = Offset(a, py) <=> x = a /\ y = py
    BY <1>2, <2>1, SameCell
  <2>3. y1 <= y /\ y < y2 <=> y \in y1..(y2 - 1)
    BY <1>1, <1>2
  <2> QED
    BY <1>2, <1>3, <1>5, <2>2, <2>3
<1> QED
  BY <1>4, <1>5

LEMMA RectCells ==
  ASSUME ModeOK, NEW x, NEW y, OnScreen(x, y), NEW a \in Int, NEW b \in Int, NEW w \in Int, NEW h \in Int
  PROVE  Offset(x, y) \in gfx_fill_rect(a, b, w, h) <=> a <= x /\ x < a + w /\ b <= y /\ y < b + h
<1> DEFINE x1 == AtLeast0(a)
           x2 == AtMost(a + w, fb_info.width)
           y1 == AtLeast0(b)
           y2 == AtMost(b + h, fb_info.height)
<1>1. /\ fb_info.width \in Nat /\ fb_info.height \in Nat /\ x \in Int /\ y \in Int
      /\ 0 <= x /\ x < fb_info.width /\ 0 <= y /\ y < fb_info.height
  BY PixelsOnScreen DEF ModeOK
<1>2. /\ x1 \in Nat /\ x2 \in Int /\ x2 <= fb_info.width
      /\ (a <= x <=> x1 <= x) /\ (x < a + w <=> x < x2)
  BY <1>1 DEF AtLeast0, AtMost
<1>3. y1 \in Int /\ y2 \in Int /\ (b <= y <=> y1 <= y) /\ (y < b + h <=> y < y2)
  BY <1>1 DEF AtLeast0, AtMost
<1>4. gfx_fill_rect(a, b, w, h) =
        IF x1 >= x2 THEN {} ELSE UNION {Run(Offset(x1, py), x2 - x1) : py \in y1..(y2 - 1)}
  BY DEF gfx_fill_rect
<1> HIDE DEF x1, x2, y1, y2
<1>5. CASE x1 >= x2
  <2>1. ~(x1 <= x /\ x < x2)
    BY <1>1, <1>2, <1>5
  <2> QED
    BY <1>2, <1>4, <1>5, <2>1
<1>6. CASE ~(x1 >= x2)
  <2>1. x2 \in Nat /\ x1 <= x2
    BY <1>2, <1>6
  <2>2. \A py \in y1..(y2 - 1) :
          Offset(x, y) \in Run(Offset(x1, py), x2 - x1) <=> y = py /\ x1 <= x /\ x < x2
    BY <1>2, <1>3, <2>1, RunOfRow
  <2>3. y1 <= y /\ y < y2 <=> y \in y1..(y2 - 1)
    BY <1>1, <1>3
  <2> QED
    BY <1>2, <1>3, <1>4, <1>6, <2>2, <2>3
<1> QED
  BY <1>5, <1>6

LEMMA PutPixelCells ==
  ASSUME ModeOK, NEW x, NEW y, OnScreen(x, y), NEW a \in Int, NEW b \in Int
  PROVE  Offset(x, y) \in fb_put_pixel(a, b) <=> x = a /\ y = b
<1>1. CASE OnScreen(a, b)
  <2>1. a \in 0..(fb_info.pitch - 1)
    BY <1>1, PixelsOnScreen
  <2> QED
    BY <1>1, <2>1, SameCell DEF fb_put_pixel
<1>2. CASE ~OnScreen(a, b)
  BY <1>2 DEF fb_put_pixel
<1> QED
  BY <1>1, <1>2

-----------------------------------------------------------------------------
(* No function writes beside the screen.                                   *)

LEMMA RunInside ==
  ASSUME ModeOK, NEW x1 \in Nat, NEW x2 \in Int, x2 <= fb_info.width,
         NEW b \in 0..(fb_info.height - 1)
  PROVE  Run(Offset(x1, b), x2 - x1) \subseteq Offsets
<1> SUFFICES ASSUME NEW o \in Run(Offset(x1, b), x2 - x1) PROVE o \in Offsets
  OBVIOUS
<1> DEFINE n == fb_info.pitch
           base == b * n
           x == o - base
<1>1. n \in Nat /\ fb_info.width \in Nat /\ fb_info.height \in Nat /\ b \in Int
  BY DEF ModeOK
<1>2. base \in Int /\ Offset(x1, b) = base + x1
  BY <1>1 DEF Offset
<1> HIDE DEF base
<1>3. o \in Int /\ base + x1 <= o /\ o < base + x2
  BY <1>1, <1>2 DEF Run
<1>4. OnScreen(x, b)
  BY <1>1, <1>2, <1>3 DEF OnScreen
<1>5. Offset(x, b) \in Offsets
  BY <1>4, PixelsOnScreen
<1>6. Offset(x, b) = o
  <2>1. Offset(x, b) = base + x
    BY DEF Offset, base
  <2> QED
    BY <1>2, <1>3, <2>1
<1> QED
  BY <1>5, <1>6

LEMMA HlineInside ==
  ASSUME ModeOK, NEW a \in Int, NEW b \in Int, NEW l \in Int
  PROVE  gfx_draw_hline(a, b, l) \subseteq Offsets
<1> DEFINE x1 == AtLeast0(a)
           x2 == AtMost(a + l, fb_info.width)
<1>1. x1 \in Nat /\ x2 \in Int /\ x2 <= fb_info.width
  BY DEF AtLeast0, AtMost, ModeOK
<1>2. gfx_draw_hline(a, b, l) =
        IF b \notin 0..(fb_info.height - 1) \/ x1 >= x2 THEN {} ELSE Run(Offset(x1, b), x2 - x1)
  BY DEF gfx_draw_hline
<1> HIDE DEF x1, x2
<1> QED
  BY <1>1, <1>2, RunInside

LEMMA VlineInside ==
  ASSUME ModeOK, NEW a \in Int, NEW b \in Int, NEW l \in Int
  PROVE  gfx_draw_vline(a, b, l) \subseteq Offsets
<1> DEFINE y1 == AtLeast0(b)
           y2 == AtMost(b + l, fb_info.height)
<1>1. y1 \in Nat /\ y2 \in Int /\ y2 <= fb_info.height /\ fb_info.height \in Nat
  BY DEF AtLeast0, AtMost, ModeOK
<1>2. gfx_draw_vline(a, b, l) =
        IF a \notin 0..(fb_info.width - 1) THEN {} ELSE {Offset(a, py) : py \in y1..(y2 - 1)}
  BY DEF gfx_draw_vline
<1> HIDE DEF y1, y2
<1>3. ASSUME a \in 0..(fb_info.width - 1), NEW py \in y1..(y2 - 1) PROVE Offset(a, py) \in Offsets
  <2>1. OnScreen(a, py)
    BY <1>1, <1>3 DEF OnScreen
  <2> QED
    BY <2>1, PixelsOnScreen
<1> QED
  BY <1>2, <1>3

LEMMA RectInside ==
  ASSUME ModeOK, NEW a \in Int, NEW b \in Int, NEW w \in Int, NEW h \in Int
  PROVE  gfx_fill_rect(a, b, w, h) \subseteq Offsets
<1> DEFINE x1 == AtLeast0(a)
           x2 == AtMost(a + w, fb_info.width)
           y1 == AtLeast0(b)
           y2 == AtMost(b + h, fb_info.height)
<1>1. x1 \in Nat /\ x2 \in Int /\ x2 <= fb_info.width
  BY DEF AtLeast0, AtMost, ModeOK
<1>2. y1 \in Nat /\ y2 \in Int /\ y2 <= fb_info.height /\ fb_info.height \in Nat
  BY DEF AtLeast0, AtMost, ModeOK
<1>3. gfx_fill_rect(a, b, w, h) =
        IF x1 >= x2 THEN {} ELSE UNION {Run(Offset(x1, py), x2 - x1) : py \in y1..(y2 - 1)}
  BY DEF gfx_fill_rect
<1> HIDE DEF x1, x2, y1, y2
<1>4. ASSUME NEW py \in y1..(y2 - 1) PROVE Run(Offset(x1, py), x2 - x1) \subseteq Offsets
  <2>1. py \in 0..(fb_info.height - 1)
    BY <1>2
  <2> QED
    BY <1>1, <2>1, RunInside
<1> QED
  BY <1>3, <1>4

LEMMA PutPixelInside == ASSUME ModeOK, NEW a, NEW b PROVE fb_put_pixel(a, b) \subseteq Offsets
BY PixelsOnScreen DEF fb_put_pixel

LEMMA PictureInside ==
  ASSUME ModeOK, NEW x, NEW y, NEW pixels PROVE PictureCells(x, y, pixels) \subseteq Offsets
BY PutPixelInside DEF PictureCells

LEMMA PointsInside == ASSUME ModeOK, NEW points PROVE PutPixels(points) \subseteq Offsets
BY PutPixelInside DEF PutPixels

\* On the screen there is no end of a buffer to pass but that of the back buffer.
LEMMA OverrunsBack ==
  ASSUME BuffersOK, ModeOK, NEW b \in {Target, draw_target}, NEW o \in Offsets, o \notin DOMAIN memory[b]
  PROVE  Size > BACK_SIZE
<1>1. b \in {"back", fb_info.address} /\ b \in Buffers
  BY TargetIsBuffer DEF BuffersOK, Target
<1>2. DOMAIN memory[b] = Cells(b)
  BY <1>1, BufferCells
<1>3. o \in 0..(Size - 1)
  BY DEF Offsets
<1>4. Size \in Int /\ BACK_SIZE \in Nat
  <2>1. fb_info.pitch \in Nat /\ fb_info.height \in Nat
    BY DEF ModeOK
  <2> QED
    BY <2>1, FramebufferAssumption DEF Size
<1>5. CASE b = "back"
  <2>1. o \notin 0..(BACK_SIZE - 1)
    BY <1>2, <1>5 DEF Cells
  <2> QED
    BY <1>3, <1>4, <2>1
<1>6. CASE b = fb_info.address /\ fb_info.address = "none"
  <2>1. fb_info.height = 0 /\ fb_info.pitch \in Nat
    BY <1>6 DEF ModeOK
  <2>2. Size = 0
    BY <2>1 DEF Size
  <2> QED
    BY <1>3, <2>2
<1>7. CASE b = fb_info.address /\ fb_info.address = "front"
  <2>1. Size = mboot.pitch * mboot.height
    BY <1>7 DEF ModeOK, Size
  <2>2. Cells(b) = 0..(Size - 1)
    BY <1>7, <2>1 DEF Cells
  <2> QED
    BY <1>2, <1>3, <2>2
<1> QED
  BY <1>1, <1>5, <1>6, <1>7 DEF ModeOK

-----------------------------------------------------------------------------
(* Strokes                                                                 *)

\* What DrawsItsShape says of a step.
ShapeDrawn ==
  last' # None =>
    /\ overrun' => Size > BACK_SIZE
    /\ ~overrun' =>
         \E b \in Buffers :
           /\ b = Target \/ parted
           /\ \A other \in Buffers \ {b} : memory'[other] = memory[other]
           /\ \A x \in 0..(fb_info.width - 1), y \in 0..(fb_info.height - 1) :
                Offset(x, y) \in DOMAIN memory[b] =>
                  Right(last', <<x, y>>, memory[b], memory'[b][Offset(x, y)])

LEMMA StoreDraws ==
  ASSUME BuffersOK, ModeOK, NEW call, NEW b \in {Target, draw_target},
         NEW cells, cells \subseteq Offsets, NEW m, m = [o \in Cells(b) |-> m[o]],
         SetBuffer(b, cells, m), last' = call,
         \A x, y : cells \subseteq DOMAIN memory[b] /\ OnScreen(x, y) /\ Offset(x, y) \in DOMAIN memory[b] =>
                     Right(call, <<x, y>>, memory[b], m[Offset(x, y)])
  PROVE  ShapeDrawn
<1>1. b \in Buffers
  BY TargetIsBuffer
<1>2. \A c \in Buffers : memory'[c] = IF c = b THEN m ELSE memory[c]
  BY <1>1, BufferStored
<1>3. \A other \in Buffers \ {b} : memory'[other] = memory[other]
  BY <1>2
<1>4. memory'[b] = m
  BY <1>1, <1>2
<1>5. \A x \in 0..(fb_info.width - 1), y \in 0..(fb_info.height - 1) : OnScreen(x, y)
  BY DEF OnScreen
<1>6. b = Target \/ parted
  <2>1. parted \in BOOLEAN /\ (parted = FALSE => draw_target = Target)
    BY DEF BuffersOK
  <2> QED
    BY <2>1
<1>7. overrun' <=> \E o \in cells : o \notin DOMAIN memory[b]
  BY DEF SetBuffer
<1>8. overrun' => Size > BACK_SIZE
  BY <1>7, OverrunsBack
<1>9. ~overrun' => cells \subseteq DOMAIN memory[b]
  BY <1>7
<1> QED
  BY <1>1, <1>3, <1>4, <1>5, <1>6, <1>8, <1>9 DEF ShapeDrawn

Painted(b, strokes) ==
  [o \in DOMAIN memory[b] |->
     LET on == {i \in DOMAIN strokes : o \in strokes[i].cells}
     IN  IF on = {} THEN memory[b][o]
         ELSE strokes[CHOOSE i \in on : \A j \in on : j <= i].color]

LEMMA DrawDraws ==
  ASSUME BuffersOK, ModeOK, NEW call, NEW b \in {Target, draw_target}, NEW strokes,
         Draw(call, b, strokes),
         \A i \in DOMAIN strokes : strokes[i].cells \subseteq Offsets,
         \A x, y : OnScreen(x, y) /\ Offset(x, y) \in DOMAIN memory[b] =>
                     Right(call, <<x, y>>, memory[b], Painted(b, strokes)[Offset(x, y)])
  PROVE  ShapeDrawn
<1> DEFINE m == Painted(b, strokes)
           cells == UNION {strokes[i].cells : i \in DOMAIN strokes}
<1>1. SetBuffer(b, cells, m) /\ last' = call
  BY DEF Draw, Does, Painted
<1>2. m = [o \in Cells(b) |-> m[o]]
  <2>1. DOMAIN memory[b] = Cells(b)
    BY TargetIsBuffer, BufferCells
  <2> QED
    BY <2>1 DEF Painted
<1>3. cells \subseteq Offsets
  OBVIOUS
<1> HIDE DEF m, cells
<1>4. \A x, y : OnScreen(x, y) /\ Offset(x, y) \in DOMAIN memory[b] =>
                  Right(call, <<x, y>>, memory[b], m[Offset(x, y)])
  BY DEF m
<1> QED
  BY <1>1, <1>2, <1>3, <1>4, StoreDraws

\* The last stroke over a cell gives its colour.
LEMMA LastStroke ==
  ASSUME NEW b, NEW strokes, DOMAIN strokes \subseteq Int, NEW o \in DOMAIN memory[b],
         NEW i \in DOMAIN strokes, o \in strokes[i].cells,
         \A j \in DOMAIN strokes : o \in strokes[j].cells => j <= i
  PROVE  Painted(b, strokes)[o] = strokes[i].color
<1> DEFINE on == {k \in DOMAIN strokes : o \in strokes[k].cells}
           last_one == CHOOSE k \in on : \A j \in on : j <= k
<1>1. i \in on /\ \A j \in on : j <= i
  OBVIOUS
<1>2. last_one \in on /\ \A j \in on : j <= last_one
  BY <1>1
<1>3. last_one \in Int /\ i \in Int /\ last_one <= i /\ i <= last_one
  BY <1>1, <1>2
<1>4. last_one = i
  BY <1>3
<1>5. Painted(b, strokes)[o] = strokes[last_one].color
  BY <1>1 DEF Painted
<1> QED
  BY <1>4, <1>5

LEMMA NoStroke ==
  ASSUME NEW b, NEW strokes, NEW o \in DOMAIN memory[b],
         \A i \in DOMAIN strokes : o \notin strokes[i].cells
  PROVE  Painted(b, strokes)[o] = memory[b][o]
BY DEF Painted

LEMMA OneStroke ==
  ASSUME NEW b, NEW cells, NEW color, NEW o \in DOMAIN memory[b]
  PROVE  Painted(b, Stroke(cells, color))[o] = IF o \in cells THEN color ELSE memory[b][o]
<1> DEFINE s == Stroke(cells, color)
<1>1. DOMAIN s = 1..1 /\ s[1].cells = cells /\ s[1].color = color
  BY DEF Stroke
<1> HIDE DEF s
<1>2. CASE o \in cells
  <2>1. 1 \in DOMAIN s /\ DOMAIN s \subseteq Int /\ \A j \in DOMAIN s : j <= 1
    BY <1>1
  <2> QED
    BY <1>1, <1>2, <2>1, LastStroke DEF s
<1>3. CASE o \notin cells
  <2>1. \A i \in DOMAIN s : o \notin s[i].cells
    BY <1>1, <1>3
  <2> QED
    BY <1>3, <2>1, NoStroke DEF s
<1> QED
  BY <1>2, <1>3

-----------------------------------------------------------------------------
(* Rectangles                                                              *)

InkShows(c, cells) ==
  \A x, y : OnScreen(x, y) => (Offset(x, y) \in cells <=> InBox(c, <<x, y>>))

LEMMA FillDraws ==
  ASSUME BuffersOK, ModeOK, NEW x, NEW y, NEW w, NEW h, NEW cells,
         cells \subseteq Offsets, Draw(Call("fill", x, y, w, h), Target, Stroke(cells, Ink)),
         InkShows(Call("fill", x, y, w, h), cells)
  PROVE  ShapeDrawn
<1> DEFINE c == Call("fill", x, y, w, h)
           b == Target
<1>1. ASSUME NEW px, NEW py, OnScreen(px, py), Offset(px, py) \in DOMAIN memory[b]
      PROVE  Right(c, <<px, py>>, memory[b], Painted(b, Stroke(cells, Ink))[Offset(px, py)])
  <2>1. Offset(px, py) \in DOMAIN memory[b]
    BY <1>1
  <2>2. Painted(b, Stroke(cells, Ink))[Offset(px, py)] =
          IF Offset(px, py) \in cells THEN Ink ELSE memory[b][Offset(px, py)]
    BY <2>1, OneStroke
  <2>3. Offset(px, py) \in cells <=> InBox(c, <<px, py>>)
    BY <1>1 DEF InkShows
  <2>4. c.op = "fill"
    BY DEF Call
  <2> HIDE DEF c, b
  <2> QED
    BY <2>2, <2>3, <2>4 DEF Right
<1>2. \A i \in DOMAIN Stroke(cells, Ink) : Stroke(cells, Ink)[i].cells \subseteq Offsets
  BY DEF Stroke
<1> HIDE DEF c, b
<1> QED
  BY <1>1, <1>2, DrawDraws DEF c, b

LEMMA RowsDraw ==
  ASSUME BuffersOK, ModeOK, NEW x \in Int, NEW y \in Int, NEW n \in Nat,
         Hline(x, y, n) \/ Vline(x, y, n)
  PROVE  ShapeDrawn
<1>1. CASE Hline(x, y, n)
  <2> DEFINE c == Call("fill", x, y, n, 1)
  <2>1. InkShows(c, gfx_draw_hline(x, y, n))
    <3>1. c.x = x /\ c.y = y /\ c.width = n /\ c.height = 1
      BY DEF Call
    <3> SUFFICES ASSUME NEW px, NEW py, OnScreen(px, py)
                 PROVE  Offset(px, py) \in gfx_draw_hline(x, y, n) <=> InBox(c, <<px, py>>)
      BY DEF InkShows
    <3>2. px \in Int /\ py \in Int
      BY PixelsOnScreen
    <3>3. Offset(px, py) \in gfx_draw_hline(x, y, n) <=> py = y /\ x <= px /\ px < x + n
      BY HlineCells
    <3> HIDE DEF c
    <3> QED
      BY <3>1, <3>2, <3>3 DEF InBox
  <2>2. gfx_draw_hline(x, y, n) \subseteq Offsets
    BY HlineInside
  <2> QED
    BY <1>1, <2>1, <2>2, FillDraws DEF Hline
<1>2. CASE Vline(x, y, n)
  <2> DEFINE c == Call("fill", x, y, 1, n)
  <2>1. InkShows(c, gfx_draw_vline(x, y, n))
    <3>1. c.x = x /\ c.y = y /\ c.width = 1 /\ c.height = n
      BY DEF Call
    <3> SUFFICES ASSUME NEW px, NEW py, OnScreen(px, py)
                 PROVE  Offset(px, py) \in gfx_draw_vline(x, y, n) <=> InBox(c, <<px, py>>)
      BY DEF InkShows
    <3>2. px \in Int /\ py \in Int
      BY PixelsOnScreen
    <3>3. Offset(px, py) \in gfx_draw_vline(x, y, n) <=> px = x /\ y <= py /\ py < y + n
      BY VlineCells
    <3> HIDE DEF c
    <3> QED
      BY <3>1, <3>2, <3>3 DEF InBox
  <2>2. gfx_draw_vline(x, y, n) \subseteq Offsets
    BY VlineInside
  <2> QED
    BY <1>2, <2>1, <2>2, FillDraws DEF Vline
<1> QED
  BY <1>1, <1>2

LEMMA FillRectDraws ==
  ASSUME BuffersOK, ModeOK, NEW x \in Int, NEW y \in Int,
         NEW w \in Nat, NEW h \in Nat, FillRect(x, y, w, h)
  PROVE  ShapeDrawn
<1> DEFINE c == Call("fill", x, y, w, h)
<1>1. InkShows(c, gfx_fill_rect(x, y, w, h))
  <2>1. c.x = x /\ c.y = y /\ c.width = w /\ c.height = h
    BY DEF Call
  <2> SUFFICES ASSUME NEW px, NEW py, OnScreen(px, py)
               PROVE  Offset(px, py) \in gfx_fill_rect(x, y, w, h) <=> InBox(c, <<px, py>>)
    BY DEF InkShows
  <2>2. px \in Int /\ py \in Int
    BY PixelsOnScreen
  <2>3. Offset(px, py) \in gfx_fill_rect(x, y, w, h) <=>
          x <= px /\ px < x + w /\ y <= py /\ py < y + h
    BY RectCells
  <2> HIDE DEF c
  <2> QED
    BY <2>1, <2>2, <2>3 DEF InBox
<1>2. gfx_fill_rect(x, y, w, h) \subseteq Offsets
  BY RectInside
<1> QED
  BY <1>1, <1>2, FillDraws DEF FillRect

LEMMA TwoStrokes ==
  ASSUME NEW b, NEW A, NEW ca, NEW B, NEW cb, NEW o \in DOMAIN memory[b]
  PROVE  Painted(b, Stroke(A, ca) \o Stroke(B, cb))[o] =
           IF o \in B THEN cb ELSE IF o \in A THEN ca ELSE memory[b][o]
<1> DEFINE s == Stroke(A, ca) \o Stroke(B, cb)
<1>1. /\ DOMAIN s = 1..2 /\ s[1].cells = A /\ s[1].color = ca /\ s[2].cells = B /\ s[2].color = cb
  BY DEF Stroke
<1> HIDE DEF s
<1>2. CASE o \in B
  <2>1. 2 \in DOMAIN s /\ DOMAIN s \subseteq Int
    BY <1>1
  <2>2. o \in s[2].cells /\ \A j \in DOMAIN s : o \in s[j].cells => j <= 2
    BY <1>1, <1>2
  <2>3. Painted(b, s)[o] = s[2].color
    BY <2>1, <2>2, LastStroke
  <2> QED
    BY <1>1, <1>2, <2>3 DEF s
<1>3. CASE o \in A /\ o \notin B
  <2>1. 1 \in DOMAIN s /\ DOMAIN s \subseteq Int
    BY <1>1, <1>3
  <2>2. o \in s[1].cells /\ \A j \in DOMAIN s : o \in s[j].cells => j <= 1
    BY <1>1, <1>3
  <2>3. Painted(b, s)[o] = s[1].color
    BY <2>1, <2>2, LastStroke
  <2> QED
    BY <1>1, <1>3, <2>3 DEF s
<1>4. CASE o \notin A /\ o \notin B
  <2>1. \A i \in DOMAIN s : o \notin s[i].cells
    BY <1>1, <1>4
  <2> QED
    BY <1>4, <2>1, NoStroke DEF s
<1> QED
  BY <1>2, <1>3, <1>4

LEMMA ThreeStrokes ==
  ASSUME NEW b, NEW A, NEW ca, NEW B, NEW cb, NEW C, NEW cc, NEW o \in DOMAIN memory[b]
  PROVE  Painted(b, Stroke(A, ca) \o Stroke(B, cb) \o Stroke(C, cc))[o] =
           IF o \in C THEN cc ELSE IF o \in B THEN cb ELSE IF o \in A THEN ca ELSE memory[b][o]
<1> DEFINE s == Stroke(A, ca) \o Stroke(B, cb) \o Stroke(C, cc)
<1>1. /\ DOMAIN s = 1..3 /\ s[1].cells = A /\ s[1].color = ca /\ s[2].cells = B /\ s[2].color = cb
      /\ s[3].cells = C /\ s[3].color = cc
  BY DEF Stroke
<1> HIDE DEF s
<1>2. CASE o \in C
  <2>1. 3 \in DOMAIN s /\ DOMAIN s \subseteq Int
    BY <1>1, <1>2
  <2>2. o \in s[3].cells /\ \A j \in DOMAIN s : o \in s[j].cells => j <= 3
    BY <1>1, <1>2
  <2>3. Painted(b, s)[o] = s[3].color
    BY <2>1, <2>2, LastStroke
  <2> QED
    BY <1>1, <1>2, <2>3 DEF s
<1>3. CASE o \in B /\ o \notin C
  <2>1. 2 \in DOMAIN s /\ DOMAIN s \subseteq Int
    BY <1>1, <1>3
  <2>2. o \in s[2].cells /\ \A j \in DOMAIN s : o \in s[j].cells => j <= 2
    BY <1>1, <1>3
  <2>3. Painted(b, s)[o] = s[2].color
    BY <2>1, <2>2, LastStroke
  <2> QED
    BY <1>1, <1>3, <2>3 DEF s
<1>4. CASE o \in A /\ o \notin B /\ o \notin C
  <2>1. 1 \in DOMAIN s /\ DOMAIN s \subseteq Int
    BY <1>1, <1>4
  <2>2. o \in s[1].cells /\ \A j \in DOMAIN s : o \in s[j].cells => j <= 1
    BY <1>1, <1>4
  <2>3. Painted(b, s)[o] = s[1].color
    BY <2>1, <2>2, LastStroke
  <2> QED
    BY <1>1, <1>4, <2>3 DEF s
<1>5. CASE o \notin A /\ o \notin B /\ o \notin C
  <2>1. \A i \in DOMAIN s : o \notin s[i].cells
    BY <1>1, <1>5
  <2> QED
    BY <1>5, <2>1, NoStroke DEF s
<1> QED
  BY <1>2, <1>3, <1>4, <1>5

FirstEdges(x, y, w, h) == gfx_draw_hline(x, y, w) \cup gfx_draw_vline(x, y, h)
LastEdges(x, y, w, h) ==
  gfx_draw_hline(x, y + h - 1, w) \cup gfx_draw_vline(x + w - 1, y, h)

LEMMA EdgeCells ==
  ASSUME ModeOK, NEW x \in Int, NEW y \in Int, NEW w \in Nat, NEW h \in Nat,
         NEW px, NEW py, OnScreen(px, py), NEW op
  PROVE  LET c == Call(op, x, y, w, h)
             p == <<px, py>>
         IN  /\ Offset(px, py) \in gfx_fill_rect(x, y, w, h) <=> InBox(c, p)
             /\ Offset(px, py) \in FirstEdges(x, y, w, h) <=> FirstEdge(c, p)
             /\ Offset(px, py) \in LastEdges(x, y, w, h) <=> LastEdge(c, p)
<1> DEFINE c == Call(op, x, y, w, h)
           o == Offset(px, py)
<1>1. c.x = x /\ c.y = y /\ c.width = w /\ c.height = h
  BY DEF Call
<1>2. px \in Int /\ py \in Int
  BY PixelsOnScreen
<1>3. x + w - 1 \in Int /\ y + h - 1 \in Int
  OBVIOUS
<1>4. o \in gfx_fill_rect(x, y, w, h) <=> x <= px /\ px < x + w /\ y <= py /\ py < y + h
  BY RectCells
<1>5. /\ o \in gfx_draw_hline(x, y, w) <=> py = y /\ x <= px /\ px < x + w
      /\ o \in gfx_draw_vline(x, y, h) <=> px = x /\ y <= py /\ py < y + h
  BY HlineCells, VlineCells
<1>6. o \in gfx_draw_hline(x, y + h - 1, w) <=> py = y + h - 1 /\ x <= px /\ px < x + w
  BY <1>3, HlineCells
<1>7. o \in gfx_draw_vline(x + w - 1, y, h) <=> px = x + w - 1 /\ y <= py /\ py < y + h
  BY <1>3, VlineCells
<1> HIDE DEF c, o
<1>8. InBox(c, <<px, py>>) <=> x <= px /\ px < x + w /\ y <= py /\ py < y + h
  BY <1>1, <1>2 DEF InBox
<1>9. \A v, u : Edges(c, <<px, py>>, v, u) <=>
                 (py = u /\ x <= px /\ px < x + w) \/ (px = v /\ y <= py /\ py < y + h)
  BY <1>1, <1>2 DEF Edges
<1>11. o \in FirstEdges(x, y, w, h) <=> FirstEdge(c, <<px, py>>)
  BY <1>1, <1>5, <1>9 DEF FirstEdges, FirstEdge
<1>12. o \in LastEdges(x, y, w, h) <=> LastEdge(c, <<px, py>>)
  BY <1>1, <1>6, <1>7, <1>9 DEF LastEdges, LastEdge
<1> QED
  BY <1>4, <1>8, <1>11, <1>12 DEF c, o

\* Edges and their insides lie on the screen.
LEMMA EdgesInside ==
  ASSUME ModeOK, NEW x \in Int, NEW y \in Int, NEW w \in Nat, NEW h \in Nat
  PROVE  /\ gfx_fill_rect(x, y, w, h) \subseteq Offsets
         /\ FirstEdges(x, y, w, h) \subseteq Offsets /\ LastEdges(x, y, w, h) \subseteq Offsets
<1>1. x + w - 1 \in Int /\ y + h - 1 \in Int
  OBVIOUS
<1> QED
  BY <1>1, RectInside, HlineInside, VlineInside DEF FirstEdges, LastEdges

LEMMA DrawRectDraws ==
  ASSUME BuffersOK, ModeOK, NEW x \in Int, NEW y \in Int,
         NEW w \in Nat, NEW h \in Nat, DrawRect(x, y, w, h)
  PROVE  ShapeDrawn
<1> DEFINE c == Call("rect", x, y, w, h)
           b == Target
           cells == gfx_draw_rect(x, y, w, h)
<1>1. cells = FirstEdges(x, y, w, h) \cup LastEdges(x, y, w, h)
  BY DEF gfx_draw_rect, FirstEdges, LastEdges
<1>2. ASSUME NEW px, NEW py, OnScreen(px, py), Offset(px, py) \in DOMAIN memory[b]
      PROVE  Right(c, <<px, py>>, memory[b], Painted(b, Stroke(cells, Ink))[Offset(px, py)])
  <2>1. Offset(px, py) \in DOMAIN memory[b]
    BY <1>2
  <2>2. Painted(b, Stroke(cells, Ink))[Offset(px, py)] =
          IF Offset(px, py) \in cells THEN Ink ELSE memory[b][Offset(px, py)]
    BY <2>1, OneStroke
  <2>3. Offset(px, py) \in cells <=> FirstEdge(c, <<px, py>>) \/ LastEdge(c, <<px, py>>)
    BY <1>1, <1>2, EdgeCells
  <2>4. c.op = "rect"
    BY DEF Call
  <2> HIDE DEF c, b, cells
  <2> QED
    BY <2>2, <2>3, <2>4 DEF Right
<1>3. Draw(c, b, Stroke(cells, Ink))
  BY DEF DrawRect
<1>4. \A i \in DOMAIN Stroke(cells, Ink) : Stroke(cells, Ink)[i].cells \subseteq Offsets
  BY <1>1, EdgesInside DEF Stroke
<1> HIDE DEF c, cells
<1> QED
  BY <1>2, <1>3, <1>4, DrawDraws

LEMMA PanelDraws ==
  ASSUME BuffersOK, ModeOK, NEW x \in Int, NEW y \in Int,
         NEW w \in Nat, NEW h \in Nat, NEW op, NEW first, NEW second,
         Panel(op, x, y, w, h, first, second),
         \/ op = "raised" /\ first = WHITE /\ second = DARK
         \/ op = "sunken" /\ first = DARK /\ second = WHITE
  PROVE  ShapeDrawn
<1> DEFINE c == Call(op, x, y, w, h)
           b == Target
           A == gfx_fill_rect(x, y, w, h)
           B == FirstEdges(x, y, w, h)
           C == LastEdges(x, y, w, h)
           s == Stroke(A, Ink) \o Stroke(B, first) \o Stroke(C, second)
<1>1. Draw(c, b, s)
  BY DEF Panel, FirstEdges, LastEdges
<1>2. ASSUME NEW px, NEW py, OnScreen(px, py), Offset(px, py) \in DOMAIN memory[b]
      PROVE  Right(c, <<px, py>>, memory[b], Painted(b, s)[Offset(px, py)])
  <2> DEFINE o == Offset(px, py)
  <2>1. o \in DOMAIN memory[b]
    BY <1>2
  <2>2. Painted(b, s)[o] = IF o \in C THEN second ELSE IF o \in B THEN first
                           ELSE IF o \in A THEN Ink ELSE memory[b][o]
    BY <2>1, ThreeStrokes
  <2>3. /\ o \in A <=> InBox(c, <<px, py>>)
        /\ o \in B <=> FirstEdge(c, <<px, py>>)
        /\ o \in C <=> LastEdge(c, <<px, py>>)
    BY <1>2, EdgeCells
  <2>4. c.op = op
    BY DEF Call
  <2> HIDE DEF c, b, A, B, C, s
  <2> QED
    BY <2>2, <2>3, <2>4 DEF Right
<1>3. \A i \in DOMAIN s : s[i].cells \subseteq Offsets
  <2>1. /\ DOMAIN s = 1..3 /\ s[1].cells = A /\ s[2].cells = B /\ s[3].cells = C
    BY DEF Stroke
  <2>2. A \subseteq Offsets /\ B \subseteq Offsets /\ C \subseteq Offsets
    BY EdgesInside
  <2> HIDE DEF s, A, B, C
  <2> QED
    BY <2>1, <2>2
<1> HIDE DEF c, s
<1> QED
  BY <1>1, <1>2, <1>3, DrawDraws

-----------------------------------------------------------------------------
(* Gradients                                                               *)

\* The quotient of the code's division.
LEMMA Quotient ==
  ASSUME NEW a \in Int, NEW n \in Nat \ {0}
  PROVE  a \div n \in Int /\ n * (a \div n) <= a /\ a < n * (a \div n) + n
OBVIOUS

LEMMA NatProduct == ASSUME NEW a \in Nat, NEW b \in Nat PROVE a * b \in Nat /\ 0 <= a * b
OBVIOUS

\* The shades stay between those of the ends, so that the byte holds them.
ShadeFits(top, bottom, t, h) ==
  t = 0 \/ top <= bottom \/ 65536 % h = 0 =>
    h * (interpolate_color(top, bottom, t, h) - top)
      \in ((bottom - top) * t - (h - 1))..((bottom - top) * t)

LEMMA ShadeBetween ==
  ASSUME NEW top \in 0..255, NEW bottom \in 0..255, NEW h \in Nat \ {0}, NEW t \in 0..(h - 1)
  PROVE  ShadeFits(top, bottom, t, h)
<1> SUFFICES ASSUME t = 0 \/ top <= bottom \/ 65536 % h = 0
             PROVE  h * (interpolate_color(top, bottom, t, h) - top)
                      \in ((bottom - top) * t - (h - 1))..((bottom - top) * t)
  BY DEF ShadeFits
<1> DEFINE d == bottom - top
           a == d * t
           q == a \div h
<1>1. d \in Int /\ a \in Int /\ t \in Int /\ h \in Int /\ top \in Int /\ bottom \in Int
  OBVIOUS
<1>2. interpolate_color(top, bottom, t, h) = (top + q) % 256
  <2> DEFINE wrapped == IF a < 0 THEN 65536 * (65536 % h) ELSE 0
  <2>1. interpolate_color(top, bottom, t, h) = (top + (wrapped + a) \div h) % 256
    BY DEF interpolate_color
  <2>2. CASE t = 0 \/ top <= bottom
    <3>1. 0 <= a
      <4>1. CASE t = 0
        <5>1. a = 0
          BY <1>1, <4>1
        <5> QED
          BY <5>1
      <4>2. CASE top <= bottom
        <5>1. d \in Nat /\ t \in Nat
          BY <1>1, <4>2
        <5> HIDE DEF d
        <5> QED
          BY <5>1, NatProduct
      <4> QED
        BY <2>2, <4>1, <4>2
    <3>2. wrapped = 0 /\ 0 + a = a
      <4> HIDE DEF a
      <4> QED
        BY <1>1, <3>1
    <3> HIDE DEF wrapped, a
    <3> QED
      BY <2>1, <3>2
  <2>3. CASE 65536 % h = 0
    <3>1. 65536 * (65536 % h) = 0 /\ 0 + a = a
      BY <1>1, <2>3
    <3> HIDE DEF a
    <3>2. wrapped = 0
      BY <3>1
    <3> HIDE DEF wrapped
    <3> QED
      BY <2>1, <3>1, <3>2
  <2> QED
    BY <2>2, <2>3
<1>3. q \in Int /\ h * q <= a /\ a < h * q + h
  <2> HIDE DEF a
  <2> QED
    BY <1>1, Quotient
<1>4. top + q \in 0..255
  <2>1. CASE d >= 0
    <3>1. 0 <= a /\ a <= d * h
      <4>1. 0 <= d * t /\ 0 <= d * (h - t)
        <5>1. d \in Nat /\ t \in Nat /\ h - t \in Nat
          BY <1>1, <2>1
        <5> HIDE DEF d
        <5> QED
          BY <5>1, NatProduct
      <4>2. d * (h - t) = d * h - d * t
        BY <1>1
      <4> QED
        BY <1>1, <4>1, <4>2
    <3>2. 0 <= q
      <4>1. ASSUME q <= -1 PROVE FALSE
        <5>1. h * (q + 1) <= 0 /\ h * (q + 1) = h * q + h
          BY <1>1, <1>3, <4>1
        <5> HIDE DEF a, q
        <5> QED
          BY <1>1, <1>3, <3>1, <5>1
      <4> QED
        BY <1>3, <4>1
    <3>3. q <= d
      <4>1. ASSUME q >= d + 1 PROVE FALSE
        <5>1. h * (q - d - 1) >= 0 /\ h * (q - d - 1) = h * q - d * h - h
          BY <1>1, <1>3, <4>1
        <5>2. d * h \in Int /\ h * q \in Int
          BY <1>1, <1>3
        <5> HIDE DEF a, q, d
        <5> QED
          BY <1>1, <1>3, <3>1, <5>1, <5>2
      <4> QED
        BY <1>1, <1>3, <4>1
    <3> HIDE DEF q
    <3> QED
      BY <1>1, <1>3, <3>2, <3>3
  <2>2. CASE d < 0
    <3>1. a <= 0 /\ d * h <= a
      <4>1. d * t <= 0 /\ d * (h - t) <= 0
        <5>1. -d \in Nat /\ t \in Nat /\ h - t \in Nat /\ d \in Int
          BY <1>1, <2>2
        <5> HIDE DEF d
        <5>2. 0 <= (-d) * t /\ 0 <= (-d) * (h - t)
          BY <5>1, NatProduct
        <5>3. (-d) * t = -(d * t) /\ (-d) * (h - t) = -(d * (h - t)) /\ d * t \in Int /\ d * (h - t) \in Int
          BY <5>1
        <5> QED
          BY <5>2, <5>3
      <4> DEFINE P == d * h
                 R == d * (h - t)
      <4>2. R = P - a /\ R \in Int /\ P \in Int /\ a \in Int /\ a <= 0 /\ R <= 0
        BY <1>1, <4>1
      <4> HIDE DEF P, R, a
      <4>3. a <= 0 /\ P <= a
        BY <4>2
      <4> QED
        BY <4>3 DEF P
    <3>2. q <= 0
      <4>1. ASSUME q >= 1 PROVE FALSE
        <5>1. h * (q - 1) >= 0 /\ h * (q - 1) = h * q - h
          BY <1>1, <1>3, <4>1
        <5> HIDE DEF a, q
        <5> QED
          BY <1>1, <1>3, <3>1, <5>1
      <4> QED
        BY <1>3, <4>1
    <3>3. d <= q
      <4>1. ASSUME q <= d - 1 PROVE FALSE
        <5>1. h * (d - 1 - q) >= 0 /\ h * (d - 1 - q) = d * h - h - h * q
          BY <1>1, <1>3, <4>1
        <5>2. d * h \in Int /\ h * q \in Int
          BY <1>1, <1>3
        <5> HIDE DEF a, q, d
        <5> QED
          BY <1>1, <1>3, <3>1, <5>1, <5>2
      <4> QED
        BY <1>1, <1>3, <4>1
    <3> HIDE DEF q
    <3> QED
      BY <1>1, <1>3, <3>2, <3>3
  <2> QED
    BY <1>1, <2>1, <2>2
<1>5. interpolate_color(top, bottom, t, h) - top = q
  <2> HIDE DEF q
  <2>1. (top + q) % 256 = top + q
    BY <1>4
  <2> QED
    BY <1>1, <1>2, <1>3, <2>1
<1>6. h * q \in (a - (h - 1))..a
  <2>1. h * q \in Int
    BY <1>1, <1>3
  <2> HIDE DEF q, a
  <2> QED
    BY <1>1, <1>3, <2>1
<1> QED
  BY <1>5, <1>6

LEMMA GradientDraws ==
  ASSUME BuffersOK, ModeOK, NEW x \in Int, NEW y \in Int,
         NEW w \in Nat, NEW h \in Nat, NEW top \in 0..255, NEW bottom \in 0..255,
         Gradient(x, y, w, h, top, bottom)
  PROVE  ShapeDrawn
<1> DEFINE c == [op |-> "gradient", x |-> x, y |-> y, width |-> w, height |-> h,
                 top |-> top, bottom |-> bottom]
           b == Target
           Shade(t) == interpolate_color(top, bottom, t, h)
           s == [i \in 1..h |-> [cells |-> gfx_draw_hline(x, y + i - 1, w), color |-> Shade(i - 1)]]
<1>1. Draw(c, b, s)
  BY DEF Gradient
<1>2. ASSUME NEW px, NEW py, OnScreen(px, py), Offset(px, py) \in DOMAIN memory[b]
      PROVE  Right(c, <<px, py>>, memory[b], Painted(b, s)[Offset(px, py)])
  <2> DEFINE o == Offset(px, py)
             t == py - y
             old == memory[b][o]
             new == Painted(b, s)[o]
  <2>1. o \in DOMAIN memory[b] /\ px \in Int /\ py \in Int
    BY <1>2, PixelsOnScreen
  <2>2. DOMAIN s = 1..h /\ \A i \in 1..h : s[i].color = Shade(i - 1)
    OBVIOUS
  <2>3. \A i \in 1..h : o \in s[i].cells <=> py = y + i - 1 /\ x <= px /\ px < x + w
    <3> SUFFICES ASSUME NEW i \in 1..h
                 PROVE  o \in s[i].cells <=> py = y + i - 1 /\ x <= px /\ px < x + w
      OBVIOUS
    <3> DEFINE k == y + i - 1
    <3>1. k \in Int /\ s[i].cells = gfx_draw_hline(x, k, w)
      OBVIOUS
    <3> HIDE DEF k, s
    <3>2. o \in gfx_draw_hline(x, k, w) <=> py = k /\ x <= px /\ px < x + w
      BY <1>2, <3>1, HlineCells
    <3> QED
      BY <3>1, <3>2 DEF k
  <2>4. /\ c.op = "gradient" /\ c.x = x /\ c.y = y /\ c.width = w /\ c.height = h
        /\ c.top = top /\ c.bottom = bottom
    OBVIOUS
  <2>5. InBox(c, <<px, py>>) <=> x <= px /\ px < x + w /\ y <= py /\ py < y + h
    BY <2>1 DEF InBox
  <2> HIDE DEF s, o, c, Shade
  <2>6. GradientRight(c, <<px, py>>, old, new)
    <3>1. CASE InBox(c, <<px, py>>)
      <4>1. t + 1 \in 1..h /\ t \in 0..(h - 1) /\ py = y + (t + 1) - 1 /\ t + 1 - 1 = t
        BY <2>1, <2>5, <3>1
      <4>2. \A j \in DOMAIN s : o \in s[j].cells => j <= t + 1
        BY <2>1, <2>2, <2>3
      <4>3. o \in s[t + 1].cells /\ t + 1 \in DOMAIN s /\ DOMAIN s \subseteq Int
        BY <2>2, <2>3, <2>5, <3>1, <4>1
      <4>4. new = s[t + 1].color
        BY <2>1, <4>2, <4>3, LastStroke
      <4>5. new = interpolate_color(top, bottom, t, h)
        BY <2>2, <4>1, <4>4 DEF Shade
      <4> HIDE DEF t
      <4> HIDE DEF t, new, old
      <4>6. ShadeFits(top, bottom, t, h)
        <5>1. h \in Nat \ {0}
          BY <4>1
        <5> QED
          BY <4>1, <5>1, ShadeBetween
      <4>7. <<px, py>>[2] - c.y = t
        BY <2>4 DEF t
      <4> QED
        BY <2>4, <3>1, <4>5, <4>6, <4>7 DEF GradientRight, ShadeFits
    <3>2. CASE ~InBox(c, <<px, py>>)
      <4>1. \A i \in DOMAIN s : o \notin s[i].cells
        BY <2>1, <2>2, <2>3, <2>5, <3>2
      <4>2. new = old
        BY <2>1, <4>1, NoStroke
      <4> HIDE DEF new, old
      <4> QED
        BY <3>2, <4>2 DEF GradientRight
    <3> QED
      BY <3>1, <3>2
  <2>7. memory[b][Offset(<<px, py>>[1], <<px, py>>[2])] = old
    BY DEF o
  <2> HIDE DEF b, new, old
  <2> QED
    BY <2>4, <2>6, <2>7 DEF Right, new, o
<1>3. \A i \in DOMAIN s : s[i].cells \subseteq Offsets
  <2> SUFFICES ASSUME NEW i \in 1..h PROVE gfx_draw_hline(x, y + i - 1, w) \subseteq Offsets
    OBVIOUS
  <2>1. y + i - 1 \in Int
    OBVIOUS
  <2> QED
    BY <2>1, HlineInside
<1> HIDE DEF c, s
<1> QED
  BY <1>1, <1>2, <1>3, DrawDraws

-----------------------------------------------------------------------------
(* Pictures                                                                *)

\* Each pixel of a picture that is on the screen shows there.
LEMMA OverlaidAt ==
  ASSUME ModeOK, NEW px, NEW py, OnScreen(px, py), NEW x \in Int, NEW y \in Int,
         Offset(px, py) \in DOMAIN memory[draw_target],
         NEW picture, DOMAIN picture \subseteq Int \X Int
  PROVE  Overlaid(x, y, picture)[Offset(px, py)] =
           IF <<px - x, py - y>> \in DOMAIN picture THEN picture[<<px - x, py - y>>]
           ELSE memory[draw_target][Offset(px, py)]
<1> DEFINE o == Offset(px, py)
           on == {p \in DOMAIN picture : o \in fb_put_pixel(x + p[1], y + p[2])}
           q == <<px - x, py - y>>
<1>1. o \in DOMAIN memory[draw_target] /\ px \in Int /\ py \in Int
  BY PixelsOnScreen
<1>2. Overlaid(x, y, picture)[o] =
        IF on = {} THEN memory[draw_target][o] ELSE picture[CHOOSE p \in on : TRUE]
  BY <1>1 DEF Overlaid
<1>3. \A p \in DOMAIN picture : p \in on <=> p = q
  <2> SUFFICES ASSUME NEW p \in DOMAIN picture PROVE p \in on <=> p = q
    OBVIOUS
  <2>1. p[1] \in Int /\ p[2] \in Int /\ p = <<p[1], p[2]>>
    OBVIOUS
  <2>2. x + p[1] \in Int /\ y + p[2] \in Int
    BY <2>1
  <2>3. o \in fb_put_pixel(x + p[1], y + p[2]) <=> px = x + p[1] /\ py = y + p[2]
    BY <2>2, PutPixelCells
  <2>4. px = x + p[1] /\ py = y + p[2] <=> p[1] = px - x /\ p[2] = py - y
    BY <1>1, <2>1
  <2> QED
    BY <2>1, <2>3, <2>4
<1>4. CASE q \in DOMAIN picture
  <2>1. on = {q}
    BY <1>3, <1>4
  <2>2. (CHOOSE p \in on : TRUE) = q /\ on # {}
    BY <2>1
  <2> QED
    BY <1>2, <1>4, <2>2
<1>5. CASE q \notin DOMAIN picture
  <2>1. on = {}
    BY <1>3, <1>5
  <2> QED
    BY <1>2, <1>5, <2>1
<1> QED
  BY <1>4, <1>5

LEMMA OverlayDraws ==
  ASSUME BuffersOK, ModeOK, NEW x \in Int, NEW y \in Int, NEW call,
         NEW picture, DOMAIN picture \subseteq Int \X Int, NEW pixels,
         Does(call, draw_target, PictureCells(x, y, pixels), Overlaid(x, y, picture)),
         \A px, py : PictureCells(x, y, pixels) \subseteq DOMAIN memory[draw_target]
                    /\ OnScreen(px, py) /\ Offset(px, py) \in DOMAIN memory[draw_target] =>
           Right(call, <<px, py>>, memory[draw_target],
                 IF <<px - x, py - y>> \in DOMAIN picture THEN picture[<<px - x, py - y>>]
                 ELSE memory[draw_target][Offset(px, py)])
  PROVE  ShapeDrawn
<1> DEFINE m == Overlaid(x, y, picture)
           b == draw_target
           cells == PictureCells(x, y, pixels)
<1>1. cells \subseteq Offsets
  BY PictureInside
<1>2. SetBuffer(b, cells, m) /\ last' = call
  BY DEF Does
<1>3. m = [o \in Cells(b) |-> m[o]]
  BY OverlaidShape
<1>4. \A px, py : cells \subseteq DOMAIN memory[b] /\ OnScreen(px, py)
                 /\ Offset(px, py) \in DOMAIN memory[b] =>
                   Right(call, <<px, py>>, memory[b], m[Offset(px, py)])
  <2> SUFFICES ASSUME NEW px, NEW py, OnScreen(px, py), Offset(px, py) \in DOMAIN memory[b],
                      cells \subseteq DOMAIN memory[b]
               PROVE  Right(call, <<px, py>>, memory[b], m[Offset(px, py)])
    OBVIOUS
  <2>1. m[Offset(px, py)] = IF <<px - x, py - y>> \in DOMAIN picture THEN picture[<<px - x, py - y>>]
                            ELSE memory[b][Offset(px, py)]
    BY OverlaidAt
  <2> HIDE DEF m
  <2> QED
    BY <2>1
<1> HIDE DEF m, cells
<1> QED
  BY <1>1, <1>2, <1>3, <1>4, StoreDraws

LEMMA BitmapDraws ==
  ASSUME BuffersOK, ModeOK, NEW x \in Int, NEW y \in Int, DrawBitmap(x, y)
  PROVE  ShapeDrawn
<1> DEFINE c == Call("bitmap", x, y, 0, 0)
           picture == [p \in DOMAIN Bitmap |-> Bitmap[p].color]
<1>1. DOMAIN picture = DOMAIN Bitmap /\ DOMAIN picture \subseteq Int \X Int
  BY GraphicsAssumption
<1>2. Does(c, draw_target, PictureCells(x, y, DOMAIN Bitmap), Overlaid(x, y, picture))
  BY DEF DrawBitmap
<1>3. ASSUME NEW px, NEW py
      PROVE  Right(c, <<px, py>>, memory[draw_target],
                   IF <<px - x, py - y>> \in DOMAIN picture THEN picture[<<px - x, py - y>>]
                   ELSE memory[draw_target][Offset(px, py)])
  <2>1. c.op = "bitmap" /\ c.x = x /\ c.y = y
    BY DEF Call
  <2>2. \A p \in DOMAIN Bitmap : picture[p] = Bitmap[p].color
    OBVIOUS
  <2> HIDE DEF c, picture
  <2> QED
    BY <1>1, <2>1, <2>2 DEF Right
<1> HIDE DEF c, picture
<1> QED
  BY <1>1, <1>2, <1>3, OverlayDraws

LEMMA ClearDraws ==
  ASSUME BuffersOK, ModeOK, Clear
  PROVE  ShapeDrawn
<1> DEFINE c == Call("clear", 0, 0, fb_info.width, fb_info.height)
           b == draw_target
           m == [o \in DOMAIN memory[b] |-> IF o \in Offsets THEN ClearInk ELSE memory[b][o]]
<1>1. DOMAIN memory[b] = Cells(b)
  BY TargetIsBuffer, BufferCells
<1>2. SetBuffer(b, Offsets, m) /\ last' = c
  BY DEF Clear, fb_clear
<1>3. m = [o \in Cells(b) |-> m[o]]
  BY <1>1
<1>4. ASSUME NEW px, NEW py, OnScreen(px, py), Offset(px, py) \in DOMAIN memory[b]
      PROVE  Right(c, <<px, py>>, memory[b], m[Offset(px, py)])
  <2>1. c.op = "clear"
    BY DEF Call
  <2>2. m[Offset(px, py)] = ClearInk
    BY <1>4, PixelsOnScreen
  <2> HIDE DEF c, m
  <2> QED
    BY <2>1, <2>2 DEF Right
<1> HIDE DEF c, m
<1> QED
  BY <1>2, <1>3, <1>4, StoreDraws

-----------------------------------------------------------------------------
(* Copies                                                                  *)

\* In the direction that the copy goes it never reads what it has written.
LEMMA CopyUpwards ==
  ASSUME NEW m, NEW to \in Int, NEW from \in Int, NEW n \in Nat, to <= from
  PROVE  memcpy(m, to, from, n) = memmove(m, to, from, n)
<1> DEFINE copied[i \in Run(0, n)] ==
             IF from + i \in Run(to, i) THEN copied[from + i - to] ELSE m[from + i]
           g == [i \in Run(0, n) |-> m[from + i]]
<1>1. \A i \in Run(0, n) : i \in Int /\ from + i \notin Run(to, i)
  BY DEF Run
<1>2. g = [i \in Run(0, n) |-> IF from + i \in Run(to, i) THEN g[from + i - to] ELSE m[from + i]]
  BY <1>1
<1> HIDE DEF g
<1>3. copied = [i \in Run(0, n) |->
                  IF from + i \in Run(to, i) THEN copied[from + i - to] ELSE m[from + i]]
  BY <1>2, Zenon
<1>4. memcpy(m, to, from, n) = [o \in DOMAIN m |-> IF o \in Run(to, n) THEN copied[o - to] ELSE m[o]]
  BY DEF memcpy
<1> HIDE DEF copied
<1>5. \A o \in DOMAIN m : (IF o \in Run(to, n) THEN copied[o - to] ELSE m[o]) =
                          (IF o \in Run(to, n) THEN m[from + o - to] ELSE m[o])
  <2> SUFFICES ASSUME NEW o \in Run(to, n) PROVE copied[o - to] = m[from + o - to]
    OBVIOUS
  <2>1. o \in Int /\ o - to \in Run(0, n) /\ from + (o - to) = from + o - to
    BY DEF Run
  <2> QED
    BY <1>1, <1>3, <2>1
<1> QED
  BY <1>4, <1>5 DEF memmove

\* One row: each pixel of the target takes that of the source.
CopyRow(c, m, y) ==
  IF Forward(c.sx, c.sy, c.x, c.y)
  THEN memcpy(m, Offset(c.x, c.y + y), Offset(c.sx, c.sy + y), c.width)
  ELSE memmove(m, Offset(c.x, c.y + y), Offset(c.sx, c.sy + y), c.width)

\* The arguments that fb_copy_rect takes, which lie on the screen.
CopyOK(c) ==
  /\ c.sx \in Nat /\ c.sy \in Nat /\ c.x \in Nat /\ c.y \in Nat /\ c.width \in Nat /\ c.height \in Nat
  /\ c.x + c.width <= fb_info.width /\ c.sx + c.width <= fb_info.width
  /\ c.y + c.height <= fb_info.height /\ c.sy + c.height <= fb_info.height

LEMMA RowMoved ==
  ASSUME ModeOK, NEW c, CopyOK(c), NEW m, NEW y \in 0..(c.height - 1)
  PROVE  CopyRow(c, m, y) =
           memmove(m, Offset(c.x, c.y + y), Offset(c.sx, c.sy + y), c.width)
<1> DEFINE n == fb_info.pitch
           to == Offset(c.x, c.y + y)
           from == Offset(c.sx, c.sy + y)
<1>1. n \in Nat /\ c.sx \in Nat /\ c.sy \in Nat /\ c.x \in Nat /\ c.y \in Nat /\ c.width \in Nat
      /\ c.height \in Nat /\ c.x <= n /\ y \in Int
  BY DEF ModeOK, CopyOK
<1>2. to = (c.y + y) * n + c.x /\ from = (c.sy + y) * n + c.sx
  BY DEF Offset
<1>3. ASSUME Forward(c.sx, c.sy, c.x, c.y) PROVE to <= from
  <2> DEFINE d == c.sy - c.y
  <2>1. d \in Int /\ (d >= 1 \/ (d = 0 /\ c.x < c.sx))
    <3>1. c.y < c.sy \/ (c.y = c.sy /\ c.x < c.sx)
      BY <1>3 DEF Forward
    <3> HIDE DEF n, to, from
    <3> QED
      BY <1>1, <3>1
  <2>2. from - to = d * n + c.sx - c.x
    BY <1>1, <1>2
  <2>3. d >= 1 => d * n >= n
    <3>1. ASSUME d >= 1 PROVE d * n >= n
      <4>1. d - 1 \in Nat /\ (d - 1) * n = d * n - n /\ d * n \in Int
        BY <1>1, <2>1, <3>1
      <4>2. 0 <= (d - 1) * n
        BY <1>1, <4>1, NatProduct
      <4> HIDE DEF d, n
      <4> QED
        BY <1>1, <4>1, <4>2
    <3> QED
      BY <3>1
  <2>4. d = 0 => d * n = 0
    BY <1>1
  <2>5. d * n \in Int /\ to \in Int /\ from \in Int
    BY <1>1, <1>2, <2>1
  <2> HIDE DEF d, n, to, from
  <2> QED
    BY <1>1, <2>1, <2>2, <2>3, <2>4, <2>5
<1>4. to \in Int /\ from \in Int
  BY <1>1, <1>2
<1> HIDE DEF to, from
<1>5. CASE Forward(c.sx, c.sy, c.x, c.y)
  <2>1. memcpy(m, to, from, c.width) = memmove(m, to, from, c.width)
    BY <1>1, <1>3, <1>4, <1>5, CopyUpwards
  <2> QED
    BY <1>5, <2>1 DEF CopyRow, to, from
<1>6. CASE ~Forward(c.sx, c.sy, c.x, c.y)
  BY <1>6 DEF CopyRow, to, from
<1> QED
  BY <1>5, <1>6

\* The cells that it reads and writes.
CopyCells(c) ==
  UNION {Run(Offset(c.sx, c.sy + y), c.width) \cup Run(Offset(c.x, c.y + y), c.width) :
           y \in 0..(c.height - 1)}

LEMMA CopyInside ==
  ASSUME ModeOK, NEW c, CopyOK(c)
  PROVE  CopyCells(c) \subseteq Offsets
<1>1. /\ c.sx \in Nat /\ c.sy \in Nat /\ c.x \in Nat /\ c.y \in Nat /\ c.width \in Nat
      /\ c.height \in Nat /\ c.x + c.width <= fb_info.width /\ c.sx + c.width <= fb_info.width
      /\ c.y + c.height <= fb_info.height /\ c.sy + c.height <= fb_info.height
      /\ fb_info.height \in Nat
  BY DEF CopyOK, ModeOK
<1>2. ASSUME NEW y \in 0..(c.height - 1), NEW x1 \in Nat, NEW y1 \in Nat,
             x1 + c.width <= fb_info.width, y1 + c.height <= fb_info.height
      PROVE  Run(Offset(x1, y1 + y), c.width) \subseteq Offsets
  <2> DEFINE b == y1 + y
             x2 == x1 + c.width
  <2>1. b \in 0..(fb_info.height - 1) /\ x2 \in Int /\ x2 <= fb_info.width /\ x2 - x1 = c.width
    BY <1>1, <1>2
  <2> HIDE DEF b, x2
  <2>2. Run(Offset(x1, b), x2 - x1) \subseteq Offsets
    BY <2>1, RunInside
  <2> QED
    BY <2>1, <2>2 DEF b
<1> QED
  BY <1>1, <1>2 DEF CopyCells

LEMMA RowCopied ==
  ASSUME ModeOK, NEW c, CopyOK(c), NEW D, CopyCells(c) \subseteq D, NEW m \in [D -> Int],
         NEW y \in 0..(c.height - 1)
  PROVE  /\ CopyRow(c, m, y) \in [D -> Int]
         /\ \A px, py : OnScreen(px, py) /\ Offset(px, py) \in D =>
              CopyRow(c, m, y)[Offset(px, py)] =
                IF py = c.y + y /\ c.x <= px /\ px < c.x + c.width
                THEN m[Offset(px + c.sx - c.x, py + c.sy - c.y)] ELSE m[Offset(px, py)]
<1> DEFINE n == fb_info.pitch
           to == Offset(c.x, c.y + y)
           from == Offset(c.sx, c.sy + y)
           r == CopyRow(c, m, y)
<1>1. n \in Nat /\ c.sx \in Nat /\ c.sy \in Nat /\ c.x \in Nat /\ c.y \in Nat /\ c.width \in Nat
      /\ c.height \in Nat /\ y \in Nat
      /\ c.x + c.width <= fb_info.width /\ c.sx + c.width <= fb_info.width
      /\ c.y + y < fb_info.height /\ c.sy + y < fb_info.height
      /\ fb_info.width \in Nat /\ fb_info.height \in Nat
  BY DEF ModeOK, CopyOK
<1>2. to = (c.y + y) * n + c.x /\ from = (c.sy + y) * n + c.sx
  BY DEF Offset
<1>3. r = [o \in D |-> IF o \in Run(to, c.width) THEN m[from + o - to] ELSE m[o]]
  BY RowMoved DEF memmove
<1>4. (c.y + y) * n \in Int /\ (c.sy + y) * n \in Int /\ to \in Int /\ from \in Int
  BY <1>1, <1>2
<1>8. Run(from, c.width) \subseteq D
  BY DEF CopyCells
<1> HIDE DEF n, to, from, r
<1>5. ASSUME NEW o \in Run(to, c.width) PROVE from + o - to \in D
  <2>1. from + o - to \in Run(from, c.width)
    BY <1>1, <1>4, <1>5 DEF Run
  <2> QED
    BY <1>8, <2>1
<1>6. r \in [D -> Int]
  BY <1>3, <1>5
<1>7. ASSUME NEW px, NEW py, OnScreen(px, py), Offset(px, py) \in D
      PROVE  r[Offset(px, py)] =
               IF py = c.y + y /\ c.x <= px /\ px < c.x + c.width
               THEN m[Offset(px + c.sx - c.x, py + c.sy - c.y)] ELSE m[Offset(px, py)]
  <2> DEFINE o == Offset(px, py)
  <2>1. o \in D /\ px \in Int /\ py \in Int /\ o = py * n + px
    BY <1>7, PixelsOnScreen DEF Offset, n
  <2>2. o \in Run(to, c.width) <=> py = c.y + y /\ c.x <= px /\ px < c.x + c.width
    <3>1. c.x + c.width \in Nat /\ c.x <= c.x + c.width /\ c.y + y \in Int
          /\ c.x + c.width - c.x = c.width
      BY <1>1
    <3>2. o \in Run(Offset(c.x, c.y + y), c.x + c.width - c.x) <=>
            py = c.y + y /\ c.x <= px /\ px < c.x + c.width
      BY <1>1, <1>7, <3>1, RunOfRow
    <3> QED
      BY <3>1, <3>2 DEF to
  <2>3. ASSUME py = c.y + y PROVE from + o - to = Offset(px + c.sx - c.x, py + c.sy - c.y)
    <3>1. Offset(px + c.sx - c.x, py + c.sy - c.y) =
            (py + c.sy - c.y) * n + (px + c.sx - c.x)
      BY DEF Offset, n
    <3>2. py + c.sy - c.y = c.sy + y
      BY <1>1, <2>3
    <3>3. o = (c.y + y) * n + px
      BY <2>1, <2>3
    <3> HIDE DEF o
    <3> QED
      BY <1>1, <1>2, <1>4, <2>1, <3>1, <3>2, <3>3
  <2> HIDE DEF o
  <2>4. r[o] = IF o \in Run(to, c.width) THEN m[from + o - to] ELSE m[o]
    BY <1>3, <2>1
  <2> QED
    BY <2>2, <2>3, <2>4 DEF o
<1> QED
  BY <1>6, <1>7 DEF r

\* The loop over the rows.
CopiedRows(c, m) ==
  LET after[i \in 0..c.height] ==
        IF i = 0 THEN m
        ELSE CopyRow(c, after[i - 1], RowOrder(c.sx, c.sy, c.x, c.y, c.height)[i])
  IN  after[c.height]

\* The rows of the target that i steps have written.
RowsDone(c, i, py) ==
  IF Forward(c.sx, c.sy, c.x, c.y) THEN c.y <= py /\ py < c.y + i
  ELSE c.y + c.height - i <= py /\ py < c.y + c.height

CopiedSoFar(c, m, i, r) ==
  \A px, py : OnScreen(px, py) /\ Offset(px, py) \in DOMAIN m =>
    r[Offset(px, py)] =
      IF RowsDone(c, i, py) /\ c.x <= px /\ px < c.x + c.width
      THEN m[Offset(px + c.sx - c.x, py + c.sy - c.y)] ELSE m[Offset(px, py)]

LEMMA OneMoreRow ==
  ASSUME ModeOK, NEW c, CopyOK(c), NEW D, CopyCells(c) \subseteq D,
         NEW m \in [D -> Int], NEW r \in [D -> Int], NEW i \in 1..c.height,
         NEW y, y = IF Forward(c.sx, c.sy, c.x, c.y) THEN i - 1 ELSE c.height - i,
         CopiedSoFar(c, m, i - 1, r)
  PROVE  CopiedSoFar(c, m, i, CopyRow(c, r, y))
<1> DEFINE q == CopyRow(c, r, y)
<1>1. /\ c.sx \in Nat /\ c.sy \in Nat /\ c.x \in Nat /\ c.y \in Nat /\ c.width \in Nat
      /\ c.height \in Nat /\ c.x + c.width <= fb_info.width /\ c.sx + c.width <= fb_info.width
      /\ c.y + c.height <= fb_info.height /\ c.sy + c.height <= fb_info.height
      /\ fb_info.width \in Nat /\ fb_info.height \in Nat /\ i \in 1..c.height
  BY DEF CopyOK, ModeOK
<1>2. y \in 0..(c.height - 1)
  BY <1>1
<1>3. \A px, py : OnScreen(px, py) /\ Offset(px, py) \in D =>
        q[Offset(px, py)] = IF py = c.y + y /\ c.x <= px /\ px < c.x + c.width
                            THEN r[Offset(px + c.sx - c.x, py + c.sy - c.y)] ELSE r[Offset(px, py)]
  BY <1>2, RowCopied
<1> HIDE DEF q
<1> SUFFICES ASSUME NEW px, NEW py, OnScreen(px, py), Offset(px, py) \in D
             PROVE  q[Offset(px, py)] =
                      IF RowsDone(c, i, py) /\ c.x <= px /\ px < c.x + c.width
                      THEN m[Offset(px + c.sx - c.x, py + c.sy - c.y)] ELSE m[Offset(px, py)]
  BY DEF CopiedSoFar, q
<1>4. px \in Int /\ py \in Int
  BY PixelsOnScreen
<1>5. RowsDone(c, i, py) <=> RowsDone(c, i - 1, py) \/ py = c.y + y
  BY <1>1, <1>4 DEF RowsDone
<1>6. CASE ~(py = c.y + y /\ c.x <= px /\ px < c.x + c.width)
  <2>1. q[Offset(px, py)] = r[Offset(px, py)]
    BY <1>3, <1>6
  <2>2. r[Offset(px, py)] =
          IF RowsDone(c, i - 1, py) /\ c.x <= px /\ px < c.x + c.width
          THEN m[Offset(px + c.sx - c.x, py + c.sy - c.y)] ELSE m[Offset(px, py)]
    BY DEF CopiedSoFar
  <2> QED
    BY <1>5, <1>6, <2>1, <2>2
<1>7. CASE py = c.y + y /\ c.x <= px /\ px < c.x + c.width
  <2> DEFINE sx == px + c.sx - c.x
             sy == py + c.sy - c.y
  <2>1. q[Offset(px, py)] = r[Offset(sx, sy)]
    BY <1>3, <1>7
  <2>2. OnScreen(sx, sy)
    BY <1>1, <1>2, <1>4, <1>7 DEF OnScreen
  <2>3. ~(RowsDone(c, i - 1, sy) /\ c.x <= sx /\ sx < c.x + c.width)
    BY <1>1, <1>4, <1>7 DEF RowsDone, Forward
  <2>5. Offset(sx, sy) \in D
    <3>1. sy = c.sy + y /\ c.sx <= sx /\ sx < c.sx + c.width /\ c.sy + y \in Int
          /\ c.sx + c.width \in Nat /\ c.sx <= c.sx + c.width /\ c.sx + c.width - c.sx = c.width
      BY <1>1, <1>2, <1>4, <1>7
    <3>2. Offset(sx, sy) \in Run(Offset(c.sx, c.sy + y), c.sx + c.width - c.sx)
      BY <1>1, <2>2, <3>1, RunOfRow
    <3>3. Offset(sx, sy) \in Run(Offset(c.sx, c.sy + y), c.width)
      BY <3>1, <3>2
    <3> QED
      BY <1>2, <3>3 DEF CopyCells
  <2>4. r[Offset(sx, sy)] =
          IF RowsDone(c, i - 1, sy) /\ c.x <= sx /\ sx < c.x + c.width
          THEN m[Offset(sx + c.sx - c.x, sy + c.sy - c.y)] ELSE m[Offset(sx, sy)]
    BY <2>2, <2>5 DEF CopiedSoFar
  <2> HIDE DEF sx, sy
  <2> QED
    BY <1>5, <1>7, <2>1, <2>3, <2>4 DEF sx, sy
<1> QED
  BY <1>6, <1>7

LEMMA RectCopied ==
  ASSUME ModeOK, NEW c, CopyOK(c), NEW D, CopyCells(c) \subseteq D, NEW m \in [D -> Int]
  PROVE  CopiedRows(c, m) \in [D -> Int] /\ CopiedSoFar(c, m, c.height, CopiedRows(c, m))
<1> DEFINE Picture == [D -> Int]
           h == c.height
           order == RowOrder(c.sx, c.sy, c.x, c.y, h)
           after[i \in 0..h] == IF i = 0 THEN m ELSE CopyRow(c, after[i - 1], order[i])
           G == [i \in 1..h |-> [r \in Picture |-> CopyRow(c, r, order[i])]]
<1>1. h \in Nat /\ CopiedRows(c, m) = after[h]
  BY DEF CopyOK, CopiedRows
<1>2. \A i \in 1..h : /\ order[i] = IF Forward(c.sx, c.sy, c.x, c.y) THEN i - 1 ELSE h - i
                      /\ order[i] \in 0..(h - 1)
  BY <1>1 DEF RowOrder
<1> HIDE DEF order, h
<1>3. \A i \in 1..h, r \in Picture : CopyRow(c, r, order[i]) \in Picture
  <2> SUFFICES ASSUME NEW i \in 1..h, NEW r \in Picture PROVE CopyRow(c, r, order[i]) \in Picture
    OBVIOUS
  <2>1. order[i] \in 0..(c.height - 1)
    BY <1>2 DEF h
  <2> QED
    BY <2>1, RowCopied
<1>4. G \in [1..h -> [Picture -> Picture]]
  BY <1>3
<1>5. \A i \in 1..h, r \in Picture : G[i][r] = CopyRow(c, r, order[i])
  OBVIOUS
<1> HIDE DEF G
<1>6. Computes(h, Picture, m, G)
  BY <1>1, <1>4, LoopExists
<1>7. PICK f \in [0..h -> Picture] : f[0] = m /\ \A j \in 1..h : f[j] = G[j][f[j - 1]]
  BY <1>6 DEF Computes
<1>8. \A j \in 1..h : j - 1 \in 0..h /\ f[j - 1] \in Picture /\ f[j] = CopyRow(c, f[j - 1], order[j])
  <2> SUFFICES ASSUME NEW j \in 1..h
               PROVE  j - 1 \in 0..h /\ f[j - 1] \in Picture /\ f[j] = CopyRow(c, f[j - 1], order[j])
    OBVIOUS
  <2>1. j - 1 \in 0..h
    BY <1>1
  <2>2. f[j - 1] \in Picture
    BY <2>1
  <2> QED
    BY <1>5, <1>7, <2>1, <2>2
<1>9. f = [i \in 0..h |-> IF i = 0 THEN m ELSE CopyRow(c, f[i - 1], order[i])]
  <2>1. \A i \in 0..h : f[i] = IF i = 0 THEN m ELSE CopyRow(c, f[i - 1], order[i])
    <3> SUFFICES ASSUME NEW i \in 0..h
                 PROVE  f[i] = IF i = 0 THEN m ELSE CopyRow(c, f[i - 1], order[i])
      OBVIOUS
    <3>1. i # 0 => i \in 1..h
      BY <1>1
    <3> QED
      BY <1>7, <1>8, <3>1
  <2> QED
    BY <2>1
<1>10. after = [i \in 0..h |-> IF i = 0 THEN m ELSE CopyRow(c, after[i - 1], order[i])]
  BY <1>9, Zenon
<1> HIDE DEF after
<1> DEFINE Fine(i) == after[i] \in Picture /\ CopiedSoFar(c, m, i, after[i])
           T == {i \in 0..h : Fine(i)}
<1>11. 0 \in T
  <2>1. after[0] = m /\ 0 \in 0..h
    BY <1>1, <1>10
  <2>2. CopiedSoFar(c, m, 0, m)
    <3> SUFFICES ASSUME NEW px, NEW py, OnScreen(px, py) PROVE ~RowsDone(c, 0, py)
      BY DEF CopiedSoFar
    <3>1. py \in Int
      BY PixelsOnScreen
    <3> QED
      BY <3>1 DEF RowsDone, CopyOK
  <2> QED
    BY <2>1, <2>2
<1>12. ASSUME NEW i \in 1..h, i - 1 \in T PROVE i \in T
  <2>1. i \in 0..h /\ i # 0 /\ i \in 1..c.height
    BY <1>1 DEF h
  <2>2. after[i] = CopyRow(c, after[i - 1], order[i])
    BY <1>10, <2>1
  <2>3. after[i - 1] \in Picture /\ CopiedSoFar(c, m, i - 1, after[i - 1])
    BY <1>12
  <2>4. order[i] = IF Forward(c.sx, c.sy, c.x, c.y) THEN i - 1 ELSE c.height - i
    BY <1>2 DEF h
  <2>5. CopyRow(c, after[i - 1], order[i]) \in Picture
    BY <1>3, <2>3
  <2>6. CopiedSoFar(c, m, i, CopyRow(c, after[i - 1], order[i]))
    BY <2>1, <2>3, <2>4, OneMoreRow
  <2> QED
    BY <2>1, <2>2, <2>5, <2>6
<1>13. h \in T
  <2> HIDE DEF T
  <2>1. \A i \in 0..h : i \in T
    BY <1>1, <1>11, <1>12, UpToN
  <2> QED
    BY <1>1, <2>1
<1> QED
  BY <1>1, <1>13 DEF h

\* What fb_copy_rect stores.
LEMMA CopyStores ==
  ASSUME ModeOK, BuffersOK, CopyRect,
         memory[draw_target] \in [Cells(draw_target) -> Int]
  PROVE  \E c, m :
           /\ CopyOK(c) /\ m \in [Cells(draw_target) -> Int]
           /\ SetBuffer(draw_target, CopyCells(c), m)
           /\ CopyCells(c) \subseteq Cells(draw_target) =>
                CopiedSoFar(c, memory[draw_target], c.height, m)
           /\ last' = [op |-> "copy", sx |-> c.sx, sy |-> c.sy, x |-> c.x, y |-> c.y,
                       width |-> c.width, height |-> c.height]
<1>1. PICK c \in Copies :
        /\ \A z \in {c.x, c.sx} : z + c.width <= fb_info.width
        /\ \A z \in {c.y, c.sy} : z + c.height <= fb_info.height
        /\ fb_copy_rect(c.sx, c.sy, c.x, c.y, c.width, c.height)
        /\ last' = [op |-> "copy", sx |-> c.sx, sy |-> c.sy, x |-> c.x, y |-> c.y,
                    width |-> c.width, height |-> c.height]
  BY DEF CopyRect
<1>2. CopyOK(c)
  <2>1. c \in [sx : Nat, sy : Nat, x : Nat, y : Nat, width : Nat, height : Nat]
    BY GraphicsAssumption
  <2>2. /\ c.x + c.width <= fb_info.width /\ c.sx + c.width <= fb_info.width
        /\ c.y + c.height <= fb_info.height /\ c.sy + c.height <= fb_info.height
    BY <1>1
  <2> QED
    BY <2>1, <2>2 DEF CopyOK
<1> DEFINE was == memory[draw_target]
           cells == CopyCells(c)
           rows == CopiedRows(c, was)
           m == IF cells \subseteq DOMAIN was THEN rows ELSE was
<1>3. SetBuffer(draw_target, cells, m)
  BY <1>1 DEF fb_copy_rect, CopiedRows, CopyRow, CopyCells
<1>4. DOMAIN was = Cells(draw_target) /\ was \in [Cells(draw_target) -> Int]
  OBVIOUS
<1>5. CASE cells \subseteq Cells(draw_target)
  <2>1. rows \in [Cells(draw_target) -> Int] /\ CopiedSoFar(c, was, c.height, rows)
    BY <1>2, <1>4, <1>5, RectCopied
  <2>2. m = rows
    BY <1>4, <1>5
  <2> HIDE DEF m, rows, cells, was
  <2>3. SetBuffer(draw_target, CopyCells(c), m)
    BY <1>3 DEF cells
  <2> HIDE DEF m
  <2> QED
    BY <1>1, <1>2, <2>1, <2>2, <2>3 DEF was
<1>6. CASE ~(cells \subseteq Cells(draw_target))
  <2>1. m = was
    BY <1>4, <1>6
  <2> HIDE DEF m, rows
  <2> QED
    BY <1>1, <1>2, <1>3, <1>4, <1>6, <2>1
<1> QED
  BY <1>5, <1>6

LEMMA CopyDraws ==
  ASSUME ModeOK, BuffersOK, CopyRect, memory[draw_target] \in [Cells(draw_target) -> Int]
  PROVE  ShapeDrawn
<1> DEFINE b == draw_target
           Says(c) == [op |-> "copy", sx |-> c.sx, sy |-> c.sy, x |-> c.x, y |-> c.y,
                       width |-> c.width, height |-> c.height]
<1>1. PICK c, m : /\ CopyOK(c) /\ m \in [Cells(b) -> Int]
                  /\ SetBuffer(b, CopyCells(c), m)
                  /\ CopyCells(c) \subseteq Cells(b) => CopiedSoFar(c, memory[b], c.height, m)
                  /\ last' = Says(c)
  BY CopyStores
<1> DEFINE call == Says(c)
<1>2. DOMAIN memory[b] = Cells(b)
  OBVIOUS
<1>3. m = [o \in Cells(b) |-> m[o]]
  BY <1>1
<1>4. CopyCells(c) \subseteq Offsets
  BY <1>1, CopyInside
<1>5. ASSUME NEW px, NEW py, OnScreen(px, py), Offset(px, py) \in DOMAIN memory[b],
             CopyCells(c) \subseteq DOMAIN memory[b]
      PROVE  Right(call, <<px, py>>, memory[b], m[Offset(px, py)])
  <2>1. px \in Int /\ py \in Int
    BY <1>5, PixelsOnScreen
  <2>2. /\ call.op = "copy" /\ call.sx = c.sx /\ call.sy = c.sy /\ call.x = c.x /\ call.y = c.y
        /\ call.width = c.width /\ call.height = c.height
    OBVIOUS
  <2> HIDE DEF call, Says
  <2>3. InBox(call, <<px, py>>) <=> RowsDone(c, c.height, py) /\ c.x <= px /\ px < c.x + c.width
    BY <1>1, <2>1, <2>2 DEF InBox, RowsDone, CopyOK
  <2>4. m[Offset(px, py)] =
          IF RowsDone(c, c.height, py) /\ c.x <= px /\ px < c.x + c.width
          THEN memory[b][Offset(px + c.sx - c.x, py + c.sy - c.y)] ELSE memory[b][Offset(px, py)]
    BY <1>1, <1>2, <1>5 DEF CopiedSoFar
  <2> HIDE DEF b
  <2> QED
    BY <2>2, <2>3, <2>4 DEF Right
<1>7. last' = call /\ SetBuffer(b, CopyCells(c), m)
  BY <1>1
<1> HIDE DEF call, Says
<1> QED
  BY <1>3, <1>4, <1>5, <1>7, StoreDraws

-----------------------------------------------------------------------------
(* Colours                                                                 *)

\* Every pixel has a colour, and every pixel saved.
ContentsOK ==
  /\ \A b \in Buffers : memory[b] \in [Cells(b) -> Int]
  /\ \A p \in DOMAIN cursor_bg.pixels : cursor_bg.pixels[p] \in Int

LEMMA StoredKeepsContents ==
  ASSUME BuffersOK, ContentsOK, NEW b \in Buffers, NEW cells, NEW m \in [Cells(b) -> Int],
         SetBuffer(b, cells, m), UNCHANGED cursor_bg
  PROVE  ContentsOK'
<1>1. m = [o \in Cells(b) |-> m[o]]
  OBVIOUS
<1>2. /\ \A c \in Buffers : memory'[c] = IF c = b THEN m ELSE memory[c]
      /\ \A c : Cells(c)' = Cells(c)
  BY <1>1, BufferStored
<1>4. \A c \in Buffers : memory'[c] \in [Cells(c)' -> Int]
  BY <1>2 DEF ContentsOK
<1> QED
  BY <1>4 DEF ContentsOK, Buffers

\* A finite list of strokes has a last one over each cell.
LEMMA PaintedInk ==
  ASSUME NEW b, memory[b] \in [Cells(b) -> Int], NEW n \in Nat, NEW strokes,
         DOMAIN strokes = 1..n, \A i \in 1..n : strokes[i].color \in Int
  PROVE  Painted(b, strokes) \in [Cells(b) -> Int]
<1> SUFFICES ASSUME NEW o \in DOMAIN memory[b] PROVE Painted(b, strokes)[o] \in Int
  BY DEF Painted
<1>1. CASE \A i \in DOMAIN strokes : o \notin strokes[i].cells
  <2>1. Painted(b, strokes)[o] = memory[b][o]
    BY <1>1, NoStroke
  <2> QED
    BY <2>1
<1>2. CASE \E i \in DOMAIN strokes : o \in strokes[i].cells
  <2> DEFINE S == {n - i : i \in {j \in 1..n : o \in strokes[j].cells}}
  <2>1. S \subseteq Nat /\ S # {}
    BY <1>2
  <2> HIDE DEF S
  <2>2. PICK k \in S : \A l \in S : k <= l
    BY <2>1, LeastNatural
  <2>3. PICK i \in 1..n : o \in strokes[i].cells /\ k = n - i
    BY <2>2 DEF S
  <2>4. ASSUME NEW j \in DOMAIN strokes, o \in strokes[j].cells PROVE j <= i
    <3>1. n - j \in S
      BY <2>4 DEF S
    <3>2. k <= n - j
      BY <2>2, <3>1
    <3> QED
      BY <2>3, <3>2
  <2>5. DOMAIN strokes \subseteq Int /\ i \in DOMAIN strokes
    OBVIOUS
  <2>6. o \in strokes[i].cells /\ \A j \in DOMAIN strokes : o \in strokes[j].cells => j <= i
    BY <2>3, <2>4
  <2>7. Painted(b, strokes)[o] = strokes[i].color
    BY <2>5, <2>6, LastStroke
  <2> QED
    BY <2>7
<1> QED
  BY <1>1, <1>2

LEMMA OverlaidInk ==
  ASSUME memory[draw_target] \in [Cells(draw_target) -> Int], NEW x, NEW y, NEW picture,
         \A p \in DOMAIN picture : picture[p] \in Int
  PROVE  Overlaid(x, y, picture) \in [Cells(draw_target) -> Int]
<1> SUFFICES ASSUME NEW o \in DOMAIN memory[draw_target] PROVE Overlaid(x, y, picture)[o] \in Int
  BY DEF Overlaid
<1> DEFINE on == {p \in DOMAIN picture : o \in fb_put_pixel(x + p[1], y + p[2])}
           q == CHOOSE p \in on : TRUE
<1>1. Overlaid(x, y, picture)[o] = IF on = {} THEN memory[draw_target][o] ELSE picture[q]
  BY DEF Overlaid
<1>2. on # {} => q \in on
  OBVIOUS
<1>3. memory[draw_target][o] \in Int
  OBVIOUS
<1>4. on # {} => picture[q] \in Int
  BY <1>2
<1> HIDE DEF on, q
<1> QED
  BY <1>1, <1>3, <1>4

\* A drawing call with strokes of some inks, or with a picture of some.
InkStrokes(b) ==
  \E call, strokes, n : /\ n \in Nat /\ DOMAIN strokes = 1..n
                        /\ \A i \in 1..n : strokes[i].color \in Int
                        /\ Draw(call, b, strokes)
InkPicture ==
  \E call, x, y, cells, picture : /\ \A p \in DOMAIN picture : picture[p] \in Int
                                  /\ Does(call, draw_target, cells, Overlaid(x, y, picture))

LEMMA OneInk ==
  ASSUME NEW call, NEW b, NEW cells, NEW ink \in Int, Draw(call, b, Stroke(cells, ink))
  PROVE  InkStrokes(b)
<1> DEFINE s == Stroke(cells, ink)
<1>1. DOMAIN s = 1..1 /\ \A i \in 1..1 : s[i].color \in Int
  BY DEF Stroke
<1>2. Draw(call, b, s) /\ 1 \in Nat
  OBVIOUS
<1> HIDE DEF s
<1> QED
  BY <1>1, <1>2 DEF InkStrokes

LEMMA TwoInks ==
  ASSUME NEW call, NEW b, NEW A, NEW ca \in Int, NEW B, NEW cb \in Int,
         Draw(call, b, Stroke(A, ca) \o Stroke(B, cb))
  PROVE  InkStrokes(b)
<1> DEFINE s == Stroke(A, ca) \o Stroke(B, cb)
<1>1. DOMAIN s = 1..2 /\ \A i \in 1..2 : s[i].color \in Int
  BY DEF Stroke
<1>2. Draw(call, b, s) /\ 2 \in Nat
  OBVIOUS
<1> HIDE DEF s
<1> QED
  BY <1>1, <1>2 DEF InkStrokes

LEMMA ThreeInks ==
  ASSUME NEW call, NEW b, NEW A, NEW ca \in Int, NEW B, NEW cb \in Int, NEW C, NEW cc \in Int,
         Draw(call, b, Stroke(A, ca) \o Stroke(B, cb) \o Stroke(C, cc))
  PROVE  InkStrokes(b)
<1> DEFINE s == Stroke(A, ca) \o Stroke(B, cb) \o Stroke(C, cc)
<1>1. DOMAIN s = 1..3 /\ \A i \in 1..3 : s[i].color \in Int
  BY DEF Stroke
<1>2. Draw(call, b, s) /\ 3 \in Nat
  OBVIOUS
<1> HIDE DEF s
<1> QED
  BY <1>1, <1>2 DEF InkStrokes

LEMMA GradientInks ==
  ASSUME NEW x, NEW y, NEW w, NEW h \in Nat, NEW top \in 0..255, NEW bottom \in 0..255,
         Gradient(x, y, w, h, top, bottom)
  PROVE  InkStrokes(Target)
<1> DEFINE call == [op |-> "gradient", x |-> x, y |-> y, width |-> w, height |-> h,
                    top |-> top, bottom |-> bottom]
           Shade(t) == interpolate_color(top, bottom, t, h)
           s == [i \in 1..h |-> [cells |-> gfx_draw_hline(x, y + i - 1, w), color |-> Shade(i - 1)]]
<1>1. Draw(call, Target, s)
  BY DEF Gradient
<1>2. ASSUME h # 0, NEW t \in Int PROVE Shade(t) \in Int
  <2> DEFINE wrapped == IF (bottom - top) * t < 0 THEN 65536 * (65536 % h) ELSE 0
             a == wrapped + (bottom - top) * t
  <2>5. h \in Nat \ {0}
    BY <1>2
  <2>1. wrapped \in Int
    BY <2>5
  <2>2. a \in Int
    BY <2>1
  <2>3. Shade(t) = (top + a \div h) % 256
    BY DEF interpolate_color
  <2> HIDE DEF a, Shade
  <2>4. a \div h \in Int
    BY <2>2, <2>5, Quotient
  <2> QED
    BY <2>3, <2>4
<1>3. DOMAIN s = 1..h /\ \A i \in 1..h : s[i].color = Shade(i - 1)
  OBVIOUS
<1> HIDE DEF s, Shade, call
<1>4. \A i \in 1..h : s[i].color \in Int
  <2> SUFFICES ASSUME NEW i \in 1..h PROVE s[i].color \in Int
    OBVIOUS
  <2>1. i - 1 \in Int /\ h # 0
    OBVIOUS
  <2>2. Shade(i - 1) \in Int
    BY <1>2, <2>1
  <2> QED
    BY <1>3, <2>2
<1> QED
  BY <1>1, <1>3, <1>4 DEF InkStrokes

BlendFits(fg, bg, alpha, color) ==
  255 * color - (fg * alpha + bg * (255 - alpha)) \in -254..0

LEMMA Blended ==
  ASSUME NEW fg \in Int, NEW bg \in Int, NEW alpha \in 0..255
  PROVE  /\ gfx_blend_colors(fg, bg, alpha) \in Int
         /\ BlendFits(fg, bg, alpha, gfx_blend_colors(fg, bg, alpha))
<1> DEFINE a == fg * alpha + bg * (255 - alpha)
<1>1. a \in Int
  OBVIOUS
<1>2. gfx_blend_colors(fg, bg, alpha) = a \div 255
  BY DEF gfx_blend_colors
<1> HIDE DEF a
<1>3. a \div 255 \in Int /\ 255 * (a \div 255) - a \in -254..0
  BY <1>1
<1> QED
  BY <1>2, <1>3 DEF a, BlendFits

\* The picture of the blend.
BlendPixel(x, y, p) ==
  gfx_blend_colors(Bitmap[p].color, fb_get_pixel(x + p[1], y + p[2]), Bitmap[p].alpha)

LEMMA ReadInk == ASSUME ContentsOK, BuffersOK, NEW x, NEW y PROVE fb_get_pixel(x, y) \in Int
<1>1. memory[draw_target] \in [Cells(draw_target) -> Int]
  BY TargetIsBuffer DEF ContentsOK
<1> QED
  BY <1>1 DEF fb_get_pixel

LEMMA BlendPixelInk ==
  ASSUME ContentsOK, BuffersOK, NEW x, NEW y, NEW p \in DOMAIN Bitmap
  PROVE  BlendPixel(x, y, p) \in Int
<1>1. fb_get_pixel(x + p[1], y + p[2]) \in Int
  BY ReadInk
<1>2. Bitmap[p].color \in Int /\ Bitmap[p].alpha \in 0..255
  BY GraphicsAssumption
<1> QED
  BY <1>1, <1>2, Blended DEF BlendPixel

LEMMA SomethingInks ==
  ASSUME ModeOK, ContentsOK, BuffersOK, DrawSomething
  PROVE  InkStrokes(Target) \/ InkStrokes(draw_target) \/ InkPicture
<1>1. PICK x \in Xs, y \in Ys :
        \/ \E w, h \in Lengths :
             \/ FillRect(x, y, w, h)
             \/ DrawRect(x, y, w, h)
             \/ Panel("raised", x, y, w, h, WHITE, DARK)
             \/ Panel("sunken", x, y, w, h, DARK, WHITE)
             \/ \E s \in Shades : Gradient(x, y, w, h, s[1], s[2])
        \/ \E n \in Lengths : Hline(x, y, n) \/ Vline(x, y, n)
        \/ \E x2 \in Xs, y2 \in Ys : DrawLine(x, y, x2, y2)
        \/ \E r \in Radii : DrawCircle(x, y, r) \/ FillCircle(x, y, r)
        \/ DrawBitmap(x, y) \/ DrawBitmapAlpha(x, y)
        \/ \E n \in DOMAIN Texts, bg \in {0, DARK} : DrawString(x, y, n, bg)
  BY DEF DrawSomething
<1>2. Ink \in Int /\ WHITE \in Int /\ DARK \in Int /\ 0 \in Int
  BY GraphicsAssumption
<1>3. ASSUME NEW w, NEW h, FillRect(x, y, w, h) PROVE InkStrokes(Target)
  BY <1>2, <1>3, OneInk DEF FillRect
<1>4. ASSUME NEW w, NEW h, DrawRect(x, y, w, h) PROVE InkStrokes(Target)
  BY <1>2, <1>4, OneInk DEF DrawRect
<1>5. ASSUME NEW op, NEW w, NEW h, NEW c \in {WHITE, DARK}, NEW d \in {WHITE, DARK},
             Panel(op, x, y, w, h, c, d)
      PROVE  InkStrokes(Target)
  <2>1. c \in Int /\ d \in Int
    BY <1>2
  <2> QED
    BY <1>2, <1>5, <2>1, ThreeInks DEF Panel
<1>6. ASSUME NEW w, NEW h \in Lengths, NEW s \in Shades, Gradient(x, y, w, h, s[1], s[2])
      PROVE  InkStrokes(Target)
  <2>1. h \in Nat /\ s[1] \in 0..255 /\ s[2] \in 0..255
    BY GraphicsAssumption
  <2> QED
    BY <1>6, <2>1, GradientInks
<1>7. ASSUME NEW n, Hline(x, y, n) \/ Vline(x, y, n) PROVE InkStrokes(Target)
  BY <1>2, <1>7, OneInk DEF Hline, Vline
<1>8. ASSUME NEW x2, NEW y2, DrawLine(x, y, x2, y2) PROVE InkStrokes(draw_target)
  BY <1>2, <1>8, OneInk DEF DrawLine
<1>9. ASSUME NEW r, DrawCircle(x, y, r) \/ FillCircle(x, y, r)
      PROVE  InkStrokes(draw_target) \/ InkStrokes(Target)
  BY <1>2, <1>9, OneInk DEF DrawCircle, FillCircle
<1>10. ASSUME DrawBitmap(x, y) PROVE InkPicture
  <2> DEFINE picture == [p \in DOMAIN Bitmap |-> Bitmap[p].color]
             call == Call("bitmap", x, y, 0, 0)
  <2>1. \A p \in DOMAIN picture : picture[p] \in Int
    BY GraphicsAssumption
  <2>2. Does(call, draw_target, PictureCells(x, y, DOMAIN Bitmap), Overlaid(x, y, picture))
    BY <1>10 DEF DrawBitmap
  <2> HIDE DEF picture, call
  <2> QED
    BY <2>1, <2>2 DEF InkPicture
<1>11. ASSUME DrawBitmapAlpha(x, y) PROVE InkPicture
  <2> DEFINE picture == [p \in Visible |-> BlendPixel(x, y, p)]
             call == Call("blend", x, y, 0, 0)
  <2>1. \A p \in DOMAIN picture : picture[p] \in Int
    <3> SUFFICES ASSUME NEW p \in Visible PROVE BlendPixel(x, y, p) \in Int
      OBVIOUS
    <3> QED
      BY BlendPixelInk DEF Visible
  <2>2. Does(call, draw_target, PictureCells(x, y, Visible), Overlaid(x, y, picture))
    BY <1>11 DEF DrawBitmapAlpha, BlendPixel
  <2> HIDE DEF picture, call
  <2> QED
    BY <2>1, <2>2 DEF InkPicture
<1>12. ASSUME NEW n, NEW bg \in {0, DARK}, DrawString(x, y, n, bg) PROVE InkStrokes(draw_target)
  <2>1. bg \in Int
    BY <1>2
  <2> QED
    BY <1>2, <1>12, <2>1, TwoInks DEF DrawString
<1> QED
  BY <1>1, <1>3, <1>4, <1>5, <1>6, <1>7, <1>8, <1>9, <1>10, <1>11, <1>12, Zenon

LEMMA SomethingKeepsContents ==
  ASSUME ModeOK, ContentsOK, BuffersOK, DrawSomething
  PROVE  ContentsOK'
<1>2. draw_target \in Buffers /\ Target \in Buffers
  BY TargetIsBuffer
<1>3. ASSUME NEW b \in Buffers, InkStrokes(b) PROVE ContentsOK'
  <2>1. PICK call, strokes, n : /\ n \in Nat /\ DOMAIN strokes = 1..n
                                /\ \A i \in 1..n : strokes[i].color \in Int
                                /\ Draw(call, b, strokes)
    BY <1>3 DEF InkStrokes
  <2>2. memory[b] \in [Cells(b) -> Int]
    BY DEF ContentsOK
  <2>3. Painted(b, strokes) \in [Cells(b) -> Int]
    BY <2>1, <2>2, PaintedInk
  <2> DEFINE cells == UNION {strokes[i].cells : i \in DOMAIN strokes}
  <2>4. SetBuffer(b, cells, Painted(b, strokes)) /\ UNCHANGED cursor_bg
    BY <2>1 DEF Draw, Does, Painted
  <2> HIDE DEF cells
  <2> QED
    BY <2>3, <2>4, StoredKeepsContents
<1>4. ASSUME InkPicture PROVE ContentsOK'
  <2>1. PICK call, x, y, cells, picture :
          /\ \A p \in DOMAIN picture : picture[p] \in Int
          /\ Does(call, draw_target, cells, Overlaid(x, y, picture))
    BY <1>4 DEF InkPicture
  <2>2. memory[draw_target] \in [Cells(draw_target) -> Int]
    BY <1>2 DEF ContentsOK
  <2>3. Overlaid(x, y, picture) \in [Cells(draw_target) -> Int]
    BY <2>1, <2>2, OverlaidInk
  <2>4. SetBuffer(draw_target, cells, Overlaid(x, y, picture)) /\ UNCHANGED cursor_bg
    BY <2>1 DEF Does
  <2> QED
    BY <1>2, <2>3, <2>4, StoredKeepsContents
<1> QED
  BY <1>2, <1>3, <1>4, SomethingInks

\* Filling and copying store a whole buffer.
FillStored ==
  \E cells : \E m \in [Cells(draw_target) -> Int] : SetBuffer(draw_target, cells, m)

LEMMA FillStores ==
  ASSUME ModeOK, ContentsOK, BuffersOK, Clear \/ CopyRect
  PROVE  FillStored
<1>2. memory[draw_target] \in [Cells(draw_target) -> Int]
  BY TargetIsBuffer DEF ContentsOK
<1>3. CASE Clear
  <2> DEFINE was == memory[draw_target]
             m == [o \in DOMAIN was |-> IF o \in Offsets THEN ClearInk ELSE was[o]]
  <2>1. m \in [Cells(draw_target) -> Int]
    BY <1>2, GraphicsAssumption
  <2>2. SetBuffer(draw_target, Offsets, m)
    BY <1>3 DEF Clear, fb_clear
  <2> HIDE DEF m
  <2> QED
    BY <2>1, <2>2 DEF FillStored
<1>4. CASE CopyRect
  <2>1. PICK c, m : /\ CopyOK(c) /\ m \in [Cells(draw_target) -> Int]
                    /\ SetBuffer(draw_target, CopyCells(c), m)
    BY <1>2, <1>4, CopyStores
  <2> QED
    BY <2>1 DEF FillStored
<1> QED
  BY <1>3, <1>4

LEMMA FillKeeps ==
  ASSUME ModeOK, ContentsOK, CursorInv, Clear \/ CopyRect
  PROVE  ContentsOK' /\ CursorInv' /\ UNCHANGED <<mboot, fb_info>>
<1>1. undo' = {} /\ parted' = parted /\ UNCHANGED cursor_bg
  BY DEF Clear, CopyRect
<1>2. draw_target \in Buffers /\ BuffersOK
  BY TargetIsBuffer DEF CursorInv
<1>3. PICK cells : \E m \in [Cells(draw_target) -> Int] : SetBuffer(draw_target, cells, m)
  BY <1>2, FillStores DEF FillStored
<1>4. PICK m \in [Cells(draw_target) -> Int] : SetBuffer(draw_target, cells, m)
  BY <1>3
<1>5. m = [o \in Cells(draw_target) |-> m[o]]
  OBVIOUS
<1>6. ContentsOK'
  BY <1>1, <1>2, <1>4, StoredKeepsContents
<1>7. CursorInv'
  BY <1>1, <1>2, <1>4, <1>5, StoredKeepsInv
<1>8. UNCHANGED <<mboot, fb_info>>
  BY <1>4 DEF SetBuffer
<1> QED
  BY <1>6, <1>7, <1>8

LEMMA CursorKeepsContents ==
  ASSUME ModeOK, ContentsOK, BuffersOK, Cursor
  PROVE  ContentsOK'
<1>2. draw_target \in Buffers /\ memory[draw_target] \in [Cells(draw_target) -> Int]
  BY TargetIsBuffer DEF ContentsOK
<1>3. ASSUME NEW x, NEW y, gfx_save_cursor_bg(x, y) PROVE ContentsOK'
  <2> DEFINE pixels == [p \in DOMAIN cursor_data |-> fb_get_pixel(x + p[1], y + p[2])]
             seen == PictureCells(x, y, DOMAIN cursor_data)
             m == memory[draw_target]
  <2>1. \A p \in DOMAIN pixels : pixels[p] \in Int
    BY ReadInk
  <2>2. cursor_bg'.pixels = pixels
    BY <1>3 DEF gfx_save_cursor_bg
  <2>3. SetBuffer(draw_target, seen, m)
    BY <1>3 DEF gfx_save_cursor_bg
  <2>4. m = [o \in Cells(draw_target) |-> m[o]]
    BY <1>2
  <2> HIDE DEF seen
  <2>5. /\ \A c \in Buffers : memory'[c] = IF c = draw_target THEN m ELSE memory[c]
        /\ \A c : Cells(c)' = Cells(c)
    <3> HIDE DEF m
    <3> QED
      BY <1>2, <2>3, <2>4, BufferStored
  <2>6. \A c \in Buffers : memory'[c] \in [Cells(c)' -> Int]
    BY <2>5 DEF ContentsOK
  <2> HIDE DEF pixels
  <2> QED
    BY <2>1, <2>2, <2>6 DEF ContentsOK, Buffers
<1>4. ASSUME NEW x, NEW y, gfx_draw_cursor(x, y) PROVE ContentsOK'
  <2> DEFINE picture == [p \in Arrow |-> IF cursor_data[p] = 1 THEN WHITE ELSE 0]
             m == Overlaid(x, y, picture)
             cells == PictureCells(x, y, Arrow)
  <2>1. \A p \in DOMAIN picture : picture[p] \in Int
    BY GraphicsAssumption
  <2>2. SetBuffer(draw_target, cells, m) /\ UNCHANGED cursor_bg
    BY <1>4 DEF gfx_draw_cursor
  <2> HIDE DEF picture, cells
  <2>3. m \in [Cells(draw_target) -> Int]
    BY <1>2, <2>1, OverlaidInk
  <2> HIDE DEF m
  <2> QED
    BY <1>2, <2>2, <2>3, StoredKeepsContents
<1>5. ASSUME NEW x, NEW y, gfx_restore_cursor_bg(x, y) PROVE ContentsOK'
  <2> DEFINE cells == IF cursor_bg.x = x /\ cursor_bg.y = y
                      THEN PictureCells(x, y, DOMAIN cursor_data) ELSE {}
  <2>1. SetBuffer(draw_target, cells, Restored(x, y)) /\ UNCHANGED cursor_bg
    BY <1>5 DEF gfx_restore_cursor_bg
  <2> HIDE DEF cells
  <2>2. Overlaid(x, y, cursor_bg.pixels) \in [Cells(draw_target) -> Int]
    BY <1>2, OverlaidInk DEF ContentsOK
  <2>3. Restored(x, y) \in [Cells(draw_target) -> Int]
    BY <1>2, <2>2 DEF Restored
  <2> QED
    BY <1>2, <2>1, <2>3, StoredKeepsContents
<1> QED
  BY <1>3, <1>4, <1>5 DEF Cursor

DrawInv == CursorInv /\ ModeOK /\ ContentsOK

LEMMA InitDrawInv == Init => DrawInv
<1> SUFFICES ASSUME Init PROVE ModeOK /\ ContentsOK
  BY InitCursorInv DEF DrawInv
<1>1. /\ fb_info = [address |-> "none", width |-> 0, height |-> 0, pitch |-> 0] /\ mboot \in Modes
      /\ memory = [b \in Buffers |-> [o \in Cells(b) |-> IF b = "front" THEN 10 + o ELSE 0]]
  BY DEF Init, FbInit
<1>2. cursor_bg.pixels = [p \in DOMAIN cursor_data |-> 0]
  BY DEF Init
<1>3. ModeOK
  BY <1>1 DEF ModeOK
<1>4. ASSUME NEW b \in Buffers PROVE memory[b] \in [Cells(b) -> Int]
  <2>1. \A o \in Cells("front") : 10 + o \in Int
    BY DEF Cells
  <2>2. memory[b] = [o \in Cells(b) |-> IF b = "front" THEN 10 + o ELSE 0]
    BY <1>1
  <2> QED
    BY <2>1, <2>2
<1> QED
  BY <1>2, <1>3, <1>4 DEF ContentsOK

\* Where the boot loader's report and the frame buffer stay, the mode does.
LEMMA ModeKept == ModeOK /\ UNCHANGED <<mboot, fb_info>> => ModeOK'
BY DEF ModeOK

LEMMA ContentsKept == ContentsOK /\ UNCHANGED <<mboot, memory, cursor_bg>> => ContentsOK'
<1> SUFFICES ASSUME ContentsOK, UNCHANGED <<mboot, memory, cursor_bg>> PROVE ContentsOK'
  OBVIOUS
<1>1. \A b : Cells(b)' = Cells(b)
  BY DEF Cells
<1> QED
  BY <1>1 DEF ContentsOK, Buffers

LEMMA SwapKeepsContents ==
  ASSUME ContentsOK, BuffersOK, Swap
  PROVE  ContentsOK'
<1> DEFINE a == fb_info.address
           m == [o \in DOMAIN memory[a] |->
                   IF o \in DOMAIN memory["back"] THEN memory["back"][o] ELSE memory[a][o]]
<1>1. /\ mboot' = mboot /\ cursor_bg' = cursor_bg
      /\ memory' = memory \/ memory' = [memory EXCEPT ![a] = m]
  BY DEF Swap, fb_swap_buffers, NoCall
<1>2. /\ memory[a] \in [Cells(a) -> Int] /\ memory["back"] \in [Cells("back") -> Int]
      /\ DOMAIN memory = Buffers
  BY DEF ContentsOK, BuffersOK, Buffers
<1>3. m \in [Cells(a) -> Int]
  BY <1>2
<1> HIDE DEF m, a
<1>4. \A b : Cells(b)' = Cells(b)
  BY <1>1 DEF Cells
<1>5. \A b \in Buffers : memory'[b] = memory[b] \/ (b = a /\ memory'[b] = m)
  BY <1>1, <1>2
<1>6. \A b \in Buffers : memory'[b] \in [Cells(b)' -> Int]
  BY <1>3, <1>4, <1>5 DEF ContentsOK
<1> QED
  BY <1>1, <1>6 DEF ContentsOK, Buffers

LEMMA NextDrawInv == DrawInv /\ [Next]_vars => DrawInv'
<1> SUFFICES ASSUME DrawInv, [Next]_vars PROVE DrawInv'
  OBVIOUS
<1>0. CursorInv /\ ModeOK /\ ContentsOK /\ BuffersOK
  BY DEF DrawInv, CursorInv
<1>1. CASE InitFb
  <2>1. UNCHANGED <<mboot, memory, cursor_bg>>
    BY <1>1 DEF InitFb, fb_init, NoCall
  <2>2. ModeOK'
    <3>1. CASE mboot.rgb
      <4>1. fb_info' = [address |-> "front", width |-> mboot.width, height |-> mboot.height,
                        pitch |-> mboot.pitch]
        BY <1>1, <3>1 DEF InitFb, fb_init
      <4>2. mboot.width \in Nat /\ mboot.height \in Nat /\ mboot.pitch \in Nat
            /\ mboot.width <= mboot.pitch /\ mboot \in Modes
        BY <1>0, FramebufferAssumption DEF ModeOK
      <4> QED
        BY <2>1, <4>1, <4>2 DEF ModeOK
    <3>2. CASE ~mboot.rgb
      <4>1. fb_info' = fb_info
        BY <1>1, <3>2 DEF InitFb, fb_init
      <4> QED
        BY <1>0, <2>1, <4>1, ModeKept
    <3> QED
      BY <3>1, <3>2
  <2> QED
    BY <1>0, <1>1, <2>1, <2>2, InitFbKeepsInv, ContentsKept DEF DrawInv
<1>2. CASE Toggle
  <2>1. UNCHANGED <<mboot, fb_info, memory, cursor_bg>>
    BY <1>2 DEF Toggle, fb_set_double_buffer, NoCall
  <2> QED
    BY <1>0, <1>2, <2>1, ToggleKeepsInv, ModeKept, ContentsKept DEF DrawInv
<1>3. CASE Swap
  <2>1. UNCHANGED <<mboot, fb_info>>
    BY <1>3 DEF Swap, fb_swap_buffers
  <2> QED
    BY <1>0, <1>3, <2>1, SwapKeepsInv, ModeKept, SwapKeepsContents DEF DrawInv
<1>4. CASE DrawSomething
  <2>1. InkStrokes(Target) \/ InkStrokes(draw_target) \/ InkPicture
    BY <1>0, <1>4, SomethingInks
  <2>2. UNCHANGED <<mboot, fb_info>>
    BY <2>1 DEF InkStrokes, InkPicture, Draw, Does, SetBuffer
  <2> QED
    BY <1>0, <1>4, <2>2, SomethingKeepsInv, ModeKept, SomethingKeepsContents DEF DrawInv
<1>5. CASE Clear \/ CopyRect
  BY <1>0, <1>5, FillKeeps, ModeKept DEF DrawInv
<1>6. CASE Cursor
  <2>1. PICK s \in Spots : \/ gfx_save_cursor_bg(s[1], s[2])
                           \/ gfx_draw_cursor(s[1], s[2])
                           \/ gfx_restore_cursor_bg(s[1], s[2])
    BY <1>6 DEF Cursor
  <2>2. CursorInv'
    BY <1>0, <2>1, SaveKeepsInv, DrawCursorKeepsInv, RestoreKeepsInv
  <2>3. UNCHANGED <<mboot, fb_info>>
    BY <2>1 DEF gfx_save_cursor_bg, gfx_draw_cursor, gfx_restore_cursor_bg, SetBuffer
  <2> QED
    BY <1>0, <1>6, <2>2, <2>3, CursorKeepsContents, ModeKept DEF DrawInv
<1>7. CASE UNCHANGED vars
  <2>1. CursorInv'
    <3>1. /\ UNCHANGED <<mboot, fb_info, memory, draw_target, double_buffering>>
          /\ UNCHANGED <<cursor_bg, undo, parted>>
      BY <1>7 DEF vars, fbVars
    <3>2. \A b : Cells(b)' = Cells(b)
      BY <3>1 DEF Cells
    <3>3. /\ \A a, b : OnScreen(a, b)' = OnScreen(a, b) /\ Offset(a, b)' = Offset(a, b)
          /\ Target' = Target
      BY <3>1 DEF OnScreen, Offset, Target
    <3>4. \A a, b : fb_put_pixel(a, b)' = fb_put_pixel(a, b)
      BY <3>3 DEF fb_put_pixel
    <3>5. \A a, b : Covered(a, b)' = Covered(a, b)
      BY <3>4 DEF Covered
    <3>6. BuffersOK'
      BY <1>0, <3>1, <3>2, <3>3 DEF BuffersOK, Buffers
    <3>7. UndoOK'
      <4>1. Cells(draw_target)' = Cells(draw_target)
        BY <3>1 DEF Cells
      <4> QED
        BY <1>0, <3>1, <3>3, <3>5, <4>1 DEF CursorInv, UndoOK
    <3> QED
      BY <3>6, <3>7 DEF CursorInv
  <2>2. UNCHANGED <<mboot, fb_info, memory, cursor_bg>>
    BY <1>7 DEF vars, fbVars
  <2> QED
    BY <1>0, <2>1, <2>2, ModeKept, ContentsKept DEF DrawInv
<1> QED
  BY <1>1, <1>2, <1>3, <1>4, <1>5, <1>6, <1>7 DEF Next

\* For every screen, back buffer, cursor and place of it, on the edge too, and
\* after any drawing, initialising, swapping and switching before the cursor was
\* saved: drawing and restoring it gives the picture back, and restoring
\* elsewhere changes nothing.
THEOREM CursorsAreUndone == Spec => CursorUndone
<1>1. DrawInv => [\A s \in Spots, u \in undo :
                      gfx_restore_cursor_bg(s[1], s[2]) =>
                        memory'[draw_target] =
                          IF s = <<u.x, u.y>> THEN u.contents ELSE memory[draw_target]]_vars
  <2> SUFFICES ASSUME CursorInv, NEW s \in Spots, NEW u \in undo,
                      gfx_restore_cursor_bg(s[1], s[2])
               PROVE  memory'[draw_target] =
                        IF s = <<u.x, u.y>> THEN u.contents ELSE memory[draw_target]
    BY DEF DrawInv
  <2>2. draw_target \in Buffers /\ DOMAIN memory = Buffers
    BY TargetIsBuffer DEF CursorInv, BuffersOK
  <2>3. memory'[draw_target] = Restored(s[1], s[2])
    BY <2>2 DEF gfx_restore_cursor_bg, SetBuffer
  <2>4. s = <<s[1], s[2]>>
    BY GraphicsAssumption
  <2>5. cursor_bg.x = u.x /\ cursor_bg.y = u.y
    BY DEF CursorInv, UndoOK
  <2>6. CASE s = <<u.x, u.y>>
    <3>1. s[1] = u.x /\ s[2] = u.y
      BY <2>6
    <3>2. memory'[draw_target] = Overlaid(u.x, u.y, cursor_bg.pixels)
      BY <2>3, <2>5, <3>1 DEF Restored
    <3> QED
      BY <2>6, <3>2, RestoredIsSaved
  <2>7. CASE s # <<u.x, u.y>>
    <3>1. ~(u.x = s[1] /\ u.y = s[2])
      BY <2>4, <2>7
    <3> QED
      BY <2>3, <2>5, <2>7, <3>1 DEF Restored
  <2> QED
    BY <2>6, <2>7
<1> QED
  BY InitDrawInv, NextDrawInv, <1>1, PTL DEF Spec, CursorUndone

-----------------------------------------------------------------------------
(* Blending                                                                *)

LEMMA BlendDraws ==
  ASSUME DrawInv, NEW x \in Int, NEW y \in Int, DrawBitmapAlpha(x, y)
  PROVE  ShapeDrawn
<1> DEFINE c == Call("blend", x, y, 0, 0)
           b == draw_target
           picture == [p \in Visible |-> BlendPixel(x, y, p)]
<1>1. BuffersOK /\ ModeOK /\ ContentsOK /\ memory[b] \in [Cells(b) -> Int]
  BY TargetIsBuffer DEF DrawInv, CursorInv, ContentsOK
<1>2. DOMAIN picture = Visible /\ DOMAIN picture \subseteq Int \X Int
  BY GraphicsAssumption DEF Visible
<1>3. Does(c, draw_target, PictureCells(x, y, Visible), Overlaid(x, y, picture))
  BY DEF DrawBitmapAlpha, BlendPixel
<1>4. ASSUME NEW px, NEW py, OnScreen(px, py), Offset(px, py) \in DOMAIN memory[b]
      PROVE  Right(c, <<px, py>>, memory[b],
                   IF <<px - x, py - y>> \in DOMAIN picture THEN picture[<<px - x, py - y>>]
                   ELSE memory[b][Offset(px, py)])
  <2> DEFINE p == <<px - x, py - y>>
             old == memory[b][Offset(px, py)]
             new == IF p \in Visible THEN BlendPixel(x, y, p) ELSE old
  <2>1. px \in Int /\ py \in Int /\ Offset(px, py) \in DOMAIN memory[b]
    BY <1>1, <1>4, PixelsOnScreen
  <2>2. old \in Int
    BY <1>1, <2>1
  <2>3. fb_get_pixel(x + p[1], y + p[2]) = old
    <3>1. x + p[1] = px /\ y + p[2] = py
      BY <2>1
    <3> QED
      BY <1>4, <3>1 DEF fb_get_pixel
  <2>4. ASSUME p \in DOMAIN Bitmap PROVE BlendRight(Bitmap[p], old, new)
    <3>1. Bitmap[p].color \in Int /\ Bitmap[p].alpha \in 0..255
      BY <2>4, GraphicsAssumption
    <3> HIDE DEF p, old
    <3>2. CASE Bitmap[p].alpha > 0
      <4>1. new = gfx_blend_colors(Bitmap[p].color, old, Bitmap[p].alpha)
        BY <2>3, <2>4, <3>2 DEF Visible, BlendPixel
      <4> HIDE DEF new
      <4> QED
        <5>1. BlendFits(Bitmap[p].color, old, Bitmap[p].alpha, new)
          BY <2>2, <3>1, <4>1, Blended
        <5> QED
          BY <5>1 DEF BlendFits, BlendRight
    <3>3. CASE ~(Bitmap[p].alpha > 0)
      <4>1. Bitmap[p].alpha = 0 /\ new = old
        BY <3>1, <3>3 DEF Visible
      <4> HIDE DEF new
      <4> QED
        BY <2>2, <3>1, <4>1 DEF BlendRight
    <3> QED
      BY <3>2, <3>3
  <2>5. p \notin DOMAIN Bitmap => new = old
    BY DEF Visible
  <2>6. c.op = "blend" /\ c.x = x /\ c.y = y
    BY DEF Call
  <2>7. (IF p \in DOMAIN picture THEN picture[p] ELSE memory[b][Offset(px, py)]) = new
    OBVIOUS
  <2> HIDE DEF new
  <2>8. Right(c, <<px, py>>, memory[b], new)
    <3> HIDE DEF c, picture, b
    <3> QED
      BY <2>4, <2>5, <2>6 DEF Right
  <2> QED
    BY <2>7, <2>8
<1> HIDE DEF c, picture
<1> QED
  BY <1>1, <1>2, <1>3, <1>4, OverlayDraws

-----------------------------------------------------------------------------
(* Text                                                                    *)

Newlines(text, i) == {j \in 1..(i - 1) : text[j] = "newline"}
OfLine(text, i) == {j \in 1..(i - 1) : \A k \in Newlines(text, i) : j > k}
TabsOf(text, i) == {j \in OfLine(text, i) : text[j] = "tab"}

\* Where the i-th character stands: characters from the left and lines from the top.
Units(text, i) == Cardinality(OfLine(text, i)) + 3 * Cardinality(TabsOf(text, i))
Lines(text, i) == Cardinality(Newlines(text, i))

LEMMA Added ==
  ASSUME NEW i \in Nat \ {0}, NEW S, S \subseteq 1..(i - 1)
  PROVE  /\ Cardinality(S) \in Nat
         /\ Cardinality(S \cup {i}) = Cardinality(S) + 1
<1>1. IsFiniteSet(1..(i - 1))
  BY FS_Interval
<1>2. IsFiniteSet(S)
  BY <1>1, FS_Subset
<1>3. i \notin S
  OBVIOUS
<1> QED
  BY <1>2, <1>3, FS_AddElement, FS_CardinalityType

LEMMA FirstStands == ASSUME NEW text PROVE Units(text, 1) = 0 /\ Lines(text, 1) = 0
<1>1. Newlines(text, 1) = {} /\ OfLine(text, 1) = {} /\ TabsOf(text, 1) = {}
  BY DEF Newlines, OfLine, TabsOf
<1> QED
  BY <1>1, FS_EmptySet DEF Units, Lines

\* What one character adds.
LEMMA PenMoves ==
  ASSUME NEW text, NEW i \in Nat \ {0}
  PROVE  /\ Units(text, i) \in Nat /\ Lines(text, i) \in Nat
         /\ Units(text, 1) = 0 /\ Lines(text, 1) = 0
         /\ Units(text, i + 1) = IF text[i] = "newline" THEN 0
                                 ELSE Units(text, i) + (IF text[i] = "tab" THEN 4 ELSE 1)
         /\ Lines(text, i + 1) = Lines(text, i) + (IF text[i] = "newline" THEN 1 ELSE 0)
<1> DEFINE N == Newlines(text, i)
           L == OfLine(text, i)
           T == TabsOf(text, i)
<1>1. N \subseteq 1..(i - 1) /\ L \subseteq 1..(i - 1) /\ T \subseteq 1..(i - 1)
  BY DEF Newlines, OfLine, TabsOf
<1>2. /\ Cardinality(N) \in Nat /\ Cardinality(L) \in Nat /\ Cardinality(T) \in Nat
      /\ Cardinality(N \cup {i}) = Cardinality(N) + 1
      /\ Cardinality(L \cup {i}) = Cardinality(L) + 1
      /\ Cardinality(T \cup {i}) = Cardinality(T) + 1
  <2> HIDE DEF N, L, T
  <2> QED
    BY <1>1, Added
<1>3. i + 1 - 1 = i /\ \A j : j \in 1..i <=> j \in 1..(i - 1) \/ j = i
  OBVIOUS
<1>4. Newlines(text, i + 1) = IF text[i] = "newline" THEN N \cup {i} ELSE N
  BY <1>3 DEF Newlines
<1>5. CASE text[i] = "newline"
  <2>1. OfLine(text, i + 1) = {}
    <3>1. i \in Newlines(text, i + 1)
      BY <1>4, <1>5
    <3>2. \A j \in 1..i : ~(j > i)
      OBVIOUS
    <3> QED
      BY <1>3, <3>1, <3>2 DEF OfLine
  <2>2. TabsOf(text, i + 1) = {}
    BY <2>1 DEF TabsOf
  <2>3. Units(text, i + 1) = 0
    BY <2>1, <2>2, FS_EmptySet DEF Units
  <2>4. Newlines(text, i + 1) = N \cup {i}
    BY <1>4, <1>5
  <2>5. Units(text, i) = Cardinality(L) + 3 * Cardinality(T) /\ Lines(text, i) = Cardinality(N)
    BY DEF Units, Lines
  <2> HIDE DEF N, L, T
  <2>6. Lines(text, i + 1) = Cardinality(N) + 1
    BY <1>2, <2>4 DEF Lines
  <2> QED
    BY <1>2, <1>5, <2>3, <2>5, <2>6, FirstStands
<1>6. CASE text[i] # "newline"
  <2>1. Newlines(text, i + 1) = N
    BY <1>4, <1>6
  <2>2. OfLine(text, i + 1) = L \cup {i}
    <3>1. \A k \in N : i > k
      BY <1>1
    <3> QED
      BY <1>3, <2>1, <3>1 DEF OfLine
  <2>3. TabsOf(text, i + 1) = IF text[i] = "tab" THEN T \cup {i} ELSE T
    BY <2>2 DEF TabsOf
  <2> HIDE DEF N, L, T
  <2>4. Cardinality(TabsOf(text, i + 1)) = Cardinality(T) + (IF text[i] = "tab" THEN 1 ELSE 0)
    BY <1>2, <2>3
  <2>5. Cardinality(OfLine(text, i + 1)) = Cardinality(L) + 1
    BY <1>2, <2>2
  <2>6. Units(text, i) = Cardinality(L) + 3 * Cardinality(T) /\ Lines(text, i) = Cardinality(N)
    BY DEF Units, Lines, N, L, T
  <2>7. Units(text, i + 1) = Cardinality(L) + 1 + 3 * (Cardinality(T) + (IF text[i] = "tab" THEN 1 ELSE 0))
    BY <2>4, <2>5 DEF Units
  <2>8. Lines(text, i + 1) = Cardinality(N)
    BY <2>1 DEF Lines
  <2> QED
    BY <1>2, <1>6, <2>6, <2>7, <2>8, FirstStands
<1> QED
  BY <1>5, <1>6

Characters == {"char", "newline", "tab"}

\* The pen of font_draw_string before the i-th character is where it stands.
LEMMA PenStands ==
  ASSUME NEW x \in Int, NEW y \in Int, NEW text \in Seq(Characters)
  PROVE  LET at[i \in 1..(Len(text) + 1)] ==
               IF i = 1 THEN [x |-> x, y |-> y]
               ELSE LET p == at[i - 1]
                    IN  CASE text[i - 1] = "newline" -> [x |-> x, y |-> p.y + FONT_HEIGHT]
                          [] text[i - 1] = "tab" -> [p EXCEPT !.x = p.x + 4 * FONT_WIDTH]
                          [] OTHER -> [p EXCEPT !.x = p.x + FONT_WIDTH]
         IN  \A i \in 1..(Len(text) + 1) :
               at[i] = [x |-> x + FONT_WIDTH * Units(text, i), y |-> y + FONT_HEIGHT * Lines(text, i)]
<1> DEFINE L == Len(text)
           FW == FONT_WIDTH
           FH == FONT_HEIGHT
           at[i \in 1..(Len(text) + 1)] ==
             IF i = 1 THEN [x |-> x, y |-> y]
             ELSE LET p == at[i - 1]
                  IN  CASE text[i - 1] = "newline" -> [x |-> x, y |-> p.y + FONT_HEIGHT]
                        [] text[i - 1] = "tab" -> [p EXCEPT !.x = p.x + 4 * FONT_WIDTH]
                        [] OTHER -> [p EXCEPT !.x = p.x + FONT_WIDTH]
           Pen(p, ch) == CASE ch = "newline" -> [x |-> x, y |-> p.y + FONT_HEIGHT]
                           [] ch = "tab" -> [p EXCEPT !.x = p.x + 4 * FONT_WIDTH]
                           [] OTHER -> [p EXCEPT !.x = p.x + FONT_WIDTH]
           f == [i \in 1..(L + 1) |-> [x |-> x + FW * Units(text, i), y |-> y + FH * Lines(text, i)]]
<1>1. L \in Nat /\ FW \in Nat /\ FH \in Nat
  BY GraphicsAssumption
<1>2. \A a, b \in Int : /\ Pen([x |-> a, y |-> b], "newline") = [x |-> x, y |-> b + FH]
                        /\ Pen([x |-> a, y |-> b], "tab") = [x |-> a + 4 * FW, y |-> b]
                        /\ \A ch : ch # "newline" /\ ch # "tab" =>
                             Pen([x |-> a, y |-> b], ch) = [x |-> a + FW, y |-> b]
  OBVIOUS
<1>3. f[1] = [x |-> x, y |-> y] /\ 1 \in 1..(L + 1)
  <2>1. Units(text, 1) = 0 /\ Lines(text, 1) = 0
    BY FirstStands
  <2> QED
    BY <1>1, <2>1
<1>4. ASSUME NEW i \in 2..(L + 1) PROVE f[i] = Pen(f[i - 1], text[i - 1])
  <2> DEFINE k == i - 1
             a == x + FW * Units(text, k)
             b == y + FH * Lines(text, k)
  <2>1. k \in Nat \ {0} /\ k \in 1..(L + 1) /\ i \in 1..(L + 1) /\ i = k + 1
    BY <1>1
  <2>2. f[k] = [x |-> a, y |-> b]
    BY <2>1
  <2>3. f[i] = [x |-> x + FW * Units(text, k + 1), y |-> y + FH * Lines(text, k + 1)]
    BY <2>1
  <2> HIDE DEF k, f
  <2>4. /\ Units(text, k) \in Nat /\ Lines(text, k) \in Nat
        /\ Units(text, k + 1) = IF text[k] = "newline" THEN 0
                                ELSE Units(text, k) + (IF text[k] = "tab" THEN 4 ELSE 1)
        /\ Lines(text, k + 1) = Lines(text, k) + (IF text[k] = "newline" THEN 1 ELSE 0)
    BY <2>1, PenMoves
  <2>5. a \in Int /\ b \in Int
    BY <1>1, <2>4
  <2> HIDE DEF FW, FH
  <2>6. CASE text[k] = "newline"
    <3>1. x + FW * Units(text, k + 1) = x /\ y + FH * Lines(text, k + 1) = b + FH
      <4>1. Units(text, k + 1) = 0 /\ Lines(text, k + 1) = Lines(text, k) + 1
        BY <2>4, <2>6
      <4>2. FH * (Lines(text, k) + 1) = FH * Lines(text, k) + FH /\ FH * Lines(text, k) \in Int
        BY <1>1, <2>4
      <4>3. FW * 0 = 0
        BY <1>1
      <4> QED
        BY <1>1, <4>1, <4>2, <4>3
    <3> HIDE DEF a, b, Pen
    <3>2. Pen([x |-> a, y |-> b], "newline") = [x |-> x, y |-> b + FH]
      BY <1>2, <2>5, <2>6
    <3>3. f[i] = [x |-> x, y |-> b + FH]
      BY <2>3, <3>1
    <3> QED
      BY <2>2, <2>6, <3>2, <3>3 DEF k
  <2>7. CASE text[k] = "tab"
    <3>1. x + FW * Units(text, k + 1) = a + 4 * FW /\ y + FH * Lines(text, k + 1) = b
      BY <1>1, <2>4, <2>7
    <3> HIDE DEF a, b, Pen
    <3>2. Pen([x |-> a, y |-> b], "tab") = [x |-> a + 4 * FW, y |-> b]
      BY <1>2, <2>5, <2>7
    <3>3. f[i] = [x |-> a + 4 * FW, y |-> b]
      BY <2>3, <3>1
    <3> QED
      BY <2>2, <2>7, <3>2, <3>3 DEF k
  <2>8. CASE text[k] # "newline" /\ text[k] # "tab"
    <3>1. x + FW * Units(text, k + 1) = a + FW /\ y + FH * Lines(text, k + 1) = b
      BY <1>1, <2>4, <2>8
    <3> HIDE DEF a, b, Pen
    <3>2. Pen([x |-> a, y |-> b], text[k]) = [x |-> a + FW, y |-> b]
      <4>1. \A ch : ch # "newline" /\ ch # "tab" =>
                     Pen([x |-> a, y |-> b], ch) = [x |-> a + FW, y |-> b]
        BY <1>2, <2>5
      <4> QED
        BY <2>8, <4>1, Zenon
    <3>3. f[i] = [x |-> a + FW, y |-> b]
      BY <2>3, <3>1
    <3> QED
      BY <2>2, <2>8, <3>2, <3>3 DEF k
  <2> QED
    BY <2>6, <2>7, <2>8
<1> HIDE DEF Pen
<1>5. f = [i \in 1..(L + 1) |-> IF i = 1 THEN [x |-> x, y |-> y] ELSE Pen(f[i - 1], text[i - 1])]
  <2>1. \A i \in 1..(L + 1) : f[i] = IF i = 1 THEN [x |-> x, y |-> y] ELSE Pen(f[i - 1], text[i - 1])
    <3> SUFFICES ASSUME NEW i \in 1..(L + 1)
                 PROVE  f[i] = IF i = 1 THEN [x |-> x, y |-> y] ELSE Pen(f[i - 1], text[i - 1])
      OBVIOUS
    <3>1. i # 1 => i \in 2..(L + 1)
      BY <1>1
    <3> HIDE DEF f
    <3> QED
      BY <1>3, <1>4, <3>1
  <2> QED
    BY <2>1
<1> HIDE DEF f
<1>6. at = [i \in 1..(L + 1) |-> IF i = 1 THEN [x |-> x, y |-> y] ELSE Pen(at[i - 1], text[i - 1])]
  BY <1>5, Zenon DEF Pen
<1> HIDE DEF at
<1> DEFINE T == {i \in 0..L : at[i + 1] = f[i + 1]}
<1>7. 0 \in T
  BY <1>1, <1>3, <1>6
<1>8. ASSUME NEW i \in 1..L, i - 1 \in T PROVE i \in T
  <2>1. i \in 0..L /\ i + 1 \in 1..(L + 1) /\ i + 1 # 1 /\ i + 1 - 1 = i /\ i + 1 \in 2..(L + 1)
        /\ i - 1 + 1 = i
    BY <1>1
  <2>2. at[i] = f[i]
    BY <1>8, <2>1
  <2>3. at[i + 1] = Pen(at[i], text[i])
    BY <1>6, <2>1
  <2>4. f[i + 1] = Pen(f[i], text[i])
    BY <1>4, <2>1
  <2> QED
    BY <2>1, <2>2, <2>3, <2>4
<1>9. \A i \in 0..L : i \in T
  <2> HIDE DEF T
  <2> QED
    BY <1>1, <1>7, <1>8, UpToN
<1>10. ASSUME NEW i \in 1..(L + 1) PROVE at[i] = f[i]
  <2>1. i - 1 \in 0..L /\ i - 1 + 1 = i
    BY <1>1
  <2>2. i - 1 \in T
    BY <1>9, <2>1
  <2> QED
    BY <2>1, <2>2
<1> QED
  BY <1>10 DEF at, f

\* Every character ends within the width that font_get_string_width returns.
LEMMA WidthHolds ==
  ASSUME NEW text \in Seq(Characters), NEW i \in DOMAIN text, text[i] = "char"
  PROVE  /\ font_get_string_width(text) \in Int
         /\ FONT_WIDTH * (Units(text, i) + 1) <= font_get_string_width(text)
<1> DEFINE L == Len(text)
           FW == FONT_WIDTH
           at[k \in 0..Len(text)] ==
             IF k = 0 THEN [width |-> 0, max |-> 0]
             ELSE LET a == at[k - 1]
                  IN  CASE text[k] = "newline" ->
                             [width |-> 0, max |-> IF a.width > a.max THEN a.width ELSE a.max]
                        [] text[k] = "tab" -> [a EXCEPT !.width = a.width + 4 * FONT_WIDTH]
                        [] OTHER -> [a EXCEPT !.width = a.width + FONT_WIDTH]
           Wide(a, ch) ==
             CASE ch = "newline" -> [width |-> 0, max |-> IF a.width > a.max THEN a.width ELSE a.max]
               [] ch = "tab" -> [a EXCEPT !.width = a.width + 4 * FONT_WIDTH]
               [] OTHER -> [a EXCEPT !.width = a.width + FONT_WIDTH]
           S == [width : Nat, max : Nat]
           G == [k \in 1..L |-> [a \in S |-> Wide(a, text[k])]]
           Widest(a) == IF a.width > a.max THEN a.width ELSE a.max
<1>1. L \in Nat /\ FW \in Nat /\ i \in 1..L
  BY GraphicsAssumption
<1>2. ASSUME NEW a \in S, NEW ch
      PROVE  /\ Wide(a, ch) \in S
             /\ Wide(a, ch).width = IF ch = "newline" THEN 0
                                    ELSE a.width + FW * (IF ch = "tab" THEN 4 ELSE 1)
             /\ Widest(a) <= Widest(Wide(a, ch)) /\ Widest(a) \in Nat
  <2>1. a.width \in Nat /\ a.max \in Nat /\ a = [width |-> a.width, max |-> a.max]
    OBVIOUS
  <2>2. FW * 4 = 4 * FW /\ FW * 1 = FW /\ 4 * FW \in Nat
    BY <1>1
  <2>3. CASE ch = "newline"
    <3>1. Wide(a, ch) = [width |-> 0, max |-> Widest(a)]
      BY <2>3
    <3> HIDE DEF Wide
    <3> QED
      BY <2>1, <2>3, <3>1
  <2>4. CASE ch = "tab"
    <3>1. Wide(a, ch) = [width |-> a.width + 4 * FW, max |-> a.max]
      BY <2>1, <2>4
    <3> HIDE DEF Wide, FW
    <3> QED
      BY <1>1, <2>1, <2>2, <2>4, <3>1
  <2>5. CASE ch # "newline" /\ ch # "tab"
    <3>1. Wide(a, ch) = [width |-> a.width + FW, max |-> a.max]
      BY <2>1, <2>5
    <3> HIDE DEF Wide, FW
    <3> QED
      BY <1>1, <2>1, <2>2, <2>5, <3>1
  <2> QED
    BY <2>3, <2>4, <2>5
<1>3. G \in [1..L -> [S -> S]] /\ \A k \in 1..L, a \in S : G[k][a] = Wide(a, text[k])
  BY <1>2
<1> HIDE DEF G, Wide
<1>4. [width |-> 0, max |-> 0] \in S
  OBVIOUS
<1> HIDE DEF S
<1>5. Computes(L, S, [width |-> 0, max |-> 0], G)
  BY <1>1, <1>3, <1>4, LoopExists
<1>6. PICK f \in [0..L -> S] : /\ f[0] = [width |-> 0, max |-> 0]
                               /\ \A k \in 1..L : f[k] = G[k][f[k - 1]]
  BY <1>5 DEF Computes
<1>7. \A k \in 1..L : k - 1 \in 0..L /\ f[k - 1] \in S /\ f[k] \in S /\ f[k] = Wide(f[k - 1], text[k])
  <2> SUFFICES ASSUME NEW k \in 1..L
               PROVE  k - 1 \in 0..L /\ f[k - 1] \in S /\ f[k] \in S /\ f[k] = Wide(f[k - 1], text[k])
    OBVIOUS
  <2>1. k - 1 \in 0..L /\ k \in 0..L
    BY <1>1
  <2>2. f[k - 1] \in S /\ f[k] \in S
    BY <2>1
  <2> QED
    BY <1>3, <1>6, <2>1, <2>2
<1>8. f = [k \in 0..L |-> IF k = 0 THEN [width |-> 0, max |-> 0] ELSE Wide(f[k - 1], text[k])]
  <2>1. \A k \in 0..L : f[k] = IF k = 0 THEN [width |-> 0, max |-> 0] ELSE Wide(f[k - 1], text[k])
    <3> SUFFICES ASSUME NEW k \in 0..L
                 PROVE  f[k] = IF k = 0 THEN [width |-> 0, max |-> 0] ELSE Wide(f[k - 1], text[k])
      OBVIOUS
    <3>1. k # 0 => k \in 1..L
      BY <1>1
    <3> QED
      BY <1>6, <1>7, <3>1
  <2> QED
    BY <2>1
<1>9. at = [k \in 0..L |-> IF k = 0 THEN [width |-> 0, max |-> 0] ELSE Wide(at[k - 1], text[k])]
  BY <1>8, Zenon DEF Wide
<1>10. font_get_string_width(text) = Widest(at[L])
  BY DEF font_get_string_width
<1> HIDE DEF at
\* The width of the line so far, and never wider than the widest.
<1> DEFINE Good(k) == at[k] \in S /\ at[k].width = FW * Units(text, k + 1)
           T == {k \in 0..L : Good(k)}
<1>11. 0 \in T
  <2>1. at[0] = [width |-> 0, max |-> 0] /\ 0 \in 0..L
    BY <1>1, <1>9
  <2>2. Units(text, 1) = 0 /\ FW * 0 = 0 /\ 0 + 1 = 1
    BY <1>1, FirstStands
  <2> QED
    BY <1>4, <2>1, <2>2
<1>12. ASSUME NEW k \in 1..L, k - 1 \in T PROVE k \in T
  <2>1. k \in 0..L /\ k # 0 /\ k \in Nat \ {0} /\ k - 1 + 1 = k
    BY <1>1
  <2>2. at[k] = Wide(at[k - 1], text[k])
    BY <1>9, <2>1
  <2>3. at[k - 1] \in S /\ at[k - 1].width = FW * Units(text, k)
    BY <1>12, <2>1
  <2>4. /\ at[k] \in S
        /\ at[k].width = IF text[k] = "newline" THEN 0
                         ELSE at[k - 1].width + FW * (IF text[k] = "tab" THEN 4 ELSE 1)
    BY <1>2, <2>2, <2>3
  <2>5. /\ Units(text, k) \in Nat
        /\ Units(text, k + 1) = IF text[k] = "newline" THEN 0
                                ELSE Units(text, k) + (IF text[k] = "tab" THEN 4 ELSE 1)
    BY <2>1, PenMoves
  <2> DEFINE u == Units(text, k)
             d == IF text[k] = "tab" THEN 4 ELSE 1
  <2>6. FW * (u + d) = FW * u + FW * d /\ FW * 0 = 0
    <3>1. u \in Int /\ d \in Int /\ FW \in Int
      BY <1>1, <2>5
    <3> HIDE DEF u, d, FW
    <3> QED
      BY <3>1
  <2>7. at[k].width = FW * Units(text, k + 1)
    <3> HIDE DEF FW
    <3>1. CASE text[k] = "newline"
      BY <2>4, <2>5, <2>6, <3>1
    <3>2. CASE text[k] # "newline"
      <4>1. at[k].width = FW * u + FW * d /\ Units(text, k + 1) = u + d
        BY <2>3, <2>4, <2>5, <3>2
      <4> HIDE DEF u, d
      <4> QED
        BY <2>6, <4>1
    <3> QED
      BY <3>1, <3>2
  <2> QED
    BY <2>1, <2>4, <2>7
<1>13. \A k \in 0..L : Good(k)
  <2>1. \A k \in 0..L : k \in T
    <3> HIDE DEF T
    <3> QED
      BY <1>1, <1>11, <1>12, UpToN
  <2> QED
    BY <2>1
<1> HIDE DEF T
<1> DEFINE R == {k \in 0..(L - i) : Widest(at[i]) <= Widest(at[i + k])}
<1>14. \A k \in 0..L : Widest(at[k]) \in Nat
  BY <1>2, <1>13
<1>15. 0 \in R
  <2>1. i \in 0..L /\ i + 0 = i /\ 0 \in 0..(L - i)
    BY <1>1
  <2>2. Widest(at[i]) \in Nat
    BY <1>14, <2>1
  <2> HIDE DEF Widest
  <2> QED
    BY <2>1, <2>2
<1>16. ASSUME NEW k \in 1..(L - i), k - 1 \in R PROVE k \in R
  <2>1. /\ i + k \in 1..L /\ i + k \in 0..L /\ i + k # 0 /\ i + k - 1 \in 0..L /\ i + (k - 1) = i + k - 1
        /\ k \in 0..(L - i) /\ i \in 0..L
    BY <1>1
  <2>2. at[i + k] = Wide(at[i + k - 1], text[i + k])
    BY <1>9, <2>1
  <2>3. at[i + k - 1] \in S
    BY <1>13, <2>1
  <2>4. Widest(at[i + k - 1]) <= Widest(at[i + k])
    BY <1>2, <2>2, <2>3
  <2>5. Widest(at[i]) <= Widest(at[i + k - 1])
    BY <1>16, <2>1
  <2>6. Widest(at[i]) \in Nat /\ Widest(at[i + k - 1]) \in Nat /\ Widest(at[i + k]) \in Nat
    BY <1>14, <2>1
  <2> HIDE DEF Widest
  <2> QED
    BY <2>1, <2>4, <2>5, <2>6
<1>17. Widest(at[i]) <= Widest(at[L])
  <2>1. L - i \in Nat /\ L - i \in 0..(L - i) /\ i + (L - i) = L
    BY <1>1
  <2>2. \A k \in 0..(L - i) : k \in R
    <3> HIDE DEF R
    <3> QED
      BY <1>15, <1>16, <2>1, UpToN
  <2>3. L - i \in R
    BY <2>1, <2>2
  <2> HIDE DEF Widest
  <2> QED
    BY <2>1, <2>3
<1>18. at[i].width = FW * (Units(text, i) + 1) /\ at[i] \in S
  <2>1. i \in 0..L /\ i \in Nat \ {0}
    BY <1>1
  <2>2. Units(text, i + 1) = Units(text, i) + 1
    BY <2>1, PenMoves
  <2> QED
    BY <1>13, <2>1, <2>2
<1>19. at[i].width <= Widest(at[i]) /\ at[i].width \in Nat
  <2>1. at[i].width \in Nat /\ at[i].max \in Nat
    BY <1>18 DEF S
  <2> QED
    BY <2>1
<1>20. Widest(at[i]) \in Nat /\ Widest(at[L]) \in Nat
  <2>1. i \in 0..L /\ L \in 0..L
    BY <1>1
  <2> QED
    BY <1>14, <2>1
<1>21. at[i].width <= Widest(at[L])
  <2> HIDE DEF Widest
  <2> QED
    BY <1>17, <1>19, <1>20
<1> HIDE DEF Widest
<1> QED
  BY <1>10, <1>18, <1>20, <1>21

LEMMA PointsCells ==
  ASSUME ModeOK, NEW px, NEW py, OnScreen(px, py), NEW points, points \subseteq Int \X Int
  PROVE  Offset(px, py) \in PutPixels(points) <=> <<px, py>> \in points
<1>1. \A p \in points : Offset(px, py) \in fb_put_pixel(p[1], p[2]) <=> px = p[1] /\ py = p[2]
  <2> SUFFICES ASSUME NEW p \in points
               PROVE  Offset(px, py) \in fb_put_pixel(p[1], p[2]) <=> px = p[1] /\ py = p[2]
    OBVIOUS
  <2>1. p[1] \in Int /\ p[2] \in Int
    OBVIOUS
  <2> QED
    BY <2>1, PutPixelCells
<1>2. \A p \in points : p = <<p[1], p[2]>>
  OBVIOUS
<1> QED
  BY <1>1, <1>2 DEF PutPixels

Chars(text) == {i \in DOMAIN text : text[i] = "char"}

\* The place of the pixel px, py in the i-th character.
InCharacter(x, y, text, i, px, py) ==
  <<px - (x + FONT_WIDTH * Units(text, i)), py - (y + FONT_HEIGHT * Lines(text, i))>>

LEMMA TextCells ==
  ASSUME ModeOK, NEW px, NEW py, OnScreen(px, py), NEW x \in Int, NEW y \in Int,
         NEW text \in Seq(Characters), NEW pixels, pixels \subseteq Int \X Int
  PROVE  Offset(px, py) \in PutPixels(TextPoints(x, y, text, pixels)) <=>
           \E i \in Chars(text) : InCharacter(x, y, text, i, px, py) \in pixels
<1> DEFINE at[i \in 1..(Len(text) + 1)] ==
             IF i = 1 THEN [x |-> x, y |-> y]
             ELSE LET p == at[i - 1]
                  IN  CASE text[i - 1] = "newline" -> [x |-> x, y |-> p.y + FONT_HEIGHT]
                        [] text[i - 1] = "tab" -> [p EXCEPT !.x = p.x + 4 * FONT_WIDTH]
                        [] OTHER -> [p EXCEPT !.x = p.x + FONT_WIDTH]
           X(i) == x + FONT_WIDTH * Units(text, i)
           Y(i) == y + FONT_HEIGHT * Lines(text, i)
           points == UNION {{<<X(i) + p[1], Y(i) + p[2]>> : p \in pixels} : i \in Chars(text)}
<1>1. \A i \in 1..(Len(text) + 1) : at[i] = [x |-> X(i), y |-> Y(i)]
  BY PenStands
<1>2. TextPoints(x, y, text, pixels) =
        UNION {{<<at[i].x + p[1], at[i].y + p[2]>> : p \in pixels} : i \in Chars(text)}
  BY DEF TextPoints, Chars
<1> HIDE DEF at
<1>3. \A i \in Chars(text) : i \in 1..(Len(text) + 1) /\ i \in Nat \ {0}
  BY DEF Chars
<1> HIDE DEF X, Y
<1>4. \A i \in Chars(text) : at[i].x = X(i) /\ at[i].y = Y(i)
  <2> SUFFICES ASSUME NEW i \in Chars(text) PROVE at[i].x = X(i) /\ at[i].y = Y(i)
    OBVIOUS
  <2>1. i \in 1..(Len(text) + 1)
    BY <1>3
  <2>2. at[i] = [x |-> X(i), y |-> Y(i)]
    BY <1>1, <2>1
  <2> QED
    BY <2>2
<1>5. \A i \in Chars(text) : X(i) \in Int /\ Y(i) \in Int
  <2> SUFFICES ASSUME NEW i \in Chars(text) PROVE X(i) \in Int /\ Y(i) \in Int
    OBVIOUS
  <2>1. i \in Nat \ {0}
    BY <1>3
  <2>2. Units(text, i) \in Nat /\ Lines(text, i) \in Nat
    BY <2>1, PenMoves
  <2> QED
    BY <2>2, GraphicsAssumption DEF X, Y
<1>6. TextPoints(x, y, text, pixels) = points
  BY <1>2, <1>4
<1>7. points \subseteq Int \X Int
  <2> SUFFICES ASSUME NEW i \in Chars(text), NEW p \in pixels
               PROVE  <<X(i) + p[1], Y(i) + p[2]>> \in Int \X Int
    OBVIOUS
  <2>1. p[1] \in Int /\ p[2] \in Int
    OBVIOUS
  <2> QED
    BY <1>5, <2>1
<1>8. px \in Int /\ py \in Int
  BY PixelsOnScreen
<1>9. <<px, py>> \in points <=> \E i \in Chars(text) : <<px - X(i), py - Y(i)>> \in pixels
  <2>1. ASSUME <<px, py>> \in points PROVE \E i \in Chars(text) : <<px - X(i), py - Y(i)>> \in pixels
    <3>1. PICK i \in Chars(text), p \in pixels : <<px, py>> = <<X(i) + p[1], Y(i) + p[2]>>
      BY <2>1
    <3>2. p = <<p[1], p[2]>> /\ p[1] \in Int /\ p[2] \in Int
      OBVIOUS
    <3>3. px - X(i) = p[1] /\ py - Y(i) = p[2]
      BY <1>5, <1>8, <3>1, <3>2
    <3> QED
      BY <3>2, <3>3
  <2>2. ASSUME NEW i \in Chars(text), <<px - X(i), py - Y(i)>> \in pixels PROVE <<px, py>> \in points
    <3> DEFINE p == <<px - X(i), py - Y(i)>>
    <3>1. p \in pixels /\ p[1] = px - X(i) /\ p[2] = py - Y(i)
      BY <2>2
    <3> HIDE DEF p
    <3>2. X(i) + p[1] = px /\ Y(i) + p[2] = py
      BY <1>5, <1>8, <3>1
    <3> QED
      BY <3>1, <3>2
  <2> QED
    BY <2>1, <2>2
<1>10. Offset(px, py) \in PutPixels(points) <=> <<px, py>> \in points
  <2> HIDE DEF points
  <2> QED
    BY <1>7, PointsCells
<1> HIDE DEF points
<1> QED
  BY <1>6, <1>9, <1>10 DEF InCharacter, X, Y

LEMMA StringDraws ==
  ASSUME BuffersOK, ModeOK, NEW x \in Int, NEW y \in Int,
         NEW n \in DOMAIN Texts, NEW bg, DrawString(x, y, n, bg)
  PROVE  ShapeDrawn
<1> DEFINE text == Texts[n]
           c == [op |-> "text", x |-> x, y |-> y, text |-> text, bg |-> bg]
           b == draw_target
           A == IF bg = 0 THEN {} ELSE PutPixels(TextPoints(x, y, text, FontBox \ Glyph))
           B == PutPixels(TextPoints(x, y, text, Glyph))
           s == Stroke(A, bg) \o Stroke(B, Ink)
<1>1. text \in Seq(Characters)
  BY GraphicsAssumption DEF Characters
<1>3. Draw(c, b, s)
  BY DEF DrawString
<1>4. Glyph \subseteq FontBox /\ FontBox \subseteq Int \X Int /\ FONT_WIDTH \in Nat
      /\ \A p \in FontBox : p[1] < FONT_WIDTH
  BY GraphicsAssumption DEF FontBox
<1>5. ASSUME NEW px, NEW py, OnScreen(px, py), Offset(px, py) \in DOMAIN memory[b]
      PROVE  Right(c, <<px, py>>, memory[b], Painted(b, s)[Offset(px, py)])
  <2> DEFINE o == Offset(px, py)
             old == memory[b][o]
             new == Painted(b, s)[o]
             On(pixels) == {i \in Chars(text) : InCharacter(x, y, text, i, px, py) \in pixels}
  <2>1. o \in DOMAIN memory[b] /\ px \in Int /\ py \in Int
    BY <1>5, PixelsOnScreen
  <2>2. new = IF o \in B THEN Ink ELSE IF o \in A THEN bg ELSE old
    BY <2>1, TwoStrokes
  <2>3. ASSUME NEW pixels, pixels \subseteq FontBox
        PROVE  o \in PutPixels(TextPoints(x, y, text, pixels)) <=> On(pixels) # {}
    <3>1. pixels \subseteq Int \X Int
      BY <1>4, <2>3
    <3> HIDE DEF text
    <3>2. o \in PutPixels(TextPoints(x, y, text, pixels)) <=>
            \E i \in Chars(text) : InCharacter(x, y, text, i, px, py) \in pixels
      BY <1>1, <1>5, <3>1, TextCells
    <3> QED
      BY <3>2
  <2>4. o \in B <=> On(Glyph) # {}
    BY <1>4, <2>3
  <2>5. o \in A <=> bg # 0 /\ On(FontBox \ Glyph) # {}
    BY <2>3
  <2>6. On(FontBox) # {} <=> On(Glyph) # {} \/ On(FontBox \ Glyph) # {}
    BY <1>4
  <2>7. /\ c.op = "text" /\ c.x = x /\ c.y = y /\ c.text = text /\ c.bg = bg
    OBVIOUS
  <2>8. \A i : Stands(c, i) = <<x + FONT_WIDTH * Units(text, i), y + FONT_HEIGHT * Lines(text, i)>>
    BY <2>7 DEF Stands, Units, Lines, Newlines, OfLine, TabsOf
  <2>9. On(FontBox) # {} => px < x + font_get_string_width(text)
    <3> SUFFICES ASSUME NEW i \in On(FontBox) PROVE px < x + font_get_string_width(text)
      OBVIOUS
    <3> DEFINE u == Units(text, i)
               w == font_get_string_width(text)
    <3>1. i \in DOMAIN text /\ text[i] = "char" /\ i \in Nat \ {0}
      BY <1>1 DEF Chars
    <3>2. w \in Int /\ FONT_WIDTH * (u + 1) <= w
      <4> HIDE DEF text
      <4> QED
        BY <1>1, <3>1, WidthHolds
    <3>3. u \in Nat
      BY <3>1, PenMoves
    <3>4. px - (x + FONT_WIDTH * u) < FONT_WIDTH
      <4>1. InCharacter(x, y, text, i, px, py)[1] < FONT_WIDTH
        BY <1>4
      <4> QED
        BY <4>1 DEF InCharacter
    <3>5. FONT_WIDTH * (u + 1) = FONT_WIDTH * u + FONT_WIDTH /\ FONT_WIDTH * u \in Int
      BY <1>4, <3>3
    <3> HIDE DEF u, w
    <3> QED
      BY <1>4, <2>1, <3>2, <3>3, <3>4, <3>5 DEF w
  <2> HIDE DEF A, B, s, c, text, o, old, new, b
  <2>10. TextRight(c, <<px, py>>, old, new)
    <3> DEFINE on(pixels) == {i \in DOMAIN c.text :
                                /\ c.text[i] = "char"
                                /\ <<px - Stands(c, i)[1], py - Stands(c, i)[2]>> \in pixels}
    <3>1. \A pixels : on(pixels) = On(pixels)
      BY <2>7, <2>8 DEF Chars, InCharacter
    <3>2. TextRight(c, <<px, py>>, old, new) <=>
            /\ new = IF on(Glyph) # {} THEN Ink
                     ELSE IF on(FontBox) # {} /\ c.bg # 0 THEN c.bg ELSE old
            /\ on(FontBox) # {} => px < c.x + font_get_string_width(c.text)
      BY DEF TextRight
    <3> HIDE DEF on, On
    <3> QED
      BY <2>2, <2>4, <2>5, <2>6, <2>7, <2>9, <3>1, <3>2
  <2>11. memory[b][Offset(<<px, py>>[1], <<px, py>>[2])] = old
    BY DEF old, o
  <2>12. Right(c, <<px, py>>, memory[b], new)
    BY <2>7, <2>10, <2>11 DEF Right
  <2> QED
    BY <2>12 DEF new, o
<1>6. \A i \in DOMAIN s : s[i].cells \subseteq Offsets
  <2>1. DOMAIN s = 1..2 /\ s[1].cells = A /\ s[2].cells = B
    BY DEF Stroke
  <2>2. A \subseteq Offsets /\ B \subseteq Offsets
    BY PointsInside
  <2> HIDE DEF s, A, B
  <2> QED
    BY <2>1, <2>2
<1> HIDE DEF c, s
<1> QED
  BY <1>3, <1>5, <1>6, DrawDraws

-----------------------------------------------------------------------------
(* Circles                                                                 *)

\* What the error of the loop says of the point it has reached.
OctantOK(r, y, x, e) ==
  /\ x <= r
  /\ e = x * x + y * y - r * r + 2 * y + 2 * (r - x)
  /\ (x = r /\ e >= 0) \/ e >= 2 - x
  /\ y <= x - 2 => e <= x - 1
  /\ y <= x => e <= x + 2

LEMMA OctantSteps ==
  ASSUME NEW r \in Nat, NEW y \in Nat, NEW x \in Int, NEW e \in Int, OctantOK(r, y, x, e),
         NEW err, err = e + 1 + 2 * (y + 1)
  PROVE  /\ 2 * (err - x) + 1 > 0 => OctantOK(r, y + 1, x - 1, err + 1 - 2 * (x - 1))
         /\ ~(2 * (err - x) + 1 > 0) => OctantOK(r, y + 1, x, err)
<1> DEFINE xx == x * x
           yy == y * y
           rr == r * r
<1>1. /\ xx \in Int /\ yy \in Int /\ rr \in Int /\ err \in Int
      /\ (x - 1) * (x - 1) = xx - 2 * x + 1
      /\ (y + 1) * (y + 1) = yy + 2 * y + 1
  OBVIOUS
<1>2. /\ x <= r /\ e = xx + yy - rr + 2 * y + 2 * (r - x)
      /\ (x = r /\ e >= 0) \/ e >= 2 - x
      /\ y <= x - 2 => e <= x - 1
      /\ y <= x => e <= x + 2
  BY DEF OctantOK
<1>3. ASSUME 2 * (err - x) + 1 > 0
      PROVE  OctantOK(r, y + 1, x - 1, err + 1 - 2 * (x - 1))
  <2> DEFINE f == err + 1 - 2 * (x - 1)
             s == (x - 1) * (x - 1)
             t == (y + 1) * (y + 1)
  <2>1. f \in Int /\ s \in Int /\ t \in Int /\ s = xx - 2 * x + 1 /\ t = yy + 2 * y + 1
        /\ f = err + 1 - 2 * (x - 1) /\ err >= x
    BY <1>1, <1>3
  <2> HIDE DEF f, s, t, xx, yy, rr
  <2>2. /\ x - 1 <= r
        /\ f = s + t - rr + 2 * (y + 1) + 2 * (r - (x - 1))
        /\ f >= 2 - (x - 1)
        /\ y + 1 <= (x - 1) - 2 => f <= (x - 1) - 1
        /\ y + 1 <= x - 1 => f <= (x - 1) + 2
    BY <1>1, <1>2, <2>1
  <2> QED
    BY <2>2 DEF OctantOK, f, s, t, rr
<1>4. ASSUME ~(2 * (err - x) + 1 > 0) PROVE OctantOK(r, y + 1, x, err)
  <2> DEFINE t == (y + 1) * (y + 1)
  <2>1. t \in Int /\ t = yy + 2 * y + 1 /\ err <= x - 1
    BY <1>1, <1>4
  <2> HIDE DEF t, xx, yy, rr
  <2>2. /\ x <= r
        /\ err = xx + t - rr + 2 * (y + 1) + 2 * (r - x)
        /\ (x = r /\ err >= 0) \/ err >= 2 - x
        /\ y + 1 <= x - 2 => err <= x - 1
        /\ y + 1 <= x => err <= x + 2
    BY <1>1, <1>2, <2>1
  <2> QED
    BY <2>2 DEF OctantOK, t, xx, rr
<1> QED
  BY <1>3, <1>4

\* The values of x and err in the loop.
OctantLoop(r, X, E) ==
  /\ \A y \in 0..(r + 1) : X[y] \in Int /\ E[y] \in Int /\ OctantOK(r, y, X[y], E[y])
  /\ X[0] = r
  /\ \A y \in 1..(r + 1) : X[y] = X[y - 1] \/ X[y] = X[y - 1] - 1
  /\ Octant(r) = {<<X[y], y>> : y \in {y \in 0..r : X[y] >= y}}

LEMMA OctantRuns ==
  ASSUME NEW r \in Nat
  PROVE  \E X, E : OctantLoop(r, X, E)
<1> DEFINE at[y \in 0..(r + 1)] ==
             IF y = 0 THEN [x |-> r, err |-> 0]
             ELSE LET p == at[y - 1]
                      err == p.err + 1 + 2 * y
                  IN  IF 2 * (err - p.x) + 1 > 0
                      THEN [x |-> p.x - 1, err |-> err + 1 - 2 * (p.x - 1)]
                      ELSE [x |-> p.x, err |-> err]
           Step(p, y) ==
             LET err == p.err + 1 + 2 * y
             IN  IF 2 * (err - p.x) + 1 > 0
                 THEN [x |-> p.x - 1, err |-> err + 1 - 2 * (p.x - 1)]
                 ELSE [x |-> p.x, err |-> err]
           S == [x : Int, err : Int]
           n == r + 1
           G == [y \in 1..n |-> [p \in S |-> Step(p, y)]]
           b == [x |-> r, err |-> 0]
<1>1. Octant(r) = {<<at[y].x, y>> : y \in {y \in 0..r : at[y].x >= y}}
  BY DEF Octant
<1>2. n \in Nat /\ b \in S
  OBVIOUS
<1>3. \A p \in S, y \in 1..n : Step(p, y) \in S
  OBVIOUS
<1>4. G \in [1..n -> [S -> S]] /\ \A y \in 1..n, p \in S : G[y][p] = Step(p, y)
  BY <1>3
<1> HIDE DEF G, S, Step
<1>5. Computes(n, S, b, G)
  BY <1>2, <1>4, LoopExists
<1>6. PICK f \in [0..n -> S] : f[0] = b /\ \A j \in 1..n : f[j] = G[j][f[j - 1]]
  BY <1>5 DEF Computes
<1>7. \A j \in 1..n : j - 1 \in 0..n /\ f[j - 1] \in S /\ f[j] = Step(f[j - 1], j)
  <2> SUFFICES ASSUME NEW j \in 1..n PROVE j - 1 \in 0..n /\ f[j - 1] \in S /\ f[j] = Step(f[j - 1], j)
    OBVIOUS
  <2>1. j - 1 \in 0..n
    BY <1>2
  <2>2. f[j - 1] \in S
    BY <2>1
  <2> QED
    BY <1>4, <1>6, <2>1, <2>2
<1>8. f = [y \in 0..n |-> IF y = 0 THEN b ELSE Step(f[y - 1], y)]
  <2>1. \A y \in 0..n : f[y] = IF y = 0 THEN b ELSE Step(f[y - 1], y)
    <3> SUFFICES ASSUME NEW y \in 0..n PROVE f[y] = IF y = 0 THEN b ELSE Step(f[y - 1], y)
      OBVIOUS
    <3>1. y # 0 => y \in 1..n
      BY <1>2
    <3> QED
      BY <1>6, <1>7, <3>1
  <2> QED
    BY <2>1
<1>9. at = [y \in 0..n |-> IF y = 0 THEN b ELSE Step(at[y - 1], y)]
  BY <1>8, Zenon DEF Step
<1> HIDE DEF at
<1> DEFINE T == {y \in 0..n : at[y] \in S /\ OctantOK(r, y, at[y].x, at[y].err)}
<1>10. 0 \in T
  <2>1. at[0] = b /\ 0 \in 0..n /\ b.x = r /\ b.err = 0
    BY <1>2, <1>9
  <2>2. OctantOK(r, 0, r, 0)
    <3>1. r * r \in Int /\ r - r = 0
      OBVIOUS
    <3> QED
      BY <3>1 DEF OctantOK
  <2> QED
    BY <1>2, <2>1, <2>2
<1>11. ASSUME NEW y \in 1..n, y - 1 \in T
       PROVE  y \in T /\ (at[y].x = at[y - 1].x \/ at[y].x = at[y - 1].x - 1)
  <2> DEFINE k == y - 1
             x == at[k].x
             e == at[k].err
             err == e + 1 + 2 * (k + 1)
  <2>1. y \in 0..n /\ y # 0 /\ y = k + 1 /\ k \in Nat
    BY <1>2
  <2>2. at[k] \in S /\ OctantOK(r, k, x, e)
    BY <1>11
  <2>3. x \in Int /\ e \in Int
    BY <2>2 DEF S
  <2>4. at[y] = Step(at[k], y)
    BY <1>9, <2>1
  <2>5. at[y] = IF 2 * (err - x) + 1 > 0 THEN [x |-> x - 1, err |-> err + 1 - 2 * (x - 1)]
                ELSE [x |-> x, err |-> err]
    BY <2>1, <2>4 DEF Step
  <2> HIDE DEF k, x, e
  <2>6. /\ 2 * (err - x) + 1 > 0 => OctantOK(r, k + 1, x - 1, err + 1 - 2 * (x - 1))
        /\ ~(2 * (err - x) + 1 > 0) => OctantOK(r, k + 1, x, err)
    BY <2>1, <2>2, <2>3, OctantSteps
  <2>7. err \in Int
    BY <2>1, <2>3
  <2> HIDE DEF err
  <2>8. CASE 2 * (err - x) + 1 > 0
    <3>1. at[y] = [x |-> x - 1, err |-> err + 1 - 2 * (x - 1)]
      BY <2>5, <2>8
    <3>2. at[y].x = x - 1 /\ at[y].err = err + 1 - 2 * (x - 1) /\ at[y] \in S
      BY <2>3, <2>7, <3>1 DEF S
    <3> QED
      BY <2>1, <2>6, <2>8, <3>2 DEF k, x
  <2>9. CASE ~(2 * (err - x) + 1 > 0)
    <3>1. at[y] = [x |-> x, err |-> err]
      BY <2>5, <2>9
    <3>2. at[y].x = x /\ at[y].err = err /\ at[y] \in S
      BY <2>3, <2>7, <3>1 DEF S
    <3> QED
      BY <2>1, <2>6, <2>9, <3>2 DEF k, x
  <2> QED
    BY <2>8, <2>9
<1>12. \A y \in 0..n : y \in T
  <2> HIDE DEF T
  <2> QED
    BY <1>2, <1>10, <1>11, UpToN
<1> DEFINE X == [y \in 0..n |-> at[y].x]
           E == [y \in 0..n |-> at[y].err]
<1>13. \A y \in 0..n : X[y] = at[y].x /\ E[y] = at[y].err
  OBVIOUS
<1>14. \A y \in 0..n : at[y].x \in Int /\ at[y].err \in Int /\ OctantOK(r, y, at[y].x, at[y].err)
  BY <1>12 DEF S
<1>15. 0 \in 0..n /\ (\A y \in 1..n : y \in 0..n /\ y - 1 \in 0..n) /\ \A y \in 0..r : y \in 0..n
  BY <1>2
<1>16. at[0].x = r
  BY <1>9, <1>15
<1>17. \A y \in 1..n : at[y].x = at[y - 1].x \/ at[y].x = at[y - 1].x - 1
  BY <1>11, <1>12, <1>15
<1> HIDE DEF X, E, T
<1>18. {<<at[y].x, y>> : y \in {y \in 0..r : at[y].x >= y}} = {<<X[y], y>> : y \in {y \in 0..r : X[y] >= y}}
  BY <1>13, <1>15
<1>19. \A y \in 0..n : X[y] \in Int /\ E[y] \in Int /\ OctantOK(r, y, X[y], E[y])
  BY <1>13, <1>14
<1>20. X[0] = r /\ \A y \in 1..n : X[y] = X[y - 1] \/ X[y] = X[y - 1] - 1
  BY <1>13, <1>15, <1>16, <1>17
<1>21. OctantLoop(r, X, E)
  BY <1>1, <1>18, <1>19, <1>20 DEF OctantLoop
<1> QED
  BY <1>21

SquareOf(p) == p[1] * p[1] + p[2] * p[2]

LEMMA Squares ==
  ASSUME NEW a \in Nat, NEW b \in Nat, a <= b
  PROVE  a * a <= b * b
<1>1. 0 <= (b - a) * (b + a)
  <2>1. b - a \in Nat /\ b + a \in Nat
    OBVIOUS
  <2> QED
    BY <2>1, NatProduct
<1>2. (b - a) * (b + a) = b * b - a * a /\ a * a \in Int /\ b * b \in Int
  OBVIOUS
<1> QED
  BY <1>1, <1>2

LEMMA OctantPoint ==
  ASSUME NEW r \in Nat, NEW p \in Octant(r)
  PROVE  /\ p = <<p[1], p[2]>> /\ p[1] \in Nat /\ p[2] \in Nat /\ p[2] <= p[1] /\ p[1] <= r
         /\ SquareOf(p) \in Int
         /\ SquareOf(p) <= r * r + r
         /\ r > 0 => SquareOf(p) >= (r - 1) * (r - 2)
<1>1. PICK X, E : OctantLoop(r, X, E)
  BY OctantRuns
<1>2. PICK y \in 0..r : X[y] >= y /\ p = <<X[y], y>>
  BY <1>1 DEF OctantLoop
<1> DEFINE x == X[y]
           e == E[y]
<1>3. x \in Int /\ e \in Int /\ OctantOK(r, y, x, e) /\ x >= y /\ y \in Nat /\ p = <<x, y>>
  BY <1>1, <1>2 DEF OctantLoop
<1> HIDE DEF x, e
<1> DEFINE xx == x * x
           yy == y * y
           rr == r * r
<1>4. xx \in Int /\ yy \in Int /\ rr \in Int /\ (r - 1) * (r - 2) = rr - 3 * r + 2
  BY <1>3
<1>5. /\ x <= r /\ e = xx + yy - rr + 2 * y + 2 * (r - x)
      /\ (x = r /\ e >= 0) \/ e >= 2 - x
      /\ e <= x + 2
  BY <1>3 DEF OctantOK
<1>6. y = 0 => yy = 0
  BY <1>3
<1>7. x = r => xx = rr
  BY <1>3
<1>8. xx >= yy /\ yy >= 0
  BY <1>3, Squares, NatProduct
<1> HIDE DEF xx, yy, rr
<1>9. y <= r /\ (y = 0 \/ y >= 1) /\ (x = r \/ x <= r - 1)
  BY <1>3, <1>5
<1>10. xx + yy <= rr + r
  <2>1. CASE x <= r - 1
    BY <1>3, <1>4, <1>5, <2>1
  <2>2. CASE x = r /\ y >= 1
    BY <1>3, <1>4, <1>5, <2>2
  <2>3. CASE x = r /\ y = 0 /\ x > 0
    BY <1>3, <1>4, <1>5, <1>6, <1>7, <2>3
  <2>4. CASE x = r /\ y = 0 /\ x = 0
    BY <1>3, <1>4, <1>5, <1>6, <1>7, <2>4
  <2> QED
    BY <1>3, <1>9, <2>1, <2>2, <2>3, <2>4
<1>11. r > 0 => xx + yy >= rr - 3 * r + 2
  BY <1>3, <1>4, <1>5, <1>7, <1>8, <1>9
<1>12. p[1] = x /\ p[2] = y /\ SquareOf(p) = xx + yy
  BY <1>3 DEF SquareOf, xx, yy
<1> QED
  BY <1>3, <1>4, <1>5, <1>10, <1>11, <1>12 DEF rr

LEMMA OctantTop == ASSUME NEW r \in Nat PROVE <<r, 0>> \in Octant(r)
<1>1. PICK X, E : OctantLoop(r, X, E)
  BY OctantRuns
<1>2. X[0] = r /\ 0 \in {y \in 0..r : X[y] >= y}
  BY <1>1 DEF OctantLoop
<1> QED
  BY <1>1, <1>2 DEF OctantLoop

\* What is well within the radius lies on a row of the disc.
LEMMA OctantCovers ==
  ASSUME NEW r \in Nat \ {0}, NEW a \in Nat, NEW b \in Nat, a * a + b * b <= (r - 1) * (r - 1)
  PROVE  \E p \in Octant(r) : (b = p[2] /\ a <= p[1]) \/ (b = p[1] /\ a <= p[2])
<1>1. PICK X, E : OctantLoop(r, X, E)
  BY OctantRuns
<1> DEFINE aa == a * a
           bb == b * b
           rr == r * r
<1>2. aa \in Nat /\ bb \in Nat /\ rr \in Nat /\ (r - 1) * (r - 1) = rr - 2 * r + 1
  BY NatProduct
<1>3. aa + bb <= rr - 2 * r + 1
  BY <1>2
<1>4. b <= r - 1
  <2>1. ASSUME b >= r PROVE FALSE
    <3>1. r * r <= b * b
      BY <2>1, Squares
    <3> HIDE DEF aa, bb
    <3> QED
      BY <1>2, <1>3, <3>1 DEF bb
  <2> QED
    BY <2>1
<1>5. ASSUME NEW y \in 0..(r + 1)
      PROVE  /\ X[y] \in Int /\ X[y] <= r /\ E[y] \in Int
             /\ E[y] = X[y] * X[y] + y * y - rr + 2 * y + 2 * (r - X[y])
             /\ (X[y] = r /\ E[y] >= 0) \/ E[y] >= 2 - X[y]
  BY <1>1 DEF OctantLoop, OctantOK
<1>6. CASE X[b] >= b
  <2> DEFINE x == X[b]
             e == E[b]
             xx == x * x
  <2>1. b \in 0..r /\ b \in 0..(r + 1)
    BY <1>4
  <2>2. x \in Int /\ x <= r /\ e \in Int /\ x >= b
        /\ e = xx + bb - rr + 2 * b + 2 * (r - x) /\ ((x = r /\ e >= 0) \/ e >= 2 - x)
    BY <1>5, <1>6, <2>1
  <2> HIDE DEF x, e
  <2>3. a <= x
    <3>1. ASSUME a >= x + 1 PROVE FALSE
      <4>1. (x + 1) * (x + 1) <= aa /\ (x + 1) * (x + 1) = xx + 2 * x + 1 /\ xx \in Int
        BY <2>2, <3>1, Squares
      <4> HIDE DEF aa, bb, rr, xx
      <4> QED
        BY <1>2, <1>3, <2>2, <4>1
    <3> QED
      BY <2>2, <3>1
  <2>4. <<x, b>> \in Octant(r)
    BY <1>1, <1>6, <2>1 DEF OctantLoop, x
  <2> QED
    BY <2>3, <2>4
<1>7. CASE X[b] < b
  <2> DEFINE S == {y \in 0..b : X[y] < b}
  <2>1. S \subseteq Nat /\ S # {}
    BY <1>7
  <2> HIDE DEF S
  <2>2. PICK y \in S : \A k \in S : y <= k
    BY <2>1, LeastNatural
  <2>3. y \in 0..b /\ X[y] < b
    BY <2>2 DEF S
  <2>4. X[0] = r /\ y # 0
    BY <1>1, <1>4, <2>3 DEF OctantLoop
  <2> DEFINE k == y - 1
  <2>5. k \in 0..b /\ k \notin S /\ y = k + 1 /\ k \in 0..(r + 1) /\ y \in 0..(r + 1) /\ y \in 1..(r + 1)
        /\ k \in 0..r /\ k < b /\ k \in Nat
    BY <1>4, <2>2, <2>3, <2>4
  <2>6. X[k] \in Int /\ X[y] \in Int /\ ~(X[k] < b)
    BY <1>5, <2>5 DEF S
  <2>7. X[y] = X[k] \/ X[y] = X[k] - 1
    BY <1>1, <2>5 DEF OctantLoop
  <2>8. X[k] = b /\ X[y] = b - 1
    BY <2>3, <2>6, <2>7
  <2> DEFINE e == E[y]
             yy == y * y
             s == (b - 1) * (b - 1)
  <2>9. e \in Int /\ e = s + yy - rr + 2 * y + 2 * (r - (b - 1)) /\ e >= 2 - (b - 1)
    BY <1>4, <1>5, <2>5, <2>8
  <2>10. s = bb - 2 * b + 1 /\ yy \in Nat /\ s \in Int
    BY <2>5, NatProduct
  <2> HIDE DEF k, e, s
  <2>11. a <= k
    <3>1. ASSUME a >= y PROVE FALSE
      <4>1. yy <= aa
        BY <2>5, <3>1, Squares
      <4>2. k = 0 => b = r
        BY <2>4, <2>8
      <4> HIDE DEF aa, bb, rr, yy
      <4>3. bb + yy >= rr - 2 * r + 3 * b - 2 * y
        BY <1>2, <2>5, <2>9, <2>10
      <4>4. 3 * b - 2 * y <= 1
        BY <1>2, <1>3, <2>3, <2>10, <4>1, <4>3
      <4>5. k >= 1
        BY <1>4, <2>5, <4>2
      <4> QED
        BY <2>5, <4>4, <4>5
    <3> QED
      BY <2>5, <3>1
  <2>12. <<b, k>> \in Octant(r)
    <3>1. X[k] >= k
      BY <2>5, <2>8
    <3> QED
      BY <1>1, <2>5, <2>8, <3>1 DEF OctantLoop
  <2> QED
    BY <2>11, <2>12
<1>8. X[b] \in Int
  BY <1>4, <1>5
<1> QED
  BY <1>6, <1>7, <1>8

\* A call that paints some cells in ink.
LEMMA InkDraws ==
  ASSUME BuffersOK, ModeOK, NEW c, NEW b \in {Target, draw_target}, NEW cells,
         cells \subseteq Offsets, Draw(c, b, Stroke(cells, Ink)),
         \A px, py, was, new :
           /\ OnScreen(px, py)
           /\ new = IF Offset(px, py) \in cells THEN Ink ELSE was[Offset(px, py)]
           => Right(c, <<px, py>>, was, new)
  PROVE  ShapeDrawn
<1>1. ASSUME NEW px, NEW py, OnScreen(px, py), Offset(px, py) \in DOMAIN memory[b]
      PROVE  Right(c, <<px, py>>, memory[b], Painted(b, Stroke(cells, Ink))[Offset(px, py)])
  <2>2. Painted(b, Stroke(cells, Ink))[Offset(px, py)] =
          IF Offset(px, py) \in cells THEN Ink ELSE memory[b][Offset(px, py)]
    BY <1>1, OneStroke
  <2> QED
    BY <1>1, <2>2
<1>2. \A i \in DOMAIN Stroke(cells, Ink) : Stroke(cells, Ink)[i].cells \subseteq Offsets
  BY DEF Stroke
<1> QED
  BY <1>1, <1>2, DrawDraws

LEMMA CirclePixels ==
  ASSUME NEW r \in Nat, NEW cx \in Int, NEW cy \in Int
  PROVE  /\ CirclePoints(cx, cy, r) \subseteq Int \X Int
         /\ \A q \in CirclePoints(cx, cy, r) : \E p \in Octant(r) :
              (q[1] - cx) * (q[1] - cx) + (q[2] - cy) * (q[2] - cy) = SquareOf(p)
         /\ \A dx, dy \in Int : (dx = 0 /\ dy \in {-r, r}) \/ (dy = 0 /\ dx \in {-r, r}) =>
              <<cx + dx, cy + dy>> \in CirclePoints(cx, cy, r)
<1>1. ASSUME NEW q \in CirclePoints(cx, cy, r)
      PROVE  /\ q \in Int \X Int
             /\ \E p \in Octant(r) :
                  (q[1] - cx) * (q[1] - cx) + (q[2] - cy) * (q[2] - cy) = SquareOf(p)
  <2>1. PICK p \in Octant(r), sx \in {-1, 1}, sy \in {-1, 1} :
          q = <<cx + sx * p[1], cy + sy * p[2]>> \/ q = <<cx + sx * p[2], cy + sy * p[1]>>
    BY DEF CirclePoints
  <2>2. p[1] \in Int /\ p[2] \in Int
    BY OctantPoint
  <2> DEFINE a == p[1]
             b == p[2]
  <2>3. a \in Int /\ b \in Int /\ SquareOf(p) = a * a + b * b
    BY <2>2 DEF SquareOf
  <2> HIDE DEF a, b
  <2>4. /\ sx * a \in Int /\ sx * b \in Int /\ sy * a \in Int /\ sy * b \in Int
        /\ (sx * a) * (sx * a) = a * a /\ (sy * b) * (sy * b) = b * b
        /\ (sx * b) * (sx * b) = b * b /\ (sy * a) * (sy * a) = a * a
    <3>1. (-1) * a = -a /\ (-1) * b = -b /\ (-a) * (-a) = a * a /\ (-b) * (-b) = b * b
          /\ 1 * a = a /\ 1 * b = b
      BY <2>3
    <3>2. ASSUME NEW s \in {-1, 1}
          PROVE  s * a \in Int /\ s * b \in Int /\ (s * a) * (s * a) = a * a /\ (s * b) * (s * b) = b * b
      BY <2>3, <3>1, <3>2
    <3> QED
      BY <3>2
  <2>5. ASSUME NEW u \in Int, NEW v \in Int, q = <<cx + u, cy + v>>, u * u + v * v = SquareOf(p)
        PROVE  /\ q \in Int \X Int
               /\ (q[1] - cx) * (q[1] - cx) + (q[2] - cy) * (q[2] - cy) = SquareOf(p)
    <3>1. q[1] - cx = u /\ q[2] - cy = v
      BY <2>5
    <3> QED
      BY <2>5, <3>1
  <2>6. CASE q = <<cx + sx * p[1], cy + sy * p[2]>>
    <3> DEFINE u == sx * a
               v == sy * b
    <3>1. u \in Int /\ v \in Int /\ q = <<cx + u, cy + v>> /\ u * u + v * v = SquareOf(p)
      BY <2>3, <2>4, <2>6 DEF a, b
    <3> HIDE DEF u, v
    <3> QED
      BY <2>5, <3>1
  <2>7. CASE q = <<cx + sx * p[2], cy + sy * p[1]>>
    <3> DEFINE u == sx * b
               v == sy * a
    <3>1. u \in Int /\ v \in Int /\ q = <<cx + u, cy + v>> /\ u * u + v * v = SquareOf(p)
      <4>1. q = <<cx + u, cy + v>>
        BY <2>7 DEF a, b
      <4> QED
        BY <2>3, <2>4, <4>1
    <3> HIDE DEF u, v
    <3> QED
      BY <2>5, <3>1
  <2> QED
    BY <2>1, <2>6, <2>7
<1>2. ASSUME NEW dx \in Int, NEW dy \in Int,
             (dx = 0 /\ dy \in {-r, r}) \/ (dy = 0 /\ dx \in {-r, r})
      PROVE  <<cx + dx, cy + dy>> \in CirclePoints(cx, cy, r)
  <2> DEFINE p == <<r, 0>>
  <2>1. p \in Octant(r) /\ p[1] = r /\ p[2] = 0
    BY OctantTop
  <2> HIDE DEF p
  <2>2. ASSUME NEW sx \in {-1, 1}, NEW sy \in {-1, 1}
        PROVE  /\ <<cx + sx * p[1], cy + sy * p[2]>> \in CirclePoints(cx, cy, r)
               /\ <<cx + sx * p[2], cy + sy * p[1]>> \in CirclePoints(cx, cy, r)
    <3> DEFINE Pair(q, s, t) == {<<cx + s * q[1], cy + t * q[2]>>, <<cx + s * q[2], cy + t * q[1]>>}
    <3>1. CirclePoints(cx, cy, r) =
            UNION {Pair(q, s, t) : q \in Octant(r), s \in {-1, 1}, t \in {-1, 1}}
      BY DEF CirclePoints
    <3>2. /\ <<cx + sx * p[1], cy + sy * p[2]>> \in Pair(p, sx, sy)
          /\ <<cx + sx * p[2], cy + sy * p[1]>> \in Pair(p, sx, sy)
      OBVIOUS
    <3> HIDE DEF Pair
    <3>3. Pair(p, sx, sy) \in {Pair(q, s, t) : q \in Octant(r), s \in {-1, 1}, t \in {-1, 1}}
      BY <2>1, <2>2
    <3> QED
      BY <3>1, <3>2, <3>3
  <2>3. ASSUME NEW s \in {-1, 1}
        PROVE  <<cx + s * r, cy>> \in CirclePoints(cx, cy, r) /\ <<cx, cy + s * r>> \in CirclePoints(cx, cy, r)
    <3>1. s * 0 = 0 /\ cy + 0 = cy /\ cx + 0 = cx
      OBVIOUS
    <3> QED
      BY <2>1, <2>2, <2>3, <3>1
  <2>4. (-1) * r = -r /\ 1 * r = r /\ cx + 0 = cx /\ cy + 0 = cy
    OBVIOUS
  <2>5. /\ <<cx + -r, cy>> \in CirclePoints(cx, cy, r) /\ <<cx, cy + -r>> \in CirclePoints(cx, cy, r)
        /\ <<cx + r, cy>> \in CirclePoints(cx, cy, r) /\ <<cx, cy + r>> \in CirclePoints(cx, cy, r)
    BY <2>3, <2>4
  <2> QED
    BY <1>2, <2>4, <2>5
<1> QED
  BY <1>1, <1>2

\* What both circles say of a pixel, seen from the centre.
LEMMA SeenFromCentre ==
  ASSUME NEW cx \in Int, NEW cy \in Int, NEW r \in Nat, NEW px \in Int, NEW py \in Int, NEW op
  PROVE  LET c == Call(op, cx, cy, r, r)
             dx == px - cx
             dy == py - cy
         IN  /\ Square(c, <<px, py>>) = dx * dx + dy * dy
             /\ Axial(c, <<px, py>>) => (dx = 0 /\ dy \in {-r, r}) \/ (dy = 0 /\ dx \in {-r, r})
             /\ c.width = r /\ c.x = cx /\ c.y = cy /\ c.op = op
<1> DEFINE c == Call(op, cx, cy, r, r)
           dx == px - cx
           dy == py - cy
<1>1. c.width = r /\ c.x = cx /\ c.y = cy /\ c.op = op
  BY DEF Call
<1> HIDE DEF c
<1>2. Square(c, <<px, py>>) = dx * dx + dy * dy
  BY <1>1 DEF Square
<1>3. Axial(c, <<px, py>>) => Abs(dx) + Abs(dy) = r /\ (dx = 0 \/ dy = 0)
  BY <1>1 DEF Axial
<1>4. dx \in Int /\ dy \in Int
  OBVIOUS
<1> HIDE DEF dx, dy
<1>5. Abs(dx) + Abs(dy) = r /\ (dx = 0 \/ dy = 0) =>
        (dx = 0 /\ dy \in {-r, r}) \/ (dy = 0 /\ dx \in {-r, r})
  BY <1>4 DEF Abs
<1> QED
  BY <1>1, <1>2, <1>3, <1>5 DEF c, dx, dy

LEMMA CircleDraws ==
  ASSUME BuffersOK, ModeOK, NEW x \in Int, NEW y \in Int, NEW r \in Nat,
         DrawCircle(x, y, r)
  PROVE  ShapeDrawn
<1> DEFINE c == Call("circle", x, y, r, r)
           points == CirclePoints(x, y, r)
           cells == PutPixels(points)
<1>1. Draw(c, draw_target, Stroke(cells, Ink))
  BY DEF DrawCircle
<1>2. ASSUME NEW px, NEW py, NEW was, NEW new, OnScreen(px, py),
             new = IF Offset(px, py) \in cells THEN Ink ELSE was[Offset(px, py)]
      PROVE  Right(c, <<px, py>>, was, new)
  <2> DEFINE p == <<px, py>>
             old == was[Offset(px, py)]
             dx == px - x
             dy == py - y
  <2>1. px \in Int /\ py \in Int
    BY <1>2, PixelsOnScreen
  <2>2. Offset(px, py) \in cells <=> p \in points
    <3>1. points \subseteq Int \X Int
      BY CirclePixels
    <3> HIDE DEF points
    <3> QED
      BY <1>2, <3>1, PointsCells
  <2>3. /\ Square(c, p) = dx * dx + dy * dy
        /\ Axial(c, p) => (dx = 0 /\ dy \in {-r, r}) \/ (dy = 0 /\ dx \in {-r, r})
        /\ c.width = r /\ c.op = "circle"
    BY <2>1, SeenFromCentre
  <2>4. ASSUME p \in points
        PROVE  /\ Square(c, p) <= r * r + r
               /\ r > 0 => Square(c, p) >= (r - 1) * (r - 2)
    <3>1. PICK q \in Octant(r) : (p[1] - x) * (p[1] - x) + (p[2] - y) * (p[2] - y) = SquareOf(q)
      BY <2>4, CirclePixels
    <3>2. Square(c, p) = SquareOf(q)
      BY <2>3, <3>1
    <3> QED
      BY <3>2, OctantPoint
  <2>5. Axial(c, p) => p \in points
    <3>1. dx \in Int /\ dy \in Int /\ x + dx = px /\ y + dy = py
      BY <2>1
    <3> HIDE DEF c, dx, dy
    <3>2. (dx = 0 /\ dy \in {-r, r}) \/ (dy = 0 /\ dx \in {-r, r}) => <<x + dx, y + dy>> \in points
      BY <3>1, CirclePixels
    <3> QED
      BY <2>3, <3>1, <3>2
  <2>6. (new # old => p \in points) /\ (p \in points => new = Ink)
    BY <1>2, <2>2
  <2> HIDE DEF c, points, old
  <2>7. CircleRight(c, p, new # old, new = Ink)
    BY <2>3, <2>4, <2>5, <2>6 DEF CircleRight, Within
  <2> QED
    BY <2>3, <2>6, <2>7 DEF Right, old
<1>3. cells \subseteq Offsets
  BY PointsInside
<1> HIDE DEF c, cells
<1> QED
  BY <1>1, <1>2, <1>3, InkDraws

LEMMA DiscDraws ==
  ASSUME BuffersOK, ModeOK, NEW x \in Int, NEW y \in Int, NEW r \in Nat,
         FillCircle(x, y, r)
  PROVE  ShapeDrawn
<1> DEFINE c == Call("disc", x, y, r, r)
           cells == gfx_fill_circle(x, y, r)
<1>1. Draw(c, Target, Stroke(cells, Ink))
  BY DEF FillCircle
<1>2. ASSUME NEW px, NEW py, NEW was, NEW new, OnScreen(px, py),
             new = IF Offset(px, py) \in cells THEN Ink ELSE was[Offset(px, py)]
      PROVE  Right(c, <<px, py>>, was, new)
  <2> DEFINE p == <<px, py>>
             o == Offset(px, py)
             old == was[o]
             dx == px - x
             dy == py - y
             Rows(q) == (dy \in {-q[2], q[2]} /\ -q[1] <= dx /\ dx <= q[1])
                          \/ (dy \in {-q[1], q[1]} /\ -q[2] <= dx /\ dx <= q[2])
  <2>1. px \in Int /\ py \in Int /\ dx \in Int /\ dy \in Int
    BY <1>2, PixelsOnScreen
  <2>2. \A q \in Octant(r), s \in {-1, 1} :
          /\ o \in gfx_draw_hline(x - q[1], y + s * q[2], 2 * q[1] + 1) <=>
               dy = s * q[2] /\ -q[1] <= dx /\ dx <= q[1]
          /\ o \in gfx_draw_hline(x - q[2], y + s * q[1], 2 * q[2] + 1) <=>
               dy = s * q[1] /\ -q[2] <= dx /\ dx <= q[2]
    <3>1. ASSUME NEW a \in Nat, NEW b \in Nat, NEW s \in {-1, 1}
          PROVE  o \in gfx_draw_hline(x - a, y + s * b, 2 * a + 1) <=>
                   dy = s * b /\ -a <= dx /\ dx <= a
      <4> DEFINE v == s * b
      <4>1. v \in Int
        OBVIOUS
      <4> HIDE DEF v
      <4>2. x - a \in Int /\ y + v \in Int /\ 2 * a + 1 \in Int
        BY <4>1
      <4>3. o \in gfx_draw_hline(x - a, y + v, 2 * a + 1) <=>
              py = y + v /\ x - a <= px /\ px < x - a + (2 * a + 1)
        BY <1>2, <4>2, HlineCells
      <4> QED
        BY <2>1, <4>1, <4>3 DEF v
    <3> SUFFICES ASSUME NEW q \in Octant(r), NEW s \in {-1, 1}
                 PROVE  /\ o \in gfx_draw_hline(x - q[1], y + s * q[2], 2 * q[1] + 1) <=>
                             dy = s * q[2] /\ -q[1] <= dx /\ dx <= q[1]
                        /\ o \in gfx_draw_hline(x - q[2], y + s * q[1], 2 * q[2] + 1) <=>
                             dy = s * q[1] /\ -q[2] <= dx /\ dx <= q[2]
      OBVIOUS
    <3>2. q[1] \in Nat /\ q[2] \in Nat
      BY OctantPoint
    <3> HIDE DEF o, dx, dy
    <3>3. o \in gfx_draw_hline(x - q[1], y + s * q[2], 2 * q[1] + 1) <=>
            dy = s * q[2] /\ -q[1] <= dx /\ dx <= q[1]
      BY <3>1, <3>2
    <3>4. o \in gfx_draw_hline(x - q[2], y + s * q[1], 2 * q[2] + 1) <=>
            dy = s * q[1] /\ -q[2] <= dx /\ dx <= q[2]
      BY <3>1, <3>2
    <3> QED
      BY <3>3, <3>4
  <2>3. o \in cells <=> \E q \in Octant(r) : Rows(q)
    <3>1. o \in cells <=>
            \E q \in Octant(r), s \in {-1, 1} :
              \/ o \in gfx_draw_hline(x - q[1], y + s * q[2], 2 * q[1] + 1)
              \/ o \in gfx_draw_hline(x - q[2], y + s * q[1], 2 * q[2] + 1)
      <4> DEFINE First(q, s) == gfx_draw_hline(x - q[1], y + s * q[2], 2 * q[1] + 1)
                 Second(q, s) == gfx_draw_hline(x - q[2], y + s * q[1], 2 * q[2] + 1)
                 Both(q, s) == First(q, s) \cup Second(q, s)
      <4>1. cells = UNION {Both(q, s) : q \in Octant(r), s \in {-1, 1}}
        BY DEF gfx_fill_circle
      <4> HIDE DEF o, cells, First, Second, Both
      <4>2. ASSUME NEW q \in Octant(r), NEW s \in {-1, 1}, o \in Both(q, s) PROVE o \in cells
        <5>1. Both(q, s) \in {Both(w, t) : w \in Octant(r), t \in {-1, 1}}
          BY <4>2
        <5> QED
          BY <4>1, <4>2, <5>1
      <4>3. o \in cells => \E q \in Octant(r), s \in {-1, 1} : o \in Both(q, s)
        BY <4>1
      <4>4. \A q, s : o \in Both(q, s) <=> o \in First(q, s) \/ o \in Second(q, s)
        BY DEF Both
      <4>5. o \in cells <=> \E q \in Octant(r), s \in {-1, 1} : o \in First(q, s) \/ o \in Second(q, s)
        BY <4>2, <4>3, <4>4, Zenon
      <4> QED
        BY <4>5, Zenon DEF First, Second
    <3> HIDE DEF o, cells, dx, dy
    <3>2. o \in cells <=>
            \E q \in Octant(r), s \in {-1, 1} :
              \/ (dy = s * q[2] /\ -q[1] <= dx /\ dx <= q[1])
              \/ (dy = s * q[1] /\ -q[2] <= dx /\ dx <= q[2])
      BY <2>2, <3>1
    <3>3. \A q \in Octant(r) : q[1] \in Nat /\ q[2] \in Nat
      BY OctantPoint
    <3>4. \A q \in Octant(r) :
            Rows(q) <=> \E s \in {-1, 1} : \/ (dy = s * q[2] /\ -q[1] <= dx /\ dx <= q[1])
                                           \/ (dy = s * q[1] /\ -q[2] <= dx /\ dx <= q[2])
      <4> SUFFICES ASSUME NEW q \in Octant(r)
                   PROVE  Rows(q) <=>
                            \E s \in {-1, 1} : \/ (dy = s * q[2] /\ -q[1] <= dx /\ dx <= q[1])
                                               \/ (dy = s * q[1] /\ -q[2] <= dx /\ dx <= q[2])
        OBVIOUS
      <4>1. q[1] \in Nat /\ q[2] \in Nat
        BY <3>3
      <4>2. (-1) * q[2] = -q[2] /\ 1 * q[2] = q[2] /\ (-1) * q[1] = -q[1] /\ 1 * q[1] = q[1]
        BY <4>1
      <4> QED
        BY <4>2
    <3> HIDE DEF Rows
    <3> QED
      BY <3>2, <3>4
  <2>4. /\ Square(c, p) = dx * dx + dy * dy
        /\ Axial(c, p) => (dx = 0 /\ dy \in {-r, r}) \/ (dy = 0 /\ dx \in {-r, r})
        /\ c.width = r /\ c.op = "disc"
    BY <2>1, SeenFromCentre
  <2>5. ASSUME NEW q \in Octant(r), Rows(q) PROVE Square(c, p) <= r * r + r
    <3> DEFINE a == q[1]
               b == q[2]
    <3>1. a \in Nat /\ b \in Nat /\ SquareOf(q) = a * a + b * b /\ SquareOf(q) <= r * r + r
      BY OctantPoint DEF SquareOf
    <3>2. ASSUME NEW u \in Nat, NEW v \in Nat, dy \in {-v, v}, -u <= dx, dx <= u
          PROVE  dx * dx + dy * dy <= u * u + v * v
      <4>1. dx * dx <= u * u
        <5>1. CASE dx >= 0
          BY <2>1, <3>2, <5>1, Squares
        <5>2. CASE dx < 0
          <6>1. -dx \in Nat /\ -dx <= u /\ (-dx) * (-dx) = dx * dx
            BY <2>1, <3>2, <5>2
          <6>2. (-dx) * (-dx) <= u * u
            BY <6>1, Squares
          <6> QED
            BY <6>1, <6>2
        <5> QED
          BY <2>1, <5>1, <5>2
      <4>2. dy * dy = v * v
        BY <2>1, <3>2
      <4>3. dx * dx \in Int /\ u * u \in Int /\ v * v \in Int
        BY <2>1
      <4> HIDE DEF dx, dy
      <4> QED
        BY <4>1, <4>2, <4>3
    <3> HIDE DEF a, b, dx, dy
    <3>3. (dy \in {-b, b} /\ -a <= dx /\ dx <= a) \/ (dy \in {-a, a} /\ -b <= dx /\ dx <= b)
      BY <2>5 DEF a, b
    <3>4. dx * dx + dy * dy <= a * a + b * b
      <4>1. CASE dy \in {-b, b} /\ -a <= dx /\ dx <= a
        BY <3>1, <3>2, <4>1
      <4>2. CASE dy \in {-a, a} /\ -b <= dx /\ dx <= b
        <5>1. dx * dx + dy * dy <= b * b + a * a
          BY <3>1, <3>2, <4>2
        <5>2. b * b + a * a = a * a + b * b
          BY <3>1
        <5> QED
          BY <5>1, <5>2
      <4> QED
        BY <3>3, <4>1, <4>2
    <3>5. dx * dx + dy * dy \in Int /\ a * a + b * b \in Int /\ r * r + r \in Int
      BY <2>1, <3>1
    <3> QED
      BY <2>4, <3>1, <3>4, <3>5
  <2>6. ASSUME Axial(c, p) PROVE \E q \in Octant(r) : Rows(q)
    <3> DEFINE q == <<r, 0>>
    <3>1. q \in Octant(r) /\ q[1] = r /\ q[2] = 0
      BY OctantTop
    <3> HIDE DEF q, dx, dy, c
    <3>2. Rows(q)
      BY <2>1, <2>4, <2>6, <3>1
    <3> QED
      BY <3>1, <3>2
  <2>7. ASSUME r > 0, Square(c, p) <= (r - 1) * (r - 1) PROVE \E q \in Octant(r) : Rows(q)
    <3> DEFINE a == Abs(dx)
               b == Abs(dy)
    <3>1. a \in Nat /\ b \in Nat /\ -a <= dx /\ dx <= a /\ dy \in {-b, b}
      BY <2>1 DEF Abs
    <3>2. a * a = dx * dx /\ b * b = dy * dy
      BY <2>1 DEF Abs
    <3> HIDE DEF a, b, dx, dy, c
    <3>3. a * a + b * b <= (r - 1) * (r - 1)
      BY <2>4, <2>7, <3>2
    <3>4. PICK q \in Octant(r) : (b = q[2] /\ a <= q[1]) \/ (b = q[1] /\ a <= q[2])
      BY <2>7, <3>1, <3>3, OctantCovers
    <3>5. q[1] \in Nat /\ q[2] \in Nat
      BY OctantPoint
    <3>6. Rows(q)
      BY <2>1, <3>1, <3>4, <3>5
    <3> QED
      BY <3>6
  <2>8. (new # old => o \in cells) /\ (o \in cells => new = Ink)
    BY <1>2
  <2> HIDE DEF c, cells, old, o, dx, dy, Rows
  <2>9. DiscRight(c, p, new # old, new = Ink)
    BY <2>3, <2>4, <2>5, <2>6, <2>7, <2>8 DEF DiscRight, Within
  <2> QED
    BY <2>4, <2>8, <2>9 DEF Right, old, o
<1>3. cells \subseteq Offsets
  <2> DEFINE First(q, s) == gfx_draw_hline(x - q[1], y + s * q[2], 2 * q[1] + 1)
             Second(q, s) == gfx_draw_hline(x - q[2], y + s * q[1], 2 * q[2] + 1)
  <2>1. \A a, b \in Nat, s \in {-1, 1} : gfx_draw_hline(x - a, y + s * b, 2 * a + 1) \subseteq Offsets
    <3> SUFFICES ASSUME NEW a \in Nat, NEW b \in Nat, NEW s \in {-1, 1}
                 PROVE  gfx_draw_hline(x - a, y + s * b, 2 * a + 1) \subseteq Offsets
      OBVIOUS
    <3> DEFINE v == s * b
    <3>1. x - a \in Int /\ 2 * a + 1 \in Int /\ v \in Int
      OBVIOUS
    <3> HIDE DEF v
    <3>2. y + v \in Int
      BY <3>1
    <3>3. gfx_draw_hline(x - a, y + v, 2 * a + 1) \subseteq Offsets
      BY <3>1, <3>2, HlineInside
    <3> QED
      BY <3>3 DEF v
  <2>2. \A q \in Octant(r), s \in {-1, 1} : First(q, s) \subseteq Offsets /\ Second(q, s) \subseteq Offsets
    BY <2>1, OctantPoint
  <2>3. cells = UNION {First(q, s) \cup Second(q, s) : q \in Octant(r), s \in {-1, 1}}
    BY DEF gfx_fill_circle
  <2> HIDE DEF First, Second, cells
  <2> QED
    BY <2>2, <2>3
<1> HIDE DEF c, cells
<1> QED
  BY <1>1, <1>2, <1>3, InkDraws
-----------------------------------------------------------------------------
(* Lines                                                                   *)

Longer(dx, dy) == IF dx > dy THEN dx ELSE dy
Towards(u, v) == IF u < v THEN 1 ELSE -1

\* After i steps, a of them in x and b in y: the longer side is stepped every
\* time, and the point lies within half a pixel of the line.
LineOK(dx, dy, i, a, b) ==
  /\ dx >= dy => a = i /\ 2 * (b * dx - a * dy) \in (-dx)..dx
  /\ dy >= dx => b = i /\ 2 * (b * dx - a * dy) \in (-dy)..dy

LineError(dx, dy, a, b) == dx - dy - a * dy + b * dx

LineAdvances(dx, dy, i, e, a1, b1) ==
  /\ LineOK(dx, dy, i + 1, a1, b1)
  /\ e - (IF 2 * e > -dy THEN dy ELSE 0) + (IF 2 * e < dx THEN dx ELSE 0) = LineError(dx, dy, a1, b1)

LEMMA LineSteps ==
  ASSUME NEW dx \in Nat, NEW dy \in Nat, NEW i \in Nat, NEW a \in Nat, NEW b \in Nat,
         dx + dy > 0, LineOK(dx, dy, i, a, b), NEW e \in Int, e = LineError(dx, dy, a, b),
         NEW a1 \in Nat, a1 = IF 2 * e > -dy THEN a + 1 ELSE a,
         NEW b1 \in Nat, b1 = IF 2 * e < dx THEN b + 1 ELSE b
  PROVE  LineAdvances(dx, dy, i, e, a1, b1)
<1> DEFINE P == a * dy
           Q == b * dx
           P1 == a1 * dy
           Q1 == b1 * dx
<1>1. P \in Int /\ Q \in Int /\ P1 \in Int /\ Q1 \in Int
  OBVIOUS
<1>2. P1 = IF 2 * e > -dy THEN P + dy ELSE P
  <2>1. (a + 1) * dy = a * dy + dy
    OBVIOUS
  <2> QED
    BY <2>1
<1>3. Q1 = IF 2 * e < dx THEN Q + dx ELSE Q
  <2>1. (b + 1) * dx = b * dx + dx
    OBVIOUS
  <2> QED
    BY <2>1
<1>4. e = dx - dy - P + Q
  BY DEF LineError
<1>5. /\ dx >= dy => a = i /\ -dx <= 2 * (Q - P) /\ 2 * (Q - P) <= dx
      /\ dy >= dx => b = i /\ -dy <= 2 * (Q - P) /\ 2 * (Q - P) <= dy
  BY <1>1 DEF LineOK
<1>6. dx = dy => P = Q
  BY <1>5
<1>7. LineOK(dx, dy, i + 1, a1, b1) <=>
        /\ dx >= dy => a1 = i + 1 /\ 2 * (Q1 - P1) \in (-dx)..dx
        /\ dy >= dx => b1 = i + 1 /\ 2 * (Q1 - P1) \in (-dy)..dy
  BY DEF LineOK
<1>8. LineError(dx, dy, a1, b1) = dx - dy - P1 + Q1
  BY DEF LineError
<1> HIDE DEF P, Q, P1, Q1
<1>9. dx >= dy => 2 * e > -dy
  BY <1>1, <1>4, <1>5, <1>6
<1>10. dy >= dx => 2 * e < dx
  BY <1>1, <1>4, <1>5, <1>6
<1>11. dx >= dy => a1 = i + 1 /\ 2 * (Q1 - P1) \in (-dx)..dx
  BY <1>1, <1>2, <1>3, <1>4, <1>5, <1>9
<1>12. dy >= dx => b1 = i + 1 /\ 2 * (Q1 - P1) \in (-dy)..dy
  BY <1>1, <1>2, <1>3, <1>4, <1>5, <1>10
<1>13. e - (IF 2 * e > -dy THEN dy ELSE 0) + (IF 2 * e < dx THEN dx ELSE 0) = dx - dy - P1 + Q1
  BY <1>1, <1>2, <1>3, <1>4
<1> QED
  BY <1>7, <1>8, <1>11, <1>12, <1>13 DEF LineAdvances

\* The steps on the shorter side never go too far, arrive, and are the only
\* ones so near to the line.
LEMMA NearLine ==
  ASSUME NEW m \in Nat, NEW k \in 0..m, NEW i \in 0..m, NEW j \in Nat,
         NEW d \in Int, d = 2 * (j * m - i * k), d \in (-m)..m, m = 0 => j = 0
  PROVE  /\ j <= k
         /\ i = m => j = k
         /\ \A v \in Nat : LET w == 2 * (v * m - i * k)
                           IN  (-m < w /\ w < m) \/ w = 0 => v = j \/ m = 0
<1>1. ASSUME NEW u \in Nat, NEW v \in Nat, u >= v + 1 PROVE u * m >= v * m + m
  <2>1. (u - (v + 1)) * m \in Nat
    <3>1. u - (v + 1) \in Nat
      BY <1>1
    <3> QED
      BY <3>1, NatProduct
  <2>2. (u - (v + 1)) * m = u * m - v * m - m /\ u * m \in Int /\ v * m \in Int
    OBVIOUS
  <2> QED
    BY <2>1, <2>2
<1> DEFINE jm == j * m
           ik == i * k
           km == k * m
<1>2. jm \in Int /\ ik \in Int /\ km \in Int /\ ik <= km
  <2>1. (m - i) * k \in Nat
    <3>1. m - i \in Nat /\ k \in Nat
      OBVIOUS
    <3> QED
      BY <3>1, NatProduct
  <2>2. (m - i) * k = k * m - i * k /\ i * k \in Int /\ k * m \in Int
    OBVIOUS
  <2> QED
    BY <2>1, <2>2
<1>3. i = m => ik = km
  OBVIOUS
<1>4. d = 2 * jm - 2 * ik /\ -m <= d /\ d <= m
  BY <1>2
<1>5. /\ j >= k + 1 => jm >= km + m
      /\ k >= j + 1 => km >= jm + m
  BY <1>1
<1>6. ASSUME NEW v \in Nat, NEW w, w = 2 * (v * m - i * k), (-m < w /\ w < m) \/ w = 0
      PROVE  v = j \/ m = 0
  <2> DEFINE vm == v * m
  <2>1. vm \in Int /\ w = 2 * vm - 2 * ik
    BY <1>6
  <2>2. /\ j >= v + 1 => jm >= vm + m
        /\ v >= j + 1 => vm >= jm + m
    BY <1>1
  <2> HIDE DEF jm, ik, vm
  <2> QED
    BY <1>2, <1>4, <1>6, <2>1, <2>2
<1> HIDE DEF jm, ik, km
<1>7. j <= k
  BY <1>2, <1>4, <1>5
<1>8. i = m => j = k
  BY <1>2, <1>3, <1>4, <1>5
<1> QED
  BY <1>6, <1>7, <1>8

\* No other number of steps on the shorter side is nearer than half a pixel.
OnlyNear(m, k, i, j) ==
  \A v \in Nat : LET w == 2 * (v * m - i * k)
               IN  (-m < w /\ w < m) \/ w = 0 => v = j \/ m = 0

LEMMA NearOnly ==
  ASSUME NEW m \in Nat, NEW k \in 0..m, NEW i \in 0..m, NEW j \in Nat,
         2 * (j * m - i * k) \in (-m)..m, m = 0 => j = 0
  PROVE  OnlyNear(m, k, i, j)
<1> DEFINE d == 2 * (j * m - i * k)
<1>1. d \in Int /\ d \in (-m)..m
  OBVIOUS
<1> HIDE DEF d
<1>2. d = 2 * (j * m - i * k)
  BY DEF d
<1> QED
  BY <1>1, <1>2, NearLine DEF OnlyNear

\* The point after a steps in x and b in y.
LinePoint(x1, y1, x2, y2, a, b) == <<x1 + Towards(x1, x2) * a, y1 + Towards(y1, y2) * b>>

Stepped(dx, dy, i, a, b) ==
  /\ a \in Nat /\ b \in Nat /\ LineOK(dx, dy, i, a, b)
  /\ dx = 0 => a = 0
  /\ dy = 0 => b = 0

LEMMA LineArrives ==
  ASSUME NEW dx \in Nat, NEW dy \in Nat, NEW i \in 0..Longer(dx, dy), NEW a, NEW b,
         Stepped(dx, dy, i, a, b)
  PROVE  /\ a \in 0..dx /\ b \in 0..dy
         /\ (a = dx /\ b = dy) <=> i = Longer(dx, dy)
<1>1. a \in Nat /\ b \in Nat /\ LineOK(dx, dy, i, a, b) /\ (dx = 0 => a = 0) /\ (dy = 0 => b = 0)
  BY DEF Stepped
<1>2. CASE dx >= dy
  <2>1. Longer(dx, dy) = dx /\ i \in 0..dx /\ dy \in 0..dx
    BY <1>2 DEF Longer
  <2> DEFINE d == 2 * (b * dx - i * dy)
  <2>2. d \in Int
    BY <1>1, <2>1
  <2>3. a = i /\ d \in (-dx)..dx
    BY <1>1, <1>2 DEF LineOK
  <2>4. dx = 0 => b = 0
    BY <1>1, <1>2
  <2> HIDE DEF d
  <2>5. b <= dy /\ (i = dx => b = dy)
    BY <1>1, <2>1, <2>2, <2>3, <2>4, NearLine DEF d
  <2> QED
    BY <1>1, <2>1, <2>3, <2>5
<1>3. CASE dy > dx
  <2>1. Longer(dx, dy) = dy /\ i \in 0..dy /\ dx \in 0..dy
    BY <1>3 DEF Longer
  <2> DEFINE d == 2 * (a * dy - i * dx)
  <2>2. d \in Int
    BY <1>1, <2>1
  <2>3. b = i /\ 2 * (i * dx - a * dy) \in (-dy)..dy
    BY <1>1, <1>3 DEF LineOK
  <2>4. d \in (-dy)..dy
    <3> DEFINE P == a * dy
               Q == i * dx
    <3>1. P \in Int /\ Q \in Int /\ 2 * (Q - P) \in (-dy)..dy /\ d = 2 * (P - Q)
      BY <1>1, <2>1, <2>3
    <3> HIDE DEF P, Q
    <3> QED
      BY <3>1
  <2>5. dy = 0 => a = 0
    BY <1>3
  <2> HIDE DEF d
  <2>6. a <= dx /\ (i = dy => a = dx)
    BY <1>1, <2>1, <2>2, <2>4, <2>5, NearLine DEF d
  <2> QED
    BY <1>1, <2>1, <2>3, <2>6
<1> QED
  BY <1>2, <1>3

\* From z the same number of steps leads to the same place.
StepsAgree(z, s, u, v) == z + s * u = z + s * v <=> u = v

LEMMA SameSteps ==
  ASSUME NEW z \in Int, NEW s \in {-1, 1}, NEW u \in Int, NEW v \in Int
  PROVE  StepsAgree(z, s, u, v)
<1> USE DEF StepsAgree
<1>1. CASE s = 1
  <2>1. s * u = u /\ s * v = v
    BY <1>1
  <2> QED
    BY <2>1
<1>2. CASE s = -1
  <2>1. s * u = -u /\ s * v = -v
    BY <1>2
  <2> QED
    BY <2>1
<1> QED
  BY <1>1, <1>2

\* The loop: it reaches its end after as many steps as the longer side, and
\* goes through the points that LineOK describes.
LEMMA LineRuns ==
  ASSUME NEW x1 \in Int, NEW y1 \in Int, NEW x2 \in Int, NEW y2 \in Int,
         NEW dx \in Nat, dx = Abs(x2 - x1), NEW dy \in Nat, dy = Abs(y2 - y1)
  PROVE  /\ \A q \in LinePoints(x1, y1, x2, y2) :
              \E i \in 0..Longer(dx, dy), a, b \in Nat :
                Stepped(dx, dy, i, a, b) /\ q = LinePoint(x1, y1, x2, y2, a, b)
         /\ \A i \in 0..Longer(dx, dy) :
              \E a, b \in Nat : /\ Stepped(dx, dy, i, a, b)
                                /\ LinePoint(x1, y1, x2, y2, a, b) \in LinePoints(x1, y1, x2, y2)
<1> DEFINE sx == Towards(x1, x2)
           sy == Towards(y1, y2)
           m == dx + dy
           S == [x : Int, y : Int, err : Int]
           s0 == [x |-> x1, y |-> y1, err |-> dx - dy]
           Step(p) == [x |-> IF 2 * p.err > -dy THEN p.x + sx ELSE p.x,
                       y |-> IF 2 * p.err < dx THEN p.y + sy ELSE p.y,
                       err |-> p.err - (IF 2 * p.err > -dy THEN dy ELSE 0)
                                 + (IF 2 * p.err < dx THEN dx ELSE 0)]
           at[i \in 0..m] == IF i = 0 THEN s0 ELSE Step(at[i - 1])
           Ends(i) == at[i].x = x2 /\ at[i].y = y2
           n == CHOOSE i \in 0..m : Ends(i) /\ \A j \in 0..(i - 1) : ~Ends(j)
           L == Longer(dx, dy)
<1>1. LinePoints(x1, y1, x2, y2) = {<<at[i].x, at[i].y>> : i \in 0..n}
  BY DEF LinePoints, Towards
<1>2. m \in Nat /\ m = dx + dy /\ L \in 0..m
  BY DEF Longer
<1>18. sx \in {-1, 1} /\ sy \in {-1, 1} /\ x2 = x1 + sx * dx /\ y2 = y1 + sy * dy
  <2>2. sx \in {-1, 1} /\ sx * dx = x2 - x1
    BY DEF Abs, Towards
  <2>3. sy \in {-1, 1} /\ sy * dy = y2 - y1
    BY DEF Abs, Towards
  <2> HIDE DEF sx, sy
  <2> QED
    BY <2>2, <2>3
<1> HIDE DEF sx, sy, L
<1>3. s0 \in S /\ \A p \in S : Step(p) \in S
  BY <1>18
<1> DEFINE G == [i \in 1..m |-> [p \in S |-> Step(p)]]
<1>4. G \in [1..m -> [S -> S]] /\ \A i \in 1..m, p \in S : G[i][p] = Step(p)
  BY <1>3
<1> HIDE DEF G, S, Step, s0, m
<1>5. Computes(m, S, s0, G)
  BY <1>2, <1>3, <1>4, LoopExists
<1>6. PICK f \in [0..m -> S] : f[0] = s0 /\ \A j \in 1..m : f[j] = G[j][f[j - 1]]
  BY <1>5 DEF Computes
<1>7. \A j \in 1..m : j - 1 \in 0..m /\ f[j - 1] \in S /\ f[j] = Step(f[j - 1])
  <2> SUFFICES ASSUME NEW j \in 1..m PROVE j - 1 \in 0..m /\ f[j - 1] \in S /\ f[j] = Step(f[j - 1])
    OBVIOUS
  <2>1. j - 1 \in 0..m
    BY <1>2
  <2>2. f[j - 1] \in S
    BY <2>1
  <2> QED
    BY <1>4, <1>6, <2>1, <2>2
<1>8. f = [i \in 0..m |-> IF i = 0 THEN s0 ELSE Step(f[i - 1])]
  <2>1. \A i \in 0..m : f[i] = IF i = 0 THEN s0 ELSE Step(f[i - 1])
    <3> SUFFICES ASSUME NEW i \in 0..m PROVE f[i] = IF i = 0 THEN s0 ELSE Step(f[i - 1])
      OBVIOUS
    <3>1. i # 0 => i \in 1..m
      BY <1>2
    <3> QED
      BY <1>6, <1>7, <3>1
  <2> QED
    BY <2>1
<1>9. at = [i \in 0..m |-> IF i = 0 THEN s0 ELSE Step(at[i - 1])]
  BY <1>8, Zenon
<1> HIDE DEF at
<1> DEFINE Reached(i, a, b) ==
             /\ Stepped(dx, dy, i, a, b)
             /\ at[i].x = x1 + sx * a /\ at[i].y = y1 + sy * b
             /\ at[i].err = LineError(dx, dy, a, b)
           T == {i \in 0..m : at[i] \in S /\ \E a, b \in Nat : Reached(i, a, b)}
<1>10. 0 \in T
  <2>1. at[0] = s0 /\ 0 \in 0..m
    BY <1>2, <1>9
  <2>2. s0.x = x1 /\ s0.y = y1 /\ s0.err = dx - dy
    BY DEF s0
  <2>3. LineError(dx, dy, 0, 0) = dx - dy /\ LineOK(dx, dy, 0, 0, 0) /\ 0 \in Nat
    <3>1. 0 * dx = 0 /\ 0 * dy = 0
      OBVIOUS
    <3> QED
      BY <3>1 DEF LineError, LineOK
  <2>4. x1 + sx * 0 = x1 /\ y1 + sy * 0 = y1
    BY <1>18
  <2>5. Reached(0, 0, 0)
    BY <2>1, <2>2, <2>3, <2>4 DEF Stepped
  <2> HIDE DEF Reached
  <2> QED
    BY <1>3, <2>1, <2>3, <2>5
<1>11. ASSUME NEW i \in 1..m, i - 1 \in T PROVE i \in T
  <2> DEFINE k == i - 1
             p == at[k]
             e == p.err
  <2>1. i \in 0..m /\ i # 0 /\ i = k + 1 /\ k \in Nat /\ dx + dy > 0
    BY <1>2
  <2>2. PICK a \in Nat, b \in Nat : Reached(k, a, b)
    BY <1>11
  <2>3. p \in S
    BY <1>11
  <2>4. at[i] = Step(p)
    BY <1>9, <2>1
  <2>5. e \in Int /\ p.x \in Int /\ p.y \in Int
    BY <2>3 DEF S
  <2>6. /\ at[i].x = IF 2 * e > -dy THEN p.x + sx ELSE p.x
        /\ at[i].y = IF 2 * e < dx THEN p.y + sy ELSE p.y
        /\ at[i].err = e - (IF 2 * e > -dy THEN dy ELSE 0) + (IF 2 * e < dx THEN dx ELSE 0)
        /\ at[i] \in S
    BY <1>3, <2>3, <2>4 DEF Step
  <2>7. /\ Stepped(dx, dy, k, a, b) /\ p.x = x1 + sx * a /\ p.y = y1 + sy * b
        /\ e = LineError(dx, dy, a, b)
    BY <2>2
  <2> HIDE DEF k, p, e
  <2> DEFINE a1 == IF 2 * e > -dy THEN a + 1 ELSE a
             b1 == IF 2 * e < dx THEN b + 1 ELSE b
  <2>8. a1 \in Nat /\ b1 \in Nat
    OBVIOUS
  <2>9. LineOK(dx, dy, k, a, b) /\ (dx = 0 => a = 0) /\ (dy = 0 => b = 0)
    BY <2>7 DEF Stepped
  <2>10. /\ at[i].x = x1 + sx * a1 /\ at[i].y = y1 + sy * b1
    <3>1. sx * (a + 1) = sx * a + sx /\ sx * a \in Int /\ sx \in Int
      BY <1>18
    <3>2. sy * (b + 1) = sy * b + sy /\ sy * b \in Int /\ sy \in Int
      BY <1>18
    <3>3. at[i].x = x1 + sx * a1
      BY <2>6, <2>7, <3>1
    <3>4. at[i].y = y1 + sy * b1
      BY <2>6, <2>7, <3>2
    <3> QED
      BY <3>3, <3>4
  <2>11. /\ dx = 0 => a1 = 0
         /\ dy = 0 => b1 = 0
    <3>1. LineError(dx, dy, a, b) = dx - dy - a * dy + b * dx
      BY DEF LineError
    <3>2. CASE dx = 0
      <4>1. /\ dy >= dx /\ a = 0 /\ b * dx = 0 /\ a * dy = 0 /\ e = -dy
        BY <2>7, <2>9, <3>1, <3>2
      <4>2. a = 0 /\ e = -dy /\ dy > 0
        BY <2>1, <3>2, <4>1
      <4> QED
        BY <3>2, <4>2
    <3>3. CASE dy = 0
      <4>1. /\ dx >= dy /\ b = 0 /\ b * dx = 0 /\ a * dy = 0 /\ e = dx
        BY <2>7, <2>9, <3>1, <3>3
      <4>2. b = 0 /\ e = dx /\ dx > 0
        BY <2>1, <3>3, <4>1
      <4> QED
        BY <3>3, <4>2
    <3> QED
      BY <3>2, <3>3
  <2>12. /\ LineOK(dx, dy, k + 1, a1, b1)
         /\ at[i].err = LineError(dx, dy, a1, b1)
    <3> HIDE DEF a1, b1
    <3>1. a1 = IF 2 * e > -dy THEN a + 1 ELSE a
      BY DEF a1
    <3>2. b1 = IF 2 * e < dx THEN b + 1 ELSE b
      BY DEF b1
    <3>3. k \in Nat /\ dx + dy > 0 /\ e \in Int /\ e = LineError(dx, dy, a, b) /\ LineOK(dx, dy, k, a, b)
      BY <2>1, <2>5, <2>7, <2>9
    <3>4. LineAdvances(dx, dy, k, e, a1, b1)
      BY <2>8, <3>1, <3>2, <3>3, LineSteps
    <3> QED
      BY <2>6, <3>4 DEF LineAdvances
  <2> HIDE DEF a1, b1
  <2>13. Reached(i, a1, b1)
    BY <2>1, <2>8, <2>10, <2>11, <2>12 DEF Stepped
  <2> HIDE DEF Reached
  <2> QED
    BY <2>1, <2>6, <2>8, <2>13
<1>12. \A i \in 0..m : i \in T
  <2> HIDE DEF T
  <2> QED
    BY <1>2, <1>10, <1>11, UpToN
<1>13. ASSUME NEW i \in 0..L
       PROVE  \E a, b \in Nat :
                /\ Stepped(dx, dy, i, a, b)
                /\ <<at[i].x, at[i].y>> = LinePoint(x1, y1, x2, y2, a, b)
                /\ Ends(i) <=> i = L
  <2>1. i \in 0..m
    BY <1>2
  <2>2. PICK a \in Nat, b \in Nat : Reached(i, a, b)
    BY <1>12, <2>1
  <2>3. a \in 0..dx /\ b \in 0..dy /\ ((a = dx /\ b = dy) <=> i = L)
    BY <2>2, LineArrives DEF L
  <2>4. at[i].x = x2 <=> a = dx
    <3>1. at[i].x = x1 + sx * a /\ x2 = x1 + sx * dx /\ sx \in {-1, 1} /\ a \in Int /\ dx \in Int
      BY <1>18, <2>2
    <3>2. StepsAgree(x1, sx, a, dx)
      BY <3>1, SameSteps
    <3> QED
      BY <3>1, <3>2, Zenon DEF StepsAgree
  <2>5. at[i].y = y2 <=> b = dy
    <3>1. at[i].y = y1 + sy * b /\ y2 = y1 + sy * dy /\ sy \in {-1, 1} /\ b \in Int /\ dy \in Int
      BY <1>18, <2>2
    <3>2. StepsAgree(y1, sy, b, dy)
      BY <3>1, SameSteps
    <3> QED
      BY <3>1, <3>2, Zenon DEF StepsAgree
  <2>6. Ends(i) <=> i = L
    BY <2>3, <2>4, <2>5
  <2>7. <<at[i].x, at[i].y>> = LinePoint(x1, y1, x2, y2, a, b)
    BY <2>2 DEF LinePoint, sx, sy
  <2> QED
    BY <2>2, <2>6, <2>7
<1> HIDE DEF Reached, T
<1>14. n = L
  <2>1. \A i \in 0..L : Ends(i) <=> i = L
    BY <1>13
  <2> HIDE DEF Ends
  <2>2. L \in 0..m /\ Ends(L) /\ \A j \in 0..(L - 1) : ~Ends(j)
    <3>1. L \in 0..L /\ \A j \in 0..(L - 1) : j \in 0..L /\ j # L
      BY <1>2
    <3> QED
      BY <1>2, <2>1, <3>1
  <2>3. ASSUME NEW i \in 0..m, Ends(i), \A j \in 0..(i - 1) : ~Ends(j) PROVE i = L
    <3>1. CASE i < L
      <4>1. i \in 0..L
        BY <1>2, <3>1
      <4> QED
        BY <2>1, <2>3, <4>1
    <3>2. CASE i > L
      <4>1. L \in 0..(i - 1)
        BY <1>2, <3>2
      <4> QED
        BY <2>2, <2>3, <4>1
    <3> QED
      BY <1>2, <3>1, <3>2
  <2> QED
    BY <2>2, <2>3
<1> HIDE DEF n, Ends
<1>15. LinePoints(x1, y1, x2, y2) = {<<at[i].x, at[i].y>> : i \in 0..L}
  BY <1>1, <1>14
<1>16. ASSUME NEW q \in LinePoints(x1, y1, x2, y2)
       PROVE  \E i \in 0..L, a, b \in Nat :
                Stepped(dx, dy, i, a, b) /\ q = LinePoint(x1, y1, x2, y2, a, b)
  <2>1. PICK i \in 0..L : q = <<at[i].x, at[i].y>>
    BY <1>15
  <2> QED
    BY <1>13, <2>1
<1>17. ASSUME NEW i \in 0..L
       PROVE  \E a, b \in Nat : /\ Stepped(dx, dy, i, a, b)
                                /\ LinePoint(x1, y1, x2, y2, a, b) \in LinePoints(x1, y1, x2, y2)
  <2>1. <<at[i].x, at[i].y>> \in LinePoints(x1, y1, x2, y2)
    BY <1>15
  <2> QED
    BY <1>13, <2>1
<1> QED
  BY <1>16, <1>17 DEF L

LEMMA LineInside ==
  ASSUME NEW u \in Int, NEW v \in Int, NEW n \in Nat, n = Abs(v - u), NEW z \in Int
  PROVE  Between(u, u + (v - u), z) <=> \E k \in 0..n : z = u + Towards(u, v) * k
<1> DEFINE s == Towards(u, v)
<1>1. \A k \in 0..n : s * k = IF u < v THEN k ELSE -k
  BY DEF Towards
<1>2. n = IF u < v THEN v - u ELSE u - v
  BY DEF Abs
<1>3. u + (v - u) = v
  OBVIOUS
<1> HIDE DEF s
<1>4. ASSUME Between(u, v, z) PROVE \E k \in 0..n : z = u + s * k
  <2> DEFINE k == IF u < v THEN z - u ELSE u - z
  <2>1. k \in 0..n /\ z = u + (IF u < v THEN k ELSE -k)
    BY <1>2, <1>4 DEF Between
  <2> HIDE DEF k
  <2> QED
    BY <1>1, <2>1
<1>5. ASSUME NEW k \in 0..n, z = u + s * k PROVE Between(u, v, z)
  <2>1. z = u + (IF u < v THEN k ELSE -k)
    BY <1>1, <1>5
  <2> QED
    BY <1>2, <2>1 DEF Between
<1> QED
  BY <1>3, <1>4, <1>5 DEF s

\* How far a point lies from the line, from either end and in any direction.
CrossFits(s, t, dx, dy, u, v) ==
  Abs((s * u) * (t * dy) - (t * v) * (s * dx)) = Abs(v * dx - u * dy)

LEMMA LineCross ==
  ASSUME NEW s \in {-1, 1}, NEW t \in {-1, 1}, NEW dx \in Nat, NEW dy \in Nat, NEW u \in Nat, NEW v \in Nat
  PROVE  CrossFits(s, t, dx, dy, u, v)
<1> DEFINE P == u * dy
           Q == v * dx
           n == (s * u) * (t * dy) - (t * v) * (s * dx)
<1>1. P \in Int /\ Q \in Int
  OBVIOUS
<1>2. n = P - Q \/ n = Q - P
  <2>1. /\ 1 * u = u /\ 1 * v = v /\ 1 * dx = dx /\ 1 * dy = dy
        /\ (-1) * u = -u /\ (-1) * v = -v /\ (-1) * dx = -dx /\ (-1) * dy = -dy
    OBVIOUS
  <2>2. /\ u * (-dy) = -P /\ (-u) * dy = -P /\ (-u) * (-dy) = P
        /\ v * (-dx) = -Q /\ (-v) * dx = -Q /\ (-v) * (-dx) = Q
    OBVIOUS
  <2>3. CASE s = 1 /\ t = 1
    <3>1. n = u * dy - v * dx
      BY <2>1, <2>3
    <3> QED
      BY <3>1
  <2>4. CASE s = 1 /\ t = -1
    <3>1. n = u * (-dy) - (-v) * dx
      BY <2>1, <2>4
    <3> QED
      BY <1>1, <2>2, <3>1
  <2>5. CASE s = -1 /\ t = 1
    <3>1. n = (-u) * dy - v * (-dx)
      BY <2>1, <2>5
    <3> QED
      BY <1>1, <2>2, <3>1
  <2>6. CASE s = -1 /\ t = -1
    <3>1. n = (-u) * (-dy) - (-v) * (-dx)
      BY <2>1, <2>6
    <3> QED
      BY <1>1, <2>2, <3>1
  <2> QED
    BY <2>3, <2>4, <2>5, <2>6
<1> HIDE DEF n, P, Q
<1>3. Abs(n) = Abs(Q - P)
  BY <1>1, <1>2 DEF Abs
<1> QED
  BY <1>3 DEF CrossFits, n, P, Q

\* The points of the line are those within half a pixel of it.
LineCovered(x1, y1, x2, y2, dx, dy) ==
  /\ \A q \in LinePoints(x1, y1, x2, y2) :
       \E u \in 0..dx, v \in 0..dy :
         /\ q = LinePoint(x1, y1, x2, y2, u, v)
         /\ 2 * Abs(v * dx - u * dy) <= Longer(dx, dy)
  /\ \A u \in 0..dx, v \in 0..dy :
       2 * Abs(v * dx - u * dy) < Longer(dx, dy) \/ 2 * Abs(v * dx - u * dy) = 0 =>
         LinePoint(x1, y1, x2, y2, u, v) \in LinePoints(x1, y1, x2, y2)

LEMMA LineCovers ==
  ASSUME NEW x1 \in Int, NEW y1 \in Int, NEW x2 \in Int, NEW y2 \in Int,
         NEW dx \in Nat, dx = Abs(x2 - x1), NEW dy \in Nat, dy = Abs(y2 - y1)
  PROVE  LineCovered(x1, y1, x2, y2, dx, dy)
<1>1. ASSUME NEW q \in LinePoints(x1, y1, x2, y2)
      PROVE  \E u \in 0..dx, v \in 0..dy :
               /\ q = LinePoint(x1, y1, x2, y2, u, v)
               /\ 2 * Abs(v * dx - u * dy) <= Longer(dx, dy)
  <2>1. PICK i \in 0..Longer(dx, dy), a \in Nat, b \in Nat :
          Stepped(dx, dy, i, a, b) /\ q = LinePoint(x1, y1, x2, y2, a, b)
    BY LineRuns
  <2>2. a \in 0..dx /\ b \in 0..dy
    BY <2>1, LineArrives
  <2>3. /\ dx >= dy => 2 * (b * dx - a * dy) \in (-dx)..dx
        /\ dy >= dx => 2 * (b * dx - a * dy) \in (-dy)..dy
    BY <2>1 DEF Stepped, LineOK
  <2> DEFINE d == b * dx - a * dy
  <2>4. d \in Int
    OBVIOUS
  <2> HIDE DEF d
  <2>5. 2 * Abs(d) <= Longer(dx, dy)
    <3>1. /\ dx >= dy => 2 * d \in (-dx)..dx
          /\ dy >= dx => 2 * d \in (-dy)..dy
      BY <2>3 DEF d
    <3> QED
      BY <2>4, <3>1 DEF Abs, Longer
  <2> QED
    BY <2>1, <2>2, <2>5 DEF d
<1>2. ASSUME NEW u \in 0..dx, NEW v \in 0..dy,
             2 * Abs(v * dx - u * dy) < Longer(dx, dy) \/ 2 * Abs(v * dx - u * dy) = 0
      PROVE  LinePoint(x1, y1, x2, y2, u, v) \in LinePoints(x1, y1, x2, y2)
  <2> DEFINE d == v * dx - u * dy
             L == Longer(dx, dy)
  <2>1. d \in Int
    OBVIOUS
  <2>2. (-L < 2 * d /\ 2 * d < L) \/ 2 * d = 0
    <3>1. 2 * Abs(d) < L \/ 2 * Abs(d) = 0
      BY <1>2
    <3>2. L \in Nat
      BY DEF Longer
    <3> HIDE DEF d, L
    <3> QED
      BY <2>1, <3>1, <3>2 DEF Abs
  <2>3. CASE dx >= dy
    <3>1. L = dx /\ u \in 0..L /\ dy \in 0..dx
      BY <2>3 DEF Longer
    <3> HIDE DEF L
    <3>2. PICK a \in Nat, b \in Nat :
            Stepped(dx, dy, u, a, b) /\ LinePoint(x1, y1, x2, y2, a, b) \in LinePoints(x1, y1, x2, y2)
      BY <3>1, LineRuns DEF L
    <3> DEFINE e == 2 * (b * dx - u * dy)
               w == 2 * (v * dx - u * dy)
    <3>3. a = u /\ e \in (-dx)..dx /\ e \in Int /\ (dx = 0 => b = 0)
      <4>1. a = u /\ 2 * (b * dx - a * dy) \in (-dx)..dx /\ (dy = 0 => b = 0)
        BY <2>3, <3>2 DEF Stepped, LineOK
      <4>2. e \in (-dx)..dx
        BY <4>1
      <4> HIDE DEF e
      <4> QED
        BY <2>3, <4>1, <4>2
    <3>4. (-dx < w /\ w < dx) \/ w = 0
      BY <2>2, <3>1
    <3> HIDE DEF e, w
    <3>5. v = b \/ dx = 0
      <4>1. 2 * (b * dx - u * dy) \in (-dx)..dx
        BY <3>3 DEF e
      <4>2. OnlyNear(dx, dy, u, b)
        BY <3>1, <3>3, <4>1, NearOnly
      <4>3. v \in Nat
        OBVIOUS
      <4> QED
        BY <3>4, <4>2, <4>3, Zenon DEF OnlyNear, w
    <3>6. dx = 0 => v = 0
      BY <2>3
    <3>7. v = b
      BY <3>3, <3>5, <3>6
    <3> QED
      BY <3>2, <3>3, <3>7
  <2>4. CASE dy > dx
    <3>1. L = dy /\ v \in 0..L /\ dx \in 0..dy
      BY <2>4 DEF Longer
    <3> HIDE DEF L
    <3>2. PICK a \in Nat, b \in Nat :
            Stepped(dx, dy, v, a, b) /\ LinePoint(x1, y1, x2, y2, a, b) \in LinePoints(x1, y1, x2, y2)
      BY <3>1, LineRuns DEF L
    <3> DEFINE e == 2 * (a * dy - v * dx)
               w == 2 * (u * dy - v * dx)
    <3>3. b = v /\ 2 * (v * dx - a * dy) \in (-dy)..dy
      BY <2>4, <3>2 DEF Stepped, LineOK
    <3>4. e \in (-dy)..dy /\ e \in Int
      <4> DEFINE P == v * dx
                 Q == a * dy
      <4>1. P \in Int /\ Q \in Int /\ 2 * (P - Q) \in (-dy)..dy /\ e = 2 * (Q - P)
        BY <3>3
      <4> HIDE DEF P, Q, e
      <4> QED
        BY <4>1
    <3>5. (-dy < w /\ w < dy) \/ w = 0
      <4> DEFINE P == v * dx
                 Q == u * dy
      <4>1. P \in Int /\ Q \in Int /\ w = 2 * (Q - P)
            /\ ((-dy < 2 * (P - Q) /\ 2 * (P - Q) < dy) \/ 2 * (P - Q) = 0)
        BY <2>2, <3>1
      <4> HIDE DEF P, Q, w
      <4> QED
        BY <4>1
    <3> HIDE DEF e, w
    <3>6. u = a \/ dy = 0
      <4>1. 2 * (a * dy - v * dx) \in (-dy)..dy /\ (dy = 0 => a = 0)
        BY <2>4, <3>4 DEF e
      <4>2. OnlyNear(dy, dx, v, a)
        BY <3>1, <4>1, NearOnly
      <4>3. u \in Nat
        OBVIOUS
      <4> QED
        BY <3>5, <4>2, <4>3, Zenon DEF OnlyNear, w
    <3> QED
      BY <2>4, <3>2, <3>3, <3>6
  <2> QED
    BY <2>3, <2>4
<1> QED
  BY <1>1, <1>2, Zenon DEF LineCovered

\* The distance of a pixel from the line as its property computes it.
LineDistance(x1, y1, x2, y2, p) == Abs((p[1] - x1) * (y2 - y1) - (p[2] - y1) * (x2 - x1))
AwayBy(x1, y1, x2, y2, p, dx, dy, u, v) == LineDistance(x1, y1, x2, y2, p) = Abs(v * dx - u * dy)

LEMMA LineSeen ==
  ASSUME NEW x1 \in Int, NEW y1 \in Int, NEW x2 \in Int, NEW y2 \in Int,
         NEW dx \in Nat, dx = Abs(x2 - x1), NEW dy \in Nat, dy = Abs(y2 - y1),
         NEW u \in Nat, NEW v \in Nat, NEW p, p = LinePoint(x1, y1, x2, y2, u, v)
  PROVE  AwayBy(x1, y1, x2, y2, p, dx, dy, u, v)
<1> DEFINE s == Towards(x1, x2)
           t == Towards(y1, y2)
<1>1. s \in {-1, 1} /\ x2 - x1 = s * dx
  BY DEF Abs, Towards
<1>2. t \in {-1, 1} /\ y2 - y1 = t * dy
  BY DEF Abs, Towards
<1>3. p = <<x1 + s * u, y1 + t * v>>
  BY DEF LinePoint
<1> HIDE DEF s, t
<1>4. p[1] - x1 = s * u /\ p[2] - y1 = t * v
  BY <1>1, <1>2, <1>3
<1>5. CrossFits(s, t, dx, dy, u, v)
  BY <1>1, <1>2, LineCross
<1> QED
  BY <1>1, <1>2, <1>4, <1>5, Zenon DEF CrossFits, AwayBy, LineDistance

LEMMA LineDraws ==
  ASSUME BuffersOK, ModeOK, NEW x1 \in Int, NEW y1 \in Int, NEW x2 \in Int, NEW y2 \in Int,
         DrawLine(x1, y1, x2, y2)
  PROVE  ShapeDrawn
<1> DEFINE c == Call("line", x1, y1, x2 - x1, y2 - y1)
           points == LinePoints(x1, y1, x2, y2)
           cells == PutPixels(points)
           dx == Abs(x2 - x1)
           dy == Abs(y2 - y1)
           L == Longer(dx, dy)
           Point(u, v) == LinePoint(x1, y1, x2, y2, u, v)
           Off(u, v) == 2 * Abs(v * dx - u * dy)
<1>1. Draw(c, draw_target, Stroke(cells, Ink))
  BY DEF DrawLine
<1>2. dx \in Nat /\ dy \in Nat
  BY DEF Abs
<1>3. /\ c.op = "line" /\ c.x = x1 /\ c.y = y1 /\ c.width = x2 - x1 /\ c.height = y2 - y1
  BY DEF Call
<1>4. /\ \A q \in points : \E u \in 0..dx, v \in 0..dy : q = Point(u, v) /\ Off(u, v) <= L
      /\ \A u \in 0..dx, v \in 0..dy : Off(u, v) < L \/ Off(u, v) = 0 => Point(u, v) \in points
  <2> HIDE DEF points, dx, dy
  <2>1. dx = Abs(x2 - x1) /\ dy = Abs(y2 - y1)
    BY DEF dx, dy
  <2>2. LineCovered(x1, y1, x2, y2, dx, dy)
    BY <1>2, <2>1, LineCovers
  <2> QED
    BY <2>2, Zenon DEF LineCovered, points
<1>5. ASSUME NEW u \in 0..dx, NEW v \in 0..dy
      PROVE  /\ Point(u, v) = <<Point(u, v)[1], Point(u, v)[2]>>
             /\ Point(u, v)[1] \in Int /\ Point(u, v)[2] \in Int
             /\ 2 * Abs((Point(u, v)[1] - x1) * (y2 - y1) - (Point(u, v)[2] - y1) * (x2 - x1)) = Off(u, v)
  <2> DEFINE p == Point(u, v)
  <2>1. p = <<p[1], p[2]>> /\ p[1] \in Int /\ p[2] \in Int
    <3>1. Towards(x1, x2) * u \in Int /\ Towards(y1, y2) * v \in Int
      BY <1>2 DEF Towards
    <3> QED
      BY <3>1 DEF LinePoint
  <2> HIDE DEF p, dx, dy
  <2>2. dx = Abs(x2 - x1) /\ dy = Abs(y2 - y1) /\ p = LinePoint(x1, y1, x2, y2, u, v) /\ u \in Nat /\ v \in Nat
    BY <1>2 DEF dx, dy, p
  <2>3. AwayBy(x1, y1, x2, y2, p, dx, dy, u, v)
    BY <1>2, <2>2, LineSeen
  <2> QED
    BY <2>1, <2>3 DEF AwayBy, LineDistance, p
<1>6. ASSUME NEW px, NEW py, NEW was, NEW new, OnScreen(px, py),
             new = IF Offset(px, py) \in cells THEN Ink ELSE was[Offset(px, py)]
      PROVE  Right(c, <<px, py>>, was, new)
  <2> DEFINE p == <<px, py>>
             old == was[Offset(px, py)]
             off == 2 * Abs((px - x1) * (y2 - y1) - (py - y1) * (x2 - x1))
             inside == Between(x1, x1 + (x2 - x1), px) /\ Between(y1, y1 + (y2 - y1), py)
  <2>1. px \in Int /\ py \in Int
    BY <1>6, PixelsOnScreen
  <2>2. Offset(px, py) \in cells <=> p \in points
    <3> HIDE DEF points, dx, dy
    <3>1. points \subseteq Int \X Int
      <4> HIDE DEF Point, Off, L
      <4> QED
        BY <1>4, <1>5
    <3> QED
      BY <1>6, <3>1, PointsCells
  <2>3. inside <=> \E u \in 0..dx, v \in 0..dy : p = Point(u, v)
    <3>1. Between(x1, x1 + (x2 - x1), px) <=> \E u \in 0..dx : px = x1 + Towards(x1, x2) * u
      BY <1>2, <2>1, LineInside
    <3>2. Between(y1, y1 + (y2 - y1), py) <=> \E v \in 0..dy : py = y1 + Towards(y1, y2) * v
      BY <1>2, <2>1, LineInside
    <3>3. \A u, v : p = Point(u, v) <=> px = x1 + Towards(x1, x2) * u /\ py = y1 + Towards(y1, y2) * v
      BY DEF LinePoint
    <3> HIDE DEF Point, p, dx, dy
    <3> QED
      BY <3>1, <3>2, <3>3, Zenon
  <2>4. ASSUME NEW u \in 0..dx, NEW v \in 0..dy, p = Point(u, v) PROVE off = Off(u, v)
    <3>1. Point(u, v)[1] = px /\ Point(u, v)[2] = py
      BY <2>4
    <3> HIDE DEF Point, Off, dx, dy
    <3> QED
      BY <1>5, <3>1, Zenon
  <2>5. LineRight(c, p, new # old, new = Ink) <=>
          /\ new # old => inside /\ off <= L
          /\ inside /\ (off < L \/ off = 0) => new = Ink
    BY <1>3, Zenon DEF LineRight, Longer
  <2>6. (new # old => p \in points) /\ (p \in points => new = Ink)
    BY <1>6, <2>2
  <2> HIDE DEF c, points, old, inside, off, p, Point, Off, L, dx, dy
  <2>7. p \in points => inside /\ off <= L
    BY <1>4, <2>3, <2>4
  <2>8. inside /\ (off < L \/ off = 0) => p \in points
    BY <1>4, <2>3, <2>4
  <2>9. LineRight(c, p, new # old, new = Ink)
    BY <2>5, <2>6, <2>7, <2>8
  <2> QED
    BY <1>3, <2>6, <2>9 DEF Right, old, p
<1>7. cells \subseteq Offsets
  BY PointsInside
<1> HIDE DEF c, cells
<1> QED
  BY <1>1, <1>6, <1>7, InkDraws

-----------------------------------------------------------------------------
(* Every call                                                              *)

LEMMA SomethingDraws ==
  ASSUME DrawInv, DrawSomething
  PROVE  ShapeDrawn
<1>1. PICK x \in Xs, y \in Ys :
        \/ \E w, h \in Lengths :
             \/ FillRect(x, y, w, h)
             \/ DrawRect(x, y, w, h)
             \/ Panel("raised", x, y, w, h, WHITE, DARK)
             \/ Panel("sunken", x, y, w, h, DARK, WHITE)
             \/ \E s \in Shades : Gradient(x, y, w, h, s[1], s[2])
        \/ \E n \in Lengths : Hline(x, y, n) \/ Vline(x, y, n)
        \/ \E x2 \in Xs, y2 \in Ys : DrawLine(x, y, x2, y2)
        \/ \E r \in Radii : DrawCircle(x, y, r) \/ FillCircle(x, y, r)
        \/ DrawBitmap(x, y) \/ DrawBitmapAlpha(x, y)
        \/ \E n \in DOMAIN Texts, bg \in {0, DARK} : DrawString(x, y, n, bg)
  BY DEF DrawSomething
<1>2. BuffersOK /\ ModeOK
  BY DEF DrawInv, CursorInv
<1>3. Xs \subseteq Int /\ Ys \subseteq Int /\ Lengths \subseteq Nat /\ Radii \subseteq Nat
  BY GraphicsAssumption
<1>4. x \in Int /\ y \in Int
  BY <1>3
<1>5. ASSUME NEW w \in Lengths, NEW h \in Lengths, FillRect(x, y, w, h) PROVE ShapeDrawn
  BY <1>2, <1>3, <1>4, <1>5, FillRectDraws
<1>6. ASSUME NEW w \in Lengths, NEW h \in Lengths, DrawRect(x, y, w, h) PROVE ShapeDrawn
  BY <1>2, <1>3, <1>4, <1>6, DrawRectDraws
<1>7. ASSUME NEW w \in Lengths, NEW h \in Lengths, Panel("raised", x, y, w, h, WHITE, DARK)
      PROVE  ShapeDrawn
  BY <1>2, <1>3, <1>4, <1>7, PanelDraws
<1>8. ASSUME NEW w \in Lengths, NEW h \in Lengths, Panel("sunken", x, y, w, h, DARK, WHITE)
      PROVE  ShapeDrawn
  BY <1>2, <1>3, <1>4, <1>8, PanelDraws
<1>9. ASSUME NEW w \in Lengths, NEW h \in Lengths, NEW s \in Shades,
             Gradient(x, y, w, h, s[1], s[2])
      PROVE  ShapeDrawn
  <2>1. s[1] \in 0..255 /\ s[2] \in 0..255
    BY GraphicsAssumption
  <2> QED
    BY <1>2, <1>3, <1>4, <1>9, <2>1, GradientDraws
<1>10. ASSUME NEW n \in Lengths, Hline(x, y, n) \/ Vline(x, y, n) PROVE ShapeDrawn
  BY <1>2, <1>3, <1>4, <1>10, RowsDraw
<1>11. ASSUME NEW x2 \in Xs, NEW y2 \in Ys, DrawLine(x, y, x2, y2) PROVE ShapeDrawn
  BY <1>2, <1>3, <1>4, <1>11, LineDraws
<1>12. ASSUME NEW r \in Radii, DrawCircle(x, y, r) \/ FillCircle(x, y, r) PROVE ShapeDrawn
  BY <1>2, <1>3, <1>4, <1>12, CircleDraws, DiscDraws
<1>13. ASSUME DrawBitmap(x, y) \/ DrawBitmapAlpha(x, y) PROVE ShapeDrawn
  BY <1>2, <1>4, <1>13, BitmapDraws, BlendDraws
<1>14. ASSUME NEW n \in DOMAIN Texts, NEW bg, DrawString(x, y, n, bg) PROVE ShapeDrawn
  BY <1>2, <1>4, <1>14, StringDraws
<1> QED
  BY <1>1, <1>5, <1>6, <1>7, <1>8, <1>9, <1>10, <1>11, <1>12, <1>13, <1>14, Zenon

LEMMA StepDraws == DrawInv /\ Next => ShapeDrawn
<1> SUFFICES ASSUME DrawInv, Next PROVE ShapeDrawn
  OBVIOUS
<1>1. BuffersOK /\ ModeOK /\ memory[draw_target] \in [Cells(draw_target) -> Int]
  BY TargetIsBuffer DEF DrawInv, CursorInv, ContentsOK
<1>2. CASE InitFb \/ Toggle \/ Swap \/ Cursor
  <2>1. last' = None
    BY <1>2 DEF InitFb, Toggle, Swap, Cursor, NoCall, gfx_save_cursor_bg, gfx_draw_cursor,
                gfx_restore_cursor_bg, CursorStep
  <2> QED
    BY <2>1 DEF ShapeDrawn
<1>3. CASE DrawSomething
  BY <1>3, SomethingDraws
<1>4. CASE Clear
  BY <1>1, <1>4, ClearDraws
<1>5. CASE CopyRect
  BY <1>1, <1>5, CopyDraws
<1> QED
  BY <1>2, <1>3, <1>4, <1>5 DEF Next

\* Every drawing call of gui/graphics.c, gui/font.c and the two of the frame
\* buffer paints in one buffer the pixels of its shape that are on the screen
\* and no other, and leaves the other buffer alone: the buffer that double
\* buffering selects, unless fb_init found double buffering on.  No call passes
\* the end of a buffer unless the screen is larger than the back buffer.  That
\* holds whatever the sizes of both, the arguments, the pictures and the texts.
THEOREM CallsDrawTheirShape == Spec => DrawsItsShape
<1>1. DrawInv /\ [Next]_vars => [ShapeDrawn]_vars
  BY StepDraws
<1> QED
  BY <1>1, InitDrawInv, NextDrawInv, PTL DEF Spec, DrawsItsShape, ShapeDrawn

=============================================================================
