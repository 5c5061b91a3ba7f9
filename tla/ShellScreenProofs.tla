-------------------------- MODULE ShellScreenProofs -------------------------
(***************************************************************************)
(* Theorems about the prompt and the text screen for lines, histories and  *)
(* screens of any size, any characters, any output of the commands and any *)
(* prompts.                                                                *)
(***************************************************************************)
EXTENDS ShellScreen, SequenceTheorems, FiniteSetTheorems,
        WellFoundedInduction, TLAPS

-----------------------------------------------------------------------------
(* Loops                                                                   *)

\* A non-empty set of naturals has a least member, from the well-foundedness of <.
LEMMA LeastNatural ==
  ASSUME NEW S, S \subseteq Nat, S # {}
  PROVE  \E n \in S : \A m \in S : n <= m
<1>1. PICK n \in S : \A m \in S : ~(<<m, n>> \in OpToRel(<, Nat))
  BY NatLessThanWellFounded, WFMin, Zenon
<1>2. \A m \in S : ~(m < n)
  BY <1>1, Zenon DEF OpToRel
<1> QED
  BY <1>2

\* Counting from 0 to n.
LEMMA UpToN ==
  ASSUME NEW n \in Nat, NEW T, 0 \in T, \A k \in 1..n : k - 1 \in T => k \in T
  PROVE  \A k \in 0..n : k \in T
<1> DEFINE missed == {k \in 0..n : k \notin T}
<1> SUFFICES ASSUME missed # {} PROVE FALSE
  OBVIOUS
<1>1. missed \subseteq Nat
  OBVIOUS
<1> HIDE DEF missed
<1>2. PICK k \in missed : \A m \in missed : k <= m
  BY <1>1, LeastNatural
<1>3. k \in 0..n /\ k \notin T
  BY <1>2 DEF missed
<1>4. k \in 1..n /\ k - 1 \in 0..n /\ ~(k <= k - 1)
  BY <1>3
<1>5. k - 1 \in T
  BY <1>2, <1>4 DEF missed
<1> QED
  BY <1>3, <1>4, <1>5

\* A loop of n steps from b, step j of which turns the value s into G[j][s],
\* computes something.
Computes(n, S, b, G) ==
  \E f \in [0..n -> S] : f[0] = b /\ \A j \in 1..n : f[j] = G[j][f[j - 1]]

LEMMA LoopExists ==
  ASSUME NEW n \in Nat, NEW S, NEW b \in S, NEW G \in [1..n -> [S -> S]]
  PROVE  Computes(n, S, b, G)
<1> DEFINE Runs(f, k) == f[0] = b /\ \A j \in 1..k : f[j] = G[j][f[j - 1]]
           T == {k \in 0..n : \E f \in [0..k -> S] : Runs(f, k)}
<1>1. 0 \in T
  <2> DEFINE g == [j \in 0..0 |-> b]
  <2>1. g \in [0..0 -> S] /\ g[0] = b
    OBVIOUS
  <2> HIDE DEF g
  <2>2. Runs(g, 0)
    BY <2>1
  <2> QED
    BY <2>1, <2>2
<1>2. ASSUME NEW k \in 1..n, k - 1 \in T PROVE k \in T
  <2>1. PICK f \in [0..(k - 1) -> S] : Runs(f, k - 1)
    BY <1>2
  <2> DEFINE v == G[k][f[k - 1]]
             g == [j \in 0..k |-> IF j = k THEN v ELSE f[j]]
  <2>2. k \in Nat /\ k # 0 /\ k - 1 \in 0..(k - 1) /\ k \in 0..n /\ k \in 0..k /\ 0 \in 0..k
    OBVIOUS
  <2>3. v \in S
    <3>1. f[k - 1] \in S /\ G[k] \in [S -> S]
      BY <2>2
    <3> QED
      BY <3>1
  <2> HIDE DEF v
  <2>4. g \in [0..k -> S]
    BY <2>2, <2>3
  <2>5. g[k] = v /\ \A j \in 0..k : j # k => g[j] = f[j]
    BY <2>2
  <2> HIDE DEF g
  <2>6. g[0] = b
    BY <2>1, <2>2, <2>5
  <2>7. ASSUME NEW j \in 1..k PROVE g[j] = G[j][g[j - 1]]
    <3>1. j - 1 \in 0..k /\ j - 1 # k
      BY <2>2
    <3>2. g[j - 1] = f[j - 1]
      BY <2>5, <3>1
    <3>3. CASE j = k
      BY <2>5, <3>2, <3>3 DEF v
    <3>4. CASE j # k
      <4>1. j \in 1..(k - 1) /\ j \in 0..k
        BY <2>2, <3>4
      <4>2. f[j] = G[j][f[j - 1]]
        BY <2>1, <4>1
      <4> QED
        BY <2>5, <3>2, <3>4, <4>1, <4>2
    <3> QED
      BY <3>3, <3>4
  <2>8. Runs(g, k)
    BY <2>6, <2>7
  <2> QED
    BY <2>2, <2>4, <2>8
<1>3. n \in T
  <2> HIDE DEF T
  <2>1. \A k \in 0..n : k \in T
    BY <1>1, <1>2, UpToN
  <2> QED
    BY <2>1
<1> QED
  BY <1>3 DEF Computes

-----------------------------------------------------------------------------
(* The screen                                                              *)

Glyphs ==
  Chars \cup Times \cup {" ", "\n", "bs"}
    \cup {Header[x] : x \in Columns} \cup {Footer[x] : x \in Columns}
    \cup UNION {Range(text) : text \in Prompts \cup Outputs}

Screens == [vga : [Rows -> [Columns -> Glyphs]], x : Int, y : Int]

\* Between two characters: the cursor is between the bars, the footer is there,
\* and nothing stands in the rows below the cursor.
Clean(s) ==
  /\ s \in Screens /\ s.x \in Columns /\ s.y \in 1..(VGA_HEIGHT - 2)
  /\ s.vga[VGA_HEIGHT - 1] = Footer
  /\ \A r \in (s.y + 1)..(VGA_HEIGHT - 2) : s.vga[r] = BlankRow

LEMMA Sizes ==
  /\ VGA_WIDTH \in Nat \ {0} /\ VGA_HEIGHT \in Nat /\ VGA_HEIGHT > 2
  /\ CLOCK_X \in Columns /\ 0 \in Columns
  /\ 0 \in Rows /\ VGA_HEIGHT - 1 \in Rows /\ VGA_HEIGHT - 2 \in Rows
  /\ \A r \in 1..(VGA_HEIGHT - 2) : r \in Rows /\ r \in Nat /\ r # 0 /\ r # VGA_HEIGHT - 1
  /\ \A r \in Rows : r \in Nat
  /\ \A x \in Columns : x \in Nat /\ x < VGA_WIDTH
BY ConsoleAssumption DEF Columns, Rows

LEMMA FixedRows ==
  /\ Header \in [Columns -> Glyphs] /\ Footer \in [Columns -> Glyphs]
  /\ BlankRow \in [Columns -> Glyphs] /\ " " \in Glyphs
<1>1. Header = [x \in Columns |-> Header[x]] /\ Footer = [x \in Columns |-> Footer[x]]
  BY ConsoleAssumption DEF Columns
<1>2. \A x \in Columns : Header[x] \in Glyphs /\ Footer[x] \in Glyphs
  BY DEF Glyphs
<1>3. " " \in Glyphs
  BY DEF Glyphs
<1> QED
  BY <1>1, <1>2, <1>3 DEF BlankRow

\* A character changes one cell.
LEMMA OneCell ==
  ASSUME NEW s \in Screens, NEW c \in Glyphs, NEW x \in Int, NEW y \in Int
  PROVE  LET t == put_char_raw(s, c, x, y)
         IN  /\ t \in Screens /\ t.x = s.x /\ t.y = s.y
             /\ \A r \in Rows : r # y => t.vga[r] = s.vga[r]
             /\ x \in Columns /\ y \in Rows => t.vga[y] = [s.vga[y] EXCEPT ![x] = c]
<1> DEFINE t == put_char_raw(s, c, x, y)
           e == [s EXCEPT !.vga[y][x] = c]
<1>1. s.vga \in [Rows -> [Columns -> Glyphs]] /\ s.x \in Int /\ s.y \in Int
  BY DEF Screens
<1>2. CASE x \in Columns /\ y \in Rows
  <2>1. t = e
    BY <1>2 DEF put_char_raw
  <2> DEFINE v == [s.vga EXCEPT ![y] = [s.vga[y] EXCEPT ![x] = c]]
  <2>2. s.vga[y] \in [Columns -> Glyphs]
    BY <1>1, <1>2
  <2>3. [s.vga[y] EXCEPT ![x] = c] \in [Columns -> Glyphs]
    BY <2>2
  <2>4. /\ v \in [Rows -> [Columns -> Glyphs]] /\ v[y] = [s.vga[y] EXCEPT ![x] = c]
        /\ \A r \in Rows : r # y => v[r] = s.vga[r]
    BY <1>1, <1>2, <2>3
  <2>5. e = [s EXCEPT !.vga = v]
    BY DEF Screens
  <2> HIDE DEF v
  <2>6. e \in Screens /\ e.vga = v /\ e.x = s.x /\ e.y = s.y
    BY <2>4, <2>5 DEF Screens
  <2> QED
    BY <1>2, <2>1, <2>4, <2>6
<1>3. CASE ~(x \in Columns /\ y \in Rows)
  BY <1>3 DEF put_char_raw
<1> QED
  BY <1>2, <1>3

\* The cursor goes elsewhere, with or without a change of the picture.
At(s, x, y) == [s EXCEPT !.x = x, !.y = y]
InRow(s, x) == [s EXCEPT !.x = x]
Filled(s, v) == [s EXCEPT !.vga = v, !.y = VGA_HEIGHT - 2]

LEMMA CursorTo ==
  ASSUME NEW s \in Screens, NEW x \in Int, NEW y \in Int
  PROVE  LET t == At(s, x, y)
         IN  t \in Screens /\ t.vga = s.vga /\ t.x = x /\ t.y = y
<1> DEFINE V == [Rows -> [Columns -> Glyphs]]
<1>1. s \in [vga : V, x : Int, y : Int]
  BY DEF Screens
<1>2. Screens = [vga : V, x : Int, y : Int]
  BY DEF Screens
<1> HIDE DEF V
<1> QED
  BY <1>1, <1>2 DEF At

LEMMA CursorInRow ==
  ASSUME NEW s \in Screens, NEW x \in Int
  PROVE  LET t == InRow(s, x)
         IN  t \in Screens /\ t.vga = s.vga /\ t.x = x /\ t.y = s.y
<1> DEFINE V == [Rows -> [Columns -> Glyphs]]
<1>1. s \in [vga : V, x : Int, y : Int]
  BY DEF Screens
<1>2. Screens = [vga : V, x : Int, y : Int]
  BY DEF Screens
<1> HIDE DEF V
<1> QED
  BY <1>1, <1>2 DEF InRow

\* What the screen memory may hold.
Pictures == [Rows -> [Columns -> Glyphs]]

LEMMA CursorAndCells ==
  ASSUME NEW s \in Screens, NEW v \in Pictures
  PROVE  LET t == Filled(s, v)
         IN  t \in Screens /\ t.vga = v /\ t.x = s.x /\ t.y = VGA_HEIGHT - 2
<1>1. Screens = [vga : Pictures, x : Int, y : Int]
  BY DEF Screens, Pictures
<1>2. VGA_HEIGHT - 2 \in Int
  BY Sizes
<1> QED
  BY <1>1, <1>2 DEF Filled

\* The screen and the cursor after a newline and, where one is needed, a scroll.
Broken(s) == Scrolled(Newline(s))

LEMMA NewRow ==
  ASSUME NEW s, s \in Screens, s.y \in 1..(VGA_HEIGHT - 2), s.vga[VGA_HEIGHT - 1] = Footer,
         \A r \in (s.y + 1)..(VGA_HEIGHT - 2) : s.vga[r] = BlankRow
  PROVE  LET t == Broken(s)
         IN  /\ Clean(t) /\ t.x = 0 /\ t.vga[t.y] = BlankRow /\ t.vga[0] = s.vga[0]
<1> DEFINE n == Newline(s)
           t == Broken(s)
<1>1. s.vga \in [Rows -> [Columns -> Glyphs]] /\ s.x \in Int /\ s.y \in Int
  BY DEF Screens
<1>2. n \in Screens /\ n.vga = s.vga /\ n.x = 0 /\ n.y = s.y + 1
  <2>1. n = At(s, 0, s.y + 1) /\ 0 \in Int /\ s.y + 1 \in Int
    BY <1>1 DEF Newline, At
  <2> QED
    BY <2>1, CursorTo
<1> HIDE DEF n
<1>3. CASE n.y >= VGA_HEIGHT - 1
  <2> DEFINE v == [y \in Rows |-> IF y = VGA_HEIGHT - 2 THEN BlankRow
                                  ELSE IF y \in 1..(VGA_HEIGHT - 3) THEN n.vga[y + 1] ELSE n.vga[y]]
  <2>1. t = [n EXCEPT !.vga = v, !.y = VGA_HEIGHT - 2]
    BY <1>3 DEF Broken, Scrolled, scroll, n
  <2>2. \A y \in 1..(VGA_HEIGHT - 3) : y + 1 \in Rows
    BY Sizes DEF Rows
  <2>3. v \in [Rows -> [Columns -> Glyphs]]
    BY <1>1, <1>2, <2>2, FixedRows
  <2>4. v[VGA_HEIGHT - 2] = BlankRow
    BY Sizes
  <2>5. v[VGA_HEIGHT - 1] = Footer /\ v[0] = s.vga[0]
    <3>1. /\ VGA_HEIGHT - 1 # VGA_HEIGHT - 2 /\ VGA_HEIGHT - 1 \notin 1..(VGA_HEIGHT - 3)
          /\ 0 # VGA_HEIGHT - 2 /\ 0 \notin 1..(VGA_HEIGHT - 3)
      BY Sizes
    <3> QED
      BY <1>2, <3>1, Sizes
  <2> HIDE DEF v
  <2>6. t \in Screens /\ t.vga = v /\ t.x = 0 /\ t.y = VGA_HEIGHT - 2
    <3>1. t = Filled(n, v)
      BY <2>1 DEF Filled
    <3>2. n \in Screens /\ n.x = 0 /\ v \in Pictures
      BY <1>2, <2>3 DEF Pictures
    <3> HIDE DEF t
    <3> QED
      BY <3>1, <3>2, CursorAndCells
  <2>7. \A r \in (t.y + 1)..(VGA_HEIGHT - 2) : t.vga[r] = BlankRow
    BY <2>6, Sizes
  <2>8. t.y \in 1..(VGA_HEIGHT - 2) /\ t.x \in Columns
    BY <2>6, Sizes
  <2> HIDE DEF t
  <2> QED
    BY <2>4, <2>5, <2>6, <2>7, <2>8 DEF Clean, t
<1>4. CASE ~(n.y >= VGA_HEIGHT - 1)
  <2>1. t = n
    BY <1>4 DEF Broken, Scrolled, n
  <2>2. n.y \in 1..(VGA_HEIGHT - 2) /\ n.x \in Columns
    BY <1>2, <1>4, Sizes
  <2>3. n.vga[n.y] = BlankRow
    BY <1>2, <2>2
  <2>4. \A r \in (n.y + 1)..(VGA_HEIGHT - 2) : n.vga[r] = BlankRow
    BY <1>1, <1>2, Sizes
  <2> HIDE DEF t
  <2> QED
    BY <1>2, <2>1, <2>2, <2>3, <2>4 DEF Clean, t
<1> QED
  BY <1>3, <1>4

\* A character in the row of the cursor leaves the other rows as they are.
LEMMA CleanCell ==
  ASSUME NEW s, Clean(s), NEW c \in Glyphs, NEW x \in Columns
  PROVE  LET t == put_char_raw(s, c, x, s.y)
         IN  /\ t \in Screens /\ t.x = s.x /\ t.y = s.y
             /\ t.vga[0] = s.vga[0] /\ t.vga[s.y] = [s.vga[s.y] EXCEPT ![x] = c]
             /\ t.vga[VGA_HEIGHT - 1] = Footer
             /\ \A r \in (t.y + 1)..(VGA_HEIGHT - 2) : t.vga[r] = BlankRow
<1> DEFINE t == put_char_raw(s, c, x, s.y)
<1>1. /\ s \in Screens /\ x \in Int /\ s.y \in Int /\ s.y \in Rows
      /\ 0 \in Rows /\ 0 # s.y /\ VGA_HEIGHT - 1 \in Rows /\ VGA_HEIGHT - 1 # s.y
  BY Sizes DEF Clean
<1>2. /\ t \in Screens /\ t.x = s.x /\ t.y = s.y
      /\ \A r \in Rows : r # s.y => t.vga[r] = s.vga[r]
      /\ t.vga[s.y] = [s.vga[s.y] EXCEPT ![x] = c]
  BY <1>1, OneCell
<1> HIDE DEF t
<1>3. \A r \in (s.y + 1)..(VGA_HEIGHT - 2) : r \in Rows /\ r # s.y
  BY <1>1, Sizes DEF Rows
<1>4. \A r \in (t.y + 1)..(VGA_HEIGHT - 2) : t.vga[r] = BlankRow
  BY <1>2, <1>3 DEF Clean
<1> QED
  BY <1>1, <1>2, <1>4 DEF t, Clean

Shown(s, t) == Clean(t) /\ t.vga[0] = s.vga[0]

\* '\n': the cursor goes to an empty row.
LEMMA PutNewline ==
  ASSUME NEW s, Clean(s)
  PROVE  LET t == put_char(s, "\n")
         IN  Shown(s, t) /\ t.x = 0 /\ t.vga[t.y] = BlankRow
<1>1. Written(s, "\n") = Newline(s)
  BY DEF Written
<1>2. Newline(s).x = 0
  <2>1. s \in Screens /\ s.y + 1 \in Int /\ 0 \in Int
    BY DEF Clean
  <2>2. Newline(s) = At(s, 0, s.y + 1)
    BY DEF Newline, At
  <2> QED
    BY <2>1, <2>2, CursorTo
<1>3. ~(Newline(s).x >= VGA_WIDTH)
  BY <1>2, Sizes
<1>4. put_char(s, "\n") = Broken(s)
  BY <1>1, <1>3 DEF put_char, Wrapped, Broken
<1> QED
  BY <1>4, NewRow DEF Clean, Shown

\* '\b': within its row.
LEMMA PutBack ==
  ASSUME NEW s, Clean(s)
  PROVE  LET t == put_char(s, "bs")
             x == IF s.x > 0 THEN s.x - 1 ELSE 0
         IN  /\ Shown(s, t) /\ t.x = x /\ t.y = s.y
             /\ t.vga[t.y] = [s.vga[s.y] EXCEPT ![x] = " "]
<1> DEFINE x == IF s.x > 0 THEN s.x - 1 ELSE 0
           r == InRow(s, x)
           t == put_char_raw(r, " ", x, r.y)
<1>1. x \in Columns /\ x \in Int /\ s \in Screens
  BY Sizes DEF Clean, Columns
<1>2. Written(s, "bs") = put_char_raw(r, " ", x, s.y)
  BY DEF Written, InRow
<1> HIDE DEF x
<1>3. r \in Screens /\ r.vga = s.vga /\ r.x = x /\ r.y = s.y
  BY <1>1, CursorInRow
<1> HIDE DEF r
<1>4. Clean(r)
  BY <1>1, <1>3 DEF Clean
<1>5. /\ t \in Screens /\ t.x = x /\ t.y = s.y
      /\ t.vga[0] = s.vga[0] /\ t.vga[s.y] = [s.vga[s.y] EXCEPT ![x] = " "]
      /\ t.vga[VGA_HEIGHT - 1] = Footer
      /\ \A k \in (t.y + 1)..(VGA_HEIGHT - 2) : t.vga[k] = BlankRow
  <2>1. " " \in Glyphs
    BY FixedRows
  <2>2. /\ t \in Screens /\ t.x = r.x /\ t.y = r.y
        /\ t.vga[0] = r.vga[0] /\ t.vga[r.y] = [r.vga[r.y] EXCEPT ![x] = " "]
        /\ t.vga[VGA_HEIGHT - 1] = Footer
        /\ \A k \in (t.y + 1)..(VGA_HEIGHT - 2) : t.vga[k] = BlankRow
    <3> DEFINE c == " "
    <3>1. c \in Glyphs
      BY <2>1
    <3> HIDE DEF c
    <3>2. LET u == put_char_raw(r, c, x, r.y)
          IN  /\ u \in Screens /\ u.x = r.x /\ u.y = r.y
              /\ u.vga[0] = r.vga[0] /\ u.vga[r.y] = [r.vga[r.y] EXCEPT ![x] = c]
              /\ u.vga[VGA_HEIGHT - 1] = Footer
              /\ \A k \in (u.y + 1)..(VGA_HEIGHT - 2) : u.vga[k] = BlankRow
      BY <1>1, <1>4, <3>1, CleanCell
    <3> QED
      BY <3>2 DEF c
  <2> HIDE DEF t
  <2> QED
    BY <1>3, <2>2
<1> HIDE DEF t
<1>6. ~(t.x >= VGA_WIDTH) /\ ~(t.y >= VGA_HEIGHT - 1) /\ t.y \in 1..(VGA_HEIGHT - 2)
  <2>1. s.y \in 1..(VGA_HEIGHT - 2)
    BY DEF Clean
  <2>2. t.x = x /\ t.y = s.y
    BY <1>5
  <2>3. VGA_HEIGHT \in Int
    BY Sizes
  <2> QED
    <3>1. t.y \in 1..(VGA_HEIGHT - 2) /\ VGA_HEIGHT \in Int
      BY <2>1, <2>2, <2>3
    <3>2. ~(t.y >= VGA_HEIGHT - 1)
      BY <3>1
    <3>3. ~(t.x >= VGA_WIDTH)
      BY <1>1, <2>2, Sizes
    <3> QED
      BY <3>1, <3>2, <3>3
<1>7. put_char(s, "bs") = t
  BY <1>2, <1>3, <1>6 DEF put_char, Wrapped, Scrolled, t
<1>8. Clean(t)
  BY <1>1, <1>5, <1>6 DEF Clean
<1> QED
  BY <1>5, <1>7, <1>8 DEF Shown, x

\* Any other character: at the end of the row the cursor goes to an empty one.
LEMMA PutGlyph ==
  ASSUME NEW s, Clean(s), NEW c \in Glyphs \ {"\n", "bs"}
  PROVE  LET t == put_char(s, c)
         IN  /\ Shown(s, t)
             /\ s.x + 1 < VGA_WIDTH =>
                  /\ t.x = s.x + 1 /\ t.y = s.y
                  /\ t.vga[t.y] = [s.vga[s.y] EXCEPT ![s.x] = c]
<1> DEFINE r == put_char_raw(s, c, s.x, s.y)
           w == InRow(r, s.x + 1)
<1>1. s.x \in Columns /\ s.x \in Int /\ s.x + 1 \in Int /\ s.y \in 1..(VGA_HEIGHT - 2) /\ s \in Screens
  BY Sizes DEF Clean, Columns
<1>2. Written(s, c) = w
  BY DEF Written, InRow
<1>3. /\ r \in Screens /\ r.x = s.x /\ r.y = s.y
      /\ r.vga[0] = s.vga[0] /\ r.vga[s.y] = [s.vga[s.y] EXCEPT ![s.x] = c]
      /\ r.vga[VGA_HEIGHT - 1] = Footer
      /\ \A k \in (r.y + 1)..(VGA_HEIGHT - 2) : r.vga[k] = BlankRow
  BY <1>1, CleanCell
<1> HIDE DEF r
<1>4. w \in Screens /\ w.vga = r.vga /\ w.x = s.x + 1 /\ w.y = s.y
  BY <1>1, <1>3, CursorInRow
<1> HIDE DEF w
<1>5. CASE s.x + 1 < VGA_WIDTH
  <2>1. ~(w.x >= VGA_WIDTH) /\ ~(w.y >= VGA_HEIGHT - 1) /\ w.x \in Columns
    BY <1>1, <1>4, <1>5, Sizes DEF Columns
  <2>2. put_char(s, c) = w
    BY <1>2, <2>1 DEF put_char, Wrapped, Scrolled
  <2>3. Clean(w)
    BY <1>1, <1>3, <1>4, <2>1 DEF Clean
  <2> QED
    BY <1>3, <1>4, <2>2, <2>3 DEF Shown
<1>6. CASE ~(s.x + 1 < VGA_WIDTH)
  <2>1. w.x >= VGA_WIDTH
    BY <1>1, <1>4, <1>6, Sizes
  <2>2. put_char(s, c) = Broken(w)
    BY <1>2, <2>1 DEF put_char, Wrapped, Broken
  <2>3. Shown(w, Broken(w))
    BY <1>1, <1>3, <1>4, NewRow DEF Shown
  <2> QED
    BY <1>3, <1>4, <1>6, <2>2, <2>3 DEF Shown
<1> QED
  BY <1>5, <1>6

LEMMA PutAny ==
  ASSUME NEW s, Clean(s), NEW c \in Glyphs
  PROVE  Shown(s, put_char(s, c))
<1>1. CASE c = "\n"
  BY <1>1, PutNewline
<1>2. CASE c = "bs"
  BY <1>2, PutBack
<1>3. CASE c \notin {"\n", "bs"}
  BY <1>3, PutGlyph
<1> QED
  BY <1>1, <1>2, <1>3

-----------------------------------------------------------------------------
(* Printing                                                                *)

\* What the loop of print goes through.
LEMMA PrintSteps ==
  ASSUME NEW s, Clean(s), NEW text \in Seq(Glyphs)
  PROVE  \E f : /\ f[0] = s /\ print(s, text) = f[Len(text)]
                /\ \A n \in 0..Len(text) : Shown(s, f[n])
                /\ \A n \in 1..Len(text) : f[n] = put_char(f[n - 1], text[n])
<1> DEFINE N == Len(text)
           T == {t \in Screens : Shown(s, t)}
           G == [n \in 1..N |-> [t \in T |-> put_char(t, text[n])]]
           printed[n \in 0..N] == IF n = 0 THEN s ELSE put_char(printed[n - 1], text[n])
<1>1. N \in Nat /\ \A n \in 1..N : text[n] \in Glyphs
  OBVIOUS
<1>2. s \in T
  BY DEF Shown, Clean
<1>3. print(s, text) = printed[N]
  BY DEF print
<1> HIDE DEF N
<1>4. \A n \in 1..N, t \in T : put_char(t, text[n]) \in T
  BY <1>1, PutAny DEF Shown, Clean
<1> HIDE DEF T
<1>5. G \in [1..N -> [T -> T]]
  BY <1>4
<1>6. \A n \in 1..N, t \in T : G[n][t] = put_char(t, text[n])
  OBVIOUS
<1> HIDE DEF G
<1>7. PICK f \in [0..N -> T] : f[0] = s /\ \A n \in 1..N : f[n] = G[n][f[n - 1]]
  <2>1. Computes(N, T, s, G)
    BY <1>1, <1>2, <1>5, LoopExists
  <2> QED
    BY <2>1 DEF Computes
<1>8. \A n \in 1..N : f[n] = put_char(f[n - 1], text[n])
  <2> SUFFICES ASSUME NEW n \in 1..N PROVE f[n] = put_char(f[n - 1], text[n])
    OBVIOUS
  <2>1. n - 1 \in 0..N
    BY <1>1
  <2>2. f[n - 1] \in T
    BY <2>1
  <2> QED
    BY <1>6, <1>7, <2>2
<1>9. f = [n \in 0..N |-> IF n = 0 THEN s ELSE put_char(f[n - 1], text[n])]
  <2>1. \A n \in 0..N : f[n] = IF n = 0 THEN s ELSE put_char(f[n - 1], text[n])
    <3> SUFFICES ASSUME NEW n \in 0..N
                 PROVE  f[n] = IF n = 0 THEN s ELSE put_char(f[n - 1], text[n])
      OBVIOUS
    <3>1. n # 0 => n \in 1..N
      BY <1>1
    <3> QED
      BY <1>7, <1>8, <3>1
  <2> QED
    BY <2>1
<1>10. printed = [n \in 0..N |-> IF n = 0 THEN s ELSE put_char(printed[n - 1], text[n])]
  BY <1>9, Zenon
<1> HIDE DEF printed
<1>11. \A n \in 0..N : n \in 0..N /\ printed[n] = f[n]
  <2> DEFINE M == {n \in 0..N : printed[n] = f[n]}
  <2>1. 0 \in M
    BY <1>1, <1>7, <1>10
  <2>2. ASSUME NEW n \in 1..N, n - 1 \in M PROVE n \in M
    <3>1. n \in 0..N /\ n # 0
      BY <1>1
    <3>2. printed[n] = put_char(printed[n - 1], text[n])
      BY <1>10, <3>1
    <3> QED
      BY <1>8, <2>2, <3>1, <3>2
  <2> HIDE DEF M
  <2>3. \A n \in 0..N : n \in M
    BY <1>1, <2>1, <2>2, UpToN
  <2> QED
    BY <2>3 DEF M
<1>12. N \in 0..N
  BY <1>1
<1>13. \A n \in 0..N : Shown(s, f[n])
  BY DEF T
<1> QED
  BY <1>3, <1>7, <1>8, <1>11, <1>12, <1>13 DEF N

\* So nothing that is printed touches the bars.
LEMMA PrintKeepsBars ==
  ASSUME NEW s, Clean(s), NEW text \in Seq(Glyphs)
  PROVE  Shown(s, print(s, text))
<1>1. PICK f : /\ f[0] = s /\ print(s, text) = f[Len(text)]
               /\ \A n \in 0..Len(text) : Shown(s, f[n])
               /\ \A n \in 1..Len(text) : f[n] = put_char(f[n - 1], text[n])
  BY PrintSteps
<1>2. Len(text) \in 0..Len(text)
  OBVIOUS
<1> QED
  BY <1>1, <1>2

-----------------------------------------------------------------------------
(* The row of the cursor                                                   *)

RowOf(t, n) == [x \in Columns |-> IF x < n THEN t[x] ELSE " "]

\* The row shows the first n characters of t, and the cursor stands after them.
Shows(s, t, n) == Clean(s) /\ s.x = n /\ s.vga[s.y] = RowOf(t, n)

LEMMA RowsAgree ==
  ASSUME NEW t, NEW u, NEW n \in Nat, \A x \in Columns : x < n => t[x] = u[x]
  PROVE  RowOf(t, n) = RowOf(u, n)
BY DEF RowOf

LEMMA ShowMore ==
  ASSUME NEW s, NEW t, NEW n \in Nat, Shows(s, t, n), n + 1 < VGA_WIDTH,
         t[n] \in Glyphs \ {"\n", "bs"}
  PROVE  Shows(put_char(s, t[n]), t, n + 1)
<1> DEFINE u == put_char(s, t[n])
<1>1. Clean(s) /\ s.x = n /\ s.vga[s.y] = RowOf(t, n)
  BY DEF Shows
<1>2. Clean(u) /\ u.x = n + 1 /\ u.vga[u.y] = [RowOf(t, n) EXCEPT ![n] = t[n]]
  BY <1>1, PutGlyph DEF Shown
<1>3. [RowOf(t, n) EXCEPT ![n] = t[n]] = RowOf(t, n + 1)
  <2>1. \A x \in Columns : x \in Nat
    BY Sizes
  <2>2. \A x \in Columns : x < n + 1 <=> x < n \/ x = n
    BY <2>1
  <2> QED
    BY <2>1, <2>2 DEF RowOf
<1> HIDE DEF u
<1> QED
  BY <1>2, <1>3 DEF Shows, u

LEMMA ShowLess ==
  ASSUME NEW s, NEW t, NEW n \in Nat \ {0}, Shows(s, t, n)
  PROVE  Shows(put_char(s, "bs"), t, n - 1)
<1> DEFINE u == put_char(s, "bs")
<1>1. Clean(s) /\ s.x = n /\ s.vga[s.y] = RowOf(t, n)
  BY DEF Shows
<1>2. Clean(u) /\ u.x = n - 1 /\ u.vga[u.y] = [RowOf(t, n) EXCEPT ![n - 1] = " "]
  <2>1. s.x > 0
    BY <1>1
  <2> QED
    BY <1>1, <2>1, PutBack DEF Shown
<1>3. [RowOf(t, n) EXCEPT ![n - 1] = " "] = RowOf(t, n - 1)
  <2>1. \A x \in Columns : x \in Nat
    BY Sizes
  <2> DEFINE m == n - 1
  <2>2. \A x \in Columns : (x < n <=> x < m \/ x = m) /\ ~(m < m)
    BY <2>1
  <2> HIDE DEF m
  <2>3. [RowOf(t, n) EXCEPT ![m] = " "] = RowOf(t, m)
    BY <2>2 DEF RowOf
  <2> QED
    BY <2>3 DEF m
<1> HIDE DEF u
<1> QED
  BY <1>2, <1>3 DEF Shows, u

LEMMA ShowText ==
  ASSUME NEW s, NEW t, NEW n \in Nat, Shows(s, t, n),
         NEW text \in Seq(Glyphs), \A k \in 1..Len(text) : text[k] \notin {"\n", "bs"},
         n + Len(text) < VGA_WIDTH, \A k \in 1..Len(text) : t[n + k - 1] = text[k]
  PROVE  Shows(print(s, text), t, n + Len(text))
<1>1. PICK f : /\ f[0] = s /\ print(s, text) = f[Len(text)]
               /\ \A k \in 0..Len(text) : Shown(s, f[k])
               /\ \A k \in 1..Len(text) : f[k] = put_char(f[k - 1], text[k])
  BY PrintSteps DEF Shows
<1> DEFINE N == Len(text)
           M == {k \in 0..N : Shows(f[k], t, n + k)}
<1>2. N \in Nat /\ \A k \in 1..N : text[k] \in Glyphs
  OBVIOUS
<1>3. n + N < VGA_WIDTH /\ \A k \in 1..N : t[n + k - 1] = text[k] /\ text[k] \notin {"\n", "bs"}
  OBVIOUS
<1>4. f[0] = s /\ print(s, text) = f[N] /\ \A k \in 1..N : f[k] = put_char(f[k - 1], text[k])
  BY <1>1
<1> HIDE DEF N
<1>5. 0 \in M
  BY <1>2, <1>4
<1>6. ASSUME NEW k \in 1..N, k - 1 \in M PROVE k \in M
  <2> DEFINE m == n + k - 1
  <2>1. m \in Nat /\ m = n + (k - 1) /\ m + 1 = n + k /\ k \in 0..N
    BY <1>2
  <2>2. m + 1 < VGA_WIDTH
    BY <1>2, <1>3, <2>1, Sizes
  <2>3. t[m] = text[k] /\ t[m] \in Glyphs \ {"\n", "bs"}
    BY <1>2, <1>3
  <2>4. Shows(f[k - 1], t, n + (k - 1))
    BY <1>6
  <2> HIDE DEF m
  <2>5. Shows(put_char(f[k - 1], t[m]), t, m + 1)
    BY <2>1, <2>2, <2>3, <2>4, ShowMore
  <2>6. f[k] = put_char(f[k - 1], t[m])
    BY <1>4, <2>3
  <2> QED
    BY <2>1, <2>5, <2>6
<1> HIDE DEF M
<1>7. \A k \in 0..N : k \in M
  BY <1>2, <1>5, <1>6, UpToN
<1>8. Shows(f[N], t, n + N)
  BY <1>2, <1>7 DEF M
<1> QED
  BY <1>4, <1>8 DEF N

LEMMA ShowErased ==
  ASSUME NEW s, NEW t, NEW n \in Nat, NEW m \in 0..n, Shows(s, t, n)
  PROVE  Shows(print(s, [i \in 1..m |-> "bs"]), t, n - m)
<1> DEFINE text == [i \in 1..m |-> "bs"]
<1>1. "bs" \in Glyphs
  BY DEF Glyphs
<1>2. m \in Nat /\ text \in Seq(Glyphs) /\ Len(text) = m /\ \A k \in 1..m : text[k] = "bs"
  BY <1>1
<1> HIDE DEF text
<1>3. PICK f : /\ f[0] = s /\ print(s, text) = f[m]
               /\ \A k \in 1..m : f[k] = put_char(f[k - 1], text[k])
  BY <1>2, PrintSteps DEF Shows
<1> DEFINE M == {k \in 0..m : Shows(f[k], t, n - k)}
<1>4. 0 \in M
  BY <1>2, <1>3
<1>5. ASSUME NEW k \in 1..m, k - 1 \in M PROVE k \in M
  <2> DEFINE r == n - (k - 1)
  <2>1. r \in Nat \ {0} /\ r - 1 = n - k /\ k \in 0..m
    BY <1>2
  <2>2. Shows(f[k - 1], t, r)
    BY <1>5
  <2> HIDE DEF r
  <2>3. Shows(put_char(f[k - 1], "bs"), t, r - 1)
    BY <2>1, <2>2, ShowLess
  <2>4. f[k] = put_char(f[k - 1], "bs")
    BY <1>2, <1>3
  <2> QED
    BY <2>1, <2>3, <2>4
<1> HIDE DEF M
<1>6. \A k \in 0..m : k \in M
  BY <1>2, <1>4, <1>5, UpToN
<1>7. Shows(f[m], t, n - m)
  BY <1>2, <1>6 DEF M
<1> QED
  BY <1>3, <1>7 DEF text

-----------------------------------------------------------------------------
(* The line                                                                *)

\* The text has no NUL, so it is a C string once a 0 is put behind it.
LineInv == LineTypeOK /\ \A i \in Cells : i < pos => line[i] \in Chars

LEMMA LineSizes ==
  /\ LINE_SIZE \in Nat \ {0} /\ HISTORY_SIZE \in Nat \ {0} /\ MAX_ARGS \in Nat
  /\ \A i : i \in Cells <=> i \in Nat /\ i < LINE_SIZE
  /\ \A i : i \in Entries <=> i \in Nat /\ i < HISTORY_SIZE
BY LineAssumption DEF Cells, Entries

LEMMA TextIsLine ==
  ASSUME LineInv
  PROVE  /\ Text \in Lines /\ Len(Text) = pos /\ pos \in Nat
         /\ \A i \in 1..pos : Text[i] = line[i - 1] /\ line[i - 1] \in Chars
<1>1. pos \in 0..(LINE_SIZE - 1) /\ pos \in Nat
  BY LineSizes DEF LineInv, LineTypeOK
<1>2. \A i \in 1..pos : i - 1 \in Cells /\ i - 1 < pos
  BY <1>1, LineSizes
<1>3. \A i \in 1..pos : line[i - 1] \in Chars
  BY <1>2 DEF LineInv
<1>4. Text = [i \in 1..pos |-> line[i - 1]]
  BY DEF Text, Upto
<1>5. Text \in Seq(Chars) /\ Len(Text) = pos
  BY <1>1, <1>3, <1>4
<1>6. pos <= LINE_SIZE - 1
  BY <1>1, LineSizes
<1> QED
  BY <1>1, <1>3, <1>4, <1>5, <1>6 DEF Lines

LEMMA EntryFits ==
  ASSUME NEW entry \in Lines
  PROVE  /\ Len(entry) \in Nat /\ Len(entry) \in 0..(LINE_SIZE - 1) /\ entry \in Seq(Chars)
         /\ \A i \in 1..Len(entry) : entry[i] \in Chars
<1>1. entry \in Seq(Chars) /\ Len(entry) <= LINE_SIZE - 1
  BY DEF Lines
<1> QED
  BY <1>1, LineSizes

LEMMA InsertKeeps ==
  ASSUME LineInv, NEW ch \in Chars, Insert(ch)
  PROVE  LineInv'
<1>1. /\ line \in [Cells -> Chars \cup {NUL}] /\ pos \in 0..(LINE_SIZE - 1) /\ pos \in Nat
      /\ \A i \in Cells : i < pos => line[i] \in Chars
  BY LineSizes DEF LineInv, LineTypeOK
<1>2. CASE pos < LINE_SIZE - 1
  <2>1. line' = [line EXCEPT ![pos] = ch] /\ pos' = pos + 1
    BY <1>2 DEF Insert
  <2>2. pos \in Cells /\ pos + 1 \in 0..(LINE_SIZE - 1)
    BY <1>1, <1>2, LineSizes
  <2>3. line' \in [Cells -> Chars \cup {NUL}]
    BY <1>1, <2>1
  <2>4. \A i \in Cells : i < pos + 1 => i < pos \/ i = pos
    BY <1>1, LineSizes
  <2>5. \A i \in Cells : i < pos' => line'[i] \in Chars
    BY <1>1, <2>1, <2>2, <2>4
  <2> QED
    BY <2>1, <2>2, <2>3, <2>5 DEF LineInv, LineTypeOK, Insert
<1>3. CASE ~(pos < LINE_SIZE - 1)
  BY <1>3 DEF LineInv, LineTypeOK, Insert
<1> QED
  BY <1>2, <1>3

LEMMA BackspaceKeeps ==
  ASSUME LineInv, Backspace
  PROVE  LineInv'
<1>1. pos \in 0..(LINE_SIZE - 1) /\ pos \in Nat /\ LINE_SIZE \in Nat
  BY LineSizes DEF LineInv, LineTypeOK
<1>2. pos' \in 0..(LINE_SIZE - 1) /\ pos' <= pos /\ pos' \in Nat
  BY <1>1 DEF Backspace
<1>3. \A i \in Cells : i < pos' => i < pos
  BY <1>1, <1>2, LineSizes
<1> QED
  BY <1>2, <1>3 DEF LineInv, LineTypeOK, Backspace

\* The entry that the arrow recalls.
LEMMA UpFacts ==
  ASSUME LineInv, Up
  PROVE  LET entry == history_buf[history_pos']
         IN  /\ history_count \in Nat /\ history_pos \in Nat /\ history_pos <= history_count
             /\ history_pos' \in Nat /\ history_pos' < history_count
             /\ history_pos' \in Entries /\ entry \in Lines
             /\ pos' = Len(entry) /\ line' = Recalled(entry)
             /\ \A i \in Cells : i < Len(entry) => line'[i] = entry[i + 1]
             /\ LineInv'
<1> DEFINE entry == history_buf[history_pos']
<1>1. /\ history_count \in 0..HISTORY_SIZE /\ history_count > 0
      /\ history_pos \in 0..history_count /\ history_count \in Nat /\ HISTORY_SIZE \in Nat
  BY LineSizes DEF LineInv, LineTypeOK, Up
<1>2. /\ history_pos' \in Nat /\ history_pos' < history_count
      /\ history_pos \in Nat /\ history_pos <= history_count
  BY <1>1 DEF Up
<1>3. history_pos' \in Entries /\ history_pos' \in 0..history_count
  BY <1>1, <1>2, LineSizes
<1>4. entry \in Lines
  BY <1>3 DEF LineInv, LineTypeOK
<1>5. line' = Recalled(entry) /\ pos' = Len(entry)
  BY DEF Up
<1> HIDE DEF entry
<1>6. Len(entry) \in 0..(LINE_SIZE - 1) /\ Len(entry) \in Nat /\ \A i \in 1..Len(entry) : entry[i] \in Chars
  BY <1>4, EntryFits
<1>7. \A i \in Cells : i < Len(entry) => i + 1 \in 1..Len(entry)
  BY <1>6, LineSizes
<1>8. line \in [Cells -> Chars \cup {NUL}]
  BY DEF LineInv, LineTypeOK
<1>9. line' \in [Cells -> Chars \cup {NUL}]
  BY <1>5, <1>6, <1>7, <1>8 DEF Recalled
<1>10. \A i \in Cells : i < Len(entry) => line'[i] = entry[i + 1] /\ line'[i] \in Chars
  BY <1>5, <1>6, <1>7 DEF Recalled
<1>11. LineInv'
  BY <1>1, <1>3, <1>5, <1>6, <1>9, <1>10 DEF LineInv, LineTypeOK, Up
<1> QED
  BY <1>1, <1>2, <1>3, <1>4, <1>5, <1>10, <1>11 DEF entry

\* What the history is after an entry.
LEMMA RememberFacts ==
  ASSUME LineInv, NEW entry \in Lines, Remember(entry)
  PROVE  /\ history_buf' \in [Entries -> Lines] /\ history_count' \in 0..HISTORY_SIZE
<1>1. /\ history_buf \in [Entries -> Lines] /\ history_count \in 0..HISTORY_SIZE
      /\ HISTORY_SIZE \in Nat \ {0}
  BY LineSizes DEF LineInv, LineTypeOK
<1>2. CASE Repeats(entry)
  BY <1>1, <1>2 DEF Remember
<1>3. CASE ~Repeats(entry) /\ history_count < HISTORY_SIZE
  <2>1. history_buf' = [history_buf EXCEPT ![history_count] = entry] /\ history_count' = history_count + 1
    BY <1>1, <1>3 DEF Remember
  <2>2. history_count + 1 \in 0..HISTORY_SIZE
    BY <1>1, <1>3
  <2> QED
    BY <1>1, <2>1, <2>2
<1>4. CASE ~Repeats(entry) /\ history_count = HISTORY_SIZE
  <2>1. /\ history_buf' = [i \in Entries |->
                IF i = HISTORY_SIZE - 1 THEN entry ELSE history_buf[i + 1]]
        /\ history_count' = history_count
    BY <1>1, <1>4 DEF Remember
  <2>2. \A i \in Entries : i # HISTORY_SIZE - 1 => i + 1 \in Entries
    BY <1>1, LineSizes
  <2> QED
    BY <1>1, <2>1, <2>2
<1> QED
  BY <1>1, <1>2, <1>3, <1>4 DEF Remember

LEMMA EnterKeeps ==
  ASSUME LineInv, Enter
  PROVE  LineInv' /\ pos' = 0
<1>1. history_buf' \in [Entries -> Lines] /\ history_count' \in 0..HISTORY_SIZE
  <2>1. CASE pos > 0
    BY <2>1, TextIsLine, RememberFacts DEF Enter
  <2>2. CASE ~(pos > 0)
    BY <2>2 DEF Enter, LineInv, LineTypeOK
  <2> QED
    BY <2>1, <2>2
<1>2. line' \in [Cells -> Chars \cup {NUL}] /\ pos' = 0 /\ history_pos' = history_count'
  BY DEF Enter
<1>3. 0 \in 0..(LINE_SIZE - 1) /\ history_count' \in 0..history_count'
  BY <1>1, LineSizes
<1>4. \A i \in Cells : ~(i < 0)
  BY LineSizes
<1> QED
  BY <1>1, <1>2, <1>3, <1>4 DEF LineInv, LineTypeOK

LEMMA InitLine == LineInit => LineInv
<1> SUFFICES ASSUME LineInit PROVE LineInv
  OBVIOUS
<1>1. <<>> \in Lines
  BY LineSizes DEF Lines
<1>2. \A i \in Cells : ~(i < 0)
  BY LineSizes
<1>3. 0 \in 0..(LINE_SIZE - 1) /\ 0 \in 0..HISTORY_SIZE /\ 0 \in 0..0
  BY LineSizes
<1> QED
  BY <1>1, <1>2, <1>3 DEF LineInit, LineInv, LineTypeOK

LEMMA LineKept ==
  ASSUME LineInv, UNCHANGED lineVars
  PROVE  LineInv'
BY DEF LineInv, LineTypeOK, lineVars

-----------------------------------------------------------------------------
(* The prompt on its screen                                                *)

\* The header, with what the clock may show in it.
TopRow(s, time) ==
  \E clock \in {Header[CLOCK_X], time} : s.vga[0] = [Header EXCEPT ![CLOCK_X] = clock]

Fits(text) == Len(text) + LINE_SIZE - 1 < VGA_WIDTH

\* The characters of a prompt and of what follows it, by column.
Echoed(text, bytes) ==
  [x \in Columns |-> IF x < Len(text) THEN text[x + 1] ELSE bytes[x - Len(text)]]

EchoShown == Fits(prompt) => Shows(screen, Echoed(prompt, line), Len(prompt) + pos)

ScreenInv ==
  /\ LineInv /\ prompt \in Prompts
  /\ Clean(screen) /\ TopRow(screen, last_time_str)
  /\ EchoShown

LEMMA Texts ==
  /\ \A text \in Prompts \cup Outputs : text \in Seq(Glyphs) /\ Len(text) \in Nat
  /\ \A text \in Prompts : \A k \in 1..Len(text) : text[k] \notin {"\n", "bs"}
  /\ Seq(Chars) \subseteq Seq(Glyphs) /\ Chars \subseteq Glyphs \ {"\n", "bs"}
<1>1. ASSUME NEW text \in Prompts \cup Outputs
      PROVE  /\ text \in Seq(Glyphs) /\ Len(text) \in Nat
             /\ \A k \in 1..Len(text) : text[k] \in Range(text)
  <2>1. text \in Seq(Range(text))
    BY ScreenAssumption
  <2>2. Range(text) \subseteq Glyphs
    BY DEF Glyphs
  <2> HIDE DEF Range, Glyphs
  <2>3. Len(text) \in Nat /\ \A k \in 1..Len(text) : text[k] \in Range(text)
    BY <2>1
  <2> QED
    BY <2>1, <2>2, <2>3
<1>2. ASSUME NEW text \in Prompts PROVE \A k \in 1..Len(text) : text[k] \notin {"\n", "bs"}
  BY <1>1, ScreenAssumption
<1>3. Chars \subseteq Glyphs \ {"\n", "bs"}
  BY ScreenAssumption DEF Glyphs
<1> QED
  BY <1>1, <1>2, <1>3

LEMMA ClockDrawn ==
  ASSUME ScreenInv, NEW time \in Times
  PROVE  LET s == draw_shell_dynamic(time)
         IN  /\ Clean(s) /\ TopRow(s, time) /\ s.x = screen.x /\ s.y = screen.y
             /\ s.vga[s.y] = screen.vga[screen.y]
             /\ \A t, n : Shows(screen, t, n) => Shows(s, t, n)
<1> DEFINE s == draw_shell_dynamic(time)
<1>1. /\ Clean(screen) /\ TopRow(screen, last_time_str) /\ screen \in Screens
      /\ screen.y \in Rows /\ screen.y # 0 /\ screen.y \in 1..(VGA_HEIGHT - 2)
  BY Sizes DEF ScreenInv, Clean
<1>2. /\ Clean(s) /\ TopRow(s, time) /\ s.x = screen.x /\ s.y = screen.y
      /\ s.vga[s.y] = screen.vga[screen.y]
  <2>1. CASE time = last_time_str
    <3>1. s = screen
      BY <2>1 DEF draw_shell_dynamic
    <3> HIDE DEF s
    <3> QED
      BY <1>1, <2>1, <3>1
  <2>2. CASE time # last_time_str
    <3>1. s = put_char_raw(screen, time, CLOCK_X, 0)
      BY <2>2 DEF draw_shell_dynamic
    <3> HIDE DEF s
    <3>2. time \in Glyphs /\ CLOCK_X \in Int /\ 0 \in Int /\ CLOCK_X \in Columns /\ 0 \in Rows
      <4>1. time \in Glyphs
        BY DEF Glyphs
      <4>2. CLOCK_X \in Int
        BY ConsoleAssumption
      <4> QED
        BY <4>1, <4>2, Sizes
    <3> DEFINE row == 0
    <3> HIDE DEF row
    <3>3. s = put_char_raw(screen, time, CLOCK_X, row) /\ row \in Int /\ row \in Rows
      BY <3>1, <3>2 DEF row
    <3>4. /\ s \in Screens /\ s.x = screen.x /\ s.y = screen.y
          /\ \A r \in Rows : r # row => s.vga[r] = screen.vga[r]
          /\ s.vga[row] = [screen.vga[row] EXCEPT ![CLOCK_X] = time]
      BY <1>1, <3>2, <3>3, OneCell
    <3>5. \A r \in 1..(VGA_HEIGHT - 2) : r \in Rows /\ r # row
      BY Sizes DEF row
    <3>6. \A r \in (screen.y + 1)..(VGA_HEIGHT - 2) : r \in 1..(VGA_HEIGHT - 2)
      BY <1>1
    <3>7. VGA_HEIGHT - 1 \in Rows /\ VGA_HEIGHT - 1 # row
      BY Sizes DEF row
    <3>8. Clean(s)
      BY <1>1, <3>4, <3>5, <3>6, <3>7 DEF Clean
    <3>9. TopRow(s, time)
      <4>1. PICK clock : screen.vga[0] = [Header EXCEPT ![CLOCK_X] = clock]
        BY <1>1 DEF TopRow
      <4>2. s.vga[0] = [[Header EXCEPT ![CLOCK_X] = clock] EXCEPT ![CLOCK_X] = time]
        BY <3>4, <4>1 DEF row
      <4>3. [[Header EXCEPT ![CLOCK_X] = clock] EXCEPT ![CLOCK_X] = time] = [Header EXCEPT ![CLOCK_X] = time]
        BY FixedRows
      <4> QED
        BY <4>2, <4>3 DEF TopRow
    <3> QED
      BY <1>1, <3>4, <3>5, <3>8, <3>9
  <2> QED
    BY <2>1, <2>2
<1> HIDE DEF s
<1>3. \A t, n : Shows(screen, t, n) => Shows(s, t, n)
  BY <1>2 DEF Shows
<1> QED
  BY <1>2, <1>3 DEF s

LEMMA Cleared ==
  Clean(clear_screen) /\ \A time : TopRow(clear_screen, time)
<1> DEFINE v == [y \in Rows |-> IF y = 0 THEN Header
                                ELSE IF y = VGA_HEIGHT - 1 THEN Footer ELSE BlankRow]
           s == clear_screen
<1>1. v \in [Rows -> [Columns -> Glyphs]]
  BY FixedRows
<1>2. s.vga = v /\ s.x = 0 /\ s.y = 1 /\ s \in Screens
  BY <1>1 DEF clear_screen, Screens
<1>3. v[0] = Header /\ v[VGA_HEIGHT - 1] = Footer
  BY Sizes
<1>4. \A r \in 2..(VGA_HEIGHT - 2) : v[r] = BlankRow
  BY Sizes
<1> HIDE DEF v, s
<1>5. Clean(s)
  BY <1>2, <1>3, <1>4, Sizes DEF Clean
<1>6. Header = [Header EXCEPT ![CLOCK_X] = Header[CLOCK_X]]
  BY FixedRows
<1>7. \A time : TopRow(s, time)
  BY <1>2, <1>3, <1>6 DEF TopRow
<1> QED
  BY <1>5, <1>7 DEF s

\* A prompt is written into an empty row.
LEMMA PromptShown ==
  ASSUME NEW s, Clean(s), NEW text \in Prompts, NEW bytes
  PROVE  LET t == Prompted(s, text)
         IN  Shown(s, t) /\ (Fits(text) => Shows(t, Echoed(text, bytes), Len(text) + 0))
<1> DEFINE r == put_char(s, "\n")
           t == Prompted(s, text)
<1>1. Shown(s, r) /\ r.x = 0 /\ r.vga[r.y] = BlankRow /\ Clean(r)
  BY PutNewline DEF Shown
<1>2. t = print(r, text)
  BY DEF Prompted
<1> HIDE DEF r
<1>3. text \in Seq(Glyphs) /\ Len(text) \in Nat /\ \A k \in 1..Len(text) : text[k] \notin {"\n", "bs"}
  BY Texts
<1>4. Shown(r, t)
  BY <1>1, <1>2, <1>3, PrintKeepsBars
<1>5. ASSUME Fits(text) PROVE Shows(t, Echoed(text, bytes), Len(text))
  <2> DEFINE e == Echoed(text, bytes)
             n == 0
  <2>1. RowOf(e, 0) = BlankRow
    <3>1. \A x \in Columns : ~(x < 0)
      BY Sizes
    <3> QED
      BY <3>1 DEF RowOf, BlankRow
  <2>2. Shows(r, e, n) /\ n \in Nat
    BY <1>1, <2>1 DEF Shows
  <2>3. n + Len(text) < VGA_WIDTH
    BY <1>3, <1>5, LineSizes, Sizes DEF Fits
  <2>4. \A k \in 1..Len(text) : e[n + k - 1] = text[k]
    <3> SUFFICES ASSUME NEW k \in 1..Len(text) PROVE e[k - 1] = text[k]
      BY <1>3
    <3>1. k - 1 < Len(text) /\ k - 1 \in Columns /\ (k - 1) + 1 = k
      BY <1>3, <2>3, Sizes DEF Columns
    <3> QED
      BY <3>1 DEF Echoed
  <2> HIDE DEF e, n
  <2>5. Shows(t, e, n + Len(text))
    BY <1>2, <1>3, <2>2, <2>3, <2>4, ShowText
  <2> QED
    BY <1>3, <2>5 DEF e, n
<1> QED
  BY <1>1, <1>3, <1>4, <1>5 DEF Shown

\* What is shown depends on the bytes of the text only.
LEMMA EchoOfText ==
  ASSUME NEW text, NEW n \in Nat, NEW m \in Nat, Len(text) = m, m + n < VGA_WIDTH,
         NEW bytes, NEW others, \A i \in 0..(n - 1) : bytes[i] = others[i]
  PROVE  RowOf(Echoed(text, bytes), m + n) = RowOf(Echoed(text, others), m + n)
<1> DEFINE e == Echoed(text, bytes)
           o == Echoed(text, others)
<1>1. ASSUME NEW x \in Columns, x < m + n PROVE e[x] = o[x]
  <2>1. x \in Nat
    BY Sizes
  <2>2. CASE x < m
    BY <2>2 DEF Echoed
  <2>3. CASE ~(x < m)
    <3>1. x - m \in 0..(n - 1)
      BY <1>1, <2>1, <2>3
    <3>2. bytes[x - m] = others[x - m]
      BY <3>1
    <3> QED
      BY <2>3, <3>2 DEF Echoed
  <2> QED
    BY <2>2, <2>3
<1> HIDE DEF e, o
<1>2. m + n \in Nat
  OBVIOUS
<1>3. RowOf(e, m + n) = RowOf(o, m + n)
  BY <1>1, <1>2, RowsAgree
<1> QED
  BY <1>3 DEF e, o

\* The bars do not depend on the key.
Barred(s, time) == Clean(s) /\ TopRow(s, time)

LEMMA ShownIsBarred ==
  ASSUME NEW s, NEW time, Barred(s, time), NEW t, Shown(s, t)
  PROVE  Barred(t, time)
BY DEF Barred, Shown, TopRow

LEMMA PromptSizes ==
  ASSUME ScreenInv
  PROVE  /\ Len(prompt) \in Nat /\ pos \in Nat /\ pos <= LINE_SIZE - 1 /\ pos \in 0..(LINE_SIZE - 1)
         /\ LINE_SIZE \in Nat \ {0} /\ VGA_WIDTH \in Nat /\ prompt \in Prompts
         /\ Fits(prompt) => Len(prompt) + LINE_SIZE - 1 < VGA_WIDTH
<1>1. prompt \in Prompts /\ LineInv
  BY DEF ScreenInv
<1>2. pos \in 0..(LINE_SIZE - 1)
  BY <1>1 DEF LineInv, LineTypeOK
<1> QED
  BY <1>1, <1>2, Texts, LineSizes, Sizes DEF Fits

LEMMA IdleKeeps ==
  ASSUME ScreenInv, NEW time \in Times, Idle(time)
  PROVE  ScreenInv'
<1> DEFINE s == draw_shell_dynamic(time)
<1>1. /\ Clean(s) /\ TopRow(s, time)
      /\ \A t, n : Shows(screen, t, n) => Shows(s, t, n)
  BY ClockDrawn
<1>2. screen' = s /\ last_time_str' = time /\ UNCHANGED lineVars /\ prompt' = prompt
  BY DEF Idle, Polled
<1> HIDE DEF s
<1>3. LineInv' /\ line' = line /\ pos' = pos
  BY <1>2, LineKept DEF ScreenInv, lineVars
<1>4. Fits(prompt) => Shows(s, Echoed(prompt, line), Len(prompt) + pos)
  BY <1>1 DEF ScreenInv, EchoShown
<1>5. EchoShown'
  BY <1>2, <1>3, <1>4 DEF EchoShown
<1> QED
  BY <1>1, <1>2, <1>3, <1>5 DEF ScreenInv

LEMMA TypeKeeps ==
  ASSUME ScreenInv, NEW time \in Times, NEW ch \in Chars, TypeKey(time, ch)
  PROVE  ScreenInv'
<1> DEFINE s == draw_shell_dynamic(time)
           m == Len(prompt)
           e == Echoed(prompt, line')
<1>1. /\ Barred(s, time)
      /\ \A t, n : Shows(screen, t, n) => Shows(s, t, n)
  BY ClockDrawn DEF Barred
<1>2. /\ Insert(ch) /\ screen' = IF pos' > pos THEN put_char(s, ch) ELSE s
      /\ last_time_str' = time /\ prompt' = prompt
  BY DEF TypeKey
<1> HIDE DEF s
<1>3. LineInv' /\ LineInv
  BY <1>2, InsertKeeps DEF ScreenInv
<1>4. /\ m \in Nat /\ pos \in Nat /\ pos <= LINE_SIZE - 1 /\ pos \in 0..(LINE_SIZE - 1)
      /\ LINE_SIZE \in Nat \ {0} /\ VGA_WIDTH \in Nat /\ prompt \in Prompts
      /\ Fits(prompt) => m + LINE_SIZE - 1 < VGA_WIDTH
  BY PromptSizes
<1>5. ch \in Glyphs \ {"\n", "bs"} /\ ch \in Glyphs
  BY Texts
<1>6. Fits(prompt) => Shows(s, Echoed(prompt, line), m + pos)
  BY <1>1 DEF ScreenInv, EchoShown
<1>7. CASE pos < LINE_SIZE - 1
  <2>1. line' = [line EXCEPT ![pos] = ch] /\ pos' = pos + 1
    BY <1>2, <1>7 DEF Insert
  <2>2. pos' > pos
    BY <1>4, <2>1
  <2>3. screen' = put_char(s, ch)
    BY <1>2, <2>2
  <2>4. Barred(screen', time)
    BY <1>1, <1>5, <2>3, PutAny, ShownIsBarred DEF Barred
  <2>5. ASSUME Fits(prompt) PROVE Shows(screen', e, m + pos')
    <3> DEFINE n == m + pos
    <3>1. n \in Nat /\ n + 1 < VGA_WIDTH /\ n + 1 = m + pos' /\ n \in Columns /\ n < VGA_WIDTH
      BY <1>4, <1>7, <2>1, <2>5 DEF Columns
    <3>2. line'[pos] = ch /\ \A i \in 0..(pos - 1) : line[i] = line'[i]
      <4>1. pos \in Cells /\ \A i \in 0..(pos - 1) : i \in Cells /\ i # pos
        BY <1>4, LineSizes
      <4>2. line \in [Cells -> Chars \cup {NUL}]
        BY <1>3 DEF LineInv, LineTypeOK
      <4> QED
        BY <2>1, <4>1, <4>2
    <3>3. RowOf(Echoed(prompt, line), m + pos) = RowOf(Echoed(prompt, line'), m + pos)
      BY <1>4, <3>1, <3>2, EchoOfText
    <3>4. e[n] = ch
      <4>1. ~(n < m) /\ n - m = pos
        BY <1>4
      <4> QED
        BY <3>1, <3>2, <4>1 DEF Echoed
    <3>5. Shows(s, e, n)
      BY <1>6, <2>5, <3>3 DEF Shows
    <3> HIDE DEF n, e
    <3>6. Shows(put_char(s, e[n]), e, n + 1)
      BY <1>5, <3>1, <3>4, <3>5, ShowMore
    <3> QED
      BY <2>3, <3>1, <3>4, <3>6
  <2>6. EchoShown'
    BY <1>2, <2>5 DEF EchoShown
  <2> QED
    BY <1>2, <1>3, <1>4, <2>4, <2>6 DEF ScreenInv, Barred
<1>8. CASE ~(pos < LINE_SIZE - 1)
  <2>1. line' = line /\ pos' = pos
    BY <1>2, <1>8 DEF Insert
  <2>2. screen' = s
    BY <1>2, <1>4, <2>1
  <2>3. EchoShown'
    BY <1>2, <1>6, <2>1, <2>2 DEF EchoShown
  <2> QED
    BY <1>1, <1>2, <1>3, <1>4, <2>2, <2>3 DEF ScreenInv, Barred
<1> QED
  BY <1>7, <1>8

LEMMA BackspaceKeyKeeps ==
  ASSUME ScreenInv, NEW time \in Times, BackspaceKey(time)
  PROVE  ScreenInv'
<1> DEFINE s == draw_shell_dynamic(time)
           m == Len(prompt)
           e == Echoed(prompt, line)
<1>1. /\ Barred(s, time)
      /\ \A t, n : Shows(screen, t, n) => Shows(s, t, n)
  BY ClockDrawn DEF Barred
<1>2. /\ Backspace /\ screen' = IF pos > 0 THEN put_char(s, "bs") ELSE s
      /\ last_time_str' = time /\ prompt' = prompt
  BY DEF BackspaceKey
<1> HIDE DEF s
<1>3. LineInv' /\ line' = line
  BY <1>2, BackspaceKeeps DEF ScreenInv, Backspace
<1>4. m \in Nat /\ pos \in Nat /\ prompt \in Prompts
  BY PromptSizes
<1>5. Fits(prompt) => Shows(s, e, m + pos)
  BY <1>1 DEF ScreenInv, EchoShown
<1> HIDE DEF e
<1>6. CASE pos > 0
  <2>1. screen' = put_char(s, "bs") /\ pos' = pos - 1
    BY <1>2, <1>6 DEF Backspace
  <2>2. Barred(screen', time)
    BY <1>1, <2>1, PutBack, ShownIsBarred DEF Barred
  <2>3. ASSUME Fits(prompt) PROVE Shows(screen', e, m + pos')
    <3> DEFINE n == m + pos
    <3>1. n \in Nat \ {0} /\ n - 1 = m + pos'
      BY <1>4, <1>6, <2>1
    <3>2. Shows(s, e, n)
      BY <1>5, <2>3
    <3> HIDE DEF n
    <3>3. Shows(put_char(s, "bs"), e, n - 1)
      BY <3>1, <3>2, ShowLess
    <3> QED
      BY <2>1, <3>1, <3>3
  <2>4. EchoShown'
    BY <1>2, <1>3, <2>3 DEF EchoShown, e
  <2> QED
    BY <1>2, <1>3, <1>4, <2>2, <2>4 DEF ScreenInv, Barred
<1>7. CASE ~(pos > 0)
  <2>1. screen' = s /\ pos' = pos
    BY <1>2, <1>4, <1>7 DEF Backspace
  <2>2. EchoShown'
    BY <1>2, <1>3, <1>5, <2>1 DEF EchoShown, e
  <2> QED
    BY <1>1, <1>2, <1>3, <1>4, <2>1, <2>2 DEF ScreenInv, Barred
<1> QED
  BY <1>6, <1>7

LEMMA UpKeyKeeps ==
  ASSUME ScreenInv, NEW time \in Times, UpKey(time)
  PROVE  ScreenInv'
<1> DEFINE s == draw_shell_dynamic(time)
           m == Len(prompt)
           entry == history_buf[history_pos']
           r == Erased(s)
           e == Echoed(prompt, line')
<1>1. /\ Barred(s, time)
      /\ \A t, n : Shows(screen, t, n) => Shows(s, t, n)
  BY ClockDrawn DEF Barred
<1>2. Up /\ screen' = print(r, entry) /\ last_time_str' = time /\ prompt' = prompt
  BY DEF UpKey
<1> HIDE DEF s
<1>3. /\ entry \in Lines /\ pos' = Len(entry) /\ LineInv'
      /\ \A i \in Cells : i < Len(entry) => line'[i] = entry[i + 1]
  BY <1>2, UpFacts DEF ScreenInv
<1> HIDE DEF entry
<1>4. /\ m \in Nat /\ pos \in Nat /\ LINE_SIZE \in Nat \ {0} /\ VGA_WIDTH \in Nat
      /\ pos <= LINE_SIZE - 1 /\ prompt \in Prompts
      /\ Fits(prompt) => m + LINE_SIZE - 1 < VGA_WIDTH
  BY PromptSizes
<1>5. /\ Len(entry) \in Nat /\ Len(entry) \in 0..(LINE_SIZE - 1) /\ entry \in Seq(Glyphs)
      /\ \A i \in 1..Len(entry) : entry[i] \notin {"\n", "bs"}
  BY <1>3, EntryFits, Texts
<1>6. r = print(s, [i \in 1..pos |-> "bs"])
  BY DEF Erased
<1>7. Barred(r, time)
  <2>1. "bs" \in Glyphs
    BY DEF Glyphs
  <2>2. [i \in 1..pos |-> "bs"] \in Seq(Glyphs)
    BY <1>4, <2>1
  <2>3. Shown(s, r)
    BY <1>1, <1>6, <2>2, PrintKeepsBars DEF Barred
  <2> QED
    BY <1>1, <2>3, ShownIsBarred
<1> HIDE DEF r
<1>8. Barred(screen', time)
  <2>1. Shown(r, screen')
    BY <1>2, <1>5, <1>7, PrintKeepsBars DEF Barred
  <2> QED
    BY <1>7, <2>1, ShownIsBarred
<1>9. ASSUME Fits(prompt) PROVE Shows(screen', e, m + pos')
  <2>1. Shows(s, Echoed(prompt, line), m + pos)
    BY <1>1, <1>9 DEF ScreenInv, EchoShown
  <2>2. Shows(r, Echoed(prompt, line), (m + pos) - pos)
    <3>1. m + pos \in Nat /\ pos \in 0..(m + pos)
      BY <1>4
    <3> QED
      BY <1>6, <2>1, <3>1, ShowErased
  <2>3. (m + pos) - pos = m /\ m + 0 = m /\ m + 0 < VGA_WIDTH
    BY <1>4, <1>9
  <2>4. RowOf(Echoed(prompt, line), m) = RowOf(e, m)
    <3> DEFINE n == 0
    <3>1. n \in Nat /\ m + n < VGA_WIDTH /\ m + n = m /\ \A i \in 0..(n - 1) : line[i] = line'[i]
      BY <2>3
    <3> HIDE DEF n
    <3>2. RowOf(Echoed(prompt, line), m + n) = RowOf(Echoed(prompt, line'), m + n)
      BY <1>4, <3>1, EchoOfText
    <3> QED
      BY <3>1, <3>2
  <2>5. Shows(r, e, m)
    BY <2>2, <2>3, <2>4 DEF Shows
  <2>6. m + Len(entry) < VGA_WIDTH
    BY <1>4, <1>5, <1>9
  <2>7. ASSUME NEW k \in 1..Len(entry) PROVE e[m + k - 1] = entry[k]
    <3>1. /\ m + k - 1 \in Columns /\ ~(m + k - 1 < m) /\ (m + k - 1) - m = k - 1
          /\ k - 1 < Len(entry) /\ (k - 1) + 1 = k
      BY <1>4, <1>5, <2>6 DEF Columns
    <3>2. k - 1 \in Cells
      BY <1>5, LineSizes
    <3> QED
      BY <1>3, <3>1, <3>2 DEF Echoed
  <2> HIDE DEF e
  <2>8. Shows(print(r, entry), e, m + Len(entry))
    BY <1>4, <1>5, <2>5, <2>6, <2>7, ShowText
  <2> QED
    BY <1>2, <1>3, <2>8
<1>10. EchoShown'
  BY <1>2, <1>9 DEF EchoShown
<1> QED
  BY <1>2, <1>3, <1>4, <1>8, <1>10 DEF ScreenInv, Barred

LEMMA EnterKeyKeeps ==
  ASSUME ScreenInv, NEW time \in Times, EnterKey(time)
  PROVE  ScreenInv'
<1> DEFINE d == draw_shell_dynamic(time)
           s == put_char(d, "\n")
<1>1. Barred(d, time)
  BY ClockDrawn DEF Barred
<1>2. /\ Enter /\ last_time_str' = time
      /\ \/ screen' = Prompted(s, prompt) /\ prompt' = prompt
         \/ /\ prompt' \in Prompts
            /\ \/ \E out \in Outputs : screen' = Prompted(print(s, out), prompt')
               \/ screen' = Prompted(clear_screen, prompt')
  BY DEF EnterKey
<1>3. Barred(s, time)
  <2> HIDE DEF d
  <2>1. Shown(d, s)
    BY <1>1, PutNewline DEF Barred
  <2> QED
    BY <1>1, <2>1, ShownIsBarred
<1> HIDE DEF d, s
<1>4. LineInv' /\ pos' = 0
  BY <1>2, EnterKeeps DEF ScreenInv
<1>5. prompt' \in Prompts /\ \E r : Barred(r, time) /\ screen' = Prompted(r, prompt')
  <2>1. prompt \in Prompts
    BY DEF ScreenInv
  <2>2. ASSUME NEW out \in Outputs PROVE Barred(print(s, out), time)
    <3>1. Shown(s, print(s, out))
      BY <1>3, Texts, PrintKeepsBars DEF Barred
    <3> QED
      BY <1>3, <3>1, ShownIsBarred
  <2>3. Barred(clear_screen, time)
    BY Cleared DEF Barred
  <2> QED
    BY <1>2, <1>3, <2>1, <2>2, <2>3
<1>6. PICK r : Barred(r, time) /\ screen' = Prompted(r, prompt')
  BY <1>5
<1>7. /\ Shown(r, screen')
      /\ Fits(prompt') => Shows(screen', Echoed(prompt', line'), Len(prompt') + 0)
  BY <1>5, <1>6, PromptShown DEF Barred
<1>8. Barred(screen', time)
  BY <1>6, <1>7, ShownIsBarred
<1>9. EchoShown'
  BY <1>4, <1>7 DEF EchoShown
<1> QED
  BY <1>2, <1>4, <1>5, <1>8, <1>9 DEF ScreenInv, Barred

LEMMA InitScreenInv == ScreenInit => ScreenInv
<1> SUFFICES ASSUME ScreenInit PROVE ScreenInv
  OBVIOUS
<1>1. LineInv /\ pos = 0 /\ prompt \in Prompts
  BY InitLine DEF ScreenInit, LineInit
<1>2. screen = Prompted(clear_screen, prompt)
  BY DEF ScreenInit
<1>3. Barred(clear_screen, last_time_str)
  BY Cleared DEF Barred
<1> DEFINE c == clear_screen
<1>4. Barred(c, last_time_str) /\ screen = Prompted(c, prompt)
  BY <1>2, <1>3
<1> HIDE DEF c
<1>5. /\ Shown(c, screen)
      /\ Fits(prompt) => Shows(screen, Echoed(prompt, line), Len(prompt) + 0)
  BY <1>1, <1>4, PromptShown DEF Barred
<1>6. Barred(screen, last_time_str)
  BY <1>4, <1>5, ShownIsBarred
<1> QED
  BY <1>1, <1>5, <1>6 DEF ScreenInv, Barred, EchoShown

LEMMA NextScreenInv == ScreenInv /\ [ScreenNext]_<<lineVars, screenVars>> => ScreenInv'
<1> SUFFICES ASSUME ScreenInv, [ScreenNext]_<<lineVars, screenVars>> PROVE ScreenInv'
  OBVIOUS
<1>1. CASE UNCHANGED <<lineVars, screenVars>>
  <2>1. UNCHANGED lineVars /\ UNCHANGED screenVars
    BY <1>1
  <2>2. LineInv'
    BY <2>1, LineKept DEF ScreenInv
  <2>3. line' = line /\ pos' = pos /\ screen' = screen /\ last_time_str' = last_time_str /\ prompt' = prompt
    BY <2>1 DEF lineVars, screenVars
  <2>4. EchoShown'
    BY <2>3 DEF ScreenInv, EchoShown
  <2> QED
    BY <2>2, <2>3, <2>4 DEF ScreenInv
<1>2. ASSUME NEW time \in Times, Idle(time) PROVE ScreenInv'
  BY <1>2, IdleKeeps
<1>3. ASSUME NEW time \in Times, BackspaceKey(time) PROVE ScreenInv'
  BY <1>3, BackspaceKeyKeeps
<1>4. ASSUME NEW time \in Times, UpKey(time) PROVE ScreenInv'
  BY <1>4, UpKeyKeeps
<1>5. ASSUME NEW time \in Times, EnterKey(time) PROVE ScreenInv'
  BY <1>5, EnterKeyKeeps
<1>6. ASSUME NEW time \in Times, NEW ch \in Chars, TypeKey(time, ch) PROVE ScreenInv'
  BY <1>6, TypeKeeps
<1> QED
  BY <1>1, <1>2, <1>3, <1>4, <1>5, <1>6 DEF ScreenNext

\* Whatever the commands print and however the keys come, print and scroll leave
\* the header and the footer alone, for screens of any size.
THEOREM BarsStay == ScreenSpec => []BarsKept
<1>1. ScreenInv => BarsKept
  BY DEF ScreenInv, Clean, TopRow, BarsKept
<1> QED
  BY InitScreenInv, NextScreenInv, <1>1, PTL DEF ScreenSpec

\* The user sees the line that Enter runs, for lines, histories and screens of any
\* size in which the line fits beside the prompt.
THEOREM EchoIsTrue == ScreenSpec => []EchoMatchesLine
<1>1. ScreenInv => EchoMatchesLine
  <2> SUFFICES ASSUME ScreenInv, Fits(prompt)
               PROVE  /\ screen.x = Len(prompt) + pos
                      /\ screen.vga[screen.y] =
                           [x \in Columns |-> IF x < Len(prompt) THEN prompt[x + 1]
                                              ELSE IF x < screen.x THEN line[x - Len(prompt)] ELSE " "]
    BY DEF EchoMatchesLine, Fits
  <2> DEFINE m == Len(prompt)
  <2>1. m \in Nat /\ pos \in Nat
    BY PromptSizes
  <2>2. screen.x = m + pos /\ screen.vga[screen.y] = RowOf(Echoed(prompt, line), m + pos)
    BY DEF ScreenInv, EchoShown, Shows
  <2> HIDE DEF m
  <2>3. ASSUME NEW x \in Columns
        PROVE  (IF x < m + pos THEN (IF x < m THEN prompt[x + 1] ELSE line[x - m]) ELSE " ")
                 = (IF x < m THEN prompt[x + 1] ELSE IF x < m + pos THEN line[x - m] ELSE " ")
    <3>1. x \in Int
      BY DEF Columns
    <3>2. CASE x < m
      <4>1. x < m + pos
        BY <2>1, <3>1, <3>2
      <4> QED
        BY <3>2, <4>1
    <3>3. CASE ~(x < m)
      BY <3>3
    <3> QED
      BY <3>2, <3>3
  <2>4. RowOf(Echoed(prompt, line), m + pos) =
          [x \in Columns |-> IF x < m THEN prompt[x + 1]
                             ELSE IF x < m + pos THEN line[x - m] ELSE " "]
    BY <2>3 DEF RowOf, Echoed, m
  <2> QED
    BY <2>2, <2>4 DEF m
<1> QED
  BY InitScreenInv, NextScreenInv, <1>1, PTL DEF ScreenSpec

-----------------------------------------------------------------------------
(* The line and the history behave as LineInput                            *)

\* The first n elements of an array that counts from 0.
Taken(l, n) == [i \in 1..n |-> l[i - 1]]

Holds(l, n, S) == \A i \in 0..(n - 1) : l[i] \in S

Past == Taken(history_buf, history_count)
Back == history_count - history_pos

LEMMA TakenIsSeq ==
  ASSUME NEW n \in Nat, NEW S, NEW l, Holds(l, n, S)
  PROVE  /\ Taken(l, n) \in Seq(S) /\ Len(Taken(l, n)) = n
         /\ \A i \in 1..n : Taken(l, n)[i] = l[i - 1]
<1>1. \A i \in 1..n : l[i - 1] \in S
  BY DEF Holds
<1> QED
  BY <1>1 DEF Taken

LEMMA TakenEquals ==
  ASSUME NEW S, NEW s \in Seq(S), NEW l, \A i \in 1..Len(s) : l[i - 1] = s[i]
  PROVE  Taken(l, Len(s)) = s
<1> DEFINE n == Len(s)
<1>1. n \in Nat /\ s = [i \in 1..n |-> s[i]]
  OBVIOUS
<1> HIDE DEF n
<1>2. \A i \in 1..n : l[i - 1] = s[i]
  BY DEF n
<1> QED
  BY <1>1, <1>2 DEF Taken, n

LEMMA TakenEmpty ==
  ASSUME NEW l
  PROVE  Taken(l, 0) = <<>>
BY DEF Taken

LEMMA TakenMore ==
  ASSUME NEW n \in Nat, NEW S, NEW l, NEW k, NEW c \in S, Holds(l, n, S),
         k[n] = c, \A i \in 0..(n - 1) : k[i] = l[i]
  PROVE  Taken(k, n + 1) = Append(Taken(l, n), c)
<1> DEFINE s == Append(Taken(l, n), c)
<1>1. /\ Taken(l, n) \in Seq(S) /\ Len(Taken(l, n)) = n
      /\ \A i \in 1..n : Taken(l, n)[i] = l[i - 1]
  BY TakenIsSeq
<1>2. /\ s \in Seq(S) /\ Len(s) = n + 1 /\ s[n + 1] = c
      /\ \A i \in 1..n : s[i] = l[i - 1]
  BY <1>1, AppendProperties
<1> HIDE DEF s
<1>3. ASSUME NEW i \in 1..(n + 1) PROVE k[i - 1] = s[i]
  <2>1. CASE i = n + 1
    BY <1>2, <2>1
  <2>2. CASE i # n + 1
    <3>1. i \in 1..n /\ i - 1 \in 0..(n - 1)
      BY <2>2
    <3> QED
      BY <1>2, <3>1
  <2> QED
    BY <2>1, <2>2
<1>4. Taken(k, Len(s)) = s
  BY <1>2, <1>3, TakenEquals
<1> QED
  BY <1>2, <1>4 DEF s

LEMMA TakenLess ==
  ASSUME NEW n \in Nat \ {0}, NEW S, NEW l, Holds(l, n, S)
  PROVE  Taken(l, n - 1) = Front(Taken(l, n))
<1> DEFINE s == Taken(l, n)
           f == SubSeq(s, 1, n - 1)
<1>1. s \in Seq(S) /\ Len(s) = n /\ \A i \in 1..n : s[i] = l[i - 1]
  BY TakenIsSeq
<1> HIDE DEF s
<1>2. /\ f \in Seq(S) /\ Len(f) = n - 1
      /\ \A i \in 1..(n - 1) : f[i] = s[i]
  BY <1>1
<1> HIDE DEF f
<1>3. \A i \in 1..Len(f) : l[i - 1] = f[i]
  BY <1>1, <1>2
<1>4. Taken(l, Len(f)) = f
  BY <1>2, <1>3, TakenEquals
<1> QED
  BY <1>1, <1>2, <1>4 DEF Front, f, s

\* A full history loses its first line.
LEMMA TakenShifted ==
  ASSUME NEW n \in Nat \ {0}, NEW S, NEW l, NEW k, NEW c \in S, Holds(l, n, S),
         k[n - 1] = c, \A i \in 0..(n - 2) : k[i] = l[i + 1]
  PROVE  Taken(k, n) = SubSeq(Append(Taken(l, n), c), 2, n + 1)
<1> DEFINE s == Append(Taken(l, n), c)
           f == SubSeq(s, 2, n + 1)
<1>1. /\ Taken(l, n) \in Seq(S) /\ Len(Taken(l, n)) = n
      /\ \A i \in 1..n : Taken(l, n)[i] = l[i - 1]
  BY TakenIsSeq
<1>2. /\ s \in Seq(S) /\ Len(s) = n + 1 /\ s[n + 1] = c
      /\ \A i \in 1..n : s[i] = l[i - 1]
  BY <1>1, AppendProperties
<1> HIDE DEF s
<1>3. f \in Seq(S) /\ Len(f) = n /\ \A i \in 1..n : f[i] = s[i + 1]
  BY <1>2
<1> HIDE DEF f
<1>4. ASSUME NEW i \in 1..n PROVE k[i - 1] = f[i]
  <2>1. CASE i = n
    BY <1>2, <1>3, <2>1
  <2>2. CASE i # n
    <3>1. i + 1 \in 1..n /\ i - 1 \in 0..(n - 2) /\ (i + 1) - 1 = (i - 1) + 1
      BY <2>2
    <3>2. s[i + 1] = l[(i - 1) + 1]
      BY <1>2, <3>1
    <3> QED
      BY <1>3, <3>1, <3>2
  <2> QED
    BY <2>1, <2>2
<1>5. Taken(k, Len(f)) = f
  BY <1>3, <1>4, TakenEquals
<1> QED
  BY <1>3, <1>5 DEF f, s

LEMMA TextIsTaken == Text = Taken(line, pos) /\ Text' = Taken(line', pos')
BY DEF Text, Upto, Taken

LEMMA HistoryFacts ==
  ASSUME LineInv
  PROVE  /\ history_count \in Nat /\ HISTORY_SIZE \in Nat \ {0} /\ history_count <= HISTORY_SIZE
         /\ \A i \in 0..(history_count - 1) : i \in Entries /\ history_buf[i] \in Lines
         /\ Past \in Seq(Lines) /\ Len(Past) = history_count
         /\ \A i \in 1..history_count : Past[i] = history_buf[i - 1]
<1>1. /\ history_count \in Nat /\ HISTORY_SIZE \in Nat \ {0} /\ history_count <= HISTORY_SIZE
      /\ history_buf \in [Entries -> Lines]
  BY LineSizes DEF LineInv, LineTypeOK
<1>2. \A i \in 0..(history_count - 1) : i \in Entries
  BY <1>1, LineSizes
<1>3. \A i \in 0..(history_count - 1) : history_buf[i] \in Lines
  BY <1>1, <1>2
<1>4. Holds(history_buf, history_count, Lines)
  BY <1>3 DEF Holds
<1>5. /\ Taken(history_buf, history_count) \in Seq(Lines)
      /\ Len(Taken(history_buf, history_count)) = history_count
      /\ \A i \in 1..history_count : Taken(history_buf, history_count)[i] = history_buf[i - 1]
  BY <1>1, <1>4, TakenIsSeq
<1> QED
  BY <1>1, <1>2, <1>3, <1>5 DEF Past

\* The abstract actions, in terms of the mapped state.
LEMMA InputActions ==
  /\ \A ch : Input!Type(ch) <=>
       /\ Text' = IF Len(Text) < LINE_SIZE - 1 THEN Append(Text, ch) ELSE Text
       /\ UNCHANGED <<Past, Back>>
  /\ Input!Correct <=>
       /\ Text' = IF Text = <<>> THEN <<>> ELSE Front(Text)
       /\ UNCHANGED <<Past, Back>>
  /\ Input!Recall <=>
       /\ Past # <<>>
       /\ Back' = IF Back < Len(Past) THEN Back + 1 ELSE Back
       /\ Text' = Past[Len(Past) + 1 - Back']
       /\ UNCHANGED Past
  /\ Input!Enter <=>
       /\ Past' = IF Text = <<>> \/ (Past # <<>> /\ Last(Past) = Text) THEN Past
                  ELSE SubSeq(Append(Past, Text),
                              IF Len(Append(Past, Text)) > HISTORY_SIZE THEN 2 ELSE 1,
                              Len(Append(Past, Text)))
       /\ Text' = <<>> /\ Back' = 0
<1>1. /\ [i \in 1..history_count |-> history_buf[i - 1]] = Past
      /\ [i \in 1..history_count |-> history_buf[i - 1]]' = Past'
      /\ history_count - history_pos = Back
      /\ (history_count - history_pos)' = Back'
  BY DEF Past, Taken, Back
<1>2. \A ch : Input!Type(ch) <=>
       /\ Text' = IF Len(Text) < LINE_SIZE - 1 THEN Append(Text, ch) ELSE Text
       /\ UNCHANGED <<Past, Back>>
  BY <1>1 DEF Input!Type
<1>3. Input!Correct <=>
       /\ Text' = IF Text = <<>> THEN <<>> ELSE Front(Text)
       /\ UNCHANGED <<Past, Back>>
  BY <1>1 DEF Input!Correct, Input!Front, Front
<1>4. Input!Recall <=>
       /\ Past # <<>>
       /\ Back' = IF Back < Len(Past) THEN Back + 1 ELSE Back
       /\ Text' = Past[Len(Past) + 1 - Back']
       /\ UNCHANGED Past
  BY <1>1 DEF Input!Recall
<1>5. Input!Enter <=>
       /\ Past' = IF Text = <<>> \/ (Past # <<>> /\ Last(Past) = Text) THEN Past
                  ELSE SubSeq(Append(Past, Text),
                              IF Len(Append(Past, Text)) > HISTORY_SIZE THEN 2 ELSE 1,
                              Len(Append(Past, Text)))
       /\ Text' = <<>> /\ Back' = 0
  BY <1>1 DEF Input!Enter, Input!Newest, Input!Last, Last
<1> QED
  BY <1>2, <1>3, <1>4, <1>5

LEMMA TextFacts ==
  ASSUME LineInv
  PROVE  /\ Holds(line, pos, Chars) /\ pos \in Nat /\ pos <= LINE_SIZE - 1 /\ LINE_SIZE \in Nat \ {0}
         /\ Text = Taken(line, pos) /\ Text \in Seq(Chars) /\ Text \in Lines /\ Len(Text) = pos
         /\ \A i \in 0..(pos - 1) : i \in Cells
<1>1. pos \in Nat /\ pos <= LINE_SIZE - 1 /\ LINE_SIZE \in Nat \ {0}
  BY LineSizes DEF LineInv, LineTypeOK
<1>2. \A i \in 0..(pos - 1) : i \in Cells /\ i < pos
  BY <1>1, LineSizes
<1>3. Holds(line, pos, Chars)
  BY <1>2 DEF LineInv, Holds
<1> QED
  BY <1>1, <1>2, <1>3, TextIsLine, TextIsTaken DEF Lines

LEMMA HistoryKept ==
  ASSUME UNCHANGED <<history_buf, history_count>>
  PROVE  Past' = Past
BY DEF Past, Taken

LEMMA TypeImplements ==
  ASSUME LineInv, NEW ch \in Chars, Insert(ch)
  PROVE  Input!Type(ch)
<1>1. /\ Holds(line, pos, Chars) /\ pos \in Nat /\ pos <= LINE_SIZE - 1 /\ LINE_SIZE \in Nat \ {0}
      /\ Text = Taken(line, pos) /\ Len(Text) = pos /\ \A i \in 0..(pos - 1) : i \in Cells
  BY TextFacts
<1>2. Past' = Past /\ Back' = Back
  BY HistoryKept DEF Insert, Back
<1>3. CASE pos < LINE_SIZE - 1
  <2>1. line' = [line EXCEPT ![pos] = ch] /\ pos' = pos + 1
    BY <1>3 DEF Insert
  <2>2. pos \in Cells /\ line \in [Cells -> Chars \cup {NUL}]
    BY <1>1, <1>3, LineSizes DEF LineInv, LineTypeOK
  <2>3. \A i \in 0..(pos - 1) : i # pos
    BY <1>1
  <2>4. line'[pos] = ch /\ \A i \in 0..(pos - 1) : line'[i] = line[i]
    BY <1>1, <2>1, <2>2, <2>3
  <2>5. Taken(line', pos + 1) = Append(Taken(line, pos), ch)
    BY <1>1, <2>4, TakenMore
  <2>6. Text' = Append(Text, ch)
    BY <1>1, <2>1, <2>5, TextIsTaken
  <2> QED
    BY <1>1, <1>2, <1>3, <2>6, InputActions
<1>4. CASE ~(pos < LINE_SIZE - 1)
  <2>1. line' = line /\ pos' = pos
    BY <1>4 DEF Insert
  <2>2. Text' = Text
    BY <2>1, TextIsTaken
  <2> QED
    BY <1>1, <1>2, <1>4, <2>2, InputActions
<1> QED
  BY <1>3, <1>4

LEMMA CorrectImplements ==
  ASSUME LineInv, Backspace
  PROVE  Input!Correct
<1>1. /\ Holds(line, pos, Chars) /\ pos \in Nat
      /\ Text = Taken(line, pos) /\ Len(Text) = pos
  BY TextFacts
<1>2. Past' = Past /\ Back' = Back /\ line' = line
  BY HistoryKept DEF Backspace, Back
<1>3. CASE pos > 0
  <2>1. pos' = pos - 1 /\ pos \in Nat \ {0}
    BY <1>1, <1>3 DEF Backspace
  <2>2. Taken(line, pos - 1) = Front(Taken(line, pos))
    BY <1>1, <2>1, TakenLess
  <2>3. Text' = Front(Text)
    BY <1>1, <1>2, <2>1, <2>2, TextIsTaken
  <2>4. Text # <<>>
    BY <1>1, <1>3
  <2> QED
    BY <1>2, <2>3, <2>4, InputActions
<1>4. CASE ~(pos > 0)
  <2>1. pos = 0 /\ pos' = 0
    BY <1>1, <1>4 DEF Backspace
  <2>2. Text = <<>> /\ Text' = <<>>
    BY <1>1, <1>2, <2>1, TextIsTaken, TakenEmpty
  <2> QED
    BY <1>2, <2>2, InputActions
<1> QED
  BY <1>3, <1>4

LEMMA RecallImplements ==
  ASSUME LineInv, Up
  PROVE  Input!Recall
<1> DEFINE entry == history_buf[history_pos']
<1>1. /\ history_count \in Nat /\ history_pos \in Nat /\ history_pos <= history_count
      /\ history_pos' \in Nat /\ history_pos' < history_count
      /\ entry \in Lines /\ pos' = Len(entry)
      /\ \A i \in Cells : i < Len(entry) => line'[i] = entry[i + 1]
  BY UpFacts
<1>2. /\ Len(Past) = history_count /\ \A i \in 1..history_count : Past[i] = history_buf[i - 1]
  BY HistoryFacts
<1>3. Past' = Past /\ history_count' = history_count
  BY HistoryKept DEF Up
<1>4. Text' = entry
  <2> HIDE DEF entry
  <2>1. Len(entry) \in Nat /\ Len(entry) \in 0..(LINE_SIZE - 1) /\ entry \in Seq(Chars)
    BY <1>1, EntryFits
  <2>2. ASSUME NEW i \in 1..Len(entry) PROVE line'[i - 1] = entry[i]
    <3>1. i - 1 \in Cells /\ i - 1 < Len(entry) /\ (i - 1) + 1 = i
      BY <2>1, LineSizes
    <3> QED
      BY <1>1, <3>1
  <2>3. Taken(line', Len(entry)) = entry
    BY <2>1, <2>2, TakenEquals
  <2> QED
    BY <1>1, <2>3, TextIsTaken
<1>5. history_pos' = IF history_pos > 0 THEN history_pos - 1 ELSE 0
  BY DEF Up
<1>6. Back' = history_count - history_pos' /\ Back = history_count - history_pos
  BY <1>3 DEF Back
<1>7. Back' = IF Back < Len(Past) THEN Back + 1 ELSE Back
  BY <1>1, <1>2, <1>5, <1>6
<1>8. Past # <<>>
  BY <1>1, <1>2
<1>9. Past[Len(Past) + 1 - Back'] = entry
  <2>1. Len(Past) + 1 - Back' = history_pos' + 1 /\ history_pos' + 1 \in 1..history_count
    <3>1. Len(Past) + 1 - Back' = history_count + 1 - (history_count - history_pos')
      BY <1>2, <1>6
    <3>2. history_count + 1 - (history_count - history_pos') = history_pos' + 1
      BY <1>1
    <3>3. history_pos' + 1 \in 1..history_count
      <4> DEFINE h == history_pos'
      <4>1. h \in Nat /\ history_count \in Nat /\ h < history_count
        BY <1>1
      <4> HIDE DEF h
      <4>2. h + 1 \in 1..history_count
        BY <4>1
      <4> QED
        BY <4>2 DEF h
    <3> QED
      BY <3>1, <3>2, <3>3
  <2>2. (history_pos' + 1) - 1 = history_pos'
    <3> DEFINE h == history_pos'
    <3>1. h \in Nat
      BY <1>1
    <3> HIDE DEF h
    <3>2. (h + 1) - 1 = h
      BY <3>1
    <3> QED
      BY <3>2 DEF h
  <2> QED
    BY <1>2, <2>1, <2>2
<1> HIDE DEF entry
<1> QED
  BY <1>3, <1>4, <1>7, <1>8, <1>9, InputActions

LEMMA EnterImplements ==
  ASSUME LineInv, Enter
  PROVE  Input!Enter
<1> DEFINE n == history_count
<1>1. /\ pos \in Nat /\ Len(Text) = pos /\ Text \in Lines
  BY TextFacts
<1>2. /\ n \in Nat /\ HISTORY_SIZE \in Nat \ {0} /\ n <= HISTORY_SIZE
      /\ \A i \in 0..(n - 1) : i \in Entries /\ history_buf[i] \in Lines
      /\ Past \in Seq(Lines) /\ Len(Past) = n
      /\ \A i \in 1..n : Past[i] = history_buf[i - 1]
  BY HistoryFacts
<1>3. Text' = <<>> /\ Back' = 0
  <2>1. pos' = 0 /\ history_pos' = history_count' /\ LineInv'
    BY EnterKeeps DEF Enter
  <2>2. history_count' \in Nat
    BY <2>1, LineSizes DEF LineInv, LineTypeOK
  <2>3. Text' = <<>>
    BY <2>1, TextIsTaken, TakenEmpty
  <2>4. Back' = history_count' - history_count'
    BY <2>1 DEF Back
  <2>5. \A c \in Nat : c - c = 0
    OBVIOUS
  <2> QED
    BY <2>2, <2>3, <2>4, <2>5
<1>4. CASE pos = 0
  <2>1. Text = <<>>
    BY <1>1, <1>4
  <2>2. Past' = Past
    BY <1>4, HistoryKept DEF Enter
  <2> QED
    BY <1>3, <2>1, <2>2, InputActions
<1>5. CASE pos # 0
  <2>1. Text # <<>> /\ Remember(Text)
    BY <1>1, <1>5 DEF Enter
  <2>2. Repeats(Text) <=> (Past # <<>> /\ Last(Past) = Text)
    <3>1. CASE n = 0
      BY <1>2, <3>1 DEF Repeats
    <3>2. CASE n # 0
      <4>1. Past # <<>> /\ Last(Past) = history_buf[n - 1] /\ n > 0
        BY <1>2, <3>2 DEF Last
      <4> QED
        BY <4>1 DEF Repeats
    <3> QED
      BY <3>1, <3>2
  <2>3. CASE Repeats(Text)
    <3>1. Past' = Past
      BY <2>1, <2>3, HistoryKept DEF Remember
    <3> QED
      BY <1>3, <2>2, <2>3, <3>1, InputActions
  <2> DEFINE more == Append(Past, Text)
  <2>4. /\ more \in Seq(Lines) /\ Len(more) = n + 1
        /\ more = SubSeq(more, 1, n + 1)
    BY <1>1, <1>2
  <2>5. Holds(history_buf, n, Lines) /\ Past = Taken(history_buf, n)
    BY <1>2 DEF Holds, Past
  <2>6. history_buf \in [Entries -> Lines]
    BY DEF LineInv, LineTypeOK
  <2>7. CASE ~Repeats(Text) /\ n < HISTORY_SIZE
    <3>1. history_buf' = [history_buf EXCEPT ![n] = Text] /\ history_count' = n + 1
      BY <1>2, <2>1, <2>7 DEF Remember
    <3>2. n \in Entries /\ \A i \in 0..(n - 1) : i # n /\ i \in Entries
      BY <1>2, <2>7, LineSizes
    <3>3. history_buf'[n] = Text /\ \A i \in 0..(n - 1) : history_buf'[i] = history_buf[i]
      BY <2>6, <3>1, <3>2
    <3>4. Taken(history_buf', n + 1) = Append(Taken(history_buf, n), Text)
      BY <1>1, <1>2, <2>5, <3>3, TakenMore
    <3>5. Past' = more
      BY <2>5, <3>1, <3>4 DEF Past
    <3>6. ~(Len(more) > HISTORY_SIZE)
      BY <1>2, <2>4, <2>7
    <3> HIDE DEF n
    <3>7. Past' = SubSeq(more, IF Len(more) > HISTORY_SIZE THEN 2 ELSE 1, Len(more))
      BY <2>4, <3>5, <3>6
    <3> QED
      BY <1>3, <2>1, <2>2, <2>7, <3>7, InputActions
  <2>8. CASE ~Repeats(Text) /\ n = HISTORY_SIZE
    <3>1. /\ history_buf' = [i \in Entries |->
                 IF i = HISTORY_SIZE - 1 THEN Text ELSE history_buf[i + 1]]
          /\ history_count' = n
      BY <1>2, <2>1, <2>8 DEF Remember
    <3>2. /\ n - 1 \in Entries /\ n \in Nat \ {0}
          /\ \A i \in 0..(n - 2) : i \in Entries /\ i # n - 1
      BY <1>2, <2>8, LineSizes
    <3>3. history_buf'[n - 1] = Text /\ \A i \in 0..(n - 2) : history_buf'[i] = history_buf[i + 1]
      BY <2>8, <3>1, <3>2
    <3>4. Taken(history_buf', n) = SubSeq(Append(Taken(history_buf, n), Text), 2, n + 1)
      <4> DEFINE k == history_buf'
                 c == Text
      <4>1. /\ n \in Nat \ {0} /\ c \in Lines /\ Holds(history_buf, n, Lines)
            /\ k[n - 1] = c /\ \A i \in 0..(n - 2) : k[i] = history_buf[i + 1]
        BY <1>1, <2>5, <3>2, <3>3
      <4> HIDE DEF k, c, n
      <4>2. Taken(k, n) = SubSeq(Append(Taken(history_buf, n), c), 2, n + 1)
        BY <4>1, TakenShifted
      <4> QED
        BY <4>2 DEF k, c
    <3>5. Past' = SubSeq(more, 2, n + 1)
      BY <2>5, <3>1, <3>4 DEF Past
    <3>6. Len(more) > HISTORY_SIZE /\ Len(more) = n + 1
      BY <1>2, <2>4, <2>8
    <3>7. Past' = SubSeq(more, IF Len(more) > HISTORY_SIZE THEN 2 ELSE 1, Len(more))
      BY <3>5, <3>6
    <3> QED
      BY <1>3, <2>1, <2>2, <2>8, <3>7, InputActions
  <2> QED
    BY <1>2, <2>3, <2>7, <2>8
<1> QED
  BY <1>4, <1>5

\* Every key changes the line as its own action does, whatever the screen shows.
LEMMA KeysActOnLine ==
  ASSUME ScreenNext
  PROVE  UNCHANGED lineVars \/ Backspace \/ Up \/ Enter \/ \E ch \in Chars : Insert(ch)
BY DEF ScreenNext, Idle, BackspaceKey, UpKey, EnterKey, TypeKey

\* The array with its stale tail, the indices and the shifting table are a line
\* and a bounded list of past lines, for every size of either.
THEOREM PromptImplementsLineInput == ScreenSpec => ImplementsLineInput
<1>1. ScreenInit => Input!Init
  <2> SUFFICES ASSUME ScreenInit PROVE Input!Init
    OBVIOUS
  <2>1. pos = 0 /\ history_count = 0 /\ history_pos = 0
    BY DEF ScreenInit, LineInit
  <2>2. Text = <<>> /\ Past = <<>>
    BY <2>1, TextIsTaken, TakenEmpty DEF Past
  <2> QED
    BY <2>1, <2>2 DEF Input!Init, Past, Taken
<1>2. ScreenInv /\ [ScreenNext]_<<lineVars, screenVars>>
        => [Input!Next]_<<Text, [i \in 1..history_count |-> history_buf[i - 1]],
                          history_count - history_pos>>
  <2> SUFFICES ASSUME ScreenInv, [ScreenNext]_<<lineVars, screenVars>>
               PROVE  \/ Input!Next
                      \/ Text' = Text /\ Past' = Past /\ Back' = Back
    BY DEF Past, Taken, Back
  <2>1. LineInv
    BY DEF ScreenInv
  <2>2. CASE UNCHANGED lineVars
    BY <2>2, HistoryKept, TextIsTaken DEF lineVars, Back
  <2>3. CASE Backspace
    BY <2>1, <2>3, CorrectImplements DEF Input!Next
  <2>4. CASE Up
    BY <2>1, <2>4, RecallImplements DEF Input!Next
  <2>5. CASE Enter
    BY <2>1, <2>5, EnterImplements DEF Input!Next
  <2>6. ASSUME NEW ch \in Chars, Insert(ch) PROVE Input!Next
    BY <2>1, <2>6, TypeImplements DEF Input!Next
  <2> QED
    BY <2>2, <2>3, <2>4, <2>5, <2>6, KeysActOnLine
<1> QED
  BY InitScreenInv, NextScreenInv, <1>1, <1>2, PTL DEF ScreenSpec, ImplementsLineInput, Input!Spec
-----------------------------------------------------------------------------
(* The tokens are the words                                                *)

\* Where a scan of s may stand, and where it does not stand inside a word.
Places(s) == 1..(Len(s) + 1)

Between(s, p) == p = 1 \/ p > Len(s) \/ s[p - 1] \in Blanks \/ s[p] \in Blanks

\* The words that start before p, and their number.
Before(s, p) == {j \in WordStarts(s) : j < p}

Words(s) == Cardinality(WordStarts(s))

LEMMA SkipStops ==
  ASSUME NEW s, Len(s) \in Nat, NEW p \in Places(s), NEW S
  PROVE  /\ Skip(s, p, S) \in Places(s) /\ p <= Skip(s, p, S)
         /\ Skip(s, p, S) = Len(s) + 1 \/ (Skip(s, p, S) <= Len(s) /\ s[Skip(s, p, S)] \in S)
         /\ \A k \in p..(Skip(s, p, S) - 1) : s[k] \notin S
<1> DEFINE L == Len(s)
           stops == {q \in p..(L + 1) : q = L + 1 \/ s[q] \in S}
           Stop(q) == (q = L + 1 \/ s[q] \in S) /\ \A k \in p..(q - 1) : s[k] \notin S
<1> HIDE DEF L
<1>1. L \in Nat /\ p \in Nat /\ p <= L + 1 /\ p >= 1
  BY DEF Places, L
<1>2. stops \subseteq Nat /\ L + 1 \in stops
  BY <1>1
<1>3. PICK q \in stops : \A m \in stops : q <= m
  BY <1>2, LeastNatural
<1>4. q \in p..(L + 1) /\ (q = L + 1 \/ s[q] \in S)
  BY <1>3
<1>5. ASSUME NEW k \in p..(q - 1) PROVE s[k] \notin S
  <2>1. k \in p..(L + 1) /\ ~(q <= k)
    BY <1>1, <1>4
  <2>2. k \notin stops
    BY <1>3, <2>1
  <2> QED
    BY <2>1, <2>2
<1>6. q \in p..(L + 1) /\ Stop(q)
  BY <1>4, <1>5
<1>7. Skip(s, p, S) = CHOOSE r \in p..(L + 1) : Stop(r)
  BY DEF Skip, L
<1> HIDE DEF Stop
<1>8. Skip(s, p, S) \in p..(L + 1) /\ Stop(Skip(s, p, S))
  BY <1>6, <1>7, Zenon
<1> DEFINE r == Skip(s, p, S)
<1> HIDE DEF r
<1>9. r \in p..(L + 1) /\ (r = L + 1 \/ s[r] \in S) /\ \A k \in p..(r - 1) : s[k] \notin S
  BY <1>8 DEF Stop, r
<1>10. r \in 1..(L + 1) /\ p <= r /\ (r = L + 1 \/ (r <= L /\ s[r] \in S))
  BY <1>1, <1>9
<1> QED
  BY <1>9, <1>10 DEF r, L, Places

\* From between two words the scan finds the next word or the end of the line.
LEMMA TokenFound ==
  ASSUME NEW s \in Seq(Chars), NEW p \in Places(s), Between(s, p)
  PROVE  \/ /\ TokenStart(s, p) = Len(s) + 1 /\ TokenEnd(s, p) = Len(s) + 1
            /\ Before(s, p) = WordStarts(s)
         \/ /\ TokenStart(s, p) \in WordStarts(s) /\ TokenStart(s, p) <= Len(s)
            /\ TokenStart(s, p) >= p /\ Before(s, TokenStart(s, p)) = Before(s, p)
            /\ TokenEnd(s, p) \in Places(s) /\ TokenEnd(s, p) > TokenStart(s, p)
            /\ \A k \in TokenStart(s, p)..(TokenEnd(s, p) - 1) : s[k] \notin Blanks
            /\ TokenEnd(s, p) = Len(s) + 1 \/ (TokenEnd(s, p) <= Len(s) /\ s[TokenEnd(s, p)] \in Blanks)
<1> DEFINE L == Len(s)
           a == TokenStart(s, p)
           e == TokenEnd(s, p)
<1>1. /\ L \in Nat /\ p \in Nat /\ p >= 1 /\ p <= L + 1 /\ Blanks \subseteq Chars
      /\ \A i \in 1..L : s[i] \in Chars
  BY LineAssumption DEF Places
<1>2. /\ a \in Places(s) /\ p <= a /\ (a = L + 1 \/ (a <= L /\ s[a] \in Chars \ Blanks))
      /\ \A k \in p..(a - 1) : s[k] \notin Chars \ Blanks
  BY <1>1, SkipStops DEF TokenStart
<1>3. /\ e \in Places(s) /\ a <= e /\ (e = L + 1 \/ (e <= L /\ s[e] \in Blanks))
      /\ \A k \in a..(e - 1) : s[k] \notin Blanks
  BY <1>1, <1>2, SkipStops DEF TokenEnd
<1> HIDE DEF a, e
<1>4. a \in Nat /\ a >= 1 /\ a <= L + 1 /\ e \in Nat /\ e <= L + 1
  BY <1>1, <1>2, <1>3 DEF Places
<1>5. ASSUME NEW j \in WordStarts(s), j >= p PROVE ~(j < a)
  <2>1. j \in 1..L /\ s[j] \notin Blanks /\ s[j] \in Chars
    BY <1>1 DEF WordStarts
  <2>2. ~(j \in p..(a - 1))
    BY <1>2, <2>1
  <2> QED
    BY <1>1, <1>4, <1>5, <2>1, <2>2
<1>6. \A j \in WordStarts(s) : j \in 1..L
  BY DEF WordStarts
<1> HIDE DEF L
<1>7. Before(s, a) = Before(s, p)
  <2>1. \A j \in WordStarts(s) : j < a <=> j < p
    BY <1>1, <1>2, <1>4, <1>5, <1>6
  <2> QED
    BY <2>1 DEF Before
<1>8. CASE a = L + 1
  <2>1. e = L + 1
    BY <1>1, <1>3, <1>4, <1>8
  <2>2. \A j \in WordStarts(s) : j < a
    BY <1>1, <1>6, <1>8
  <2>3. Before(s, a) = WordStarts(s)
    BY <2>2 DEF Before
  <2> QED
    BY <1>7, <1>8, <2>1, <2>3 DEF a, e, L
<1>9. CASE a <= L
  <2>1. s[a] \in Chars /\ s[a] \notin Blanks /\ a \in 1..L
    BY <1>1, <1>2, <1>4, <1>9
  <2>2. a = 1 \/ s[a - 1] \in Blanks
    <3>1. CASE a = p
      <4>1. p = 1 \/ s[p - 1] \in Blanks
        BY <1>1, <1>9, <2>1, <3>1 DEF Between, L
      <4> QED
        BY <3>1, <4>1
    <3>2. CASE a # p
      <4>1. a - 1 \in p..(a - 1) /\ a - 1 \in 1..L
        BY <1>1, <1>2, <1>4, <1>9, <3>2
      <4> QED
        BY <1>1, <1>2, <4>1
    <3> QED
      BY <3>1, <3>2
  <2>3. a \in WordStarts(s)
    BY <2>1, <2>2 DEF WordStarts, L
  <2>4. e # a
    BY <1>1, <1>3, <1>9, <2>1
  <2>5. e > a
    BY <1>3, <1>4, <2>4
  <2> QED
    BY <1>2, <1>3, <1>7, <1>9, <2>3, <2>5 DEF a, e, L
<1> QED
  BY <1>2, <1>8, <1>9

\* Behind a word there is no other word before the byte that follows it.
LEMMA TokenPassed ==
  ASSUME NEW s \in Seq(Chars), NEW a \in WordStarts(s), NEW e \in Places(s), e > a,
         \A k \in a..(e - 1) : s[k] \notin Blanks,
         e = Len(s) + 1 \/ (e <= Len(s) /\ s[e] \in Blanks),
         NEW b, b = e \/ (e <= Len(s) /\ b = e + 1)
  PROVE  /\ Word(s, a) = SubSeq(s, a, e - 1)
         /\ b \in Places(s) /\ Between(s, b)
         /\ Before(s, b) = Before(s, a) \cup {a}
<1> DEFINE L == Len(s)
<1>1. /\ L \in Nat /\ a \in 1..L /\ e \in Nat /\ e <= L + 1 /\ b \in 1..(L + 1)
      /\ \A j \in WordStarts(s) : j \in 1..L
  BY DEF WordStarts, Places
<1>2. Between(s, b)
  <2>1. CASE b = e
    BY <1>1, <2>1 DEF Between
  <2>2. CASE e <= L /\ b = e + 1
    <3>1. b - 1 = e /\ s[e] \in Blanks
      BY <1>1, <2>2
    <3> QED
      BY <3>1 DEF Between
  <2> QED
    BY <2>1, <2>2
<1>3. ASSUME NEW j \in WordStarts(s), j < b, ~(j < a) PROVE j = a
  <2> SUFFICES ASSUME j # a PROVE FALSE
    OBVIOUS
  <2>1. j \in 1..L /\ j > a /\ j <= e /\ s[j] \notin Blanks /\ (j = 1 \/ s[j - 1] \in Blanks)
    BY <1>1, <1>3 DEF WordStarts
  <2>2. j - 1 \in a..(e - 1) /\ j # 1
    BY <1>1, <2>1
  <2> QED
    BY <2>1, <2>2
<1>4. \A j \in WordStarts(s) : j < b <=> (j < a \/ j = a)
  <2>1. a < b
    BY <1>1
  <2> QED
    BY <1>1, <1>3, <2>1
<1>5. Before(s, b) = Before(s, a) \cup {a}
  BY <1>4 DEF Before
<1> DEFINE run == {j \in a..L : \A k \in a..j : s[k] \notin Blanks}
<1>6. e - 1 \in run
  BY <1>1
<1>7. ASSUME NEW j \in run PROVE j <= e - 1
  <2>1. j \in Int /\ a <= j /\ j <= L /\ \A k \in a..j : s[k] \notin Blanks
    BY <1>1
  <2>2. ~(e \in a..j)
    BY <1>1, <2>1
  <2> QED
    BY <1>1, <2>1, <2>2
<1>8. Max(run) = e - 1
  <2>1. run \subseteq Int
    BY <1>1
  <2> DEFINE top == e - 1
  <2> HIDE DEF run
  <2>2. top \in run /\ \A y \in run : top >= y
    BY <1>1, <1>6, <1>7, <2>1
  <2> HIDE DEF top
  <2>3. Max(run) = CHOOSE x \in run : \A y \in run : x >= y
    BY DEF Max
  <2>4. Max(run) \in run /\ \A y \in run : Max(run) >= y
    BY <2>2, <2>3, Zenon
  <2>5. Max(run) >= top /\ top >= Max(run) /\ Max(run) \in Int /\ top \in Int
    BY <2>1, <2>2, <2>4
  <2>6. Max(run) = top
    BY <2>5
  <2> QED
    BY <2>6 DEF top
<1> QED
  BY <1>1, <1>2, <1>5, <1>8 DEF Word, Places

LEMMA WordSets ==
  ASSUME NEW s \in Seq(Chars)
  PROVE  /\ WordStarts(s) \subseteq 1..Len(s) /\ IsFiniteSet(WordStarts(s)) /\ Words(s) \in Nat
         /\ \A S \in SUBSET WordStarts(s) :
              /\ IsFiniteSet(S) /\ Cardinality(S) \in Nat /\ Cardinality(S) <= Words(s)
              /\ Cardinality(S) = Words(s) => S = WordStarts(s)
<1>1. WordStarts(s) \subseteq 1..Len(s) /\ Len(s) \in Nat
  BY DEF WordStarts
<1>2. IsFiniteSet(1..Len(s))
  BY <1>1, FS_Interval
<1>3. IsFiniteSet(WordStarts(s))
  BY <1>1, <1>2, FS_Subset
<1> QED
  BY <1>1, <1>3, FS_Subset, FS_CardinalityType DEF Words

\* A word before which c words start is the word number c + 1, and no other is.
LEMMA StartNumbered ==
  ASSUME NEW s \in Seq(Chars), NEW a \in WordStarts(s)
  PROVE  /\ NthStart(s, Cardinality(Before(s, a)) + 1) = a
         /\ Cardinality(Before(s, a)) < Words(s)
         /\ Cardinality(Before(s, a) \cup {a}) = Cardinality(Before(s, a)) + 1
<1> DEFINE W == WordStarts(s)
           To(i) == {j \in W : j <= i}
           c == Cardinality(Before(s, a))
<1>1. /\ W \subseteq 1..Len(s) /\ Len(s) \in Nat /\ Before(s, a) \in SUBSET W /\ a \notin Before(s, a)
      /\ c \in Nat /\ c <= Words(s) /\ IsFiniteSet(Before(s, a)) /\ Words(s) \in Nat
  BY WordSets DEF Before
<1>2. To(a) = Before(s, a) \cup {a}
  BY <1>1 DEF Before
<1>3. Cardinality(Before(s, a) \cup {a}) = c + 1
  BY <1>1, FS_AddElement
<1>4. c # Words(s)
  BY <1>1, WordSets
<1>5. \A i \in W : To(i) \in SUBSET W /\ IsFiniteSet(To(i)) /\ Cardinality(To(i)) \in Nat
  BY WordSets
<1>6. ASSUME NEW i \in W, NEW k \in W, i < k PROVE Cardinality(To(i)) # Cardinality(To(k))
  <2>1. To(i) \subseteq To(k) /\ k \in To(k) /\ k \notin To(i)
    BY <1>1, <1>6
  <2> HIDE DEF To
  <2> QED
    BY <1>5, <2>1, FS_Subset
<1>7. Cardinality(To(a)) = c + 1
  BY <1>2, <1>3
<1>8. NthStart(s, c + 1) = CHOOSE i \in W : Cardinality(To(i)) = c + 1
  BY DEF NthStart
<1> DEFINE n == NthStart(s, c + 1)
<1> HIDE DEF To, W, c, n
<1>9. n \in W /\ Cardinality(To(n)) = c + 1
  BY <1>7, <1>8, Zenon DEF n, W
<1>10. n \in Int /\ a \in Int /\ a \in W
  BY <1>1, <1>9 DEF W
<1>11. ~(n < a) /\ ~(a < n)
  BY <1>6, <1>7, <1>9, <1>10
<1> QED
  BY <1>1, <1>3, <1>4, <1>10, <1>11 DEF n, c

\* One round of the loops: the next word, or the end of the line for good.
LEMMA NextToken ==
  ASSUME NEW s \in Seq(Chars), NEW p \in Places(s), Between(s, p),
         NEW b, \/ b = TokenEnd(s, p)
                \/ TokenEnd(s, p) <= Len(s) /\ b = TokenEnd(s, p) + 1
  PROVE  /\ b \in Places(s) /\ Between(s, b) /\ Cardinality(Before(s, p)) \in Nat
         /\ \/ /\ Cardinality(Before(s, p)) < Words(s)
               /\ TokenStart(s, p) <= Len(s)
               /\ TokenStart(s, p) = NthStart(s, Cardinality(Before(s, p)) + 1)
               /\ SubSeq(s, TokenStart(s, p), TokenEnd(s, p) - 1) = Word(s, TokenStart(s, p))
               /\ Cardinality(Before(s, b)) = Cardinality(Before(s, p)) + 1
            \/ /\ Cardinality(Before(s, p)) = Words(s)
               /\ TokenStart(s, p) = Len(s) + 1
               /\ Cardinality(Before(s, b)) = Words(s)
<1> DEFINE L == Len(s)
           a == TokenStart(s, p)
           e == TokenEnd(s, p)
<1>1. L \in Nat /\ Cardinality(Before(s, p)) \in Nat
  BY WordSets DEF Before
<1>2. b = e \/ (e <= L /\ b = e + 1)
  OBVIOUS
<1>3. CASE a = L + 1 /\ e = L + 1 /\ Before(s, p) = WordStarts(s)
  <2>1. b = L + 1
    BY <1>1, <1>2, <1>3
  <2>2. b \in Places(s) /\ Between(s, b)
    BY <1>1, <2>1 DEF Places, Between
  <2>3. Before(s, b) = WordStarts(s)
    <3>1. \A j \in WordStarts(s) : j < b
      BY <1>1, <2>1 DEF WordStarts
    <3> QED
      BY <3>1 DEF Before
  <2> QED
    BY <1>1, <1>3, <2>2, <2>3 DEF Words
<1>4. CASE /\ a \in WordStarts(s) /\ a <= L /\ Before(s, a) = Before(s, p)
           /\ e \in Places(s) /\ e > a /\ \A k \in a..(e - 1) : s[k] \notin Blanks
           /\ e = L + 1 \/ (e <= L /\ s[e] \in Blanks)
  <2> HIDE DEF a, e
  <2>1. /\ Word(s, a) = SubSeq(s, a, e - 1) /\ b \in Places(s) /\ Between(s, b)
        /\ Before(s, b) = Before(s, a) \cup {a}
    BY <1>2, <1>4, TokenPassed
  <2>2. /\ NthStart(s, Cardinality(Before(s, a)) + 1) = a
        /\ Cardinality(Before(s, a)) < Words(s)
        /\ Cardinality(Before(s, a) \cup {a}) = Cardinality(Before(s, a)) + 1
    BY <1>4, StartNumbered
  <2> QED
    BY <1>1, <1>4, <2>1, <2>2 DEF a, e
<1> QED
  BY <1>3, <1>4, TokenFound

\* After k rounds k words lie behind, or all of them.
LEMMA Rounds ==
  ASSUME NEW s \in Seq(Chars), NEW n \in Nat, NEW f, f[0] = 1,
         \A k \in 1..n : \/ f[k] = TokenEnd(s, f[k - 1])
                         \/ /\ TokenEnd(s, f[k - 1]) <= Len(s)
                            /\ f[k] = TokenEnd(s, f[k - 1]) + 1
  PROVE  \A k \in 0..n : /\ f[k] \in Places(s) /\ Between(s, f[k])
                         /\ Cardinality(Before(s, f[k])) = IF k < Words(s) THEN k ELSE Words(s)
<1> DEFINE Counted(q, k) == /\ q \in Places(s) /\ Between(s, q)
                            /\ Cardinality(Before(s, q)) = IF k < Words(s) THEN k ELSE Words(s)
           T == {k \in 0..n : Counted(f[k], k)}
<1>1. Words(s) \in Nat /\ Len(s) \in Nat
  BY WordSets
<1>2. 0 \in T
  <2>1. 1 \in Places(s) /\ Between(s, 1)
    BY <1>1 DEF Places, Between
  <2>2. Before(s, 1) = {}
    BY <1>1 DEF Before, WordStarts
  <2>3. Cardinality(Before(s, 1)) = 0
    BY <2>2, FS_EmptySet
  <2>4. Counted(1, 0)
    BY <1>1, <2>1, <2>3
  <2> QED
    BY <2>4
<1>3. ASSUME NEW k \in 1..n, k - 1 \in T PROVE k \in T
  <2> DEFINE p == f[k - 1]
             b == f[k]
  <2>1. k \in 0..n /\ k \in Nat /\ k - 1 \in Nat /\ Counted(p, k - 1)
    BY <1>3
  <2>2. b = TokenEnd(s, p) \/ (TokenEnd(s, p) <= Len(s) /\ b = TokenEnd(s, p) + 1)
    BY <1>3
  <2> HIDE DEF p, b
  <2>3. b \in Places(s) /\ Between(s, b)
    BY <2>1, <2>2, NextToken
  <2>4. \/ /\ Cardinality(Before(s, p)) < Words(s)
           /\ Cardinality(Before(s, b)) = Cardinality(Before(s, p)) + 1
        \/ /\ Cardinality(Before(s, p)) = Words(s)
           /\ Cardinality(Before(s, b)) = Words(s)
    BY <2>1, <2>2, NextToken
  <2>5. Cardinality(Before(s, b)) = IF k < Words(s) THEN k ELSE Words(s)
    <3> DEFINE m == Cardinality(Before(s, p))
               c == Cardinality(Before(s, b))
               w == Words(s)
    <3>1. /\ k \in Nat /\ w \in Nat /\ m = IF k - 1 < w THEN k - 1 ELSE w
          /\ (m < w /\ c = m + 1) \/ (m = w /\ c = w)
      BY <1>1, <2>1, <2>4
    <3> HIDE DEF m, c, w
    <3>2. c = IF k < w THEN k ELSE w
      BY <3>1
    <3> QED
      BY <3>2 DEF c, w
  <2>6. Counted(f[k], k)
    BY <2>3, <2>5 DEF b
  <2> QED
    BY <2>1, <2>6
<1> HIDE DEF T
<1>4. \A k \in 0..n : k \in T
  BY <1>2, <1>3, UpToN
<1> QED
  BY <1>4 DEF T

\* A function defined by its value at 0 and a step is what the step makes of it.
LEMMA RoundsExist ==
  ASSUME NEW s \in Seq(Chars), NEW n \in Nat, NEW g \in [Places(s) -> Places(s)]
  PROVE  \E f \in [0..n -> Places(s)] : f[0] = 1 /\ \A k \in 1..n : f[k] = g[f[k - 1]]
<1> DEFINE G == [k \in 1..n |-> g]
           S == Places(s)
<1>1. G \in [1..n -> [S -> S]] /\ 1 \in S
  BY DEF Places
<1> HIDE DEF S
<1>2. \A k \in 1..n : G[k] = g
  OBVIOUS
<1> HIDE DEF G
<1>3. Computes(n, S, 1, G)
  BY <1>1, LoopExists
<1>4. PICK f \in [0..n -> S] : f[0] = 1 /\ \A k \in 1..n : f[k] = G[k][f[k - 1]]
  BY <1>3 DEF Computes
<1> QED
  BY <1>2, <1>4 DEF S

\* split_args takes the first words.
LEMMA SplitTakesWords ==
  ASSUME NEW s \in Seq(Chars), NEW n \in Nat
  PROVE  split_args(s, n) =
           [k \in 1..(IF n < Words(s) THEN n ELSE Words(s)) |-> Word(s, NthStart(s, k))]
<1> DEFINE L == Len(s)
           Behind(q) == IF TokenEnd(s, q) > L THEN TokenEnd(s, q) ELSE TokenEnd(s, q) + 1
           p[k \in 0..n] ==
             IF k = 0 THEN 1
             ELSE LET end == TokenEnd(s, p[k - 1]) IN IF end > Len(s) THEN end ELSE end + 1
           argc == Cardinality({k \in 1..n : TokenStart(s, p[k - 1]) <= Len(s)})
           m == IF n < Words(s) THEN n ELSE Words(s)
<1>1. split_args(s, n) = [k \in 1..argc |-> SubSeq(s, TokenStart(s, p[k - 1]), TokenEnd(s, p[k - 1]) - 1)]
  BY DEF split_args
<1>2. L \in Nat /\ Words(s) \in Nat
  BY WordSets
<1>3. ASSUME NEW q \in Places(s) PROVE Behind(q) \in Places(s)
  <2>1. TokenStart(s, q) \in Places(s)
    BY <1>2, SkipStops DEF TokenStart
  <2>2. TokenEnd(s, q) \in Places(s)
    BY <1>2, <2>1, SkipStops DEF TokenEnd
  <2> QED
    BY <1>2, <2>2 DEF Places
<1> DEFINE g == [q \in Places(s) |-> Behind(q)]
<1>4. g \in [Places(s) -> Places(s)] /\ \A q \in Places(s) : g[q] = Behind(q)
  BY <1>3
<1> HIDE DEF g
<1>5. PICK f \in [0..n -> Places(s)] : f[0] = 1 /\ \A k \in 1..n : f[k] = g[f[k - 1]]
  BY <1>4, RoundsExist
<1>6. \A k \in 1..n : k - 1 \in 0..n /\ f[k] = Behind(f[k - 1])
  <2> SUFFICES ASSUME NEW k \in 1..n PROVE k - 1 \in 0..n /\ f[k] = Behind(f[k - 1])
    OBVIOUS
  <2>1. k - 1 \in 0..n /\ f[k - 1] \in Places(s)
    OBVIOUS
  <2> QED
    BY <1>4, <1>5, <2>1
<1>7. f = [k \in 0..n |-> IF k = 0 THEN 1
             ELSE LET end == TokenEnd(s, f[k - 1]) IN IF end > Len(s) THEN end ELSE end + 1]
  <2>1. \A k \in 0..n : f[k] = IF k = 0 THEN 1
             ELSE LET end == TokenEnd(s, f[k - 1]) IN IF end > Len(s) THEN end ELSE end + 1
    <3> SUFFICES ASSUME NEW k \in 0..n
                 PROVE  f[k] = IF k = 0 THEN 1 ELSE Behind(f[k - 1])
      OBVIOUS
    <3>1. k # 0 => k \in 1..n
      OBVIOUS
    <3> QED
      BY <1>5, <1>6, <3>1
  <2> QED
    BY <2>1
<1>8. p = [k \in 0..n |-> IF k = 0 THEN 1
             ELSE LET end == TokenEnd(s, p[k - 1]) IN IF end > Len(s) THEN end ELSE end + 1]
  BY <1>7, Zenon
<1> HIDE DEF p
<1>9. p[0] = 1 /\ \A k \in 1..n : p[k] = Behind(p[k - 1])
  <2>1. 0 \in 0..n /\ \A k \in 1..n : k \in 0..n /\ k # 0
    OBVIOUS
  <2> QED
    BY <1>8, <2>1
<1> HIDE DEF argc
<1>10. \A k \in 0..n : /\ p[k] \in Places(s) /\ Between(s, p[k])
                       /\ Cardinality(Before(s, p[k])) = IF k < Words(s) THEN k ELSE Words(s)
  <2>1. \A k \in 1..n : \/ p[k] = TokenEnd(s, p[k - 1])
                        \/ TokenEnd(s, p[k - 1]) <= Len(s) /\ p[k] = TokenEnd(s, p[k - 1]) + 1
    <3> SUFFICES ASSUME NEW k \in 1..n
                 PROVE  \/ p[k] = TokenEnd(s, p[k - 1])
                        \/ TokenEnd(s, p[k - 1]) <= Len(s) /\ p[k] = TokenEnd(s, p[k - 1]) + 1
      OBVIOUS
    <3> DEFINE T == {i \in 0..n : p[i] \in Places(s)}
    <3>1. 0 \in T
      BY <1>2, <1>9 DEF Places
    <3>2. ASSUME NEW j \in 1..n, j - 1 \in T PROVE j \in T
      BY <1>3, <1>9, <3>2
    <3> HIDE DEF T
    <3>3. \A j \in 0..n : j \in T
      BY <3>1, <3>2, UpToN
    <3>4. p[k - 1] \in Places(s)
      BY <3>3 DEF T
    <3>5. TokenStart(s, p[k - 1]) \in Places(s)
      BY <1>2, <3>4, SkipStops DEF TokenStart
    <3>6. TokenEnd(s, p[k - 1]) \in Int
      BY <1>2, <3>5, SkipStops DEF TokenEnd, Places
    <3> QED
      BY <1>2, <1>9, <3>6
  <2> QED
    BY <1>9, <2>1, Rounds
<1>11. ASSUME NEW k \in 1..n
       PROVE  /\ TokenStart(s, p[k - 1]) <= Len(s) <=> k <= m
              /\ k <= m => SubSeq(s, TokenStart(s, p[k - 1]), TokenEnd(s, p[k - 1]) - 1)
                             = Word(s, NthStart(s, k))
  <2> DEFINE q == p[k - 1]
             c == Cardinality(Before(s, q))
  <2>1. /\ k - 1 \in 0..n /\ q \in Places(s) /\ Between(s, q)
        /\ c = IF k - 1 < Words(s) THEN k - 1 ELSE Words(s)
    BY <1>10
  <2> HIDE DEF q, c
  <2>2. \/ /\ c < Words(s) /\ TokenStart(s, q) <= L /\ TokenStart(s, q) = NthStart(s, c + 1)
           /\ SubSeq(s, TokenStart(s, q), TokenEnd(s, q) - 1) = Word(s, TokenStart(s, q))
        \/ c = Words(s) /\ TokenStart(s, q) = L + 1
    BY <2>1, NextToken DEF c
  <2>3. k \in Nat /\ k >= 1 /\ k <= n /\ (k <= m <=> k <= Words(s))
    BY <1>2
  <2>4. CASE c < Words(s)
    <3>1. c + 1 = k /\ k <= Words(s)
      BY <1>2, <2>1, <2>3, <2>4
    <3> QED
      BY <2>2, <2>3, <2>4, <3>1 DEF q
  <2>5. CASE c = Words(s)
    <3>1. ~(k <= Words(s))
      BY <1>2, <2>1, <2>3, <2>5
    <3>2. ~(TokenStart(s, q) <= L)
      BY <1>2, <2>2, <2>5
    <3> QED
      BY <2>3, <3>1, <3>2 DEF q
  <2> QED
    BY <2>2, <2>4, <2>5
<1>12. m \in Nat /\ m <= n
  BY <1>2
<1> HIDE DEF m
<1>13. argc = m
  <2>1. {k \in 1..n : TokenStart(s, p[k - 1]) <= Len(s)} = 1..m
    <3>1. ASSUME NEW k \in 1..n PROVE TokenStart(s, p[k - 1]) <= Len(s) <=> k \in 1..m
      <4>1. k \in 1..m <=> k <= m
        BY <1>12
      <4> QED
        BY <1>11, <4>1
    <3>2. 1..m \subseteq 1..n
      BY <1>12
    <3> QED
      BY <3>1, <3>2
  <2>2. Cardinality(1..m) = m
    BY <1>12, FS_Interval
  <2> QED
    BY <2>1, <2>2 DEF argc
<1>14. \A k \in 1..m : SubSeq(s, TokenStart(s, p[k - 1]), TokenEnd(s, p[k - 1]) - 1)
                         = Word(s, NthStart(s, k))
  BY <1>11, <1>12
<1>15. split_args(s, n) = [k \in 1..m |-> Word(s, NthStart(s, k))]
  BY <1>1, <1>13, <1>14
<1> QED
  BY <1>15 DEF m

\* after_n_tokens goes on at the word after them.
LEMMA AfterTokensIsRest ==
  ASSUME NEW s \in Seq(Chars), NEW n \in Nat
  PROVE  after_n_tokens(s, n) =
           IF n < Words(s) THEN SubSeq(s, NthStart(s, n + 1), Len(s)) ELSE <<>>
<1> DEFINE L == Len(s)
           past[k \in 0..n] == IF k = 0 THEN 1 ELSE TokenEnd(s, past[k - 1])
<1>1. after_n_tokens(s, n) = SubSeq(s, TokenStart(s, past[n]), Len(s))
  BY DEF after_n_tokens
<1>2. L \in Nat /\ Words(s) \in Nat
  BY WordSets
<1>3. ASSUME NEW q \in Places(s) PROVE TokenEnd(s, q) \in Places(s)
  <2>1. TokenStart(s, q) \in Places(s)
    BY <1>2, SkipStops DEF TokenStart
  <2> QED
    BY <1>2, <2>1, SkipStops DEF TokenEnd
<1> DEFINE g == [q \in Places(s) |-> TokenEnd(s, q)]
<1>4. g \in [Places(s) -> Places(s)] /\ \A q \in Places(s) : g[q] = TokenEnd(s, q)
  BY <1>3
<1> HIDE DEF g
<1>5. PICK f \in [0..n -> Places(s)] : f[0] = 1 /\ \A k \in 1..n : f[k] = g[f[k - 1]]
  BY <1>4, RoundsExist
<1>6. f = [k \in 0..n |-> IF k = 0 THEN 1 ELSE TokenEnd(s, f[k - 1])]
  <2>1. \A k \in 0..n : f[k] = IF k = 0 THEN 1 ELSE TokenEnd(s, f[k - 1])
    <3> SUFFICES ASSUME NEW k \in 0..n PROVE f[k] = IF k = 0 THEN 1 ELSE TokenEnd(s, f[k - 1])
      OBVIOUS
    <3>1. CASE k # 0
      <4>1. k \in 1..n /\ k - 1 \in 0..n
        BY <3>1
      <4>2. f[k - 1] \in Places(s) /\ f[k] = g[f[k - 1]]
        BY <1>5, <4>1
      <4> QED
        BY <1>4, <3>1, <4>2
    <3> QED
      BY <1>5, <3>1
  <2> QED
    BY <2>1
<1>7. past = [k \in 0..n |-> IF k = 0 THEN 1 ELSE TokenEnd(s, past[k - 1])]
  BY <1>6, Zenon
<1> HIDE DEF past
<1>8. past[0] = 1 /\ \A k \in 1..n : past[k] = TokenEnd(s, past[k - 1])
  <2>1. 0 \in 0..n /\ \A k \in 1..n : k \in 0..n /\ k # 0
    OBVIOUS
  <2> QED
    BY <1>7, <2>1
<1> DEFINE q == past[n]
           c == Cardinality(Before(s, q))
<1>9. /\ q \in Places(s) /\ Between(s, q)
      /\ c = IF n < Words(s) THEN n ELSE Words(s)
  <2>1. n \in 0..n
    OBVIOUS
  <2> QED
    BY <1>8, <2>1, Rounds
<1> HIDE DEF q, c
<1>10. \/ c < Words(s) /\ TokenStart(s, q) = NthStart(s, c + 1)
       \/ c = Words(s) /\ TokenStart(s, q) = L + 1
  BY <1>9, NextToken DEF c
<1>11. CASE n < Words(s)
  <2>1. c = n /\ c # Words(s)
    BY <1>2, <1>9, <1>11
  <2>2. TokenStart(s, q) = NthStart(s, n + 1)
    BY <1>10, <2>1
  <2>3. after_n_tokens(s, n) = SubSeq(s, TokenStart(s, q), Len(s))
    BY <1>1 DEF q
  <2> QED
    BY <1>11, <2>2, <2>3
<1>12. CASE ~(n < Words(s))
  <2>1. TokenStart(s, q) = L + 1
    BY <1>2, <1>9, <1>10, <1>12
  <2>2. SubSeq(s, L + 1, L) = <<>>
    BY <1>2
  <2> QED
    BY <1>1, <1>12, <2>1, <2>2 DEF q
<1> QED
  BY <1>11, <1>12

\* Whatever blanks a line has, its command gets its words, and the two scanners
\* agree on where they start.
THEOREM ArgumentsAreWords == ScreenSpec => []TokensAreWords
<1>1. ScreenInv => TokensAreWords
  <2> SUFFICES ASSUME ScreenInv PROVE TokensAreWords
    OBVIOUS
  <2>1. Text \in Seq(Chars) /\ Len(Text) = pos
    BY TextFacts DEF ScreenInv
  <2>2. MAX_ARGS \in Nat
    BY LineAssumption
  <2> HIDE DEF ScreenInv
  <2>3. ASSUME NEW n \in 0..MAX_ARGS
        PROVE  /\ split_args(Text, n) =
                    [k \in 1..(IF n < Words(Text) THEN n ELSE Words(Text)) |-> Word(Text, NthStart(Text, k))]
               /\ after_n_tokens(Text, n) =
                    IF n < Words(Text) THEN SubSeq(Text, NthStart(Text, n + 1), pos) ELSE <<>>
    <3>1. n \in Nat
      BY <2>2
    <3> DEFINE t == Text
    <3>2. t \in Seq(Chars) /\ Len(t) = pos
      BY <2>1
    <3> HIDE DEF t
    <3>3. /\ split_args(t, n) =
               [k \in 1..(IF n < Words(t) THEN n ELSE Words(t)) |-> Word(t, NthStart(t, k))]
          /\ after_n_tokens(t, n) =
               IF n < Words(t) THEN SubSeq(t, NthStart(t, n + 1), pos) ELSE <<>>
      BY <3>1, <3>2, SplitTakesWords, AfterTokensIsRest
    <3> QED
      BY <3>3 DEF t
  <2> QED
    BY <2>3 DEF TokensAreWords, Words
<1> QED
  BY InitScreenInv, NextScreenInv, <1>1, PTL DEF ScreenSpec
=============================================================================
