------------------------------ MODULE Console ------------------------------
(***************************************************************************)
(* The text screen of kernel/kernel.c: a header row, a footer row, and the *)
(* rows between them that print writes and scrolls.                        *)
(*                                                                         *)
(* A cell is its character; colours are left out, and so is the hardware   *)
(* cursor, which put_char moves to where it goes on writing.               *)
(***************************************************************************)
EXTENDS Integers, SequencesExt

CONSTANTS
  VGA_WIDTH, VGA_HEIGHT,   \* 80 and 25
  Header, Footer,          \* what draw_shell_static writes, a function of the column
  CLOCK_X,                 \* the column of the clock (71); here it takes one cell
  Times                    \* what get_time_str yields

ASSUME ConsoleAssumption ==
  /\ VGA_WIDTH \in Nat \ {0} /\ VGA_HEIGHT \in Nat /\ VGA_HEIGHT > 2
  /\ CLOCK_X \in 0..(VGA_WIDTH - 1)
  /\ Header = [x \in 0..(VGA_WIDTH - 1) |-> Header[x]]
  /\ Footer = [x \in 0..(VGA_WIDTH - 1) |-> Footer[x]]

VARIABLES
  screen,                  \* [vga |-> cells, x |-> current_x, y |-> current_y]
  last_time_str

Columns == 0..(VGA_WIDTH - 1)
Rows == 0..(VGA_HEIGHT - 1)
BlankRow == [x \in Columns |-> " "]

put_char_raw(s, c, x, y) ==
  IF x \in Columns /\ y \in Rows THEN [s EXCEPT !.vga[y][x] = c] ELSE s

\* draw_shell_static, on a screen that draw_rect has emptied.
clear_screen ==
  [vga |-> [y \in Rows |-> IF y = 0 THEN Header ELSE IF y = VGA_HEIGHT - 1 THEN Footer ELSE BlankRow],
   x |-> 0, y |-> 1]

\* The row that takes the footer in is emptied.
scroll(s) ==
  [s EXCEPT !.vga = [y \in Rows |-> IF y = VGA_HEIGHT - 2 THEN BlankRow
                                    ELSE IF y \in 1..(VGA_HEIGHT - 3) THEN s.vga[y + 1] ELSE s.vga[y]],
            !.y = VGA_HEIGHT - 2]

Newline(s) == [s EXCEPT !.x = 0, !.y = s.y + 1]

\* A character at the cursor; "bs" is '\b', which stays in its row.
Written(s, c) ==
  CASE c = "\n" -> Newline(s)
    [] c = "bs" -> LET x == IF s.x > 0 THEN s.x - 1 ELSE 0
                   IN  put_char_raw([s EXCEPT !.x = x], " ", x, s.y)
    [] OTHER -> [put_char_raw(s, c, s.x, s.y) EXCEPT !.x = s.x + 1]

Wrapped(s) == IF s.x >= VGA_WIDTH THEN Newline(s) ELSE s

\* Mutant: the footer's row is written before the screen scrolls.
ScrollBelowFooter(s) == IF s.y >= VGA_HEIGHT THEN scroll(s) ELSE s
Scrolled(s) == IF s.y >= VGA_HEIGHT - 1 THEN scroll(s) ELSE s

put_char(s, c) == Scrolled(Wrapped(Written(s, c)))

print(s, text) ==
  LET printed[n \in 0..Len(text)] ==
        IF n = 0 THEN s ELSE put_char(printed[n - 1], text[n])
  IN  printed[Len(text)]

\* The clock is drawn when it differs from what was drawn last, which a
\* clear_screen in between may have wiped out.
draw_shell_dynamic(time) == IF time = last_time_str THEN screen ELSE put_char_raw(screen, time, CLOCK_X, 0)

-----------------------------------------------------------------------------
\* Whatever is printed, in lines of any length, the dashboard above and the
\* footer below stay: print writes and scrolls the rows between them, and the
\* header's clock shows the time drawn last, or nothing since a clear_screen.
BarsKept ==
  /\ screen.y \in 1..(VGA_HEIGHT - 2) /\ screen.x \in Columns
  /\ screen.vga[VGA_HEIGHT - 1] = Footer
  /\ \E clock \in {Header[CLOCK_X], last_time_str} :
       screen.vga[0] = [Header EXCEPT ![CLOCK_X] = clock]
=============================================================================
