----------------------------- MODULE MCGraphics -----------------------------
(***************************************************************************)
(* A screen of the size of the back buffer, a smaller one with a pixel of  *)
(* padding in each row, a larger one and one that is not RGB; arguments    *)
(* that begin outside and end outside.  The inks occur nowhere else.       *)
(***************************************************************************)
EXTENDS Graphics, TLC

MCModes == {[rgb |-> FALSE, width |-> 1, height |-> 1, pitch |-> 1],
            [rgb |-> TRUE, width |-> 4, height |-> 3, pitch |-> 4],
            [rgb |-> TRUE, width |-> 2, height |-> 2, pitch |-> 3],
            [rgb |-> TRUE, width |-> 2, height |-> 7, pitch |-> 2]}
MCXs == {-6, -1, 0, 2}
MCYs == {-5, -1, 0, 1}
MCShades == {<<50, 90>>, <<90, 50>>}
MCSpots == {<<0, 0>>, <<1, 1>>}
MCCopies ==
  {[sx |-> sx, sy |-> sy, x |-> x, y |-> y, width |-> width, height |-> height] :
     sx \in 0..1, sy \in 0..1, x \in 0..1, y \in 0..1, width \in 1..2, height \in 1..2}
MCBitmap == <<0, 0>> :> [color |-> 7, alpha |-> 255]
              @@ <<1, 0>> :> [color |-> 200, alpha |-> 100] @@ <<2, 0>> :> [color |-> 9, alpha |-> 0]
MCCursor == <<0, 0>> :> 2 @@ <<1, 0>> :> 0 @@ <<0, 1>> :> 1 @@ <<1, 1>> :> 2
MCGlyph == {<<0, 0>>, <<1, 1>>}
MCTexts == <<<<"char", "char">>, <<"tab", "char">>, <<"char", "newline", "char", "char">>>>
=============================================================================
