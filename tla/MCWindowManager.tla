-------------------------- MODULE MCWindowManager ---------------------------
(***************************************************************************)
(* Three windows of one size.  In a frame four wide and four high the      *)
(* title bar is two pixels wide and high, its upper right pixel the close  *)
(* button; a window grabbed by its lower half can be dragged off the top.  *)
(***************************************************************************)
EXTENDS WindowManager

At(px, py) == [x |-> px, y |-> py]

MCPoints == {At(0, 0), At(2, 0), At(1, 1)}
MCSizes == {[width |-> 2, height |-> 1]}
MCFlagSets == {{"visible", "movable", "closable"}}
=============================================================================
