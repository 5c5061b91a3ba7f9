------------------------------ MODULE MCMouse ------------------------------
(***************************************************************************)
(* Screens of two by one and one by two; a position beyond on both         *)
(* sides; packets that press the button or move left and down, whose bytes *)
(* are no first bytes when taken for one; a key whose code has bit 0       *)
(* clear, which stays in the port: as a command byte it turns IRQ1 off.    *)
(***************************************************************************)
EXTENDS Mouse

MCSizes == {[x |-> 2, y |-> 1], [x |-> 1, y |-> 2]}
MCPositions == {[x |-> 5, y |-> -1]}
\* The button alone; left and down.
MCPackets == {<<9, 0, 0>>, <<56, 255, 255>>}
=============================================================================
