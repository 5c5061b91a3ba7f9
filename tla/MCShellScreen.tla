--------------------------- MODULE MCShellScreen ---------------------------
(***************************************************************************)
(* A screen with two rows between the bars; a prompt beside which a line   *)
(* fits and one beside which it does not; output that wraps and scrolls.   *)
(***************************************************************************)
EXTENDS ShellScreen

MCHeader == [x \in 0..(VGA_WIDTH - 1) |-> "h"]
MCFooter == [x \in 0..(VGA_WIDTH - 1) |-> "f"]
MCPrompts == {<<">">>, <<"/", "d", ">">>}
MCOutputs == {<<>>, <<"o", "o", "o", "o", "o", "o", "\n">>}
=============================================================================
