------------------------------ MODULE MCTrEdit ------------------------------
(***************************************************************************)
(* The editor with a buffer of three bytes over a disk of two slots.       *)
(***************************************************************************)
EXTENDS TrEdit

MCComponents == {"", ".dir", "s", "t", "u"}
MCCompLen == [c \in MCComponents |-> Len(c)]

MCSystemFile == <<"s">>
MCTestFile == <<"t">>
MCSystemText == <<"x">>
MCTestText == <<"x", "x">>

\* Both boot files, a third that does not fit beside them, and the empty string
\* of a path that build_path refused.
MCNames == {<<"s">>, <<"t">>, <<"u">>, <<"">>}

MCTexts == {<<"x">>}
=============================================================================
