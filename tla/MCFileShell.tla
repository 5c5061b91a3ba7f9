---------------------------- MODULE MCFileShell -----------------------------
(***************************************************************************)
(* The shell over a disk of two one-byte files.  Names have at most six    *)
(* bytes, so that joining the current directory and an argument, or making *)
(* a directory, can be too long.  One argument ends in a slash, which      *)
(* fs_mkdir and fs_rmdir drop and the other functions keep.                *)
(***************************************************************************)
EXTENDS FileShell

MCComponents == {"", ".dir", "s", "ttttt"}
MCCompLen == [c \in MCComponents |-> Len(c)]

MCSystemFile == <<"s">>
MCTestFile == <<"ttttt">>
MCSystemText == <<"x">>
MCTestText == <<>>

Rel(path) == [abs |-> FALSE, path |-> path]
Abs(path) == [abs |-> TRUE, path |-> path]

MCCommandArgs ==
  {Rel(<<"s">>), Rel(<<"ttttt">>), Abs(<<"s", "">>), Abs(<<"">>)}

MCLineTexts == {<<"x">>}

\* Nothing, a name, and what cd leaves of "/s/ttttt", which no name has room for.
MCLeftovers == {<<"">>, <<"s">>, <<"", "s", "ttttt">>}

MCTexts == {<<>>, <<"x">>}

MCDirs == {<<>>, <<"s">>}
MCNames == {Joined(dir, arg) : dir \in MCDirs, arg \in MCCommandArgs} \cup MCLeftovers
=============================================================================
