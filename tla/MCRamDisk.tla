----------------------------- MODULE MCRamDisk ------------------------------
(***************************************************************************)
(* A RAM disk of three slots, two of them taken at boot, with names of at  *)
(* most six bytes and files of at most two.                                *)
(***************************************************************************)
EXTENDS RamDisk

MCComponents == {"", ".dir", "s", "tt"}

MCCompLen == [c \in MCComponents |-> Len(c)]

MCSystemFile == <<"s">>
MCTestFile == <<"tt">>
MCSystemText == <<"y">>
MCTestText == <<>>

\* A file, an entry below it (and so a directory with the file's own name, and
\* a name that ends in a slash), a file whose name is too long for fs_mkdir,
\* and the empty string.
MCNames == {<<"s">>, <<"s", "">>, <<"tt">>, <<"">>}

\* The empty text and one that is a byte longer than a file.
MCTexts == {<<>>, <<"x", "x", "x">>}
=============================================================================
