------------------------------ MODULE RamPaths ------------------------------
(***************************************************************************)
(* Path strings of the RAM disk of kernel/kernel.c.                        *)
(*                                                                         *)
(* A non-empty C string is, one to one, the non-empty sequence of the      *)
(* slash-free strings between its slashes: "a/.dir" is <<"a", ".dir">>,    *)
(* "a//b" is <<"a", "", "b">> and "" is <<"">>.  Under this reading        *)
(* starts_with(name, p) && name[strlen(p)] == '/' says that p is a strict  *)
(* prefix of name, component by component.                                 *)
(***************************************************************************)
EXTENDS Integers, Sequences, SequencesExt

CONSTANTS
  Components,     \* the slash-free strings names are made of
  Empty,          \* the slash-free string ""
  DotDir,         \* ".dir", the entry fs_mkdir creates
  CompLen,        \* [Components -> Nat], strlen of a component
  NAME_SIZE       \* 32, the size of file_t.name and the limit in build_path

ASSUME PathAssumption ==
  /\ Empty \in Components /\ DotDir \in Components /\ DotDir # Empty
  /\ CompLen \in [Components -> Nat]
  /\ \A c \in Components : CompLen[c] = 0 <=> c = Empty
  /\ NAME_SIZE \in Nat \ {0}

Paths == Seq(Components) \ {<<>>}       \* every C string

EmptyPath == <<Empty>>                  \* the C string ""

\* strlen of a path: its components and the slashes between them.
PathLen(p) ==
  LET upTo[n \in 0..Len(p)] ==
        IF n = 0 THEN Len(p) - 1 ELSE upTo[n - 1] + CompLen[p[n]]
  IN  upTo[Len(p)]

\* starts_with(name, dir) && name[strlen(dir)] == '/'
IsUnder(name, dir) == IsStrictPrefix(dir, name)

fs_name_valid(name) == PathLen(name) > 0 /\ PathLen(name) < NAME_SIZE

Least(S) == CHOOSE i \in S : \A j \in S : i <= j

\* The loop of fs_mkdir and fs_rmdir that strips trailing slashes; <<>> when
\* nothing is left.
StripSlashes(p) ==
  SubSeq(p, 1, Least({n \in 0..Len(p) : \A m \in DOMAIN p : m > n => p[m] = Empty}))

-----------------------------------------------------------------------------
\* A command-line argument: a token, absolute when it starts with '/'.
Args == {arg \in [abs : BOOLEAN, path : Paths] :
           ~arg.abs => Head(arg.path) # Empty}

\* current_path without its leading slash; <<>> is "/".
Dirs == (Seq(Components) \ {EmptyPath})

IsSlash(arg) == arg.abs /\ arg.path = EmptyPath      \* strcmp(arg, "/") == 0

\* The text of arg seen from directory cwd: build_path's `out` and, with a
\* leading slash, `cd`'s new_path.
Joined(cwd, arg) == IF arg.abs THEN arg.path ELSE cwd \o arg.path

\* Mutant: the length of the joined path is not checked.
BuildUnchecked(cwd, arg) == ~IsSlash(arg)

\* build_path returns 1.  ".." has no special meaning to it.
BuildOk(cwd, arg) == ~IsSlash(arg) /\ PathLen(Joined(cwd, arg)) < NAME_SIZE

\* path_parent of "/" + cwd.
path_parent(cwd) ==
  IF Len(cwd) <= 1 \/ Front(cwd) = EmptyPath THEN <<>> ELSE Front(cwd)
=============================================================================
