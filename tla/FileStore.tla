----------------------------- MODULE FileStore ------------------------------
(***************************************************************************)
(* What the RAM disk promises its callers: a partial map from path names   *)
(* to contents with room for Capacity files of at most MaxLen bytes.  No   *)
(* slots, no stale entries; a file is reached by its name alone.           *)
(***************************************************************************)
EXTENDS RamPaths, FiniteSets

CONSTANTS Capacity, MaxLen, StartFiles, Names, Texts

VARIABLES
  files,    \* the stored files, contents by name
  ret       \* the result the last caller got

Handles == 0..(Capacity - 1)

Stored(name) == name \in DOMAIN files

Restricted(kept) == [name \in kept |-> files[name]]

With(name, text) ==
  [n \in DOMAIN files \cup {name} |-> IF n = name THEN text ELSE files[n]]

Cut(text, n) == IF Len(text) <= n THEN text ELSE SubSeq(text, 1, n)

HasRoom(name) == Stored(name) \/ Cardinality(DOMAIN files) < Capacity

Under(dir) == {name \in DOMAIN files : IsUnder(name, dir)}

-----------------------------------------------------------------------------
Lookup(name) ==
  /\ IF Stored(name) THEN ret' \in Handles ELSE ret' = -1
  /\ UNCHANGED files

\* A write either stores the text, cut to MaxLen, or says that it did not.
Put(name, text) ==
  \/ /\ ~fs_name_valid(name)
     /\ ret' = -2
     /\ UNCHANGED files
  \/ /\ fs_name_valid(name) /\ ~HasRoom(name)
     /\ ret' = -1
     /\ UNCHANGED files
  \/ /\ fs_name_valid(name) /\ HasRoom(name)
     /\ ret' \in Handles
     /\ files' = With(name, Cut(text, MaxLen))

\* An append adds as much as fits and returns how much that was.
Extend(name, text) ==
  \/ /\ ~Stored(name)
     /\ ret' = -1
     /\ UNCHANGED files
  \/ /\ Stored(name)
     /\ LET added == Cut(text, MaxLen - Len(files[name]))
        IN  /\ ret' = Len(added)
            /\ files' = [files EXCEPT ![name] = @ \o added]

Erase(name) ==
  /\ ret' = IF Stored(name) THEN 1 ELSE 0
  /\ files' = Restricted(DOMAIN files \ {name})

\* A directory is a marker entry; making it again changes nothing.
MakeDir(dir) ==
  LET base == StripSlashes(dir)
      marker == Append(base, DotDir)
      tooLong == PathLen(base) + 5 >= NAME_SIZE
      possible == /\ base # <<>> /\ ~tooLong
                  /\ Stored(marker) \/ (fs_name_valid(marker) /\ HasRoom(marker))
  IN  /\ ret' = IF possible THEN 1 ELSE 0
      /\ files' = IF possible /\ ~Stored(marker)
                  THEN With(marker, <<>>) ELSE files

RemoveDir(dir) ==
  LET base == StripSlashes(dir)
      gone == IF base = <<>> THEN {} ELSE Under(base)
  IN  /\ ret' = Cardinality(gone)
      /\ files' = Restricted(DOMAIN files \ gone)

\* A rename never overwrites.
Move(old, new) ==
  \/ /\ ~Stored(old) \/ Stored(new)
     /\ ret' = -1
     /\ UNCHANGED files
  \/ /\ Stored(old) /\ ~Stored(new)
     /\ ret' \in Handles
     /\ files' = [n \in (DOMAIN files \ {old}) \cup {new} |->
                   IF n = new THEN files[old] ELSE files[n]]

-----------------------------------------------------------------------------
Init == files = StartFiles /\ ret = 0

Next ==
  \/ \E name \in Names : Lookup(name) \/ Erase(name)
                           \/ MakeDir(name) \/ RemoveDir(name)
  \/ \E name \in Names, text \in Texts : Put(name, text) \/ Extend(name, text)
  \/ \E old, new \in Names : Move(old, new)

Spec == Init /\ [][Next]_<<files, ret>>
=============================================================================
