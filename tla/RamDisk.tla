------------------------------ MODULE RamDisk -------------------------------
(***************************************************************************)
(* The in-memory file table of kernel/kernel.c: fs_table and the fs_*      *)
(* functions, which are the only code that writes it, with the rename that *)
(* the shell's mv does in place.                                           *)
(*                                                                         *)
(* file_t.size is Len(data): every writer stores size and a terminating 0  *)
(* together, and no byte of a text is 0.  A slot that is not `used` keeps  *)
(* its old name and data, as in the code, which never clears them.         *)
(***************************************************************************)
EXTENDS RamPaths, FiniteSets

CONSTANTS
  Chars,          \* the bytes of a file
  MAX_FILES,      \* slots of fs_table (32)
  MAX_FILE_SIZE,  \* bytes of file_t.data, one of them for the terminator (2048)
  SystemFile, SystemText,  \* "System.sys" and its text, slot 0 of fs_init
  TestFile, TestText,      \* "test.txt" and its text, slot 1 of fs_init
  Names,          \* the paths the callers pass
  Texts           \* the buffers the callers pass

Contents == {d \in Seq(Chars) : Len(d) <= MAX_FILE_SIZE - 1}

ASSUME RamDiskAssumption ==
  /\ MAX_FILES \in Nat /\ MAX_FILES >= 2
  /\ MAX_FILE_SIZE \in Nat \ {0}
  /\ SystemFile \in Paths /\ TestFile \in Paths /\ SystemFile # TestFile
  /\ SystemText \in Contents /\ TestText \in Contents
  /\ Names \subseteq Paths
  /\ Texts \subseteq Seq(Chars)

VARIABLES
  fs_table,       \* [Slots -> file_t]
  ret             \* what the last fs_ function returned to its caller

vars == <<fs_table, ret>>

Slots == 0..(MAX_FILES - 1)

file_t == [name : Paths, data : Contents, used : BOOLEAN]

TypeOK == fs_table \in [Slots -> file_t] /\ ret \in Int

-----------------------------------------------------------------------------
UsedSlots == {i \in Slots : fs_table[i].used}

UsedNames == {fs_table[i].name : i \in UsedSlots}

FreeSlots == Slots \ UsedSlots

\* Mutant: the test of `used` forgotten.
MatchesStale(name) == {i \in Slots : fs_table[i].name = name}

\* The slots fs_find_file's loop would stop at.
Matches(name) == {i \in UsedSlots : fs_table[i].name = name}

fs_find_file(name) == IF Matches(name) = {} THEN -1 ELSE Least(Matches(name))

\* Mutant: every write takes a new slot.
WriteSlotFresh(name) == IF FreeSlots # {} THEN Least(FreeSlots) ELSE -1

\* The slot fs_write_file writes: the file's own, or the first free one.
WriteSlot(name) ==
  IF Matches(name) # {} THEN Least(Matches(name))
  ELSE IF FreeSlots # {} THEN Least(FreeSlots) ELSE -1

\* Mutant: the length of the buffer is not checked.
ClipNothing(text, n) == text

\* Mutant: a text that just fits loses its last byte.
ClipOneLess(text, n) == IF Len(text) < n THEN text ELSE SubSeq(text, 1, n - 1)

\* The part of a buffer that fits in n bytes.
Clip(text, n) == IF Len(text) <= n THEN text ELSE SubSeq(text, 1, n)

\* fs_dir_exists on "/" + dir: a directory is a prefix of some used name.
fs_dir_exists(dir) ==
  dir = <<>> \/ \E name \in UsedNames : IsUnder(name, dir)

-----------------------------------------------------------------------------
(* The functions that write the table.  r is the value returned.           *)

fs_write_file(name, text, r) ==
  \/ /\ ~fs_name_valid(name)
     /\ r = -2
     /\ UNCHANGED fs_table
  \/ /\ fs_name_valid(name)
     /\ r = WriteSlot(name)
     /\ r = -1
     /\ UNCHANGED fs_table
  \/ /\ fs_name_valid(name)
     /\ r = WriteSlot(name)
     /\ r # -1
     /\ fs_table' = [fs_table EXCEPT ![r] =
          [name |-> name, data |-> Clip(text, MAX_FILE_SIZE - 1), used |-> TRUE]]

\* Mutant: the free space is not looked at.
AppendUnclipped(name, text, r) ==
  /\ fs_find_file(name) # -1
  /\ r = Len(text)
  /\ fs_table' = [fs_table EXCEPT ![fs_find_file(name)].data = @ \o text]

fs_append_file(name, text, r) ==
  LET id == fs_find_file(name)
      free_space == (MAX_FILE_SIZE - 1) - Len(fs_table[id].data)
      added == Clip(text, free_space)
  IN  \/ /\ id = -1
         /\ r = -1
         /\ UNCHANGED fs_table
      \/ /\ id # -1
         /\ text = <<>> \/ free_space <= 0
         /\ r = 0
         /\ UNCHANGED fs_table
      \/ /\ id # -1
         /\ text # <<>> /\ free_space > 0
         /\ r = Len(added)
         /\ fs_table' = [fs_table EXCEPT ![id].data = @ \o added]

fs_delete_file(name, r) ==
  LET id == fs_find_file(name)
  IN  \/ /\ id = -1
         /\ r = 0
         /\ UNCHANGED fs_table
      \/ /\ id # -1
         /\ r = 1
         /\ fs_table' = [fs_table EXCEPT ![id].used = FALSE]

\* A directory is the entry "<dir>/.dir"; made twice, it stays as it is.
fs_mkdir(path, r) ==
  LET base == StripSlashes(path)
      meta == Append(base, DotDir)
      refused == base = <<>> \/ PathLen(base) + 5 >= NAME_SIZE
  IN  \/ /\ refused
         /\ r = 0
         /\ UNCHANGED fs_table
      \/ /\ ~refused
         /\ fs_find_file(meta) # -1
         /\ r = 1
         /\ UNCHANGED fs_table
      \/ /\ ~refused
         /\ fs_find_file(meta) = -1
         /\ \E id \in Slots \cup {-1, -2} :
              /\ fs_write_file(meta, <<>>, id)
              /\ r = IF id >= 0 THEN 1 ELSE 0

\* Mutant: only the marker entry is freed.
RemoveMarkerOnly(path, r) == fs_delete_file(Append(StripSlashes(path), DotDir), r)

\* fs_rmdir frees every entry under the directory, files included.
fs_rmdir(path, r) ==
  LET base == StripSlashes(path)
      removed == IF base = <<>> THEN {}
                 ELSE {i \in UsedSlots : IsUnder(fs_table[i].name, base)}
  IN  /\ r = Cardinality(removed)
      /\ fs_table' = [i \in Slots |->
           IF i \in removed THEN [fs_table[i] EXCEPT !.used = FALSE]
           ELSE fs_table[i]]

\* mv: strcpy over the name of the source's slot.  r is the slot, or -1.
rename(old, new, r) ==
  LET sid == fs_find_file(old)
  IN  \/ /\ sid = -1 \/ fs_find_file(new) # -1
         /\ r = -1
         /\ UNCHANGED fs_table
      \/ /\ sid # -1 /\ fs_find_file(new) = -1
         /\ r = sid
         /\ fs_table' = [fs_table EXCEPT ![sid].name = new]

-----------------------------------------------------------------------------
BootFile(i) ==
  CASE i = 0 -> [name |-> SystemFile, data |-> SystemText, used |-> TRUE]
    [] i = 1 -> [name |-> TestFile, data |-> TestText, used |-> TRUE]
    [] OTHER -> [name |-> EmptyPath, data |-> <<>>, used |-> FALSE]

fs_init == fs_table = [i \in Slots |-> BootFile(i)] /\ ret = 0

Find(name) == ret' = fs_find_file(name) /\ UNCHANGED fs_table

Write(name, text) == fs_write_file(name, text, ret')

AppendTo(name, text) == fs_append_file(name, text, ret')

Delete(name) == fs_delete_file(name, ret')

MakeDir(path) == fs_mkdir(path, ret')

RemoveDir(path) == fs_rmdir(path, ret')

Rename(old, new) == rename(old, new, ret')

Init == fs_init

Next ==
  \/ \E name \in Names : Find(name) \/ Delete(name)
                           \/ MakeDir(name) \/ RemoveDir(name)
  \/ \E name \in Names, text \in Texts : Write(name, text) \/ AppendTo(name, text)
  \* mv does not look at the length; see NamesFit of FileShell for a longer `new`.
  \/ \E old, new \in Names : PathLen(new) < NAME_SIZE /\ Rename(old, new)

Spec == Init /\ [][Next]_vars

-----------------------------------------------------------------------------
\* Two used slots never carry one name: fs_find_file, which returns the first
\* match, would make the second file unreachable for good.
NamesUnique ==
  \A i, j \in UsedSlots : fs_table[i].name = fs_table[j].name => i = j

\* The table and the return values behave as a bounded partial map from names
\* to contents: no stale slot comes back to life, no entry is lost or cut.
Store == INSTANCE FileStore WITH
  files <- [name \in UsedNames |-> fs_table[fs_find_file(name)].data],
  ret <- ret,
  Capacity <- MAX_FILES,
  MaxLen <- MAX_FILE_SIZE - 1,
  StartFiles <- [name \in {SystemFile, TestFile} |->
                   IF name = SystemFile THEN SystemText ELSE TestText]

ImplementsStore == Store!Spec
=============================================================================
