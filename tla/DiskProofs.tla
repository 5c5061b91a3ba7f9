----------------------------- MODULE DiskProofs -----------------------------
(***************************************************************************)
(* Theorems about the RAM disk and its two users.  The file table: for any *)
(* number and size of slots, any component alphabet and any set of names   *)
(* and texts.  The shell's file commands: for any arguments, texts and     *)
(* leftovers on the stack as well.  The editor: for any keys and files.    *)
(***************************************************************************)
EXTENDS FileShell, TrEdit, WellFoundedInduction, FiniteSetTheorems, TLAPS

-----------------------------------------------------------------------------
(* The scans of fs_find_file and fs_write_file                             *)

\* A non-empty set of naturals has a least member, from the well-foundedness of <.
LEMMA LeastNatural ==
  ASSUME NEW S, S \subseteq Nat, S # {}
  PROVE  \E n \in S : \A m \in S : n <= m
<1>1. PICK n \in S : \A m \in S : ~(<<m, n>> \in OpToRel(<, Nat))
  BY NatLessThanWellFounded, WFMin, Zenon
<1>2. \A m \in S : ~(m < n)
  BY <1>1, Zenon DEF OpToRel
<1> QED
  BY <1>2

\* A non-empty set of slots has a least element, so the scan that stops at the
\* first hit stops at a member.
LEMMA LeastInSet ==
  ASSUME NEW S, S \subseteq Nat, S # {}
  PROVE  Least(S) \in S /\ \A j \in S : Least(S) <= j
BY LeastNatural DEF Least

\* fs_find_file returns a used slot that carries the name, or -1 if there is none.
LEMMA FindFile ==
  ASSUME NEW name
  PROVE  /\ Matches(name) = {} => fs_find_file(name) = -1
         /\ Matches(name) # {} => fs_find_file(name) \in Matches(name)
<1>1. Matches(name) \subseteq Nat
  BY RamDiskAssumption DEF Matches, UsedSlots, Slots
<1> QED
  BY <1>1, LeastInSet DEF fs_find_file

\* fs_write_file picks the file's own slot, else a free one, else none.
LEMMA PickWriteSlot ==
  ASSUME NEW name
  PROVE  \/ WriteSlot(name) \in Matches(name)
         \/ Matches(name) = {} /\ WriteSlot(name) \in FreeSlots
         \/ Matches(name) = {} /\ FreeSlots = {} /\ WriteSlot(name) = -1
<1>1. Matches(name) \subseteq Nat /\ FreeSlots \subseteq Nat
  BY RamDiskAssumption DEF Matches, FreeSlots, UsedSlots, Slots
<1> QED
  BY <1>1, LeastInSet DEF WriteSlot

LEMMA SlotSets ==
  /\ UsedSlots \subseteq Slots /\ FreeSlots \subseteq Slots
  /\ \A name : Matches(name) \subseteq UsedSlots
  /\ Slots \subseteq Nat /\ -1 \notin Slots
BY RamDiskAssumption DEF UsedSlots, FreeSlots, Matches, Slots

LEMMA FindReturnsInt ==
  ASSUME NEW name
  PROVE  fs_find_file(name) \in Int
<1>1. CASE Matches(name) = {}
  BY <1>1, FindFile
<1>2. CASE Matches(name) # {}
  <2>1. fs_find_file(name) \in UsedSlots
    BY <1>2, FindFile, SlotSets
  <2>2. UsedSlots \subseteq Int
    BY SlotSets
  <2> QED
    BY <2>1, <2>2
<1> QED
  BY <1>1, <1>2

-----------------------------------------------------------------------------
(* The data the functions store                                            *)

\* Cutting a text keeps it a text and makes it fit.
LEMMA ClipFits ==
  ASSUME NEW text \in Seq(Chars), NEW n \in Nat
  PROVE  Clip(text, n) \in Seq(Chars) /\ Len(Clip(text, n)) <= n
BY DEF Clip

\* An append that is cut to the room left fits.
LEMMA GrowFits ==
  ASSUME NEW old \in Contents, NEW text \in Seq(Chars),
         MAX_FILE_SIZE - 1 - Len(old) > 0
  PROVE  /\ old \o Clip(text, MAX_FILE_SIZE - 1 - Len(old)) \in Contents
         /\ Len(Clip(text, MAX_FILE_SIZE - 1 - Len(old))) \in Nat
<1> DEFINE room == MAX_FILE_SIZE - 1 - Len(old)
           added == Clip(text, room)
<1>1. old \in Seq(Chars) /\ Len(old) \in Nat /\ room \in Nat
  BY RamDiskAssumption DEF Contents
<1>2. added \in Seq(Chars) /\ Len(added) \in Nat /\ Len(added) <= room
  BY <1>1, ClipFits
<1> HIDE DEF added
<1>3. old \o added \in Seq(Chars) /\ Len(old \o added) = Len(old) + Len(added)
  BY <1>1, <1>2
<1>4. Len(old \o added) <= MAX_FILE_SIZE - 1
  BY <1>1, <1>2, <1>3, RamDiskAssumption
<1> QED
  BY <1>2, <1>3, <1>4 DEF Contents, added

\* What is left of a path without its trailing slashes, with one more component
\* at its end, is a path.
LEMMA MarkerIsPath ==
  ASSUME NEW path \in Paths
  PROVE  Append(StripSlashes(path), DotDir) \in Paths
<1> DEFINE kept == {n \in 0..Len(path) : \A m \in DOMAIN path : m > n => path[m] = Empty}
<1>1. Len(path) \in kept /\ kept \subseteq Nat
  BY DEF Paths
<1>2. Least(kept) \in 0..Len(path)
  BY <1>1, LeastInSet
<1>3. StripSlashes(path) \in Seq(Components)
  <2> DEFINE n == Least(kept)
  <2>1. StripSlashes(path) = SubSeq(path, 1, n)
    BY DEF StripSlashes
  <2> HIDE DEF n, kept
  <2>2. SubSeq(path, 1, n) \in Seq(Components)
    BY <1>2 DEF Paths, n
  <2> QED
    BY <2>1, <2>2
<1> QED
  BY <1>3, PathAssumption DEF Paths

-----------------------------------------------------------------------------
(* The table stays well formed and its names stay distinct                 *)

IInv == TypeOK /\ NamesUnique

TableOK == fs_table \in [Slots -> file_t] /\ NamesUnique

\* fs_write_file: the slot it fills is the one that has the name, or a free
\* one when no used slot has it.
LEMMA WriteKeepsTable ==
  ASSUME TableOK, NEW name \in Paths, NEW text \in Seq(Chars), NEW r,
         fs_write_file(name, text, r)
  PROVE  TableOK' /\ r \in Int
<1> DEFINE file == [name |-> name, data |-> Clip(text, MAX_FILE_SIZE - 1), used |-> TRUE]
<1>1. CASE UNCHANGED fs_table /\ r \in {-1, -2}
  BY <1>1 DEF TableOK, NamesUnique, UsedSlots
<1>2. CASE r = WriteSlot(name) /\ r # -1 /\ fs_table' = [fs_table EXCEPT ![r] = file]
  <2>1. r \in Slots /\ (r \in Matches(name) \/ (Matches(name) = {} /\ r \in FreeSlots))
    BY <1>2, PickWriteSlot, SlotSets
  <2>2. file \in file_t
    BY ClipFits, RamDiskAssumption DEF file_t, Contents
  <2>3. (fs_table \in [Slots -> file_t])'
    BY <1>2, <2>1, <2>2 DEF TableOK, Slots
  <2>4. NamesUnique'
    <3> SUFFICES ASSUME NEW i \in UsedSlots', NEW j \in UsedSlots',
                        fs_table'[i].name = fs_table'[j].name
                 PROVE  i = j
      BY DEF NamesUnique
    <3>1. i \in Slots /\ j \in Slots
      BY DEF UsedSlots, Slots
    <3>2. \A k \in Slots : k # r => fs_table'[k] = fs_table[k]
      BY <1>2 DEF TableOK
    <3>3. fs_table'[r].name = name
      BY <1>2, <2>1 DEF TableOK
    <3>4. \A k \in Slots : k # r /\ k \in UsedSlots' => k \in UsedSlots
      BY <3>2 DEF UsedSlots, Slots
    <3>5. \A k \in UsedSlots' : k # r => fs_table[k].name # name
      <4> SUFFICES ASSUME NEW k \in UsedSlots', k # r, fs_table[k].name = name
                   PROVE  FALSE
        OBVIOUS
      <4>1. k \in UsedSlots /\ k \in Matches(name)
        BY <3>4 DEF UsedSlots, Matches, Slots
      <4> QED
        BY <4>1, <2>1 DEF Matches, TableOK, NamesUnique
    <3> QED
      BY <3>1, <3>2, <3>3, <3>4, <3>5 DEF TableOK, NamesUnique
  <2> QED
    BY <1>2, <2>1, <2>3, <2>4, SlotSets DEF TableOK
<1> QED
  BY <1>1, <1>2 DEF fs_write_file

\* fs_append_file: the data grows up to the last byte before the terminator.
LEMMA AppendKeepsTable ==
  ASSUME TableOK, NEW name \in Paths, NEW text \in Seq(Chars), NEW r,
         fs_append_file(name, text, r)
  PROVE  TableOK' /\ r \in Int
<1> DEFINE id == fs_find_file(name)
           free_space == (MAX_FILE_SIZE - 1) - Len(fs_table[id].data)
           added == Clip(text, free_space)
<1>1. CASE UNCHANGED fs_table /\ r \in {-1, 0}
  BY <1>1 DEF TableOK, NamesUnique, UsedSlots
<1>2. CASE /\ id # -1 /\ free_space > 0 /\ r = Len(added)
           /\ fs_table' = [fs_table EXCEPT ![id].data = @ \o added]
  <2>1. id \in Slots
    BY <1>2, FindFile, SlotSets
  <2>2. fs_table[id] \in file_t
    BY <2>1 DEF TableOK
  <2> DEFINE old == fs_table[id].data
  <2>3. old \in Contents
    BY <2>2 DEF file_t
  <2>4. old \o added \in Contents /\ Len(added) \in Nat
    BY <1>2, <2>3, GrowFits
  <2>5. fs_table' = [fs_table EXCEPT ![id] = [fs_table[id] EXCEPT !.data = old \o added]]
    BY <1>2
  <2>6. [fs_table[id] EXCEPT !.data = old \o added] \in file_t
    BY <2>2, <2>4 DEF file_t
  <2>7. (fs_table \in [Slots -> file_t])'
    BY <2>5, <2>6 DEF TableOK, Slots
  <2>8. \A k \in Slots : /\ fs_table'[k].name = fs_table[k].name
                           /\ fs_table'[k].used = fs_table[k].used
    BY <2>5, <2>2 DEF TableOK, file_t
  <2>9. NamesUnique'
    BY <2>8 DEF TableOK, NamesUnique, UsedSlots, Slots
  <2> QED
    BY <1>2, <2>4, <2>7, <2>9 DEF TableOK
<1> QED
  BY <1>1, <1>2 DEF fs_append_file

\* A step that only frees slots keeps the names of the others distinct.
LEMMA FreeingKeepsTable ==
  ASSUME TableOK, NEW R, R \subseteq Slots,
         fs_table' = [i \in Slots |->
           IF i \in R THEN [fs_table[i] EXCEPT !.used = FALSE] ELSE fs_table[i]]
  PROVE  TableOK'
<1>1. (fs_table \in [Slots -> file_t])'
  BY DEF TableOK, Slots, file_t
<1>2. \A k \in Slots : /\ fs_table'[k].name = fs_table[k].name
                        /\ fs_table'[k].used => fs_table[k].used
  BY DEF TableOK, file_t
<1>3. NamesUnique'
  BY <1>2 DEF TableOK, NamesUnique, UsedSlots, Slots
<1> QED
  BY <1>1, <1>3 DEF TableOK

\* fs_delete_file frees one slot.
LEMMA DeleteKeepsTable ==
  ASSUME TableOK, NEW name, NEW r, fs_delete_file(name, r)
  PROVE  TableOK' /\ r \in Int
<1> DEFINE id == fs_find_file(name)
<1>1. CASE UNCHANGED fs_table /\ r = 0
  BY <1>1 DEF TableOK, NamesUnique, UsedSlots
<1>2. CASE id # -1 /\ r = 1 /\ fs_table' = [fs_table EXCEPT ![id].used = FALSE]
  <2>1. id \in Slots
    BY <1>2, FindFile, SlotSets
  <2> DEFINE R == {id}
  <2>2. fs_table' = [i \in Slots |->
           IF i \in R THEN [fs_table[i] EXCEPT !.used = FALSE] ELSE fs_table[i]]
    BY <1>2, <2>1 DEF TableOK
  <2> QED
    <3>1. R \subseteq Slots
      BY <2>1
    <3> HIDE DEF R
    <3>2. TableOK'
      BY <2>2, <3>1, FreeingKeepsTable
    <3> QED
      BY <1>2, <3>2
<1> QED
  BY <1>1, <1>2 DEF fs_delete_file

\* fs_rmdir frees every slot below the directory.
LEMMA RemoveDirKeepsTable ==
  ASSUME TableOK, NEW path, NEW r, fs_rmdir(path, r)
  PROVE  TableOK' /\ r \in Int
<1> DEFINE base == StripSlashes(path)
           removed == IF base = <<>> THEN {}
                      ELSE {i \in UsedSlots : IsUnder(fs_table[i].name, base)}
<1>1. removed \subseteq Slots
  BY SlotSets
<1>2. Cardinality(removed) \in Nat
  <2>1. IsFiniteSet(Slots)
    BY FS_Interval, RamDiskAssumption DEF Slots
  <2> QED
    BY <1>1, <2>1, FS_Subset, FS_CardinalityType
<1>3. TableOK'
  BY <1>1, FreeingKeepsTable DEF fs_rmdir
<1> QED
  BY <1>2, <1>3 DEF fs_rmdir

\* fs_mkdir writes the marker entry, if anything.
LEMMA MakeDirKeepsTable ==
  ASSUME TableOK, NEW path \in Paths, NEW r, fs_mkdir(path, r)
  PROVE  TableOK' /\ r \in Int
<1> DEFINE meta == Append(StripSlashes(path), DotDir)
<1>1. CASE UNCHANGED fs_table /\ r \in {0, 1}
  BY <1>1 DEF TableOK, NamesUnique, UsedSlots
<1>2. ASSUME NEW id, fs_write_file(meta, <<>>, id), r = IF id >= 0 THEN 1 ELSE 0
      PROVE  TableOK' /\ r \in Int
  <2>1. meta \in Paths /\ <<>> \in Seq(Chars)
    BY MarkerIsPath
  <2> HIDE DEF meta
  <2>2. TableOK'
    BY <1>2, <2>1, WriteKeepsTable
  <2> QED
    BY <1>2, <2>2
<1> QED
  BY <1>1, <1>2 DEF fs_mkdir

\* mv renames only to a name that no used slot has.
LEMMA RenameKeepsTable ==
  ASSUME TableOK, NEW old, NEW new \in Paths, NEW r, rename(old, new, r)
  PROVE  TableOK' /\ r \in Int
<1> DEFINE sid == fs_find_file(old)
<1>1. CASE UNCHANGED fs_table /\ r = -1
  BY <1>1 DEF TableOK, NamesUnique, UsedSlots
<1>2. CASE /\ sid # -1 /\ fs_find_file(new) = -1 /\ r = sid
           /\ fs_table' = [fs_table EXCEPT ![sid].name = new]
  <2>1. sid \in UsedSlots /\ sid \in Slots
    BY <1>2, FindFile, SlotSets
  <2>2. Matches(new) = {}
    BY <1>2, FindFile, SlotSets
  <2>3. \A k \in Slots : fs_table[k] \in file_t
    BY DEF TableOK
  <2>4. (fs_table \in [Slots -> file_t])'
    BY <1>2, <2>1 DEF TableOK, Slots, file_t
  <2>5. fs_table'[sid].name = new
    BY <1>2, <2>1, <2>3 DEF TableOK, file_t
  <2>6. \A k \in Slots : fs_table'[k].used = fs_table[k].used
    BY <1>2, <2>1, <2>3 DEF TableOK, file_t
  <2>7. \A k \in Slots : k # sid => fs_table'[k].name = fs_table[k].name
    BY <1>2, <2>1 DEF TableOK
  <2>8. UsedSlots' = UsedSlots
    BY <2>6 DEF UsedSlots, Slots
  <2>9. \A k \in UsedSlots : fs_table[k].name # new
    BY <2>2 DEF Matches
  <2>10. NamesUnique'
    BY <2>1, <2>5, <2>7, <2>8, <2>9, SlotSets DEF TableOK, NamesUnique
  <2> QED
    BY <1>2, <2>1, <2>4, <2>10, SlotSets DEF TableOK
<1> QED
  BY <1>1, <1>2 DEF rename

-----------------------------------------------------------------------------
(* Every step, and so every behaviour                                      *)

LEMMA InitIInv == Init => IInv
<1> SUFFICES ASSUME Init PROVE IInv
  OBVIOUS
<1>1. EmptyPath \in Paths /\ <<>> \in Contents
  BY PathAssumption, RamDiskAssumption DEF Paths, EmptyPath, Contents
<1>2. 0 \in Slots /\ 1 \in Slots
  BY RamDiskAssumption DEF Slots
<1>3. \A i \in Slots : fs_table[i] = BootFile(i)
  BY DEF Init, fs_init
<1>4. \A i \in Slots : BootFile(i) \in file_t
  <2> SUFFICES ASSUME NEW i \in Slots PROVE BootFile(i) \in file_t
    OBVIOUS
  <2>1. CASE i = 0
    <3>1. BootFile(i) = [name |-> SystemFile, data |-> SystemText, used |-> TRUE]
      BY <2>1 DEF BootFile
    <3> QED
      BY <3>1, RamDiskAssumption DEF file_t
  <2>2. CASE i = 1
    <3>1. BootFile(i) = [name |-> TestFile, data |-> TestText, used |-> TRUE]
      BY <2>2 DEF BootFile
    <3> QED
      BY <3>1, RamDiskAssumption DEF file_t
  <2>3. CASE i # 0 /\ i # 1
    <3>1. BootFile(i) = [name |-> EmptyPath, data |-> <<>>, used |-> FALSE]
      BY <2>3 DEF BootFile
    <3> QED
      BY <1>1, <3>1 DEF file_t
  <2> QED
    BY <2>1, <2>2, <2>3
<1>5. fs_table \in [Slots -> file_t] /\ ret \in Int
  BY <1>4 DEF Init, fs_init
<1>6. /\ fs_table[0].name = SystemFile /\ fs_table[1].name = TestFile
      /\ \A i \in Slots : i # 0 /\ i # 1 => ~fs_table[i].used
  BY <1>2, <1>3 DEF BootFile
<1>7. NamesUnique
  BY <1>6, RamDiskAssumption DEF NamesUnique, UsedSlots
<1> QED
  BY <1>5, <1>7 DEF IInv, TypeOK

LEMMA NextIInv == IInv /\ [Next]_vars => IInv'
<1> SUFFICES ASSUME IInv, [Next]_vars PROVE IInv'
  OBVIOUS
<1> USE RamDiskAssumption
<1>1. TableOK
  BY DEF IInv, TypeOK, TableOK
<1>2. CASE UNCHANGED vars
  BY <1>2 DEF vars, IInv, TypeOK, NamesUnique, UsedSlots, Slots
<1>3. TableOK' /\ ret' \in Int => IInv'
  BY DEF IInv, TypeOK, TableOK
<1>4. ASSUME NEW name \in Names, Find(name) PROVE IInv'
  <2>1. TableOK'
    BY <1>1, <1>4 DEF Find, TableOK, NamesUnique, UsedSlots
  <2>2. ret' \in Int
    BY <1>4, FindReturnsInt DEF Find
  <2> QED
    BY <1>3, <2>1, <2>2
<1>5. ASSUME NEW name \in Names, Delete(name) PROVE IInv'
  BY <1>1, <1>3, <1>5, DeleteKeepsTable DEF Delete
<1>6. ASSUME NEW name \in Names, MakeDir(name) PROVE IInv'
  BY <1>1, <1>3, <1>6, MakeDirKeepsTable DEF MakeDir
<1>7. ASSUME NEW name \in Names, RemoveDir(name) PROVE IInv'
  BY <1>1, <1>3, <1>7, RemoveDirKeepsTable DEF RemoveDir
<1>8. ASSUME NEW name \in Names, NEW text \in Texts, Write(name, text) PROVE IInv'
  BY <1>1, <1>3, <1>8, WriteKeepsTable DEF Write
<1>9. ASSUME NEW name \in Names, NEW text \in Texts, AppendTo(name, text) PROVE IInv'
  BY <1>1, <1>3, <1>9, AppendKeepsTable DEF AppendTo
<1>10. ASSUME NEW old \in Names, NEW new \in Names, Rename(old, new) PROVE IInv'
  BY <1>1, <1>3, <1>10, RenameKeepsTable DEF Rename
<1> QED
  BY <1>2, <1>4, <1>5, <1>6, <1>7, <1>8, <1>9, <1>10 DEF Next

\* The table always holds well-formed entries: no name is empty of characters
\* beyond "", no data overruns the byte kept for the terminator, whatever the
\* order of writes, appends, renames, removals and directory commands.
THEOREM TypeCorrect == Spec => []TypeOK
<1>1. IInv => TypeOK
  BY DEF IInv
<1> QED
  BY InitIInv, NextIInv, <1>1, PTL DEF Spec

\* No two used slots ever carry the same name, so every stored file stays
\* within reach of fs_find_file.
THEOREM NamesStayUnique == Spec => []NamesUnique
<1>1. IInv => NamesUnique
  BY DEF IInv
<1> QED
  BY InitIInv, NextIInv, <1>1, PTL DEF Spec

-----------------------------------------------------------------------------
(* The table is a map from names to contents                               *)

Files == [name \in UsedNames |-> fs_table[fs_find_file(name)].data]

\* In every state, and so after every step too: each used slot is a file of its
\* name, and each file is a used slot.
FilesFacts ==
  /\ DOMAIN Files = UsedNames
  /\ \A i \in UsedSlots : /\ fs_table[i].name \in UsedNames
                          /\ Files[fs_table[i].name] = fs_table[i].data
  /\ \A name \in UsedNames : \E i \in UsedSlots : fs_table[i].name = name

LEMMA FoundFile ==
  ASSUME TableOK, NEW name
  PROVE  /\ name \in UsedNames => /\ fs_find_file(name) \in UsedSlots
                                  /\ fs_find_file(name) \in Slots /\ fs_find_file(name) # -1
                                  /\ fs_table[fs_find_file(name)].name = name
                                  /\ Files[name] = fs_table[fs_find_file(name)].data
         /\ name \notin UsedNames => fs_find_file(name) = -1 /\ Matches(name) = {}
<1>1. CASE name \in UsedNames
  <2>1. Matches(name) # {}
    BY <1>1 DEF UsedNames, Matches
  <2>2. fs_find_file(name) \in Matches(name)
    BY <2>1, FindFile
  <2> QED
    BY <1>1, <2>2, SlotSets DEF Matches, Files
<1>2. CASE name \notin UsedNames
  <2>1. Matches(name) = {}
    BY <1>2 DEF UsedNames, Matches
  <2> QED
    BY <1>2, <2>1, FindFile
<1> QED
  BY <1>1, <1>2

LEMMA FilesAreSlots == TableOK => FilesFacts
<1> SUFFICES ASSUME TableOK PROVE FilesFacts
  OBVIOUS
<1>1. ASSUME NEW i \in UsedSlots
      PROVE  fs_table[i].name \in UsedNames /\ Files[fs_table[i].name] = fs_table[i].data
  <2>1. fs_table[i].name \in UsedNames
    BY DEF UsedNames
  <2>2. fs_find_file(fs_table[i].name) = i
    BY <2>1, FoundFile DEF TableOK, NamesUnique
  <2> QED
    BY <2>1, <2>2, FoundFile
<1> QED
  BY <1>1 DEF FilesFacts, Files, UsedNames

LEMMA FilesAreSlotsNext == TableOK' => FilesFacts'
BY FilesAreSlots, PTL

\* A map that has every used slot's data at its name, and nothing more, is Files.
LEMMA FilesEqual ==
  ASSUME TableOK', NEW F, F = [name \in DOMAIN F |-> F[name]], DOMAIN F = UsedNames',
         \A i \in UsedSlots' : F[fs_table'[i].name] = fs_table'[i].data
  PROVE  Files' = F
<1>1. FilesFacts'
  BY FilesAreSlotsNext
<1>2. DOMAIN Files' = UsedNames'
  BY <1>1 DEF FilesFacts
<1>3. ASSUME NEW name \in UsedNames' PROVE Files'[name] = F[name]
  <2>1. PICK i \in UsedSlots' : fs_table'[i].name = name
    BY <1>1 DEF FilesFacts
  <2>2. Files'[name] = fs_table'[i].data
    BY <1>1, <2>1 DEF FilesFacts
  <2> QED
    BY <2>1, <2>2
<1>4. Files' = [name \in DOMAIN Files' |-> Files'[name]]
  BY DEF Files
<1> QED
  BY <1>2, <1>3, <1>4

LEMMA FilesKept ==
  ASSUME UNCHANGED fs_table
  PROVE  Files' = Files
<1>1. UsedNames' = UsedNames /\ UsedSlots' = UsedSlots
  BY DEF UsedNames, UsedSlots, Slots
<1>2. \A name : fs_find_file(name)' = fs_find_file(name)
  BY <1>1 DEF fs_find_file, Matches
<1> QED
  BY <1>1, <1>2 DEF Files

\* As many names as slots that carry them.
LEMMA NamesCount ==
  ASSUME TableOK, NEW R \in SUBSET UsedSlots
  PROVE  /\ Cardinality({fs_table[i].name : i \in R}) = Cardinality(R)
         /\ IsFiniteSet(R) /\ Cardinality(R) \in Nat
<1> DEFINE names == {fs_table[i].name : i \in R}
           f == [i \in R |-> fs_table[i].name]
<1>1. IsFiniteSet(Slots) /\ R \in SUBSET Slots
  BY FS_Interval, RamDiskAssumption, SlotSets DEF Slots
<1>2. IsFiniteSet(R) /\ Cardinality(R) \in Nat
  BY <1>1, FS_Subset, FS_CardinalityType
<1>3. f \in Surjection(R, names)
  BY DEF Surjection
<1>4. f \in Injection(R, names)
  <2>1. f \in [R -> names]
    OBVIOUS
  <2>2. IsInjective(f)
    BY DEF TableOK, NamesUnique, IsInjective
  <2> QED
    BY <2>1, <2>2 DEF Injection
<1> HIDE DEF f, names
<1>5. Cardinality(names) = Cardinality(R)
  BY <1>2, <1>3, <1>4, FS_Surjection
<1> QED
  BY <1>2, <1>5 DEF names

\* The store has room as long as a slot is free.
LEMMA RoomIsFreeSlot ==
  ASSUME TableOK
  PROVE  Cardinality(UsedNames) < MAX_FILES <=> FreeSlots # {}
<1>1. Cardinality(UsedNames) = Cardinality(UsedSlots) /\ Cardinality(UsedSlots) \in Nat
  BY NamesCount DEF UsedNames
<1>2. IsFiniteSet(Slots) /\ Cardinality(Slots) = MAX_FILES
  BY FS_Interval, RamDiskAssumption DEF Slots
<1>3. UsedSlots \in SUBSET Slots
  BY SlotSets
<1>4. Cardinality(UsedSlots) <= MAX_FILES /\ (Cardinality(UsedSlots) = MAX_FILES => UsedSlots = Slots)
  BY <1>2, <1>3, FS_Subset
<1>5. FreeSlots = {} <=> UsedSlots = Slots
  BY <1>3 DEF FreeSlots
<1> QED
  BY <1>1, <1>2, <1>4, <1>5, RamDiskAssumption

\* FileStore reads paths and counts files as RamDisk does.
LEMMA SamePaths ==
  /\ \A p : Store!PathLen(p) = PathLen(p)
  /\ \A p : Store!fs_name_valid(p) <=> fs_name_valid(p)
  /\ \A p : Store!StripSlashes(p) = StripSlashes(p)
  /\ \A p, q : Store!IsUnder(p, q) <=> IsUnder(p, q)
<1>1. \A p : Store!PathLen(p) = PathLen(p)
  BY DEF Store!PathLen, PathLen
<1>2. \A p : Store!fs_name_valid(p) <=> fs_name_valid(p)
  BY <1>1 DEF Store!fs_name_valid, fs_name_valid
<1>3. \A p : Store!StripSlashes(p) = StripSlashes(p)
  BY DEF Store!StripSlashes, StripSlashes, Store!Least, Least
<1>4. \A p, q : Store!IsUnder(p, q) <=> IsUnder(p, q)
  BY DEF Store!IsUnder, IsUnder, Store!IsStrictPrefix, IsStrictPrefix, Store!IsPrefix, IsPrefix
<1> QED
  BY <1>1, <1>2, <1>3, <1>4

LEMMA SameCount ==
  \A S : Store!Cardinality(S) = Cardinality(S)
BY DEF Store!Cardinality, Cardinality

LEMMA FilesStored ==
  /\ DOMAIN Files = UsedNames
  /\ Store!Handles = Slots
  /\ \A name : Store!Stored(name) <=> name \in UsedNames
BY DEF Files, Store!Handles, Store!Stored, Slots

\* What a write does to the map, whether it is made by fs_write_file's callers
\* or by fs_mkdir.
LEMMA WriteFiles ==
  ASSUME TableOK, TableOK', NEW name, NEW text, NEW r, fs_write_file(name, text, r)
  PROVE  \/ ~fs_name_valid(name) /\ r = -2 /\ Files' = Files
         \/ fs_name_valid(name) /\ ~Store!HasRoom(name) /\ r = -1 /\ Files' = Files
         \/ /\ fs_name_valid(name) /\ Store!HasRoom(name) /\ r \in Slots
            /\ Files' = Store!With(name, Store!Cut(text, MAX_FILE_SIZE - 1))
<1> DEFINE cut == Clip(text, MAX_FILE_SIZE - 1)
           new == [n \in UsedNames \cup {name} |-> IF n = name THEN cut ELSE Files[n]]
<1>1. CASE ~fs_name_valid(name)
  <2>1. r = -2 /\ Files' = Files
    BY <1>1, FilesKept DEF fs_write_file
  <2> QED
    BY <1>1, <2>1
<1>2. CASE /\ fs_name_valid(name) /\ r = WriteSlot(name) /\ r = -1 /\ UNCHANGED fs_table
  <2>1. Matches(name) = {} /\ FreeSlots = {}
    BY <1>2, PickWriteSlot, SlotSets
  <2>2. name \notin UsedNames
    BY <2>1 DEF Matches, UsedNames
  <2>3. ~(Cardinality(UsedNames) < MAX_FILES) /\ Files' = Files
    BY <1>2, <2>1, RoomIsFreeSlot, FilesKept
  <2>4. ~Store!HasRoom(name)
    BY <2>2, <2>3, FilesStored, SameCount DEF Store!HasRoom, Files
  <2> QED
    BY <1>2, <2>3, <2>4
<1>3. CASE /\ fs_name_valid(name) /\ r = WriteSlot(name) /\ r # -1
           /\ fs_table' = [fs_table EXCEPT ![r] =
                [name |-> name, data |-> cut, used |-> TRUE]]
  <2>1. r \in Slots /\ (r \in Matches(name) \/ (Matches(name) = {} /\ r \in FreeSlots))
    BY <1>3, PickWriteSlot, SlotSets
  <2>2. Store!HasRoom(name)
    <3>1. name \in UsedNames \/ Cardinality(UsedNames) < MAX_FILES
      BY <2>1, RoomIsFreeSlot DEF Matches, UsedNames
    <3> QED
      BY <3>1, FilesStored, SameCount DEF Store!HasRoom, Files
  <2>3. /\ fs_table'[r] = [name |-> name, data |-> cut, used |-> TRUE]
        /\ \A k \in Slots : k # r => fs_table'[k] = fs_table[k]
    BY <1>3, <2>1 DEF TableOK
  <2> HIDE DEF cut
  <2>4. UsedSlots' = UsedSlots \cup {r}
    BY <2>1, <2>3 DEF UsedSlots, Slots
  <2>5. \A k \in UsedSlots : k # r => fs_table[k].name # name
    BY <2>1 DEF Matches, TableOK, NamesUnique
  <2>6. r \in UsedSlots => fs_table[r].name = name
    BY <2>1 DEF Matches, FreeSlots
  <2>7. UsedNames' = UsedNames \cup {name}
    <3>1. UsedNames' = {fs_table'[i].name : i \in UsedSlots \cup {r}}
      BY <2>4 DEF UsedNames
    <3>2. \A i \in UsedSlots : i # r => fs_table'[i].name = fs_table[i].name
      BY <2>3, SlotSets
    <3>3. \A n : n \in UsedNames' <=> n = name \/ \E i \in UsedSlots : i # r /\ n = fs_table[i].name
      BY <2>3, <3>1, <3>2
    <3>4. \A n : n \in UsedNames <=> \E i \in UsedSlots : n = fs_table[i].name
      BY DEF UsedNames
    <3> QED
      BY <2>6, <3>3, <3>4
  <2>8. Files' = new
    <3>1. new = [n \in DOMAIN new |-> new[n]] /\ DOMAIN new = UsedNames'
      BY <2>7
    <3>2. ASSUME NEW i \in UsedSlots' PROVE new[fs_table'[i].name] = fs_table'[i].data
      <4>1. CASE i = r
        BY <2>3, <4>1
      <4>2. CASE i # r
        <5>1. i \in UsedSlots /\ fs_table'[i] = fs_table[i] /\ fs_table[i].name # name
          BY <2>3, <2>4, <2>5, <4>2, SlotSets
        <5>2. fs_table[i].name \in UsedNames /\ Files[fs_table[i].name] = fs_table[i].data
          BY <5>1, FilesAreSlots DEF FilesFacts
        <5> QED
          BY <5>1, <5>2
      <4> QED
        BY <4>1, <4>2
    <3> HIDE DEF new
    <3> QED
      BY <3>1, <3>2, FilesEqual
  <2>9. Files' = Store!With(name, Store!Cut(text, MAX_FILE_SIZE - 1))
    BY <2>8, FilesStored DEF Store!With, Store!Cut, Clip, Files, cut
  <2> QED
    BY <1>3, <2>1, <2>2, <2>9
<1> QED
  BY <1>1, <1>2, <1>3 DEF fs_write_file

LEMMA PutFiles ==
  ASSUME TableOK, TableOK', NEW name, NEW text, Write(name, text)
  PROVE  Store!Put(name, text)
<1>1. \/ ~fs_name_valid(name) /\ ret' = -2 /\ Files' = Files
      \/ fs_name_valid(name) /\ ~Store!HasRoom(name) /\ ret' = -1 /\ Files' = Files
      \/ /\ fs_name_valid(name) /\ Store!HasRoom(name) /\ ret' \in Slots
         /\ Files' = Store!With(name, Store!Cut(text, MAX_FILE_SIZE - 1))
  BY WriteFiles DEF Write
<1> QED
  BY <1>1, FilesStored, SamePaths DEF Store!Put, Files

LEMMA LookupFiles ==
  ASSUME TableOK, NEW name, Find(name)
  PROVE  Store!Lookup(name)
<1>1. ret' = fs_find_file(name) /\ Files' = Files
  BY FilesKept DEF Find
<1>2. IF Store!Stored(name) THEN ret' \in Store!Handles ELSE ret' = -1
  BY <1>1, FoundFile, FilesStored
<1> QED
  BY <1>1, <1>2 DEF Store!Lookup, Files

LEMMA ExtendFiles ==
  ASSUME TableOK, TableOK', NEW name, NEW text \in Seq(Chars), AppendTo(name, text)
  PROVE  Store!Extend(name, text)
<1> DEFINE id == fs_find_file(name)
           free_space == (MAX_FILE_SIZE - 1) - Len(fs_table[id].data)
           added == Clip(text, free_space)
           grown == [Files EXCEPT ![name] = @ \o added]
<1>1. CASE id = -1 /\ ret' = -1 /\ UNCHANGED fs_table
  <2>1. ~Store!Stored(name) /\ Files' = Files
    BY <1>1, FoundFile, FilesStored, FilesKept
  <2> QED
    BY <1>1, <2>1 DEF Store!Extend, Files
<1>2. ASSUME id # -1, ret' = Len(added), Files' = grown
      PROVE  Store!Extend(name, text)
  <2>1. Store!Stored(name) /\ Files[name] = fs_table[id].data
    BY <1>2, FoundFile, FilesStored
  <2>2. Store!Cut(text, MAX_FILE_SIZE - 1 - Len(Files[name])) = added
    BY <2>1 DEF Store!Cut, Clip
  <2> HIDE DEF added
  <2> QED
    BY <1>2, <2>1, <2>2 DEF Store!Extend, Files
<1>3. ASSUME id # -1
      PROVE  /\ name \in UsedNames /\ id \in UsedSlots /\ id \in Slots
             /\ fs_table[id] \in file_t /\ fs_table[id].name = name
             /\ Files[name] = fs_table[id].data
             /\ fs_table[id].data \in Contents /\ free_space \in Nat
  <2>1. /\ name \in UsedNames /\ id \in UsedSlots /\ id \in Slots
        /\ fs_table[id].name = name /\ Files[name] = fs_table[id].data
    BY <1>3, FoundFile
  <2>2. fs_table[id] \in file_t
    BY <2>1 DEF TableOK
  <2>3. fs_table[id].data \in Contents
    BY <2>2 DEF file_t
  <2> QED
    BY <2>1, <2>2, <2>3, RamDiskAssumption DEF Contents
<1>4. CASE id # -1 /\ (text = <<>> \/ free_space <= 0) /\ ret' = 0 /\ UNCHANGED fs_table
  <2>1. added = <<>>
    BY <1>3, <1>4 DEF Clip
  <2>2. grown = Files
    <3>1. Files[name] \in Seq(Chars)
      BY <1>3, <1>4 DEF Contents
    <3>2. \A d \in Seq(Chars) : d \o <<>> = d
      OBVIOUS
    <3>3. Files[name] \o added = Files[name]
      BY <2>1, <3>1, <3>2, Zenon
    <3> QED
      BY <3>3 DEF Files
  <2> QED
    BY <1>2, <1>4, <2>1, <2>2, FilesKept
<1>5. CASE /\ id # -1 /\ text # <<>> /\ free_space > 0 /\ ret' = Len(added)
           /\ fs_table' = [fs_table EXCEPT ![id].data = @ \o added]
  <2> DEFINE data == fs_table[id].data \o added
  <2>1. fs_table' = [fs_table EXCEPT ![id] = [fs_table[id] EXCEPT !.data = data]]
    BY <1>5
  <2> HIDE DEF added, data, free_space
  <2>2. /\ fs_table'[id].name = name /\ fs_table'[id].data = data
        /\ fs_table'[id].used = fs_table[id].used
        /\ \A k \in Slots : k # id => fs_table'[k] = fs_table[k]
    BY <1>3, <1>5, <2>1 DEF TableOK, file_t
  <2>3. UsedSlots' = UsedSlots
    BY <2>2, <1>3, <1>5 DEF UsedSlots, Slots
  <2>4. UsedNames' = UsedNames
    <3>1. \A i \in UsedSlots : fs_table'[i].name = fs_table[i].name
      BY <2>2, <1>3, <1>5, SlotSets
    <3> QED
      BY <2>3, <3>1 DEF UsedNames
  <2>5. /\ grown = [n \in DOMAIN grown |-> grown[n]] /\ DOMAIN grown = UsedNames'
        /\ grown[name] = Files[name] \o added
        /\ \A n \in UsedNames : n # name => grown[n] = Files[n]
    BY <1>3, <1>5, <2>4, FilesStored DEF Files
  <2>6. \A i \in UsedSlots' : grown[fs_table'[i].name] = fs_table'[i].data
    <3> SUFFICES ASSUME NEW i \in UsedSlots'
                 PROVE  grown[fs_table'[i].name] = fs_table'[i].data
      OBVIOUS
    <3>1. CASE i = id
      BY <1>3, <1>5, <2>2, <2>5, <3>1 DEF data
    <3>2. CASE i # id
      <4>1. i \in UsedSlots /\ fs_table'[i] = fs_table[i]
        BY <2>2, <2>3, <3>2, SlotSets
      <4>2. fs_table[i].name # name
        BY <1>3, <1>5, <3>2, <4>1 DEF TableOK, NamesUnique
      <4>3. fs_table[i].name \in UsedNames /\ Files[fs_table[i].name] = fs_table[i].data
        BY <4>1, FilesAreSlots DEF FilesFacts
      <4> QED
        BY <2>5, <4>1, <4>2, <4>3
    <3> QED
      BY <3>1, <3>2
  <2> HIDE DEF grown
  <2>7. Files' = grown
    BY <2>5, <2>6, FilesEqual
  <2> QED
    BY <1>2, <1>5, <2>7
<1> QED
  BY <1>1, <1>4, <1>5 DEF AppendTo, fs_append_file

\* Freeing used slots takes their names out of the map and nothing else.
LEMMA FreeingFiles ==
  ASSUME TableOK, TableOK', NEW R \in SUBSET UsedSlots, NEW Gone,
         Gone = {fs_table[i].name : i \in R},
         fs_table' = [i \in Slots |->
           IF i \in R THEN [fs_table[i] EXCEPT !.used = FALSE] ELSE fs_table[i]]
  PROVE  Files' = Store!Restricted(UsedNames \ Gone)
<1> DEFINE kept == [n \in UsedNames \ Gone |-> Files[n]]
<1>1. \A k \in Slots : fs_table[k] \in file_t
  BY DEF TableOK
<1>2. \A k \in Slots : /\ k \in R => fs_table'[k].used = FALSE
                       /\ k \notin R => fs_table'[k] = fs_table[k]
  BY <1>1 DEF file_t
<1>3. UsedSlots' = UsedSlots \ R
  BY <1>2 DEF UsedSlots, Slots
<1>4. \A i \in UsedSlots \ R : fs_table'[i] = fs_table[i] /\ fs_table[i].name \notin Gone
  BY <1>2, SlotSets DEF TableOK, NamesUnique
<1>5. UsedNames' = UsedNames \ Gone
  <2>1. \A n : n \in UsedNames' <=> \E i \in UsedSlots \ R : n = fs_table'[i].name
    BY <1>3 DEF UsedNames
  <2>2. \A n : n \in UsedNames <=> \E i \in UsedSlots : n = fs_table[i].name
    BY DEF UsedNames
  <2>3. \A n : n \in Gone <=> \E i \in R : n = fs_table[i].name
    OBVIOUS
  <2>4. ASSUME NEW n \in UsedNames' PROVE n \in UsedNames /\ n \notin Gone
    <3>1. PICK i \in UsedSlots \ R : n = fs_table'[i].name
      BY <2>1
    <3> QED
      BY <1>4, <2>2, <3>1
  <2>5. ASSUME NEW n \in UsedNames, n \notin Gone PROVE n \in UsedNames'
    BY <1>4, <2>1, <2>2, <2>3, <2>5
  <2> QED
    BY <2>4, <2>5
<1>6. kept = [n \in DOMAIN kept |-> kept[n]] /\ DOMAIN kept = UsedNames'
  BY <1>5
<1>7. \A i \in UsedSlots' : kept[fs_table'[i].name] = fs_table'[i].data
  BY <1>3, <1>4, FilesAreSlots DEF FilesFacts
<1>8. kept = Store!Restricted(UsedNames \ Gone)
  BY DEF Store!Restricted, Files
<1> HIDE DEF kept
<1> QED
  BY <1>6, <1>7, <1>8, FilesEqual

LEMMA EraseFiles ==
  ASSUME TableOK, TableOK', NEW name, Delete(name)
  PROVE  Store!Erase(name)
<1> DEFINE id == fs_find_file(name)
<1>1. CASE id = -1 /\ ret' = 0 /\ UNCHANGED fs_table
  <2>1. name \notin UsedNames /\ Files' = Files
    BY <1>1, FoundFile, FilesKept
  <2>2. UsedNames \ {name} = UsedNames
    BY <2>1
  <2>3. Files = Store!Restricted(UsedNames \ {name})
    BY <2>2 DEF Store!Restricted, Files
  <2> QED
    BY <1>1, <2>1, <2>3, FilesStored DEF Store!Erase, Files
<1>2. CASE id # -1 /\ ret' = 1 /\ fs_table' = [fs_table EXCEPT ![id].used = FALSE]
  <2>1. name \in UsedNames /\ id \in UsedSlots /\ id \in Slots /\ fs_table[id].name = name
    BY <1>2, FoundFile
  <2> DEFINE R == {id}
  <2>2. fs_table' = [i \in Slots |->
           IF i \in R THEN [fs_table[i] EXCEPT !.used = FALSE] ELSE fs_table[i]]
    BY <1>2, <2>1 DEF TableOK
  <2>3. {name} = {fs_table[i].name : i \in R} /\ R \in SUBSET UsedSlots
    BY <2>1
  <2> HIDE DEF R
  <2>4. Files' = Store!Restricted(UsedNames \ {name})
    BY <2>2, <2>3, FreeingFiles
  <2> QED
    BY <1>2, <2>1, <2>4, FilesStored DEF Store!Erase, Files
<1> QED
  BY <1>1, <1>2 DEF Delete, fs_delete_file

LEMMA RemoveDirFiles ==
  ASSUME TableOK, TableOK', NEW path, RemoveDir(path)
  PROVE  Store!RemoveDir(path)
<1> DEFINE base == StripSlashes(path)
           R == IF base = <<>> THEN {} ELSE {i \in UsedSlots : IsUnder(fs_table[i].name, base)}
           gone == IF base = <<>> THEN {} ELSE {n \in UsedNames : IsUnder(n, base)}
<1>1. gone = {fs_table[i].name : i \in R}
  BY DEF UsedNames
<1>2. R \in SUBSET UsedSlots
  OBVIOUS
<1>3. /\ ret' = Cardinality(R)
      /\ fs_table' = [i \in Slots |->
           IF i \in R THEN [fs_table[i] EXCEPT !.used = FALSE] ELSE fs_table[i]]
  BY DEF RemoveDir, fs_rmdir
<1>4. gone = IF Store!StripSlashes(path) = <<>> THEN {} ELSE Store!Under(Store!StripSlashes(path))
  BY SamePaths, FilesStored DEF Store!Under, Files
<1> HIDE DEF R, gone
<1>5. Files' = Store!Restricted(UsedNames \ gone)
  BY <1>1, <1>2, <1>3, FreeingFiles
<1>6. ret' = Store!Cardinality(gone)
  BY <1>1, <1>2, <1>3, NamesCount, SameCount
<1> QED
  BY <1>4, <1>5, <1>6, FilesStored DEF Store!RemoveDir, Files

LEMMA MakeDirFiles ==
  ASSUME TableOK, TableOK', NEW path, MakeDir(path)
  PROVE  Store!MakeDir(path)
<1> DEFINE base == StripSlashes(path)
           meta == Append(base, DotDir)
           refused == base = <<>> \/ PathLen(base) + 5 >= NAME_SIZE
           possible == ~refused /\ (Store!Stored(meta)
                                      \/ (fs_name_valid(meta) /\ Store!HasRoom(meta)))
<1>1. /\ ret' = IF possible THEN 1 ELSE 0
      /\ Files' = IF possible /\ ~Store!Stored(meta) THEN Store!With(meta, <<>>) ELSE Files
  <2> HIDE DEF meta, refused
  <2>1. CASE refused /\ ret' = 0 /\ UNCHANGED fs_table
    BY <2>1, FilesKept
  <2>2. CASE ~refused /\ fs_find_file(meta) # -1 /\ ret' = 1 /\ UNCHANGED fs_table
    <3>1. Store!Stored(meta)
      BY <2>2, FoundFile, FilesStored
    <3> QED
      BY <2>2, <3>1, FilesKept
  <2>3. ASSUME ~refused, fs_find_file(meta) = -1, NEW id \in Slots \cup {-1, -2},
               fs_write_file(meta, <<>>, id), ret' = IF id >= 0 THEN 1 ELSE 0
        PROVE  /\ ret' = IF possible THEN 1 ELSE 0
               /\ Files' = IF possible /\ ~Store!Stored(meta)
                           THEN Store!With(meta, <<>>) ELSE Files
    <3>1. ~Store!Stored(meta)
      BY <2>3, FoundFile, FilesStored
    <3>2. Store!Cut(<<>>, MAX_FILE_SIZE - 1) = <<>>
      BY RamDiskAssumption DEF Store!Cut
    <3>3. \/ ~fs_name_valid(meta) /\ id = -2 /\ Files' = Files
          \/ fs_name_valid(meta) /\ ~Store!HasRoom(meta) /\ id = -1 /\ Files' = Files
          \/ /\ fs_name_valid(meta) /\ Store!HasRoom(meta) /\ id \in Slots
             /\ Files' = Store!With(meta, <<>>)
      BY <2>3, <3>2, WriteFiles
    <3>4. id \in Slots => id >= 0
      BY RamDiskAssumption DEF Slots
    <3> QED
      BY <2>3, <3>1, <3>3, <3>4
  <2> QED
    BY <2>1, <2>2, <2>3 DEF MakeDir, fs_mkdir, meta, refused
<1> QED
  BY <1>1, SamePaths DEF Store!MakeDir, Files

LEMMA MoveFiles ==
  ASSUME TableOK, TableOK', NEW old, NEW new, Rename(old, new)
  PROVE  Store!Move(old, new)
<1> DEFINE sid == fs_find_file(old)
           moved == [n \in (UsedNames \ {old}) \cup {new} |->
                      IF n = new THEN Files[old] ELSE Files[n]]
<1>1. CASE (sid = -1 \/ fs_find_file(new) # -1) /\ ret' = -1 /\ UNCHANGED fs_table
  <2>1. (~Store!Stored(old) \/ Store!Stored(new)) /\ Files' = Files
    BY <1>1, FoundFile, FilesStored, FilesKept
  <2> QED
    BY <1>1, <2>1 DEF Store!Move, Files
<1>2. CASE /\ sid # -1 /\ fs_find_file(new) = -1 /\ ret' = sid
           /\ fs_table' = [fs_table EXCEPT ![sid].name = new]
  <2>1. /\ old \in UsedNames /\ new \notin UsedNames
        /\ sid \in UsedSlots /\ sid \in Slots /\ fs_table[sid].name = old
        /\ Files[old] = fs_table[sid].data
    BY <1>2, FoundFile
  <2>2. fs_table[sid] \in file_t
    BY <2>1 DEF TableOK
  <2>3. /\ fs_table'[sid].name = new /\ fs_table'[sid].data = fs_table[sid].data
        /\ fs_table'[sid].used = fs_table[sid].used
        /\ \A k \in Slots : k # sid => fs_table'[k] = fs_table[k]
    BY <1>2, <2>1, <2>2 DEF TableOK, file_t
  <2> HIDE DEF sid
  <2>4. UsedSlots' = UsedSlots
    BY <2>1, <2>3 DEF UsedSlots, Slots
  <2>5. \A i \in UsedSlots : i # sid => /\ fs_table'[i] = fs_table[i]
                                      /\ fs_table[i].name # old
                                      /\ fs_table[i].name # new
                                      /\ fs_table[i].name \in UsedNames
    BY <2>1, <2>3, SlotSets DEF TableOK, NamesUnique, UsedNames
  <2>6. UsedNames' = (UsedNames \ {old}) \cup {new}
    <3>1. \A n : n \in UsedNames' <=> \E i \in UsedSlots : n = fs_table'[i].name
      BY <2>4 DEF UsedNames
    <3>2. \A n : n \in UsedNames <=> \E i \in UsedSlots : n = fs_table[i].name
      BY DEF UsedNames
    <3>3. ASSUME NEW n \in UsedNames' PROVE n \in (UsedNames \ {old}) \cup {new}
      BY <2>3, <2>5, <3>1
    <3>4. ASSUME NEW n \in (UsedNames \ {old}) \cup {new} PROVE n \in UsedNames'
      BY <2>1, <2>3, <2>5, <3>1, <3>2
    <3> QED
      BY <3>3, <3>4
  <2>7. moved = [n \in DOMAIN moved |-> moved[n]] /\ DOMAIN moved = UsedNames'
    BY <2>6
  <2>8. \A i \in UsedSlots' : moved[fs_table'[i].name] = fs_table'[i].data
    BY <2>1, <2>3, <2>4, <2>5, FilesAreSlots DEF FilesFacts
  <2>9. Files' = moved
    <3> HIDE DEF moved
    <3> QED
      BY <2>7, <2>8, FilesEqual
  <2> QED
    BY <1>2, <2>1, <2>9, FilesStored DEF Store!Move, Files, sid
<1> QED
  BY <1>1, <1>2 DEF Rename, rename

LEMMA StartFilesStored ==
  ASSUME Init
  PROVE  Store!Init
<1> DEFINE start == [name \in {SystemFile, TestFile} |->
                      IF name = SystemFile THEN SystemText ELSE TestText]
<1>1. TableOK
  BY InitIInv DEF IInv, TypeOK, TableOK
<1>2. 0 \in Slots /\ 1 \in Slots
  BY RamDiskAssumption DEF Slots
<1>3. \A i \in Slots : fs_table[i] = BootFile(i)
  BY DEF Init, fs_init
<1>4. /\ fs_table[0].name = SystemFile /\ fs_table[0].data = SystemText /\ fs_table[0].used
      /\ fs_table[1].name = TestFile /\ fs_table[1].data = TestText /\ fs_table[1].used
      /\ \A i \in Slots : i # 0 /\ i # 1 => ~fs_table[i].used
  BY <1>2, <1>3 DEF BootFile
<1>5. UsedSlots = {0, 1}
  BY <1>2, <1>4 DEF UsedSlots
<1>6. UsedNames = {SystemFile, TestFile}
  BY <1>4, <1>5 DEF UsedNames
<1>7. Files[SystemFile] = SystemText /\ Files[TestFile] = TestText
  BY <1>1, <1>4, <1>5, FilesAreSlots DEF FilesFacts
<1>8. Files = start
  BY <1>6, <1>7 DEF Files
<1> QED
  BY <1>8 DEF Store!Init, Files, Init, fs_init

\* The fs_ functions keep the promises of a bounded map from names to contents:
\* every call, in any order, does to the map of the used slots what FileStore
\* says of it and returns what FileStore allows, whatever lies in freed slots.
THEOREM RamDiskImplementsStore == Spec => ImplementsStore
<1>1. Init => Store!Init
  BY StartFilesStored
<1>2. IInv /\ IInv' /\ [Next]_vars => [Store!Next]_<<Files, ret>>
  <2> SUFFICES ASSUME IInv, IInv', [Next]_vars PROVE [Store!Next]_<<Files, ret>>
    OBVIOUS
  <2> USE RamDiskAssumption
  <2>1. TableOK /\ TableOK'
    BY DEF IInv, TypeOK, TableOK
  <2>2. CASE UNCHANGED vars
    BY <2>2, FilesKept DEF vars
  <2>3. ASSUME NEW name \in Names, Find(name) PROVE Store!Next
    BY <2>1, <2>3, LookupFiles DEF Store!Next
  <2>4. ASSUME NEW name \in Names, Delete(name) PROVE Store!Next
    BY <2>1, <2>4, EraseFiles DEF Store!Next
  <2>5. ASSUME NEW name \in Names, MakeDir(name) PROVE Store!Next
    BY <2>1, <2>5, MakeDirFiles DEF Store!Next
  <2>6. ASSUME NEW name \in Names, RemoveDir(name) PROVE Store!Next
    BY <2>1, <2>6, RemoveDirFiles DEF Store!Next
  <2>7. ASSUME NEW name \in Names, NEW text \in Texts, Write(name, text) PROVE Store!Next
    BY <2>1, <2>7, PutFiles DEF Store!Next
  <2>8. ASSUME NEW name \in Names, NEW text \in Texts, AppendTo(name, text) PROVE Store!Next
    BY <2>1, <2>8, ExtendFiles DEF Store!Next
  <2>9. ASSUME NEW old \in Names, NEW new \in Names, Rename(old, new) PROVE Store!Next
    BY <2>1, <2>9, MoveFiles DEF Store!Next
  <2> QED
    BY <2>2, <2>3, <2>4, <2>5, <2>6, <2>7, <2>8, <2>9 DEF Next
<1> QED
  BY InitIInv, NextIInv, <1>1, <1>2, PTL DEF Spec, ImplementsStore, Store!Spec, Files

-----------------------------------------------------------------------------
(* The shell's commands                                                    *)

ShellInv == ShellTypeOK /\ NamesUnique

-----------------------------------------------------------------------------
(* Names                                                                   *)

\* The names that a step adds fit.
NewNamesFit == \A name \in UsedNames' \ UsedNames : PathLen(name) < NAME_SIZE

\* A step in which no slot gets a name or comes into use.
LEMMA NoNewName ==
  ASSUME \A i \in Slots : fs_table'[i].used =>
           fs_table[i].used /\ fs_table'[i].name = fs_table[i].name
  PROVE  NewNamesFit
<1>1. UsedNames' \subseteq UsedNames
  BY DEF UsedNames, UsedSlots, Slots
<1> QED
  BY <1>1 DEF NewNamesFit

LEMMA SameTable == UNCHANGED fs_table => NewNamesFit
BY NoNewName

\* A step in which one slot gets a name that fits.
LEMMA OneNewName ==
  ASSUME NEW r, NEW name, PathLen(name) < NAME_SIZE,
         fs_table'[r].name = name,
         \A i \in Slots \ {r} : fs_table'[i] = fs_table[i]
  PROVE  NewNamesFit
<1>1. UsedNames' \subseteq UsedNames \cup {name}
  BY DEF UsedNames, UsedSlots, Slots
<1> QED
  BY <1>1 DEF NewNamesFit

LEMMA WriteNames ==
  ASSUME TableOK, NEW name, NEW text, NEW r, fs_write_file(name, text, r)
  PROVE  NewNamesFit
<1>1. CASE UNCHANGED fs_table
  BY <1>1, SameTable
<1>2. CASE /\ fs_name_valid(name) /\ r = WriteSlot(name) /\ r # -1
           /\ fs_table' = [fs_table EXCEPT ![r] =
                [name |-> name, data |-> Clip(text, MAX_FILE_SIZE - 1), used |-> TRUE]]
  <2>1. r \in Slots
    BY <1>2, PickWriteSlot, SlotSets
  <2>2. fs_table'[r].name = name /\ \A i \in Slots \ {r} : fs_table'[i] = fs_table[i]
    BY <1>2, <2>1 DEF TableOK
  <2>3. PathLen(name) < NAME_SIZE
    BY <1>2 DEF fs_name_valid
  <2> QED
    BY <2>2, <2>3, OneNewName
<1> QED
  BY <1>1, <1>2 DEF fs_write_file

LEMMA AppendNames ==
  ASSUME TableOK, NEW name, NEW text, NEW r, fs_append_file(name, text, r)
  PROVE  NewNamesFit
<1> DEFINE id == fs_find_file(name)
           added == Clip(text, (MAX_FILE_SIZE - 1) - Len(fs_table[id].data))
<1>1. CASE UNCHANGED fs_table
  BY <1>1, SameTable
<1>2. CASE id # -1 /\ fs_table' = [fs_table EXCEPT ![id].data = @ \o added]
  <2>1. id \in Slots
    BY <1>2, FindFile, SlotSets
  <2>2. \A i \in Slots : fs_table[i] \in file_t
    BY DEF TableOK
  <2> HIDE DEF id, added
  <2>3. \A i \in Slots : /\ fs_table'[i].name = fs_table[i].name
                         /\ fs_table'[i].used = fs_table[i].used
    BY <1>2, <2>1, <2>2 DEF TableOK, file_t
  <2> QED
    BY <2>3, NoNewName
<1> QED
  BY <1>1, <1>2 DEF fs_append_file

LEMMA DeleteNames ==
  ASSUME TableOK, NEW name, NEW r, fs_delete_file(name, r)
  PROVE  NewNamesFit
<1> DEFINE id == fs_find_file(name)
<1>1. CASE UNCHANGED fs_table
  BY <1>1, SameTable
<1>2. CASE id # -1 /\ fs_table' = [fs_table EXCEPT ![id].used = FALSE]
  <2>1. id \in Slots
    BY <1>2, FindFile, SlotSets
  <2>2. \A i \in Slots : fs_table[i] \in file_t
    BY DEF TableOK
  <2> HIDE DEF id
  <2>3. \A i \in Slots : fs_table'[i].used =>
          fs_table[i].used /\ fs_table'[i].name = fs_table[i].name
    BY <1>2, <2>1, <2>2 DEF TableOK, file_t
  <2> QED
    BY <2>3, NoNewName
<1> QED
  BY <1>1, <1>2 DEF fs_delete_file

LEMMA RemoveDirNames ==
  ASSUME TableOK, NEW path, NEW r, fs_rmdir(path, r)
  PROVE  NewNamesFit
<1> DEFINE base == StripSlashes(path)
           removed == IF base = <<>> THEN {}
                      ELSE {i \in UsedSlots : IsUnder(fs_table[i].name, base)}
<1>1. fs_table' = [i \in Slots |->
        IF i \in removed THEN [fs_table[i] EXCEPT !.used = FALSE] ELSE fs_table[i]]
  BY DEF fs_rmdir
<1> HIDE DEF removed
<1>2. \A i \in Slots : fs_table'[i].used =>
        fs_table[i].used /\ fs_table'[i].name = fs_table[i].name
  BY <1>1 DEF TableOK, file_t
<1> QED
  BY <1>2, NoNewName

LEMMA MakeDirNames ==
  ASSUME TableOK, NEW path, NEW r, fs_mkdir(path, r)
  PROVE  NewNamesFit
<1> DEFINE meta == Append(StripSlashes(path), DotDir)
<1>1. CASE UNCHANGED fs_table
  BY <1>1, SameTable
<1>2. ASSUME NEW id, fs_write_file(meta, <<>>, id) PROVE NewNamesFit
  <2> HIDE DEF meta
  <2> QED
    BY <1>2, WriteNames
<1> QED
  BY <1>1, <1>2 DEF fs_mkdir

LEMMA RenameNames ==
  ASSUME TableOK, NEW old, NEW new, PathLen(new) < NAME_SIZE, NEW r, rename(old, new, r)
  PROVE  NewNamesFit
<1> DEFINE sid == fs_find_file(old)
<1>1. CASE UNCHANGED fs_table
  BY <1>1, SameTable
<1>2. CASE sid # -1 /\ fs_table' = [fs_table EXCEPT ![sid].name = new]
  <2>1. sid \in Slots
    BY <1>2, FindFile, SlotSets
  <2>2. \A i \in Slots : fs_table[i] \in file_t
    BY DEF TableOK
  <2>3. fs_table'[sid].name = new /\ \A i \in Slots \ {sid} : fs_table'[i] = fs_table[i]
    BY <1>2, <2>1, <2>2 DEF TableOK, file_t
  <2> QED
    BY <2>3, OneNewName
<1> QED
  BY <1>1, <1>2 DEF rename

-----------------------------------------------------------------------------
(* Paths                                                                   *)

\* strlen of a path is a natural number, and 0 for the string "" alone.  The
\* recursive function that PathLen applies exists, and is bounded from below, by
\* the least number at which it would not be.
LEMMA PathLenFacts ==
  ASSUME NEW p \in Paths
  PROVE  PathLen(p) \in Nat /\ (p # EmptyPath => PathLen(p) > 0)
<1> DEFINE L == Len(p)
           Body(f, n) == IF n = 0 THEN L - 1 ELSE f[n - 1] + CompLen[p[n]]
           Counts(f, k) == f = [n \in 0..k |-> Body(f, n)]
           upTo[n \in 0..L] == IF n = 0 THEN L - 1 ELSE upTo[n - 1] + CompLen[p[n]]
           bad == {k \in 0..L : ~\E f : Counts(f, k)}
           low == {n \in 0..L : ~(/\ upTo[n] \in Nat /\ upTo[n] >= L - 1
                                 /\ (n # 0 => upTo[n] >= L - 1 + CompLen[p[n]]))}
<1>1. L \in Nat /\ L >= 1 /\ \A n \in 1..L : CompLen[p[n]] \in Nat
  BY PathAssumption DEF Paths
<1> HIDE DEF L
<1>2. Counts([n \in 0..0 |-> L - 1], 0)
  BY <1>1
<1>3. ASSUME NEW k \in 1..L, NEW f, Counts(f, k - 1)
      PROVE  \E g : Counts(g, k)
  <2> DEFINE g == [n \in 0..k |-> IF n = k THEN f[k - 1] + CompLen[p[k]] ELSE f[n]]
  <2>1. \A n \in 0..(k - 1) : f[n] = Body(f, n)
    BY <1>3
  <2>2. k \in Nat /\ k - 1 \in 0..(k - 1) /\ k \in 0..k /\ k - 1 \in 0..k
    BY <1>1
  <2>3. \A n \in 0..k : g[n] = Body(g, n)
    <3> SUFFICES ASSUME NEW n \in 0..k PROVE g[n] = Body(g, n)
      OBVIOUS
    <3>1. CASE n = k
      BY <2>2, <3>1
    <3>2. CASE n # k /\ n = 0
      BY <2>1, <2>2, <3>2
    <3>3. CASE n # k /\ n # 0
      <4>1. n \in 0..(k - 1) /\ n - 1 \in 0..(k - 1) /\ n - 1 \in 0..k /\ n - 1 # k
        BY <2>2, <3>3
      <4> QED
        BY <2>1, <3>3, <4>1
    <3> QED
      BY <3>1, <3>2, <3>3
  <2>4. g = [n \in 0..k |-> g[n]]
    OBVIOUS
  <2> HIDE DEF g
  <2>5. Counts(g, k)
    BY <2>3, <2>4
  <2> QED
    BY <2>5
<1>4. bad = {}
  <2> SUFFICES ASSUME bad # {} PROVE FALSE
    OBVIOUS
  <2>1. bad \subseteq Nat
    OBVIOUS
  <2> HIDE DEF bad
  <2>2. PICK k \in bad : \A m \in bad : k <= m
    BY <2>1, LeastNatural
  <2>3. k \in 0..L /\ ~\E f : Counts(f, k)
    BY <2>2 DEF bad
  <2>4. k # 0
    BY <1>2, <2>3
  <2>5. k \in 1..L /\ k - 1 \in 0..L /\ ~(k <= k - 1)
    BY <1>1, <2>3, <2>4
  <2>6. k - 1 \notin bad
    BY <2>2, <2>5
  <2>7. \E f : Counts(f, k - 1)
    BY <2>5, <2>6 DEF bad
  <2> QED
    BY <1>3, <2>3, <2>5, <2>7
<1>5. \E f : Counts(f, L)
  <2>1. L \in 0..L
    BY <1>1
  <2>2. L \notin bad
    BY <1>4, Zenon
  <2> QED
    BY <2>1, <2>2, Zenon
<1>6. upTo = [n \in 0..L |-> IF n = 0 THEN L - 1 ELSE upTo[n - 1] + CompLen[p[n]]]
  BY <1>5, Zenon
<1>7. PathLen(p) = upTo[L]
  BY DEF PathLen, L
<1> HIDE DEF upTo
<1>8. low = {}
  <2> SUFFICES ASSUME low # {} PROVE FALSE
    OBVIOUS
  <2>1. low \subseteq Nat
    OBVIOUS
  <2> HIDE DEF low
  <2>2. PICK n \in low : \A m \in low : n <= m
    BY <2>1, LeastNatural
  <2>3. n \in 0..L /\ ~(/\ upTo[n] \in Nat /\ upTo[n] >= L - 1
                        /\ (n # 0 => upTo[n] >= L - 1 + CompLen[p[n]]))
    BY <2>2 DEF low
  <2>4. upTo[n] = IF n = 0 THEN L - 1 ELSE upTo[n - 1] + CompLen[p[n]]
    BY <1>6, <2>3
  <2>5. n # 0
    BY <1>1, <2>3, <2>4
  <2>6. n - 1 \in 0..L /\ ~(n <= n - 1)
    BY <1>1, <2>3, <2>5
  <2>7. n - 1 \notin low
    BY <2>2, <2>6
  <2>8. upTo[n - 1] \in Nat /\ upTo[n - 1] >= L - 1
    BY <2>6, <2>7 DEF low
  <2> QED
    BY <1>1, <2>3, <2>4, <2>5, <2>8
<1>9. upTo[L] \in Nat /\ upTo[L] >= L - 1 /\ upTo[L] >= L - 1 + CompLen[p[L]]
  <2>1. L \in 0..L /\ L # 0
    BY <1>1
  <2> QED
    BY <1>8, <2>1
<1>10. p # EmptyPath => L >= 2 \/ CompLen[p[L]] > 0
  <2> SUFFICES ASSUME p # EmptyPath, L = 1 PROVE CompLen[p[L]] > 0
    BY <1>1
  <2>1. p[L] \in Components /\ p[L] # Empty
    BY DEF Paths, EmptyPath, L
  <2>2. CompLen[p[L]] # 0 /\ CompLen[p[L]] \in Nat
    BY <2>1, PathAssumption
  <2> QED
    BY <2>2
<1>11. CompLen[p[L]] \in Nat
  BY <1>1
<1> QED
  BY <1>1, <1>7, <1>9, <1>10, <1>11

LEMMA JoinedIsPath ==
  ASSUME NEW cwd \in Seq(Components), NEW arg \in Args
  PROVE  Joined(cwd, arg) \in Paths
<1>1. arg.path \in Seq(Components) /\ arg.path # <<>>
  BY DEF Args, Paths
<1>2. cwd \o arg.path \in Seq(Components) /\ Len(cwd \o arg.path) > 0
  BY <1>1
<1> QED
  BY <1>1, <1>2 DEF Joined, Paths

\* Whatever build_path left in the array.
LEMMA ResolvedIsPath ==
  ASSUME ShellInv, NEW arg \in CommandArgs, NEW path \in Resolved(arg)
  PROVE  path \in Paths
<1>1. CASE BuildOk(current_path, arg)
  BY <1>1, JoinedIsPath, FileShellAssumption
    DEF Resolved, build_path, ShellInv, ShellTypeOK, Dirs
<1>2. CASE ~BuildOk(current_path, arg)
  BY <1>2, FileShellAssumption DEF Resolved
<1> QED
  BY <1>1, <1>2

\* What build_path accepts fits.
LEMMA BuiltFits ==
  ASSUME NEW arg, BuildOk(current_path, arg), NEW path \in Resolved(arg)
  PROVE  PathLen(path) < NAME_SIZE
BY DEF Resolved, build_path, BuildOk

\* cd's argument joined to the current directory is not the string "".
LEMMA JoinedIsDir ==
  ASSUME NEW cwd \in Dirs, NEW arg \in Args, ~IsSlash(arg)
  PROVE  Joined(cwd, arg) \in Dirs
<1>1. Joined(cwd, arg) \in Seq(Components)
  BY JoinedIsPath DEF Dirs, Paths
<1>2. arg.path \in Seq(Components) /\ arg.path # <<>> /\ arg.abs \in BOOLEAN
  BY DEF Args, Paths
<1>3. CASE arg.abs
  BY <1>1, <1>3 DEF Joined, IsSlash, Dirs
<1>4. CASE ~arg.abs /\ cwd = <<>>
  <2>1. Joined(cwd, arg) = arg.path
    BY <1>2, <1>4 DEF Joined
  <2>2. arg.path[1] # Empty
    BY <1>2, <1>4 DEF Args
  <2> QED
    BY <1>1, <2>1, <2>2 DEF Dirs, EmptyPath
<1>5. CASE ~arg.abs /\ cwd # <<>>
  <2>1. Len(cwd \o arg.path) >= 2
    BY <1>2, <1>5 DEF Dirs
  <2> QED
    BY <1>1, <1>5, <2>1 DEF Joined, Dirs, EmptyPath
<1> QED
  BY <1>2, <1>3, <1>4, <1>5

LEMMA ParentIsDir ==
  ASSUME NEW cwd \in Dirs
  PROVE  path_parent(cwd) \in Dirs
<1>1. <<>> \in Dirs
  BY DEF Dirs, EmptyPath
<1>2. Len(cwd) > 1 => Front(cwd) \in Seq(Components)
  BY DEF Dirs, Front
<1> QED
  BY <1>1, <1>2 DEF path_parent, Dirs

\* What lies below a directory lies below its parent.
LEMMA ParentExists ==
  ASSUME ShellInv, fs_dir_exists(current_path)
  PROVE  fs_dir_exists(path_parent(current_path))
<1> DEFINE cwd == current_path
<1>1. cwd \in Seq(Components)
  BY DEF ShellInv, ShellTypeOK, Dirs
<1>2. CASE path_parent(cwd) = <<>>
  BY <1>2 DEF fs_dir_exists
<1>3. CASE Len(cwd) > 1 /\ path_parent(cwd) = Front(cwd)
  <2>1. PICK name \in UsedNames : IsUnder(name, cwd)
    BY <1>3 DEF fs_dir_exists
  <2>2. name \in Seq(Components)
    BY DEF UsedNames, UsedSlots, ShellInv, ShellTypeOK, TypeOK, file_t, Paths
  <2> DEFINE n == Len(cwd)
  <2>3. n <= Len(name) /\ SubSeq(cwd, 1, n) = SubSeq(name, 1, n)
    BY <2>1 DEF IsUnder, IsStrictPrefix, IsPrefix
  <2>4. \A i \in 1..n : cwd[i] = name[i]
    <3> SUFFICES ASSUME NEW i \in 1..n PROVE cwd[i] = name[i]
      OBVIOUS
    <3>1. SubSeq(cwd, 1, n)[i] = cwd[i]
      BY <1>1
    <3>2. SubSeq(name, 1, n)[i] = name[i]
      BY <1>1, <2>2, <2>3
    <3> QED
      BY <2>3, <3>1, <3>2
  <2>5. Front(cwd) = SubSeq(cwd, 1, n - 1) /\ Len(Front(cwd)) = n - 1
    BY <1>1, <1>3 DEF Front
  <2>6. SubSeq(cwd, 1, n - 1) = SubSeq(name, 1, n - 1)
    BY <1>1, <1>3, <2>2, <2>3, <2>4
  <2>7. SubSeq(Front(cwd), 1, n - 1) = Front(cwd)
    BY <1>1, <1>3, <2>5
  <2>8. IsUnder(name, Front(cwd))
    BY <1>1, <1>3, <2>2, <2>3, <2>5, <2>6, <2>7 DEF IsUnder, IsStrictPrefix, IsPrefix
  <2> QED
    BY <1>3, <2>8 DEF fs_dir_exists
<1>4. path_parent(cwd) = <<>> \/ (Len(cwd) > 1 /\ path_parent(cwd) = Front(cwd))
  BY <1>1 DEF path_parent
<1> QED
  BY <1>2, <1>3, <1>4

-----------------------------------------------------------------------------
(* The commands                                                            *)

LEMMA ShellInvFromTable ==
  ASSUME TableOK', ret' \in Int, current_path' \in Dirs
  PROVE  ShellInv'
BY DEF TableOK, ShellInv, ShellTypeOK, TypeOK

LEMMA InvGivesTable == ShellInv => TableOK /\ ret \in Int /\ current_path \in Dirs
BY DEF TableOK, ShellInv, ShellTypeOK, TypeOK

\* A command that leaves the table alone.
LEMMA LookKeepsInv ==
  ASSUME ShellInv, UNCHANGED fs_table, ret' \in Int, current_path' \in Dirs
  PROVE  ShellInv'
BY DEF ShellInv, ShellTypeOK, TypeOK, NamesUnique, UsedSlots

LEMMA OneArgKeepsInv ==
  ASSUME ShellInv, NEW arg \in CommandArgs, Command(arg)
  PROVE  ShellInv'
<1>1. /\ TableOK /\ ret \in Int /\ current_path \in Dirs /\ current_path \in Seq(Components)
      /\ arg \in Args
  BY InvGivesTable, FileShellAssumption DEF Dirs
<1>2. ASSUME UNCHANGED <<fs_table, ret, current_path>> PROVE ShellInv'
  BY <1>1, <1>2, LookKeepsInv
<1>3. InvalidPath \/ Pwd => ShellInv'
  BY <1>2 DEF InvalidPath, Pwd
<1>4. build_path(arg) \in Paths
  BY <1>1, JoinedIsPath DEF build_path
<1>5. CASE CdTo(arg)
  BY <1>1, <1>5, JoinedIsDir, LookKeepsInv DEF CdTo, vars
<1>6. CASE Mkdir(arg)
  <2>1. MakeDir(build_path(arg)) /\ UNCHANGED current_path => ShellInv'
    BY <1>1, <1>4, MakeDirKeepsTable, ShellInvFromTable DEF MakeDir
  <2> QED
    BY <1>3, <1>6, <2>1 DEF Mkdir
<1>7. CASE Rmdir(arg)
  <2>1. RemoveDir(build_path(arg)) /\ UNCHANGED current_path => ShellInv'
    BY <1>1, <1>4, RemoveDirKeepsTable, ShellInvFromTable DEF RemoveDir
  <2> QED
    BY <1>3, <1>7, <2>1 DEF Rmdir
<1>8. CASE Wc(arg) \/ Cat(arg)
  <2>1. ASSUME NEW path, Find(path), UNCHANGED current_path PROVE ShellInv'
    BY <1>1, <2>1, FindReturnsInt, LookKeepsInv DEF Find
  <2> QED
    BY <1>3, <1>8, <2>1 DEF Wc, Cat
<1>9. CASE Ls(arg)
  BY <1>3, <1>9 DEF Ls
<1>10. CASE Touch(arg)
  <2>1. PICK path \in Resolved(arg) : Write(path, <<>>) /\ UNCHANGED current_path
    BY <1>10 DEF Touch
  <2>2. path \in Paths /\ <<>> \in Seq(Chars)
    BY ResolvedIsPath
  <2> QED
    BY <1>1, <2>1, <2>2, WriteKeepsTable, ShellInvFromTable DEF Write
<1>11. CASE Rm(arg)
  BY <1>1, <1>11, DeleteKeepsTable, ShellInvFromTable DEF Rm, Delete
<1>12. ASSUME NEW msg \in LineTexts, WriteText(arg, msg) \/ AppendText(arg, msg)
       PROVE  ShellInv'
  <2>1. PICK path \in Resolved(arg) :
          (Write(path, msg) \/ AppendTo(path, msg)) /\ UNCHANGED current_path
    BY <1>12 DEF WriteText, AppendText
  <2>2. path \in Paths /\ msg \in Seq(Chars)
    BY ResolvedIsPath, FileShellAssumption DEF Contents
  <2> QED
    BY <1>1, <2>1, <2>2, WriteKeepsTable, AppendKeepsTable, ShellInvFromTable DEF Write, AppendTo
<1> QED
  BY <1>5, <1>6, <1>7, <1>8, <1>9, <1>10, <1>11, <1>12 DEF Command

LEMMA TwoArgsKeepInv ==
  ASSUME ShellInv, NEW src \in CommandArgs, NEW dest \in CommandArgs,
         Cp(src, dest) \/ Mv(src, dest)
  PROVE  ShellInv'
<1>1. TableOK /\ ret \in Int /\ current_path \in Dirs
  BY InvGivesTable
<1>2. PICK src_path \in Resolved(src), dest_path \in Resolved(dest) :
        /\ \/ /\ fs_find_file(src_path) # -1
              /\ Write(dest_path, fs_table[fs_find_file(src_path)].data)
           \/ Find(src_path)
           \/ Rename(src_path, dest_path)
        /\ UNCHANGED current_path
  BY DEF Cp, Mv
<1>3. dest_path \in Paths
  BY ResolvedIsPath
<1>4. CASE Find(src_path)
  BY <1>1, <1>2, <1>4, FindReturnsInt, LookKeepsInv DEF Find
<1>5. CASE Rename(src_path, dest_path)
  BY <1>1, <1>2, <1>3, <1>5, RenameKeepsTable, ShellInvFromTable DEF Rename
<1>6. CASE /\ fs_find_file(src_path) # -1
           /\ Write(dest_path, fs_table[fs_find_file(src_path)].data)
  <2> DEFINE sid == fs_find_file(src_path)
             text == fs_table[sid].data
  <2>1. sid \in Slots
    BY <1>6, FindFile, SlotSets
  <2>2. text \in Seq(Chars)
    BY <1>1, <2>1 DEF TableOK, file_t, Contents
  <2>3. fs_write_file(dest_path, text, ret')
    BY <1>6 DEF Write
  <2> HIDE DEF text
  <2>4. TableOK' /\ ret' \in Int
    BY <1>1, <1>3, <2>2, <2>3, WriteKeepsTable
  <2> QED
    BY <1>1, <1>2, <2>4, ShellInvFromTable
<1> QED
  BY <1>2, <1>4, <1>5, <1>6

-----------------------------------------------------------------------------
LEMMA InitShellInv == ShellInit => ShellInv
<1> SUFFICES ASSUME ShellInit PROVE ShellInv
  OBVIOUS
<1>1. TypeOK /\ NamesUnique
  BY InitIInv DEF ShellInit, IInv
<1>2. current_path \in Dirs
  <2>1. <<>> \in Dirs
    BY DEF Dirs, EmptyPath
  <2> QED
    BY <2>1 DEF ShellInit
<1> QED
  BY <1>1, <1>2 DEF ShellInv, ShellTypeOK

LEMMA NextShellInv == ShellInv /\ [ShellNext]_shellVars => ShellInv'
<1> SUFFICES ASSUME ShellInv, [ShellNext]_shellVars PROVE ShellInv'
  OBVIOUS
<1>1. ret \in Int /\ current_path \in Dirs
  BY InvGivesTable
<1>2. CASE UNCHANGED shellVars \/ Pwd \/ Overrun
  BY <1>1, <1>2, LookKeepsInv DEF shellVars, Pwd, Overrun
<1>3. CASE CdRoot \/ CdParent
  <2>1. <<>> \in Dirs /\ path_parent(current_path) \in Dirs
    BY <1>1, ParentIsDir DEF Dirs, EmptyPath
  <2> QED
    BY <1>1, <1>3, <2>1, LookKeepsInv DEF CdRoot, CdParent, vars
<1>4. ASSUME NEW arg \in CommandArgs, Command(arg) PROVE ShellInv'
  BY <1>4, OneArgKeepsInv
<1>5. ASSUME NEW src \in CommandArgs, NEW dest \in CommandArgs, Cp(src, dest) \/ Mv(src, dest)
      PROVE  ShellInv'
  BY <1>5, TwoArgsKeepInv
<1> QED
  BY <1>2, <1>3, <1>4, <1>5 DEF ShellNext

\* The table and the prompt's directory stay well formed under the commands, with
\* whatever an unwritten path array holds.
THEOREM ShellTypeCorrect == ShellSpec => []ShellTypeOK
<1>1. ShellInv => ShellTypeOK
  BY DEF ShellInv
<1> QED
  BY InitShellInv, NextShellInv, <1>1, PTL DEF ShellSpec

LEMMA OneArgNames ==
  ASSUME ShellInv, NEW arg \in CommandArgs, Command(arg)
  PROVE  NewNamesFit
<1>1. TableOK
  BY InvGivesTable
<1>2. UNCHANGED fs_table => NewNamesFit
  BY SameTable
<1>3. InvalidPath \/ Pwd \/ Ls(arg) \/ CdTo(arg) \/ Wc(arg) \/ Cat(arg) => NewNamesFit
  BY <1>2 DEF InvalidPath, Pwd, Ls, CdTo, Wc, Cat, Find, vars
<1>4. CASE Mkdir(arg) \/ Rmdir(arg)
  BY <1>1, <1>3, <1>4, MakeDirNames, RemoveDirNames DEF Mkdir, Rmdir, MakeDir, RemoveDir
<1>5. CASE Touch(arg) \/ Rm(arg)
  BY <1>1, <1>5, WriteNames, DeleteNames DEF Touch, Rm, Write, Delete
<1>6. ASSUME NEW msg \in LineTexts, WriteText(arg, msg) \/ AppendText(arg, msg)
      PROVE  NewNamesFit
  BY <1>1, <1>6, WriteNames, AppendNames DEF WriteText, AppendText, Write, AppendTo
<1> QED
  BY <1>3, <1>4, <1>5, <1>6 DEF Command

\* cp's write is tested by fs_write_file; mv's name is build_path's.
LEMMA TwoArgsNames ==
  ASSUME ShellInv, NEW src \in CommandArgs, NEW dest \in CommandArgs,
         Cp(src, dest) \/ (Mv(src, dest) /\ BuildOk(current_path, dest))
  PROVE  NewNamesFit
<1>1. TableOK
  BY InvGivesTable
<1>2. CASE Cp(src, dest)
  <2>1. PICK src_path \in Resolved(src), dest_path \in Resolved(dest) :
          Write(dest_path, fs_table[fs_find_file(src_path)].data) \/ Find(src_path)
    BY <1>2 DEF Cp
  <2> DEFINE text == fs_table[fs_find_file(src_path)].data
  <2>2. CASE fs_write_file(dest_path, text, ret')
    <3> HIDE DEF text
    <3> QED
      BY <1>1, <2>2, WriteNames
  <2> QED
    BY <2>1, <2>2, SameTable DEF Write, Find
<1>3. CASE Mv(src, dest) /\ BuildOk(current_path, dest)
  <2>1. PICK src_path \in Resolved(src), dest_path \in Resolved(dest) :
          rename(src_path, dest_path, ret')
    BY <1>3 DEF Mv, Rename
  <2>2. PathLen(dest_path) < NAME_SIZE
    BY <1>3, BuiltFits
  <2> QED
    BY <1>1, <2>1, <2>2, RenameNames
<1> QED
  BY <1>2, <1>3

\* A name that file_t.name has no room for comes from mv with a destination that
\* build_path refused, and from nothing else.
THEOREM LongNamesFromMvOnly == ShellSpec => NamesFit
<1> DEFINE Step ==
      \/ \A name \in UsedNames' \ UsedNames : PathLen(name) < NAME_SIZE
      \/ \E src, dest \in CommandArgs : Mv(src, dest) /\ ~BuildOk(current_path, dest)
<1>1. ShellInv /\ [ShellNext]_shellVars => [Step]_shellVars
  <2> SUFFICES ASSUME ShellInv, ShellNext,
                      ~\E src, dest \in CommandArgs :
                         Mv(src, dest) /\ ~BuildOk(current_path, dest)
               PROVE  NewNamesFit
    BY DEF NewNamesFit
  <2>1. CASE CdRoot \/ CdParent \/ Pwd \/ Overrun
    BY <2>1, SameTable DEF CdRoot, CdParent, Pwd, Overrun, vars, shellVars
  <2>2. ASSUME NEW arg \in CommandArgs, Command(arg) PROVE NewNamesFit
    BY <2>2, OneArgNames
  <2>3. ASSUME NEW src \in CommandArgs, NEW dest \in CommandArgs, Cp(src, dest) \/ Mv(src, dest)
        PROVE  NewNamesFit
    BY <2>3, TwoArgsNames
  <2> QED
    BY <2>1, <2>2, <2>3 DEF ShellNext
<1> QED
  BY InitShellInv, NextShellInv, <1>1, PTL DEF ShellSpec, NamesFit

\* cd leaves a directory that exists only for one that exists.
THEOREM CdNeverLeaves == ShellSpec => CdStaysInside
<1> DEFINE Step == (UNCHANGED fs_table /\ fs_dir_exists(current_path))
                     => fs_dir_exists(current_path')
<1>1. ShellInv /\ [ShellNext]_shellVars => [Step]_shellVars
  <2> SUFFICES ASSUME ShellInv, ShellNext, fs_dir_exists(current_path)
               PROVE  fs_dir_exists(current_path')
    OBVIOUS
  <2>1. CASE UNCHANGED current_path
    BY <2>1
  <2>2. CASE CdRoot
    BY <2>2 DEF CdRoot, fs_dir_exists
  <2>3. CASE CdParent
    BY <2>3, ParentExists DEF CdParent
  <2>4. ASSUME NEW arg \in CommandArgs, CdTo(arg) PROVE fs_dir_exists(current_path')
    BY <2>4 DEF CdTo
  <2>5. UNCHANGED current_path \/ CdRoot \/ CdParent \/ \E arg \in CommandArgs : CdTo(arg)
    BY Zenon DEF ShellNext, Overrun, shellVars, Command, Pwd, InvalidPath, Mkdir, Rmdir, Wc, Ls, Cat, Cp, Mv,
                 Touch, WriteText, AppendText, Rm
  <2> QED
    BY <2>1, <2>2, <2>3, <2>4, <2>5
<1> QED
  BY InitShellInv, NextShellInv, <1>1, PTL DEF ShellSpec, CdStaysInside

-----------------------------------------------------------------------------
(* Error messages                                                          *)

Errors == {"Error: Invalid path.", "Error: No space.", "Error: File not found.",
           "Error: Directory not found.", "Error: Destination exists.",
           "Error: Unable to create directory.", "Source not found."}

\* A write, an append, a removal that reports failure has changed nothing.
LEMMA FailedWrite ==
  ASSUME NEW name, NEW text, NEW r, fs_write_file(name, text, r), r < 0, r \in Int
  PROVE  UNCHANGED fs_table
<1>1. CASE r = WriteSlot(name) /\ r # -1
  <2>1. r \in Slots
    BY <1>1, PickWriteSlot, SlotSets
  <2> QED
    BY <2>1, SlotSets
<1> QED
  BY <1>1 DEF fs_write_file

LEMMA FailedAppend ==
  ASSUME TableOK, NEW name \in Paths, NEW text \in Seq(Chars), NEW r,
         fs_append_file(name, text, r), ~(r >= 0)
  PROVE  UNCHANGED fs_table
<1> DEFINE free_space == (MAX_FILE_SIZE - 1) - Len(fs_table[fs_find_file(name)].data)
           added == Clip(text, free_space)
<1>1. CASE fs_find_file(name) # -1 /\ free_space > 0 /\ r = Len(added)
  <2>1. fs_find_file(name) \in Slots
    BY <1>1, FindFile, SlotSets
  <2>2. fs_table[fs_find_file(name)].data \in Contents
    BY <2>1 DEF TableOK, file_t
  <2>3. Len(added) \in Nat
    BY <1>1, <2>2, GrowFits
  <2> QED
    BY <1>1, <2>3
<1> QED
  BY <1>1 DEF fs_append_file

LEMMA FailedMkdir ==
  ASSUME NEW path \in Paths, NEW r, fs_mkdir(path, r), r = 0
  PROVE  UNCHANGED fs_table
<1> DEFINE meta == Append(StripSlashes(path), DotDir)
<1>1. ASSUME NEW id \in Slots \cup {-1, -2}, fs_write_file(meta, <<>>, id), ~(id >= 0)
      PROVE  UNCHANGED fs_table
  <2>1. id \in Int /\ id < 0
    BY <1>1, SlotSets
  <2> QED
    BY <1>1, <2>1, FailedWrite
<1>2. CASE \E id \in Slots \cup {-1, -2} :
             fs_write_file(meta, <<>>, id) /\ r = IF id >= 0 THEN 1 ELSE 0
  BY <1>1, <1>2
<1> HIDE DEF meta
<1> QED
  BY <1>2 DEF fs_mkdir, meta

LEMMA FailedRmdir ==
  ASSUME TableOK, NEW path, NEW r, fs_rmdir(path, r), ~(r > 0)
  PROVE  UNCHANGED fs_table
<1> DEFINE base == StripSlashes(path)
           removed == IF base = <<>> THEN {}
                      ELSE {i \in UsedSlots : IsUnder(fs_table[i].name, base)}
<1>1. IsFiniteSet(Slots)
  BY FS_Interval, RamDiskAssumption DEF Slots
<1>2. removed \subseteq Slots
  BY SlotSets
<1>3. r = Cardinality(removed)
  BY DEF fs_rmdir
<1>4. fs_table' = [i \in Slots |->
        IF i \in removed THEN [fs_table[i] EXCEPT !.used = FALSE] ELSE fs_table[i]]
  BY DEF fs_rmdir
<1> HIDE DEF removed
<1>5. IsFiniteSet(removed) /\ Cardinality(removed) \in Nat
  BY <1>1, <1>2, FS_Subset, FS_CardinalityType
<1>6. removed = {}
  BY <1>3, <1>5, FS_EmptySet
<1> QED
  BY <1>4, <1>6 DEF TableOK

LEMMA OneArgError ==
  ASSUME ShellInv, NEW arg \in CommandArgs, Command(arg), reply' \in Errors
  PROVE  UNCHANGED <<fs_table, current_path>>
<1>1. /\ TableOK /\ current_path \in Seq(Components) /\ arg \in Args
  BY InvGivesTable, FileShellAssumption DEF Dirs
<1>2. build_path(arg) \in Paths
  BY <1>1, JoinedIsPath DEF build_path
<1>3. CASE InvalidPath \/ Pwd \/ Ls(arg)
  BY <1>3 DEF InvalidPath, Pwd, Ls
<1>4. CASE CdTo(arg)
  BY <1>4 DEF CdTo, vars, Errors
<1>5. CASE Mkdir(arg) /\ ~InvalidPath
  <2>1. ret' = 0
    BY <1>5 DEF Mkdir, Errors
  <2> QED
    BY <1>2, <1>5, <2>1, FailedMkdir DEF Mkdir, MakeDir
<1>6. CASE Rmdir(arg) /\ ~InvalidPath
  <2>1. ~(ret' > 0)
    BY <1>6 DEF Rmdir, Errors
  <2> QED
    BY <1>1, <1>6, <2>1, FailedRmdir DEF Rmdir, RemoveDir
<1>7. CASE Wc(arg) \/ Cat(arg)
  BY <1>7 DEF Wc, Cat, Find, InvalidPath
<1>8. CASE Touch(arg)
  <2>1. PICK path \in Resolved(arg) : Write(path, <<>>) /\ UNCHANGED current_path
    BY <1>8 DEF Touch
  <2>2. ret' = -1
    BY <1>8 DEF Touch, Errors
  <2> QED
    BY <2>1, <2>2, FailedWrite DEF Write
<1>9. CASE Rm(arg)
  <2>1. ret' = 0
    BY <1>9 DEF Rm, Errors
  <2>2. PICK path \in Resolved(arg) : fs_delete_file(path, ret') /\ UNCHANGED current_path
    BY <1>9 DEF Rm, Delete
  <2> QED
    BY <2>1, <2>2 DEF fs_delete_file
<1>10. ASSUME NEW msg \in LineTexts, WriteText(arg, msg)
       PROVE  UNCHANGED <<fs_table, current_path>>
  <2>1. PICK path \in Resolved(arg) : Write(path, msg) /\ UNCHANGED current_path
    BY <1>10 DEF WriteText
  <2>2. ret' = -1
    BY <1>10 DEF WriteText, Errors
  <2> QED
    BY <2>1, <2>2, FailedWrite DEF Write
<1>11. ASSUME NEW msg \in LineTexts, AppendText(arg, msg)
       PROVE  UNCHANGED <<fs_table, current_path>>
  <2>1. PICK path \in Resolved(arg) : AppendTo(path, msg) /\ UNCHANGED current_path
    BY <1>11 DEF AppendText
  <2>2. ~(ret' >= 0)
    BY <1>11 DEF AppendText, Errors
  <2>3. path \in Paths /\ msg \in Seq(Chars)
    BY ResolvedIsPath, FileShellAssumption DEF Contents
  <2> QED
    BY <1>1, <2>1, <2>2, <2>3, FailedAppend DEF AppendTo
<1> QED
  BY <1>3, <1>4, <1>5, <1>6, <1>7, <1>8, <1>9, <1>10, <1>11 DEF Command

LEMMA TwoArgsError ==
  ASSUME ShellInv, NEW src \in CommandArgs, NEW dest \in CommandArgs,
         Cp(src, dest) \/ Mv(src, dest), reply' \in Errors
  PROVE  UNCHANGED <<fs_table, current_path>>
<1>1. CASE Cp(src, dest)
  <2>1. PICK src_path \in Resolved(src), dest_path \in Resolved(dest) :
          /\ \/ /\ Write(dest_path, fs_table[fs_find_file(src_path)].data)
                /\ reply' = IF ret' # -1 THEN "Copied." ELSE "Error: No space."
             \/ Find(src_path)
          /\ UNCHANGED current_path
    BY <1>1 DEF Cp
  <2>2. CASE Find(src_path)
    BY <2>1, <2>2 DEF Find
  <2>3. CASE /\ Write(dest_path, fs_table[fs_find_file(src_path)].data)
             /\ reply' = IF ret' # -1 THEN "Copied." ELSE "Error: No space."
    <3>1. ret' = -1
      BY <2>3 DEF Errors
    <3> DEFINE text == fs_table[fs_find_file(src_path)].data
    <3>2. fs_write_file(dest_path, text, -1)
      BY <2>3, <3>1 DEF Write
    <3> HIDE DEF text
    <3>3. UNCHANGED fs_table
      BY <3>2, FailedWrite
    <3> QED
      BY <2>1, <3>3
  <2> QED
    BY <2>1, <2>2, <2>3
<1>2. CASE Mv(src, dest)
  <2>1. PICK src_path \in Resolved(src), dest_path \in Resolved(dest) :
          /\ Rename(src_path, dest_path)
          /\ reply' = IF fs_find_file(src_path) = -1 THEN "Source not found."
                      ELSE IF fs_find_file(dest_path) # -1 THEN "Error: Destination exists."
                      ELSE "Moved."
          /\ UNCHANGED current_path
    BY <1>2 DEF Mv
  <2>2. fs_find_file(src_path) = -1 \/ fs_find_file(dest_path) # -1
    BY <2>1 DEF Errors
  <2> QED
    BY <2>1, <2>2 DEF Rename, rename
<1> QED
  BY <1>1, <1>2

\* An error message means that the disk and the directory are as they were.
THEOREM ErrorsChangeNothing == ShellSpec => ErrorChangesNothing
<1> DEFINE Step == reply' \in Errors => UNCHANGED <<fs_table, current_path>>
<1>1. ShellInv /\ [ShellNext]_shellVars => [Step]_shellVars
  <2> SUFFICES ASSUME ShellInv, ShellNext, reply' \in Errors
               PROVE  UNCHANGED <<fs_table, current_path>>
    OBVIOUS
  <2>1. CASE CdRoot \/ CdParent \/ Pwd \/ Overrun
    BY <2>1 DEF CdRoot, CdParent, Pwd, Overrun, shellVars, Errors
  <2>2. ASSUME NEW arg \in CommandArgs, Command(arg) PROVE UNCHANGED <<fs_table, current_path>>
    BY <2>2, OneArgError
  <2>3. ASSUME NEW src \in CommandArgs, NEW dest \in CommandArgs, Cp(src, dest) \/ Mv(src, dest)
        PROVE  UNCHANGED <<fs_table, current_path>>
    BY <2>3, TwoArgsError
  <2> QED
    BY <2>1, <2>2, <2>3 DEF ShellNext
<1> QED
  BY InitShellInv, NextShellInv, <1>1, PTL DEF ShellSpec, ErrorChangesNothing, Errors

-----------------------------------------------------------------------------
(* Success messages                                                        *)

\* What build_path accepts is a name the file table takes.
LEMMA BuiltIsValid ==
  ASSUME ShellInv, NEW arg \in CommandArgs, BuildOk(current_path, arg)
  PROVE  /\ Resolved(arg) = {build_path(arg)}
         /\ build_path(arg) \in Paths /\ fs_name_valid(build_path(arg))
<1>1. current_path \in Dirs /\ current_path \in Seq(Components) /\ arg \in Args
  BY FileShellAssumption DEF ShellInv, ShellTypeOK, Dirs
<1>2. build_path(arg) \in Paths /\ build_path(arg) # EmptyPath
  BY <1>1, JoinedIsPath, JoinedIsDir DEF build_path, BuildOk, Dirs
<1>3. PathLen(build_path(arg)) > 0 /\ PathLen(build_path(arg)) < NAME_SIZE
  BY <1>2, PathLenFacts DEF BuildOk, build_path
<1> QED
  BY <1>2, <1>3 DEF Resolved, fs_name_valid

\* A write that returns a slot has stored what fits of the text.
LEMMA WriteStores ==
  ASSUME TableOK, NEW name, NEW text, NEW r,
         fs_write_file(name, text, r), fs_name_valid(name), r # -1
  PROVE  Holds(fs_table', name, Clip(text, MAX_FILE_SIZE - 1))
<1> DEFINE file == [name |-> name, data |-> Clip(text, MAX_FILE_SIZE - 1), used |-> TRUE]
<1>1. r = WriteSlot(name) /\ fs_table' = [fs_table EXCEPT ![r] = file]
  BY DEF fs_write_file
<1>2. r \in Slots
  BY <1>1, PickWriteSlot, SlotSets
<1>3. fs_table'[r] = file
  BY <1>1, <1>2 DEF TableOK
<1> QED
  BY <1>2, <1>3 DEF Holds

LEMMA ClipContents ==
  ASSUME NEW text \in Contents
  PROVE  Clip(text, MAX_FILE_SIZE - 1) = text
BY DEF Clip, Contents

\* A file removed is gone: no other slot has its name.
LEMMA DeleteRemoves ==
  ASSUME TableOK, NEW name, NEW r, fs_delete_file(name, r), r # 0
  PROVE  name \notin UsedNames'
<1> DEFINE id == fs_find_file(name)
<1>1. id # -1 /\ fs_table' = [fs_table EXCEPT ![id].used = FALSE]
  BY DEF fs_delete_file
<1>2. id \in UsedSlots /\ id \in Slots /\ fs_table[id].name = name
  BY <1>1, FoundFile
<1>3. fs_table[id] \in file_t
  BY <1>2 DEF TableOK
<1> HIDE DEF id
<1>4. fs_table'[id].used = FALSE /\ \A k \in Slots : k # id => fs_table'[k] = fs_table[k]
  BY <1>1, <1>2, <1>3 DEF TableOK, file_t
<1> SUFFICES ASSUME name \in UsedNames' PROVE FALSE
  OBVIOUS
<1>5. PICK k \in UsedSlots' : fs_table'[k].name = name
  BY DEF UsedNames
<1>6. k \in Slots /\ k # id
  BY <1>4, <1>5 DEF UsedSlots, Slots
<1>7. k \in UsedSlots /\ fs_table[k].name = name
  BY <1>4, <1>5, <1>6 DEF UsedSlots, Slots
<1> QED
  BY <1>2, <1>6, <1>7 DEF TableOK, NamesUnique

\* What is left of a path without the slashes at its end is the start of it.
LEMMA StripIsPrefix ==
  ASSUME NEW path \in Paths
  PROVE  \E n \in 0..Len(path) : StripSlashes(path) = SubSeq(path, 1, n)
<1> DEFINE kept == {n \in 0..Len(path) : \A m \in DOMAIN path : m > n => path[m] = Empty}
<1>1. Len(path) \in kept /\ kept \subseteq Nat
  BY DEF Paths
<1>2. Least(kept) \in 0..Len(path)
  BY <1>1, LeastInSet
<1> QED
  BY <1>2 DEF StripSlashes

\* What lies under a directory lies under the start of its path.
LEMMA PrefixUnder ==
  ASSUME NEW dir \in Seq(Components), NEW name \in Seq(Components), IsUnder(name, dir),
         NEW n \in 0..Len(dir)
  PROVE  IsUnder(name, SubSeq(dir, 1, n))
<1> DEFINE l == Len(dir)
           p == SubSeq(dir, 1, n)
<1>1. /\ l \in Nat /\ n \in Nat /\ n <= l /\ Len(name) \in Nat
      /\ l <= Len(name) /\ SubSeq(dir, 1, l) = SubSeq(name, 1, l) /\ dir # name
  BY DEF IsUnder, IsStrictPrefix, IsPrefix
<1>2. \A i \in 1..l : dir[i] = name[i]
  <2> SUFFICES ASSUME NEW i \in 1..l PROVE dir[i] = name[i]
    OBVIOUS
  <2>1. SubSeq(dir, 1, l)[i] = dir[i]
    OBVIOUS
  <2>2. SubSeq(name, 1, l)[i] = name[i]
    BY <1>1
  <2> QED
    BY <1>1, <2>1, <2>2
<1>3. Len(p) = n /\ p \in Seq(Components) /\ \A i \in 1..n : p[i] = dir[i]
  BY <1>1
<1>4. SubSeq(name, 1, n) \in Seq(Components) /\ Len(SubSeq(name, 1, n)) = n
      /\ \A i \in 1..n : SubSeq(name, 1, n)[i] = name[i]
  BY <1>1
<1> HIDE DEF p
<1>5. SubSeq(p, 1, n) = p
  BY <1>1, <1>3
<1>6. p = SubSeq(name, 1, n)
  BY <1>1, <1>2, <1>3, <1>4
<1>7. p # name
  <2> SUFFICES ASSUME p = name PROVE FALSE
    OBVIOUS
  <2>1. l = n /\ Len(name) = n
    BY <1>1, <1>3
  <2>2. dir = name
    BY <1>1, <1>2, <2>1
  <2> QED
    BY <1>1, <2>2
<1>8. IsUnder(name, p)
  BY <1>1, <1>3, <1>5, <1>6, <1>7 DEF IsUnder, IsStrictPrefix, IsPrefix
<1> QED
  BY <1>8 DEF p

\* A directory made is there, under its name without the slashes at its end.
LEMMA MkdirMakes ==
  ASSUME TableOK, NEW path \in Paths, NEW r, fs_mkdir(path, r), r # 0
  PROVE  \E name \in UsedNames' : IsUnder(name, StripSlashes(path))
<1> DEFINE base == StripSlashes(path)
           meta == Append(base, DotDir)
<1>1. base \in Seq(Components)
  <2>1. PICK n \in 0..Len(path) : base = SubSeq(path, 1, n)
    BY StripIsPrefix
  <2> QED
    BY <2>1 DEF Paths
<1>2. IsUnder(meta, base)
  <2> HIDE DEF base
  <2>1. Len(meta) = Len(base) + 1 /\ SubSeq(meta, 1, Len(base)) = base
        /\ SubSeq(base, 1, Len(base)) = base
    BY <1>1, PathAssumption
  <2> HIDE DEF meta
  <2>2. Len(base) <= Len(meta) /\ base # meta
    BY <1>1, <2>1
  <2> QED
    BY <2>1, <2>2 DEF IsUnder, IsStrictPrefix, IsPrefix
<1>3. meta \in UsedNames'
  <2> HIDE DEF meta
  <2>1. CASE fs_find_file(meta) # -1 /\ UNCHANGED fs_table
    <3>1. meta \in UsedNames
      BY <2>1, FoundFile
    <3> QED
      BY <2>1, <3>1, FilesKept DEF UsedNames, UsedSlots, Slots
  <2>2. ASSUME NEW id \in Slots \cup {-1, -2}, fs_write_file(meta, <<>>, id), id >= 0
        PROVE  meta \in UsedNames'
    <3>1. fs_name_valid(meta) /\ id # -1
      BY <2>2 DEF fs_write_file
    <3>2. Holds(fs_table', meta, Clip(<<>>, MAX_FILE_SIZE - 1))
      BY <2>2, <3>1, WriteStores
    <3> QED
      BY <3>2 DEF Holds, UsedNames, UsedSlots, Slots
  <2> QED
    BY <2>1, <2>2 DEF fs_mkdir, meta
<1> QED
  BY <1>2, <1>3

\* A directory removed has nothing under it any more.
LEMMA RmdirRemoves ==
  ASSUME TableOK, NEW path \in Paths, NEW r, fs_rmdir(path, r), r > 0
  PROVE  \A name \in UsedNames' : ~IsUnder(name, path)
<1> DEFINE base == StripSlashes(path)
           R == IF base = <<>> THEN {} ELSE {i \in UsedSlots : IsUnder(fs_table[i].name, base)}
<1>1. /\ r = Cardinality(R)
      /\ fs_table' = [i \in Slots |->
           IF i \in R THEN [fs_table[i] EXCEPT !.used = FALSE] ELSE fs_table[i]]
  BY DEF fs_rmdir
<1>2. base # <<>>
  <2> SUFFICES ASSUME base = <<>> PROVE FALSE
    OBVIOUS
  <2>1. R = {}
    OBVIOUS
  <2> HIDE DEF R
  <2> QED
    BY <1>1, <2>1, FS_EmptySet
<1>3. \A k \in Slots : fs_table[k] \in file_t
  BY DEF TableOK
<1>4. \A k \in Slots : (k \in R => fs_table'[k].used = FALSE) /\ (k \notin R => fs_table'[k] = fs_table[k])
  <2> HIDE DEF R
  <2> QED
    BY <1>1, <1>3 DEF file_t
<1> SUFFICES ASSUME NEW name \in UsedNames', IsUnder(name, path) PROVE FALSE
  OBVIOUS
<1>5. PICK k \in UsedSlots' : fs_table'[k].name = name
  BY DEF UsedNames
<1>6. k \in Slots /\ fs_table'[k].used
  BY DEF UsedSlots, Slots
<1>7. k \notin R /\ fs_table'[k] = fs_table[k] /\ k \in UsedSlots
  BY <1>4, <1>6 DEF UsedSlots
<1>8. fs_table[k].name = name /\ name \in Seq(Components)
  BY <1>3, <1>5, <1>6, <1>7 DEF file_t, Paths
<1>9. IsUnder(name, base)
  <2>1. PICK n \in 0..Len(path) : base = SubSeq(path, 1, n)
    BY StripIsPrefix
  <2> HIDE DEF base
  <2> QED
    BY <1>8, <2>1, PrefixUnder DEF Paths
<1> QED
  BY <1>2, <1>7, <1>8, <1>9

\* One half of SuccessIsTrue: the commands with one argument.
OneArgSucceeds(arg) ==
  LET path == build_path(arg)
  IN  /\ \A msg \in LineTexts :
           reply' = "Written." /\ WriteText(arg, msg) => Holds(fs_table', path, msg)
      /\ reply' = "File created." /\ Touch(arg) => Holds(fs_table', path, <<>>)
      /\ reply' = "File deleted." /\ Rm(arg) => path \notin UsedNames'
      /\ reply' = "Directory created." /\ Mkdir(arg) => fs_dir_exists(StripSlashes(path))'
      /\ reply' = "Directory removed." /\ Rmdir(arg) => ~fs_dir_exists(path)'

LEMMA OneArgSuccess ==
  ASSUME ShellInv, NEW arg \in CommandArgs, BuildOk(current_path, arg)
  PROVE  OneArgSucceeds(arg)
<1> DEFINE path == build_path(arg)
<1>1. TableOK
  BY InvGivesTable
<1>2. Resolved(arg) = {path} /\ path \in Paths /\ fs_name_valid(path)
  BY BuiltIsValid
<1>3. ASSUME UNCHANGED current_path PROVE path' = path
  BY <1>3 DEF build_path
<1> HIDE DEF path
<1>4. ASSUME NEW msg \in LineTexts, reply' = "Written.", WriteText(arg, msg)
      PROVE  Holds(fs_table', path, msg)
  <2>1. fs_write_file(path, msg, ret') /\ ret' # -1
    BY <1>2, <1>4 DEF WriteText, Write
  <2>2. msg \in Contents
    BY FileShellAssumption
  <2>3. Clip(msg, MAX_FILE_SIZE - 1) = msg
    BY <2>2, ClipContents
  <2> QED
    BY <1>1, <1>2, <2>1, <2>3, WriteStores
<1>5. ASSUME reply' = "File created.", Touch(arg) PROVE Holds(fs_table', path, <<>>)
  <2>1. fs_write_file(path, <<>>, ret') /\ ret' # -1
    BY <1>2, <1>5 DEF Touch, Write
  <2>2. <<>> \in Contents
    BY RamDiskAssumption DEF Contents
  <2>3. Clip(<<>>, MAX_FILE_SIZE - 1) = <<>>
    BY <2>2, ClipContents
  <2> QED
    BY <1>1, <1>2, <2>1, <2>3, WriteStores
<1>6. ASSUME reply' = "File deleted.", Rm(arg) PROVE path \notin UsedNames'
  <2>1. fs_delete_file(path, ret') /\ ret' # 0
    BY <1>2, <1>6 DEF Rm, Delete
  <2> QED
    BY <1>1, <2>1, DeleteRemoves
<1>7. ASSUME reply' = "Directory created.", Mkdir(arg)
      PROVE  fs_dir_exists(StripSlashes(path))'
  <2>1. fs_mkdir(path, ret') /\ ret' # 0 /\ UNCHANGED current_path
    BY <1>7 DEF Mkdir, MakeDir, InvalidPath, path
  <2>2. \E name \in UsedNames' : IsUnder(name, StripSlashes(path))
    BY <1>1, <1>2, <2>1, MkdirMakes
  <2>3. path' = path
    BY <1>3, <2>1
  <2> QED
    BY <2>2, <2>3 DEF fs_dir_exists
<1>8. ASSUME reply' = "Directory removed.", Rmdir(arg) PROVE ~fs_dir_exists(path)'
  <2>1. fs_rmdir(path, ret') /\ ret' > 0 /\ UNCHANGED current_path
    BY <1>8 DEF Rmdir, RemoveDir, InvalidPath, path
  <2>2. \A name \in UsedNames' : ~IsUnder(name, path)
    BY <1>1, <1>2, <2>1, RmdirRemoves
  <2>3. path' = path /\ path # <<>>
    BY <1>2, <1>3, <2>1 DEF Paths
  <2> QED
    BY <2>2, <2>3 DEF fs_dir_exists
<1> QED
  BY <1>4, <1>5, <1>6, <1>7, <1>8 DEF OneArgSucceeds, path

TwoArgsSucceed(src, dest) ==
  LET from == build_path(src)
      to == build_path(dest)
  IN  /\ reply' = "Copied." /\ Cp(src, dest) => Carried(from, to)
      /\ reply' = "Moved." /\ Mv(src, dest) => Carried(from, to) /\ from \notin UsedNames'

LEMMA TwoArgsSuccess ==
  ASSUME ShellInv, NEW src \in CommandArgs, NEW dest \in CommandArgs,
         BuildOk(current_path, src), BuildOk(current_path, dest)
  PROVE  TwoArgsSucceed(src, dest)
<1> DEFINE from == build_path(src)
           to == build_path(dest)
           sid == fs_find_file(from)
<1>1. TableOK
  BY InvGivesTable
<1>2. /\ Resolved(src) = {from} /\ from \in Paths
      /\ Resolved(dest) = {to} /\ to \in Paths /\ fs_name_valid(to)
  BY BuiltIsValid
<1> HIDE DEF from, to
<1>3. sid # -1 => /\ sid \in Matches(from) /\ sid \in UsedSlots /\ sid \in Slots
                  /\ fs_table[sid].name = from /\ fs_table[sid] \in file_t
  <2> SUFFICES ASSUME sid # -1
               PROVE  /\ sid \in Matches(from) /\ sid \in UsedSlots /\ sid \in Slots
                      /\ fs_table[sid].name = from /\ fs_table[sid] \in file_t
    OBVIOUS
  <2>1. sid \in UsedSlots /\ sid \in Slots /\ fs_table[sid].name = from
    BY <1>1, FoundFile
  <2> QED
    BY <1>1, <2>1 DEF Matches, TableOK
<1>4. ASSUME reply' = "Copied.", Cp(src, dest) PROVE Carried(from, to)
  <2>1. sid # -1 /\ fs_write_file(to, fs_table[sid].data, ret') /\ ret' # -1
    BY <1>2, <1>4 DEF Cp, Write
  <2>2. fs_table[sid].data \in Contents
    BY <1>3, <2>1 DEF file_t
  <2>3. Clip(fs_table[sid].data, MAX_FILE_SIZE - 1) = fs_table[sid].data
    BY <2>2, ClipContents
  <2>4. Holds(fs_table', to, fs_table[sid].data)
    BY <1>1, <1>2, <2>1, <2>3, WriteStores
  <2> QED
    BY <1>3, <2>1, <2>4 DEF Carried
<1>5. ASSUME reply' = "Moved.", Mv(src, dest)
      PROVE  Carried(from, to) /\ from \notin UsedNames'
  <2>1. sid # -1 /\ fs_find_file(to) = -1 /\ rename(from, to, ret')
    BY <1>2, <1>5 DEF Mv, Rename
  <2>2. fs_table' = [fs_table EXCEPT ![sid].name = to]
    BY <2>1 DEF rename
  <2> HIDE DEF sid
  <2>3. /\ fs_table'[sid].name = to /\ fs_table'[sid].data = fs_table[sid].data
        /\ fs_table'[sid].used = fs_table[sid].used
        /\ \A k \in Slots : k # sid => fs_table'[k] = fs_table[k]
    BY <1>1, <1>3, <2>1, <2>2 DEF TableOK, file_t
  <2>4. Holds(fs_table', to, fs_table[sid].data)
    BY <1>3, <2>1, <2>3 DEF Holds, UsedSlots
  <2>5. Carried(from, to)
    BY <1>3, <2>1, <2>4 DEF Carried
  <2>6. to # from
    <3>1. Matches(to) = {}
      BY <2>1, FindFile, SlotSets
    <3> QED
      BY <1>3, <2>1, <3>1
  <2>7. ASSUME from \in UsedNames' PROVE FALSE
    <3>1. PICK k \in UsedSlots' : fs_table'[k].name = from
      BY <2>7 DEF UsedNames
    <3>2. k \in Slots /\ k # sid
      BY <2>3, <2>6, <3>1 DEF UsedSlots, Slots
    <3>3. k \in UsedSlots /\ fs_table[k].name = from
      BY <2>3, <3>1, <3>2 DEF UsedSlots, Slots
    <3> QED
      BY <1>1, <1>3, <2>1, <3>2, <3>3 DEF TableOK, NamesUnique
  <2> QED
    BY <2>5, <2>7
<1> QED
  BY <1>4, <1>5 DEF TwoArgsSucceed, from, to

\* When build_path accepted the arguments, a success message is true: the text
\* is stored, the copy equals the original, the moved file has left its old name,
\* the directory is there, the file or directory removed is gone.
THEOREM SuccessesAreTrue == ShellSpec => SuccessIsTrue
<1> DEFINE Step ==
      /\ \A arg \in CommandArgs : BuildOk(current_path, arg) => OneArgSucceeds(arg)
      /\ \A src, dest \in CommandArgs :
           BuildOk(current_path, src) /\ BuildOk(current_path, dest) => TwoArgsSucceed(src, dest)
<1>1. ShellInv /\ [ShellNext]_shellVars => [Step]_shellVars
  BY OneArgSuccess, TwoArgsSuccess
<1> QED
  BY InitShellInv, NextShellInv, <1>1, PTL
    DEF ShellSpec, SuccessIsTrue, OneArgSucceeds, TwoArgsSucceed

-----------------------------------------------------------------------------
(* ls and the table                                                        *)

\* The entry of a name below a directory, put behind the directory, starts the name.
LEMMA EntryStartsName ==
  ASSUME NEW dir \in Seq(Components), NEW name \in Seq(Components), IsUnder(name, dir)
  PROVE  LET path == Append(dir, name[Len(dir) + 1])
         IN  /\ Len(name) >= Len(dir) + 1
             /\ IsPrefix(path, name)
             /\ Len(name) = Len(dir) + 1 => path = name
             /\ Len(name) > Len(dir) + 1 => IsUnder(name, path)
<1> DEFINE l == Len(dir)
           path == Append(dir, name[l + 1])
<1>1. /\ l \in Nat /\ Len(name) \in Nat
      /\ l <= Len(name) /\ SubSeq(dir, 1, l) = SubSeq(name, 1, l) /\ dir # name
  BY DEF IsUnder, IsStrictPrefix, IsPrefix
<1>2. \A i \in 1..l : dir[i] = name[i]
  <2> SUFFICES ASSUME NEW i \in 1..l PROVE dir[i] = name[i]
    OBVIOUS
  <2>1. SubSeq(dir, 1, l)[i] = dir[i]
    OBVIOUS
  <2>2. SubSeq(name, 1, l)[i] = name[i]
    BY <1>1
  <2> QED
    BY <1>1, <2>1, <2>2
<1>3. Len(name) >= l + 1
  <2> SUFFICES ASSUME Len(name) = l PROVE FALSE
    BY <1>1
  <2>1. dir = name
    BY <1>1, <1>2
  <2> QED
    BY <1>1, <2>1
<1>4. name[l + 1] \in Components
  BY <1>1, <1>3
<1>5. Len(path) = l + 1 /\ path \in Seq(Components) /\ \A i \in 1..(l + 1) : path[i] = name[i]
  BY <1>1, <1>2, <1>4
<1> HIDE DEF path
<1>6. SubSeq(name, 1, l + 1) \in Seq(Components) /\ Len(SubSeq(name, 1, l + 1)) = l + 1
      /\ \A i \in 1..(l + 1) : SubSeq(name, 1, l + 1)[i] = name[i]
  BY <1>1, <1>3
<1>7. SubSeq(path, 1, l + 1) = path
  BY <1>1, <1>5
<1>8. path = SubSeq(name, 1, l + 1)
  BY <1>1, <1>5, <1>6
<1>9. IsPrefix(path, name)
  BY <1>1, <1>3, <1>5, <1>7, <1>8 DEF IsPrefix
<1>10. Len(name) = l + 1 => path = name
  BY <1>1, <1>5
<1>11. Len(name) > l + 1 => path # name
  BY <1>1, <1>5
<1> QED
  BY <1>3, <1>9, <1>10, <1>11 DEF path, IsUnder, IsStrictPrefix

LEMMA ListingIsRight ==
  ASSUME TableOK, NEW dir \in Seq(Components)
  PROVE  /\ \A k \in Shown(dir) :
              LET path == Append(dir, Entry(k, dir))
              IN  IF IsDirEntry(k, dir) THEN fs_dir_exists(path) ELSE path \in UsedNames
         /\ \A name \in UsedNames : IsUnder(name, dir) /\ name # Append(dir, Empty) =>
              \E k \in Shown(dir) : IsPrefix(Append(dir, Entry(k, dir)), name)
<1>1. \A i \in UsedSlots : fs_table[i].name \in Paths /\ fs_table[i].name \in Seq(Components)
                           /\ fs_table[i].name \in UsedNames /\ i \in Slots
  BY DEF UsedSlots, UsedNames, TableOK, file_t, Paths
<1>2. \A i \in Listable(dir) : i \in UsedSlots /\ IsUnder(fs_table[i].name, dir)
  <2> SUFFICES ASSUME NEW i \in Listable(dir), dir = <<>> PROVE IsUnder(fs_table[i].name, dir)
    BY DEF Listable
  <2>1. i \in UsedSlots
    BY DEF Listable
  <2> DEFINE name == fs_table[i].name
  <2>2. name \in Seq(Components) /\ name # <<>>
    BY <1>1, <2>1 DEF Paths
  <2> HIDE DEF name
  <2>3. Len(dir) = 0 /\ SubSeq(dir, 1, 0) = <<>> /\ SubSeq(name, 1, 0) = <<>>
    BY <2>2
  <2>4. IsUnder(name, dir)
    BY <2>2, <2>3 DEF IsUnder, IsStrictPrefix, IsPrefix
  <2> QED
    BY <2>4 DEF name
<1>3. ASSUME NEW k \in Shown(dir)
      PROVE  IF IsDirEntry(k, dir) THEN fs_dir_exists(Append(dir, Entry(k, dir)))
             ELSE Append(dir, Entry(k, dir)) \in UsedNames
  <2> DEFINE name == fs_table[k].name
             path == Append(dir, name[Len(dir) + 1])
  <2>1. name \in UsedNames /\ name \in Seq(Components) /\ IsUnder(name, dir)
    BY <1>1, <1>2 DEF Shown
  <2> HIDE DEF name
  <2>2. /\ Len(name) >= Len(dir) + 1
        /\ Len(name) = Len(dir) + 1 => path = name
        /\ Len(name) > Len(dir) + 1 => IsUnder(name, path)
    BY <2>1, EntryStartsName
  <2> HIDE DEF path
  <2>3. CASE Len(name) > Len(dir) + 1
    BY <2>1, <2>2, <2>3 DEF fs_dir_exists, IsDirEntry, Entry, name, path
  <2>4. CASE ~(Len(name) > Len(dir) + 1)
    <3>1. path = name
      BY <2>1, <2>2, <2>4
    <3> QED
      BY <2>1, <2>4, <3>1 DEF IsDirEntry, Entry, name, path
  <2> QED
    BY <2>3, <2>4
<1>4. ASSUME NEW name \in UsedNames, IsUnder(name, dir), name # Append(dir, Empty)
      PROVE  \E k \in Shown(dir) : IsPrefix(Append(dir, Entry(k, dir)), name)
  <2>1. PICK i \in UsedSlots : fs_table[i].name = name
    BY DEF UsedNames
  <2>2. i \in Listable(dir)
    BY <1>4, <2>1 DEF Listable
  <2> DEFINE same == {j \in Listable(dir) : Entry(j, dir) = Entry(i, dir)}
             k == Least(same)
  <2>3. i \in same /\ same \subseteq Nat
    BY <1>1, <1>2, <2>2, SlotSets
  <2>4. k \in same /\ \A j \in same : k <= j
    <3> HIDE DEF same
    <3> QED
      BY <2>3, LeastInSet
  <2>5. k \in Nat
    BY <2>3, <2>4
  <2> HIDE DEF k
  <2>6. k \in Listable(dir) /\ Entry(k, dir) = Entry(i, dir)
    BY <2>4
  <2>7. ASSUME NEW j \in Listable(dir), j < k PROVE Entry(j, dir) # Entry(k, dir)
    <3>1. j \in Nat
      BY <1>1, <1>2, SlotSets
    <3>2. ~(k <= j)
      BY <2>5, <2>7, <3>1
    <3> QED
      BY <2>4, <2>6, <3>2
  <2>8. k \in Shown(dir)
    BY <2>6, <2>7 DEF Shown
  <2>9. name \in Seq(Components)
    BY <1>1, <2>1
  <2>10. IsPrefix(Append(dir, name[Len(dir) + 1]), name)
    BY <1>4, <2>9, EntryStartsName
  <2> QED
    BY <2>1, <2>6, <2>8, <2>10 DEF Entry
<1> QED
  BY <1>3, <1>4

\* ls shows what is there and cd and cat find what it shows, in the current
\* directory and in the root, after any commands.
THEOREM ListingsMatchDisk == ShellSpec => []ListingMatchesDisk
<1>1. ShellInv => ListingMatchesDisk
  <2> SUFFICES ASSUME ShellInv PROVE ListingMatchesDisk
    OBVIOUS
  <2>1. TableOK /\ current_path \in Seq(Components) /\ <<>> \in Seq(Components)
    BY InvGivesTable DEF Dirs
  <2> QED
    BY <2>1, ListingIsRight DEF ListingMatchesDisk
<1> QED
  BY InitShellInv, NextShellInv, <1>1, PTL DEF ShellSpec
-----------------------------------------------------------------------------
(* TrEdit                                                                  *)

\* The bytes before ptr are what was typed: no terminator among them, so that
\* what is saved is a text, and none from before the session.
BufferIsTyped ==
  /\ Len(typed) = ptr
  /\ \A i \in Cells : i < ptr => edit_buffer[i] \in Chars /\ edit_buffer[i] = typed[i + 1]

EditInv == EditTypeOK /\ NamesUnique /\ BufferIsTyped

\* strlen finds the first terminator.
LEMMA StrlenIs ==
  ASSUME NEW buffer, NEW n \in Cells,
         buffer[n] = NUL, \A i \in Cells : i < n => buffer[i] # NUL
  PROVE  strlen(buffer) = n
<1> DEFINE ends == {i \in Cells : buffer[i] = NUL}
<1>1. Cells \subseteq Nat
  BY RamDiskAssumption DEF Cells
<1>2. n \in ends /\ ends \subseteq Nat
  BY <1>1
<1>3. Least(ends) \in ends /\ \A j \in ends : Least(ends) <= j
  BY <1>2, LeastInSet
<1>4. ~(Least(ends) < n)
  BY <1>3
<1>5. Least(ends) = n
  BY <1>1, <1>2, <1>3, <1>4
<1> QED
  BY <1>5 DEF strlen

\* What strcpy copied is found again: the text is in front of the terminator,
\* whatever the session before has left behind it.
LEMMA CopiedText ==
  ASSUME NEW data \in Contents
  PROVE  /\ Len(data) \in Cells /\ strlen(Copied(data)) = Len(data)
         /\ \A i \in Cells : i < Len(data) => Copied(data)[i] = data[i + 1] /\ data[i + 1] \in Chars
<1> DEFINE n == Len(data)
<1>1. n \in Nat /\ n \in Cells /\ Cells \subseteq Nat
  BY RamDiskAssumption DEF Contents, Cells
<1>2. Copied(data) = [i \in Cells |-> IF i < n THEN data[i + 1]
                                      ELSE IF i = n THEN NUL ELSE edit_buffer[i]]
  BY DEF Copied
<1>3. Copied(data)[n] = NUL
  BY <1>1, <1>2
<1>4. ASSUME NEW i \in Cells, i < n PROVE Copied(data)[i] = data[i + 1] /\ data[i + 1] \in Chars
  <2>1. i + 1 \in 1..n
    BY <1>1, <1>4
  <2>2. data[i + 1] \in Chars
    BY <2>1 DEF Contents
  <2> QED
    BY <1>2, <1>4, <2>2
<1>5. strlen(Copied(data)) = n
  BY <1>1, <1>3, <1>4, StrlenIs, TrEditAssumption
<1> QED
  BY <1>1, <1>4, <1>5

LEMMA NoneCopied ==
  LET zeros == [i \in Cells |-> NUL] IN strlen(zeros) = 0
<1>1. 0 \in Cells /\ Cells \subseteq Nat
  BY RamDiskAssumption DEF Cells
<1> DEFINE zeros == [i \in Cells |-> NUL]
<1>2. zeros[0] = NUL /\ \A i \in Cells : i < 0 => zeros[i] # NUL
  BY <1>1
<1> HIDE DEF zeros
<1>3. strlen(zeros) = 0
  BY <1>1, <1>2, StrlenIs
<1> QED
  BY <1>3 DEF zeros

\* The file that is opened, or its absence.
LEMMA OpenedFile ==
  ASSUME EditInv, NEW name, Open(name)
  PROVE  /\ ret' \in Int /\ UNCHANGED fs_table
         /\ \/ /\ Matches(name) = {}
               /\ edit_buffer' = [i \in Cells |-> NUL] /\ ptr' = 0 /\ typed' = <<>>
            \/ /\ Matches(name) # {}
               /\ fs_find_file(name) \in Slots
               /\ fs_table[fs_find_file(name)].data \in Contents
               /\ edit_buffer' = Copied(fs_table[fs_find_file(name)].data)
               /\ ptr' = Len(fs_table[fs_find_file(name)].data)
               /\ typed' = fs_table[fs_find_file(name)].data
<1> DEFINE id == fs_find_file(name)
<1>1. ret' = id /\ UNCHANGED fs_table /\ id \in Int
  BY FindReturnsInt DEF Open, Find
<1>2. CASE Matches(name) = {}
  <2>1. id = -1
    BY <1>2, FindFile
  <2>2. edit_buffer' = [i \in Cells |-> NUL] /\ ptr' = strlen(edit_buffer') /\ typed' = <<>>
    BY <1>1, <1>2, <2>1 DEF Open, FileText
  <2> QED
    BY <1>1, <1>2, <2>2, NoneCopied
<1>3. CASE Matches(name) # {}
  <2>1. id \in Slots /\ id # -1
    BY <1>3, FindFile, SlotSets
  <2>2. fs_table[id].data \in Contents
    BY <2>1 DEF EditInv, EditTypeOK, TypeOK, file_t
  <2>3. /\ edit_buffer' = Copied(fs_table[id].data) /\ ptr' = strlen(edit_buffer')
        /\ typed' = fs_table[id].data
    BY <1>1, <1>3, <2>1 DEF Open, FileText
  <2> HIDE DEF id
  <2>4. ptr' = Len(fs_table[id].data)
    BY <2>2, <2>3, CopiedText
  <2> QED
    BY <1>1, <1>3, <2>1, <2>2, <2>3, <2>4 DEF id
<1> QED
  BY <1>2, <1>3

LEMMA EditInvFromTable ==
  ASSUME EditInv, TableOK', ret' \in Int, UNCHANGED <<run, filename, edit_buffer, ptr, typed>>
  PROVE  EditInv'
BY DEF EditInv, EditTypeOK, BufferIsTyped, TableOK, TypeOK, Cells

LEMMA EditInvFromBuffer ==
  ASSUME EditInv, UNCHANGED fs_table, ret' \in Int,
         run' \in BOOLEAN, filename' \in Names \cup {SystemFile},
         edit_buffer' \in [Cells -> Chars \cup {NUL}], ptr' \in 0..PTR_BOUND,
         typed' \in Seq(Chars), Len(typed') = ptr',
         \A i \in Cells : i < ptr' => edit_buffer'[i] \in Chars /\ edit_buffer'[i] = typed'[i + 1]
  PROVE  EditInv'
<1>1. TypeOK' /\ NamesUnique'
  BY DEF EditInv, EditTypeOK, TypeOK, NamesUnique, UsedSlots
<1> QED
  BY <1>1 DEF EditInv, EditTypeOK, BufferIsTyped, Cells

LEMMA TextIsText ==
  ASSUME EditInv
  PROVE  Text \in Seq(Chars)
<1>1. ptr \in Nat /\ MAX_FILE_SIZE \in Nat \ {0}
  BY RamDiskAssumption DEF EditInv, EditTypeOK
<1> DEFINE n == IF ptr < MAX_FILE_SIZE THEN ptr ELSE MAX_FILE_SIZE
<1>2. n \in Nat /\ n <= ptr /\ n <= MAX_FILE_SIZE
  BY <1>1
<1>3. Text = [i \in 1..n |-> edit_buffer[i - 1]]
  BY DEF Text
<1> HIDE DEF n
<1>4. ASSUME NEW i \in 1..n PROVE edit_buffer[i - 1] \in Chars
  <2>1. i - 1 \in Cells /\ i - 1 < ptr
    BY <1>1, <1>2 DEF Cells
  <2> QED
    BY <2>1 DEF EditInv, BufferIsTyped
<1> QED
  BY <1>2, <1>3, <1>4

LEMMA InitEditInv == EditInit => EditInv
<1> SUFFICES ASSUME EditInit PROVE EditInv
  OBVIOUS
<1>1. TypeOK /\ NamesUnique
  BY InitIInv DEF EditInit, IInv
<1>2. \A i \in Cells : ~(i < 0)
  BY RamDiskAssumption DEF Cells
<1>3. /\ run = FALSE /\ filename = SystemFile /\ ptr = 0
      /\ edit_buffer = [i \in Cells |-> NUL] /\ typed = <<>>
  BY DEF EditInit
<1>4. edit_buffer \in [Cells -> Chars \cup {NUL}] /\ ptr \in 0..PTR_BOUND
  BY <1>3, TrEditAssumption
<1>5. typed \in Seq(Chars) /\ Len(typed) = ptr
  BY <1>3
<1> QED
  BY <1>1, <1>2, <1>3, <1>4, <1>5 DEF EditInv, EditTypeOK, BufferIsTyped

LEMMA NextEditInv == EditInv /\ [EditNext]_editVars => EditInv'
<1> SUFFICES ASSUME EditInv, [EditNext]_editVars PROVE EditInv'
  OBVIOUS
<1>1. /\ TableOK /\ ret \in Int /\ run \in BOOLEAN /\ filename \in Names \cup {SystemFile}
      /\ edit_buffer \in [Cells -> Chars \cup {NUL}] /\ ptr \in 0..PTR_BOUND
      /\ typed \in Seq(Chars) /\ Len(typed) = ptr
      /\ \A i \in Cells : i < ptr => edit_buffer[i] \in Chars /\ edit_buffer[i] = typed[i + 1]
  BY DEF EditInv, EditTypeOK, BufferIsTyped, TypeOK, TableOK
<1>2. /\ Names \subseteq Paths /\ SystemFile \in Paths /\ MAX_FILE_SIZE \in Nat \ {0}
      /\ PTR_BOUND \in Nat /\ PTR_BOUND >= MAX_FILE_SIZE /\ Texts \subseteq Seq(Chars)
      /\ Cells \subseteq Nat /\ NUL \notin Chars
  BY RamDiskAssumption, TrEditAssumption DEF Cells
<1>3. CASE UNCHANGED editVars
  BY <1>1, <1>3, EditInvFromTable DEF editVars, TableOK, NamesUnique, UsedSlots
<1>4. ASSUME NEW name \in Names, Open(name) PROVE EditInv'
  <2>1. run' \in BOOLEAN /\ filename' \in Names \cup {SystemFile} /\ ret' \in Int /\ UNCHANGED fs_table
    BY <1>4, OpenedFile DEF Open
  <2>2. CASE edit_buffer' = [i \in Cells |-> NUL] /\ ptr' = 0 /\ typed' = <<>>
    <3>1. \A i \in Cells : ~(i < 0)
      BY <1>2
    <3>2. typed' \in Seq(Chars) /\ Len(typed') = ptr'
      BY <2>2
    <3> QED
      BY <1>2, <2>1, <2>2, <3>1, <3>2, EditInvFromBuffer
  <2>3. ASSUME NEW data \in Contents, edit_buffer' = Copied(data), ptr' = Len(data), typed' = data
        PROVE  EditInv'
    <3>0. typed' \in Seq(Chars) /\ Len(typed') = ptr'
      BY <2>3 DEF Contents
    <3>1. ptr' \in 0..PTR_BOUND
      BY <1>2, <2>3, CopiedText DEF Cells
    <3>2. \A i \in Cells : i < ptr' => edit_buffer'[i] \in Chars /\ edit_buffer'[i] = typed'[i + 1]
      BY <2>3, CopiedText
    <3>3. edit_buffer' \in [Cells -> Chars \cup {NUL}]
      <4>1. edit_buffer' = [i \in Cells |-> IF i < Len(data) THEN data[i + 1]
                                            ELSE IF i = Len(data) THEN NUL ELSE edit_buffer[i]]
        BY <2>3 DEF Copied
      <4>2. \A i \in Cells : i < Len(data) => data[i + 1] \in Chars
        BY CopiedText
      <4> QED
        BY <1>1, <4>1, <4>2
    <3> QED
      BY <2>1, <3>0, <3>1, <3>2, <3>3, EditInvFromBuffer
  <2> QED
    BY <1>4, <2>2, <2>3, OpenedFile
<1>5. ASSUME NEW ch, Insert(ch) PROVE EditInv'
  <2>1. /\ ch \in Chars /\ ptr < PTR_BOUND /\ ptr' = ptr + 1
        /\ edit_buffer' = [i \in Cells |-> IF i = ptr THEN ch ELSE edit_buffer[i]]
        /\ typed' = Append(typed, ch)
        /\ UNCHANGED <<fs_table, ret, run, filename>>
    BY <1>5 DEF Insert
  <2>2. ptr' \in 0..PTR_BOUND /\ edit_buffer' \in [Cells -> Chars \cup {NUL}]
    BY <1>1, <1>2, <2>1
  <2>3. /\ typed' \in Seq(Chars) /\ Len(typed') = ptr' /\ typed'[ptr + 1] = ch
        /\ \A i \in 1..ptr : typed'[i] = typed[i]
    BY <1>1, <2>1
  <2>4. ASSUME NEW i \in Cells, i < ptr'
        PROVE  edit_buffer'[i] \in Chars /\ edit_buffer'[i] = typed'[i + 1]
    <3>1. i \in Nat /\ ptr \in Nat /\ (i = ptr \/ i < ptr)
      BY <1>1, <1>2, <2>1, <2>4
    <3>2. CASE i = ptr
      BY <2>1, <2>3, <3>2
    <3>3. CASE i < ptr
      <4>1. i + 1 \in 1..ptr /\ edit_buffer'[i] = edit_buffer[i]
        BY <2>1, <3>1, <3>3
      <4> QED
        BY <1>1, <2>3, <3>3, <4>1
    <3> QED
      BY <3>1, <3>2, <3>3
  <2> QED
    BY <1>1, <2>1, <2>2, <2>3, <2>4, EditInvFromBuffer
<1>6. CASE Erase
  <2>1. /\ ptr > 0 /\ ptr' = ptr - 1
        /\ edit_buffer' = [i \in Cells |-> IF i = ptr - 1 THEN NUL ELSE edit_buffer[i]]
        /\ typed' = SubSeq(typed, 1, Len(typed) - 1)
        /\ UNCHANGED <<fs_table, ret, run, filename>>
    BY <1>6 DEF Erase
  <2>2. ptr' \in 0..PTR_BOUND /\ edit_buffer' \in [Cells -> Chars \cup {NUL}]
    BY <1>1, <1>2, <2>1
  <2>3. /\ typed' \in Seq(Chars) /\ Len(typed') = ptr'
        /\ \A i \in 1..ptr' : typed'[i] = typed[i]
    BY <1>1, <2>1
  <2>4. ASSUME NEW i \in Cells, i < ptr'
        PROVE  edit_buffer'[i] \in Chars /\ edit_buffer'[i] = typed'[i + 1]
    <3>1. i \in Nat /\ i < ptr /\ i # ptr - 1 /\ i + 1 \in 1..ptr'
      BY <1>1, <1>2, <2>1, <2>4
    <3>2. edit_buffer'[i] = edit_buffer[i]
      BY <2>1, <3>1
    <3> QED
      BY <1>1, <2>3, <3>1, <3>2
  <2> QED
    BY <1>1, <2>1, <2>2, <2>3, <2>4, EditInvFromBuffer
<1>7. CASE Save
  <2>1. fs_write_file(filename, Text, ret') /\ UNCHANGED <<run, filename, edit_buffer, ptr, typed>>
    BY <1>7 DEF Save, Write
  <2>2. Text \in Seq(Chars) /\ filename \in Paths
    BY <1>1, <1>2, TextIsText
  <2>3. TableOK' /\ ret' \in Int
    BY <1>1, <2>1, <2>2, WriteKeepsTable
  <2> QED
    BY <2>1, <2>3, EditInvFromTable
<1>8. CASE Exit
  BY <1>1, <1>8, EditInvFromBuffer DEF Exit
<1>9. CASE ShellStep
  <2>1. UNCHANGED <<run, filename, edit_buffer, ptr, typed>>
    BY <1>9 DEF ShellStep
  <2>2. TableOK' /\ ret' \in Int
    <3>1. PICK name \in Names : Delete(name) \/ \E text \in Texts : Write(name, text)
      BY <1>9 DEF ShellStep
    <3>2. CASE Delete(name)
      BY <1>1, <3>2, DeleteKeepsTable DEF Delete
    <3>3. ASSUME NEW text \in Texts, Write(name, text) PROVE TableOK' /\ ret' \in Int
      BY <1>1, <1>2, <3>3, WriteKeepsTable DEF Write
    <3> QED
      BY <3>1, <3>2, <3>3
  <2> QED
    BY <2>1, <2>2, EditInvFromTable
<1> QED
  BY <1>3, <1>4, <1>5, <1>6, <1>7, <1>8, <1>9 DEF EditNext, Key

\* Text, ptr and edit_buffer keep their types: ptr ends where the bound of the
\* model does, and every byte of the array is a character or the terminator.
THEOREM EditTypeCorrect == EditSpec => []EditTypeOK
<1>1. EditInv => EditTypeOK
  BY DEF EditInv
<1> QED
  BY InitEditInv, NextEditInv, <1>1, PTL DEF EditSpec

\* A session starts with the bytes of its file and no others, whatever sessions
\* and deletions came before it.
THEOREM OpeningsShowFiles == EditSpec => OpenShowsFile
<1> DEFINE Shows ==
      (~run /\ run') =>
        (Text' = IF Matches(filename') = {} THEN <<>>
                 ELSE fs_table[fs_find_file(filename')].data)
<1>1. ASSUME EditInv, [EditNext]_editVars PROVE [Shows]_editVars
  <2> SUFFICES ASSUME ~run, run', EditNext
               PROVE  Text' = IF Matches(filename') = {} THEN <<>>
                              ELSE fs_table[fs_find_file(filename')].data
    BY <1>1
  <2>1. PICK name \in Names : Open(name)
    BY DEF EditNext, Key, Insert, Erase, Save, Exit, ShellStep
  <2>2. filename' = name /\ MAX_FILE_SIZE \in Nat \ {0}
    BY <2>1, RamDiskAssumption DEF Open
  <2>3. Text' = [i \in 1..(IF ptr' < MAX_FILE_SIZE THEN ptr' ELSE MAX_FILE_SIZE) |-> edit_buffer'[i - 1]]
    BY DEF Text
  <2>4. CASE Matches(name) = {} /\ ptr' = 0
    <3>1. Text' = [i \in 1..0 |-> edit_buffer'[i - 1]]
      BY <2>2, <2>3, <2>4
    <3>2. Text' = <<>>
      BY <3>1
    <3> QED
      BY <2>2, <2>4, <3>2
  <2>5. ASSUME NEW data \in Contents, edit_buffer' = Copied(data), ptr' = Len(data)
        PROVE  Text' = data
    <3>1. /\ Len(data) \in Cells /\ Len(data) \in Nat /\ Len(data) < MAX_FILE_SIZE
          /\ data \in Seq(Chars)
      BY <2>2, CopiedText DEF Contents, Cells
    <3>2. Text' = [i \in 1..Len(data) |-> edit_buffer'[i - 1]]
      BY <2>3, <2>5, <3>1
    <3>3. ASSUME NEW i \in 1..Len(data) PROVE edit_buffer'[i - 1] = data[i]
      <4>1. i - 1 \in Cells /\ i - 1 < Len(data) /\ (i - 1) + 1 = i
        BY <2>2, <3>1 DEF Cells
      <4>2. Copied(data)[i - 1] = data[(i - 1) + 1]
        BY <4>1, CopiedText
      <4> QED
        BY <2>5, <4>1, <4>2
    <3> QED
      BY <3>1, <3>2, <3>3
  <2> QED
    BY <1>1, <2>1, <2>2, <2>4, <2>5, OpenedFile
<1> QED
  BY InitEditInv, NextEditInv, <1>1, PTL DEF EditSpec, OpenShowsFile

\* The bytes that lie in edit_buffer are as many of the typed ones as it holds.
LEMMA TextIsTyped ==
  ASSUME EditInv
  PROVE  /\ Text \in Seq(Chars) /\ Len(Text) \in Nat /\ Len(typed) \in Nat
         /\ Len(Text) = IF Len(typed) < MAX_FILE_SIZE THEN Len(typed) ELSE MAX_FILE_SIZE
         /\ \A k \in 1..Len(Text) : Text[k] = typed[k]
<1>1. /\ ptr \in Nat /\ MAX_FILE_SIZE \in Nat \ {0} /\ Len(typed) = ptr
      /\ \A i \in Cells : i < ptr => edit_buffer[i] = typed[i + 1]
  BY RamDiskAssumption DEF EditInv, EditTypeOK, BufferIsTyped
<1> DEFINE n == IF ptr < MAX_FILE_SIZE THEN ptr ELSE MAX_FILE_SIZE
<1>2. n \in Nat /\ n <= ptr /\ n <= MAX_FILE_SIZE
  BY <1>1
<1>3. Text = [i \in 1..n |-> edit_buffer[i - 1]]
  BY DEF Text
<1>4. n = IF Len(typed) < MAX_FILE_SIZE THEN Len(typed) ELSE MAX_FILE_SIZE
  BY <1>1
<1> HIDE DEF n
<1>5. Text \in Seq(Chars)
  BY TextIsText
<1>6. Len(Text) = n
  BY <1>2, <1>3
<1>7. ASSUME NEW k \in 1..n PROVE Text[k] = typed[k]
  <2>1. k - 1 \in Cells /\ k - 1 < ptr /\ (k - 1) + 1 = k
    BY <1>1, <1>2 DEF Cells
  <2>2. edit_buffer[k - 1] = typed[k]
    BY <1>1, <2>1
  <2> QED
    BY <1>3, <2>2
<1> QED
  BY <1>1, <1>2, <1>4, <1>5, <1>6, <1>7

\* What fs_write_file keeps of them.
LEMMA ClippedTextIsTyped ==
  ASSUME EditInv
  PROVE  TypedPart(Clip(Text, MAX_FILE_SIZE - 1))
<1> DEFINE room == MAX_FILE_SIZE - 1
           stored == Clip(Text, room)
           n == Len(typed)
<1>1. /\ Text \in Seq(Chars) /\ Len(Text) \in Nat /\ n \in Nat
      /\ Len(Text) = IF n < MAX_FILE_SIZE THEN n ELSE MAX_FILE_SIZE
      /\ \A k \in 1..Len(Text) : Text[k] = typed[k]
  BY TextIsTyped
<1>2. MAX_FILE_SIZE \in Nat \ {0} /\ room \in Nat /\ room + 1 = MAX_FILE_SIZE
  BY RamDiskAssumption
<1> HIDE DEF room, n
<1>3. CASE Len(Text) <= room
  <2>1. stored = Text
    BY <1>3 DEF Clip
  <2>2. Len(Text) = n
    BY <1>1, <1>2, <1>3
  <2> HIDE DEF stored
  <2>3. TypedPart(stored)
    BY <1>1, <2>1, <2>2 DEF TypedPart, n
  <2> QED
    BY <2>3 DEF stored, room
<1>4. CASE ~(Len(Text) <= room)
  <2>1. stored = SubSeq(Text, 1, room)
    BY <1>4 DEF Clip
  <2>2. room < Len(Text) /\ Len(Text) <= n
    BY <1>1, <1>2, <1>4
  <2> HIDE DEF stored
  <2>3. Len(stored) = room /\ \A k \in 1..room : stored[k] = Text[k]
    BY <1>1, <1>2, <2>1, <2>2
  <2>4. \A k \in 1..room : k \in 1..Len(Text)
    BY <1>1, <1>2, <2>2
  <2>5. room <= n
    BY <1>1, <1>2, <2>2
  <2>6. TypedPart(stored)
    BY <1>1, <2>3, <2>4, <2>5 DEF TypedPart, n, room
  <2> QED
    BY <2>6 DEF stored, room
<1> QED
  BY <1>3, <1>4

\* F2 stores what the keys of the session have made of the file it opened, as far
\* as a file can hold it, under the session's name and at no other file's cost,
\* even when ptr has run past the end of edit_buffer; or it stores nothing, and
\* then there is no room or no such name.
THEOREM SavesStoreTyped == EditSpec => SaveStoresTyped
<1> DEFINE Refused == /\ ret' < 0 /\ fs_table' = fs_table
                      /\ ~fs_name_valid(filename) \/ (filename \notin UsedNames /\ UsedSlots = Slots)
           Stored(i) == /\ fs_table'[i].used /\ fs_table'[i].name = filename
                        /\ TypedPart(fs_table'[i].data)
                        /\ fs_table[i].used => fs_table[i].name = filename
                        /\ \A j \in Slots \ {i} : fs_table'[j] = fs_table[j]
           Stores == Save => (Refused \/ \E i \in Slots : Stored(i))
<1>1. ASSUME EditInv, [EditNext]_editVars PROVE [Stores]_editVars
  <2> SUFFICES ASSUME Save PROVE Refused \/ \E i \in Slots : Stored(i)
    BY <1>1
  <2>1. fs_write_file(filename, Text, ret')
    BY DEF Save, Write
  <2> DEFINE file == [name |-> filename, data |-> Clip(Text, MAX_FILE_SIZE - 1), used |-> TRUE]
  <2>2. CASE ~fs_name_valid(filename) /\ ret' = -2 /\ UNCHANGED fs_table
    BY <2>2
  <2>3. CASE ret' = WriteSlot(filename) /\ ret' = -1 /\ UNCHANGED fs_table
    <3>1. Matches(filename) = {} /\ FreeSlots = {}
      BY <2>3, PickWriteSlot, SlotSets
    <3>2. filename \notin UsedNames
      BY <3>1 DEF UsedNames, UsedSlots, Matches
    <3>3. UsedSlots = Slots
      BY <3>1 DEF UsedSlots, FreeSlots
    <3> QED
      BY <2>3, <3>2, <3>3
  <2>4. CASE ret' = WriteSlot(filename) /\ ret' # -1 /\ fs_table' = [fs_table EXCEPT ![ret'] = file]
    <3> DEFINE r == WriteSlot(filename)
    <3>1. r \in Slots /\ (r \in Matches(filename) \/ r \in FreeSlots)
      BY <2>4, PickWriteSlot, SlotSets
    <3>2. fs_table \in [Slots -> file_t]
      BY <1>1 DEF EditInv, EditTypeOK, TypeOK
    <3>3. fs_table'[r] = file /\ \A i \in Slots \ {r} : fs_table'[i] = fs_table[i]
      BY <2>4, <3>1, <3>2
    <3>4. /\ fs_table'[r].used /\ fs_table'[r].name = filename
          /\ fs_table'[r].data = Clip(Text, MAX_FILE_SIZE - 1)
      BY <3>3
    <3>5. TypedPart(fs_table'[r].data)
      BY <1>1, <3>4, ClippedTextIsTyped
    <3>6. fs_table[r].used => fs_table[r].name = filename
      <4>1. r \in Matches(filename) => fs_table[r].name = filename
        BY DEF Matches
      <4>2. r \in FreeSlots => ~fs_table[r].used
        BY DEF FreeSlots, UsedSlots
      <4> QED
        BY <3>1, <4>1, <4>2
    <3> HIDE DEF r
    <3>7. Stored(r)
      BY <3>3, <3>4, <3>5, <3>6
    <3> QED
      BY <3>1, <3>7
  <2> QED
    BY <2>1, <2>2, <2>3, <2>4 DEF fs_write_file
<1> QED
  BY InitEditInv, NextEditInv, <1>1, PTL DEF EditSpec, SaveStoresTyped
=============================================================================
