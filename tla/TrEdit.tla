------------------------------- MODULE TrEdit -------------------------------
(***************************************************************************)
(* tredit, the editor of kernel/kernel.c, over the RAM disk.  edit_buffer  *)
(* is static: a session finds the bytes of the session before it, and only *)
(* the terminators that strcpy and the backspace key write keep them out.  *)
(*                                                                         *)
(* The shell runs nothing while the editor does.  Between sessions files   *)
(* are written and deleted, here by the functions of RamDisk.              *)
(***************************************************************************)
EXTENDS RamDisk

CONSTANTS
  NUL,            \* the byte 0, which no file holds
  Newline,        \* '\n', a byte of Chars
  Backspace,      \* '\b', which is never stored
  PTR_BOUND       \* bound: ptr stops here

ASSUME TrEditAssumption ==
  /\ NUL \notin Chars /\ Backspace \notin Chars /\ NUL # Backspace
  /\ Newline \in Chars
  /\ PTR_BOUND \in Nat /\ PTR_BOUND >= MAX_FILE_SIZE

VARIABLES
  run,            \* the loop of tredit is running
  filename,       \* its argument
  edit_buffer,    \* [Cells -> Chars \cup {NUL}]
  ptr,            \* the end of the text; may pass the end of edit_buffer
  typed           \* history: the file as it was opened, and the keys since

editVars == <<fs_table, ret, run, filename, edit_buffer, ptr, typed>>

Cells == 0..(MAX_FILE_SIZE - 1)

EditTypeOK ==
  /\ TypeOK
  /\ run \in BOOLEAN /\ filename \in Names \cup {SystemFile}
  /\ edit_buffer \in [Cells -> Chars \cup {NUL}]
  /\ ptr \in 0..PTR_BOUND
  /\ typed \in Seq(Chars)

strlen(buffer) == Least({i \in Cells : buffer[i] = NUL})

\* Mutant: the terminator is not copied.
CopiedUnterminated(data) ==
  [i \in Cells |-> IF i < Len(data) THEN data[i + 1] ELSE edit_buffer[i]]

\* strcpy(edit_buffer, data): the bytes beyond the terminator stay.
Copied(data) ==
  [i \in Cells |-> IF i < Len(data) THEN data[i + 1]
                   ELSE IF i = Len(data) THEN NUL ELSE edit_buffer[i]]

\* The bytes before ptr that lie in edit_buffer; F2 stores no others, for
\* fs_write_file clips what lies beyond.
Text == [i \in 1..(IF ptr < MAX_FILE_SIZE THEN ptr ELSE MAX_FILE_SIZE) |-> edit_buffer[i - 1]]

FileText(name) == IF Matches(name) = {} THEN <<>> ELSE fs_table[fs_find_file(name)].data

-----------------------------------------------------------------------------
Open(name) ==
  /\ ~run
  /\ run' = TRUE
  /\ filename' = name
  /\ Find(name)
  /\ edit_buffer' = IF ret' # -1 THEN Copied(fs_table[ret'].data)
                    ELSE [i \in Cells |-> NUL]
  /\ ptr' = strlen(edit_buffer')
  /\ typed' = FileText(name)

\* What the keys with a character do.  '\n' is stored whatever ptr is; past the
\* end of edit_buffer it lands in memory that is not the editor's.
Insert(ch) ==
  /\ run
  /\ ch \in Chars
  /\ ch = Newline \/ ptr < MAX_FILE_SIZE - 1
  /\ ptr < PTR_BOUND
  /\ edit_buffer' = [i \in Cells |-> IF i = ptr THEN ch ELSE edit_buffer[i]]
  /\ ptr' = ptr + 1
  /\ typed' = Append(typed, ch)
  /\ UNCHANGED <<fs_table, ret, run, filename>>

Erase ==
  /\ run
  /\ ptr > 0
  /\ ptr' = ptr - 1
  /\ typed' = SubSeq(typed, 1, Len(typed) - 1)
  /\ edit_buffer' = [i \in Cells |-> IF i = ptr - 1 THEN NUL ELSE edit_buffer[i]]
  /\ UNCHANGED <<fs_table, ret, run, filename>>

\* scancode_to_char yields 0 for a key without a character.
Key(ch) == IF ch = Backspace THEN Erase ELSE Insert(ch)

\* F2.  The result is ignored: "[ FILE SAVED SUCCESSFULLY ]" follows.
Save ==
  /\ run
  /\ Write(filename, Text)
  /\ UNCHANGED <<run, filename, edit_buffer, ptr, typed>>

\* ESC and F10.
Exit == run /\ run' = FALSE /\ UNCHANGED <<fs_table, ret, filename, edit_buffer, ptr, typed>>

ShellStep ==
  /\ ~run
  /\ \E name \in Names : Delete(name) \/ \E text \in Texts : Write(name, text)
  /\ UNCHANGED <<run, filename, edit_buffer, ptr, typed>>

EditInit ==
  /\ Init
  /\ run = FALSE /\ filename = SystemFile
  /\ edit_buffer = [i \in Cells |-> NUL] /\ ptr = 0 /\ typed = <<>>

EditNext ==
  \/ \E name \in Names : Open(name)
  \/ \E ch \in Chars \cup {NUL, Backspace} : Key(ch)
  \/ Save \/ Exit \/ ShellStep

EditSpec == EditInit /\ [][EditNext]_editVars

-----------------------------------------------------------------------------
\* A file is opened with exactly its own bytes, never with a tail of the text an
\* earlier session left in edit_buffer; a new file is opened empty.
OpenShowsFile ==
  [][ ~run /\ run' =>
        Text' = IF Matches(filename') = {} THEN <<>>
                ELSE fs_table[fs_find_file(filename')].data ]_editVars

\* The first bytes of what was typed, and all of it if a file can hold it.
TypedPart(stored) ==
  /\ Len(stored) <= Len(typed) /\ \A k \in 1..Len(stored) : stored[k] = typed[k]
  /\ Len(stored) = Len(typed) \/ Len(stored) = MAX_FILE_SIZE - 1

\* F2 stores what the keys of the whole session have made of the file that was
\* opened, up to the last byte a file can hold, even when newlines have carried
\* ptr past the end of edit_buffer and back; or it stores nothing, for want of
\* room or of a name.  No other file changes.
SaveStoresTyped ==
  [][ Save =>
        \/ /\ ret' < 0 /\ fs_table' = fs_table
           /\ ~fs_name_valid(filename) \/ (filename \notin UsedNames /\ UsedSlots = Slots)
        \/ \E i \in Slots :
             /\ fs_table'[i].used /\ fs_table'[i].name = filename
             /\ TypedPart(fs_table'[i].data)
             /\ fs_table[i].used => fs_table[i].name = filename
             /\ \A j \in Slots \ {i} : fs_table'[j] = fs_table[j] ]_editVars
=============================================================================
