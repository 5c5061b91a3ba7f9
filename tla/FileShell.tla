----------------------------- MODULE FileShell ------------------------------
(***************************************************************************)
(* The file commands of shell_loop in kernel/kernel.c: how a command line  *)
(* is turned into paths, which fs_ functions it calls and what it prints.  *)
(* `reply` is the message printed last; listings and texts are "...".      *)
(*                                                                         *)
(* cat, cp, mv, touch, write, append, stat and rm ignore the result of     *)
(* build_path.  When it fails they go on with a `path` that nobody wrote,  *)
(* which holds whatever string an earlier command left on the stack: any   *)
(* member of Leftovers.  Such a string may be longer than a name (cd joins *)
(* paths in an array of the same frame without looking at the length), and *)
(* mv copies it over one.                                                  *)
(***************************************************************************)
EXTENDS RamDisk

CONSTANTS
  CommandArgs,    \* the tokens the user types
  LineTexts,      \* the rest of a line after two tokens
  Leftovers       \* what an unwritten `path` may hold

ASSUME FileShellAssumption ==
  /\ CommandArgs \subseteq Args
  /\ LineTexts \subseteq Contents \ {<<>>}   \* a line is shorter than a file
  /\ Leftovers \subseteq Paths
  /\ \A p \in {SystemFile, TestFile} : PathLen(p) < NAME_SIZE

VARIABLES
  current_path,   \* the directory of the prompt, in Dirs
  reply           \* the message of the last command

shellVars == <<fs_table, ret, current_path, reply>>

build_path(arg) == Joined(current_path, arg)

\* The paths a command that ignores build_path's result may work on.
Resolved(arg) == IF BuildOk(current_path, arg) THEN {build_path(arg)} ELSE Leftovers

-----------------------------------------------------------------------------
(* ls_current_dir and ls_dir_path                                          *)

\* The used slots the loop reaches the print for, but for duplicates.
Listable(dir) ==
  {i \in UsedSlots : \/ dir = <<>>
                     \/ /\ IsUnder(fs_table[i].name, dir)
                        /\ fs_table[i].name # Append(dir, Empty)}

Entry(i, dir) == fs_table[i].name[Len(dir) + 1]

\* Mutant: a file taken for a directory.
IsAnyEntry(i, dir) == Len(fs_table[i].name) > Len(dir)

IsDirEntry(i, dir) == Len(fs_table[i].name) > Len(dir) + 1

\* An entry text is printed for the first slot that has it.
Shown(dir) ==
  {i \in Listable(dir) : \A j \in Listable(dir) : j < i => Entry(j, dir) # Entry(i, dir)}

-----------------------------------------------------------------------------
(* Commands that change directory                                          *)

\* Mutant: cd without the test.
CdUnchecked(arg) ==
  ~IsSlash(arg) /\ current_path' = Joined(current_path, arg) /\ reply' = "" /\ UNCHANGED vars

\* cd tests the directory it was given, whatever build_path would say of it.
CdTo(arg) ==
  LET new_path == Joined(current_path, arg)
  IN  /\ ~IsSlash(arg)
      /\ IF fs_dir_exists(new_path)
         THEN current_path' = new_path /\ reply' = ""
         ELSE current_path' = current_path /\ reply' = "Error: Directory not found."
      /\ UNCHANGED vars

CdRoot == current_path' = <<>> /\ reply' = "" /\ UNCHANGED vars

CdParent == current_path' = path_parent(current_path) /\ reply' = "" /\ UNCHANGED vars

Pwd == reply' = "..." /\ UNCHANGED <<fs_table, ret, current_path>>

-----------------------------------------------------------------------------
(* Commands that check build_path                                          *)

InvalidPath ==
  reply' = "Error: Invalid path." /\ UNCHANGED <<fs_table, ret, current_path>>

Mkdir(arg) ==
  IF ~BuildOk(current_path, arg) THEN InvalidPath
  ELSE /\ MakeDir(build_path(arg))
       /\ reply' = IF ret' # 0 THEN "Directory created."
                   ELSE "Error: Unable to create directory."
       /\ UNCHANGED current_path

Rmdir(arg) ==
  IF ~BuildOk(current_path, arg) THEN InvalidPath
  ELSE /\ RemoveDir(build_path(arg))
       /\ reply' = IF ret' > 0 THEN "Directory removed." ELSE "Error: Directory not found."
       /\ UNCHANGED current_path

Wc(arg) ==
  IF ~BuildOk(current_path, arg) THEN InvalidPath
  ELSE /\ Find(build_path(arg))
       /\ reply' = IF ret' # -1 THEN "..." ELSE "Error: File not found."
       /\ UNCHANGED current_path

Ls(arg) ==
  IF ~IsSlash(arg) /\ ~BuildOk(current_path, arg) THEN InvalidPath ELSE Pwd

-----------------------------------------------------------------------------
(* Commands that do not                                                    *)

Cat(arg) ==                                             \* and stat
  \E path \in Resolved(arg) :
    /\ Find(path)
    /\ reply' = IF ret' # -1 THEN "..." ELSE "Error: File not found."
    /\ UNCHANGED current_path

Cp(src, dest) ==
  \E src_path \in Resolved(src), dest_path \in Resolved(dest) :
    LET sid == fs_find_file(src_path)
    IN  /\ \/ /\ sid # -1
              /\ Write(dest_path, fs_table[sid].data)
              /\ reply' = IF ret' # -1 THEN "Copied." ELSE "Error: No space."
           \/ /\ sid = -1
              /\ Find(src_path)
              /\ reply' = "Source not found."
        /\ UNCHANGED current_path

\* Mutant: the destination is removed before the source is looked up.
MvClearsTarget(src, dest) ==
  \E src_path \in Resolved(src), dest_path \in Resolved(dest) :
    /\ Delete(dest_path)
    /\ reply' = IF fs_find_file(src_path) = -1 THEN "Source not found." ELSE "Moved."
    /\ UNCHANGED current_path

Mv(src, dest) ==
  \E src_path \in Resolved(src), dest_path \in Resolved(dest) :
    /\ Rename(src_path, dest_path)
    /\ reply' = IF fs_find_file(src_path) = -1 THEN "Source not found."
                ELSE IF fs_find_file(dest_path) # -1 THEN "Error: Destination exists."
                ELSE "Moved."
    /\ UNCHANGED current_path

Touch(arg) ==
  \E path \in Resolved(arg) :
    /\ Write(path, <<>>)
    /\ reply' = IF ret' # -1 THEN "File created." ELSE "Error: No space."
    /\ UNCHANGED current_path

WriteText(arg, msg) ==
  \E path \in Resolved(arg) :
    /\ Write(path, msg)
    /\ reply' = IF ret' # -1 THEN "Written." ELSE "Error: No space."
    /\ UNCHANGED current_path

AppendText(arg, msg) ==
  \E path \in Resolved(arg) :
    /\ AppendTo(path, msg)
    /\ reply' = IF ret' >= 0 THEN "Appended." ELSE "Error: File not found."
    /\ UNCHANGED current_path

Rm(arg) ==
  \E path \in Resolved(arg) :
    /\ Delete(path)
    /\ reply' = IF ret' # 0 THEN "File deleted." ELSE "Error: File not found."
    /\ UNCHANGED current_path

-----------------------------------------------------------------------------
ShellInit == Init /\ current_path = <<>> /\ reply = ""

Command(arg) ==
  \/ CdTo(arg) \/ Mkdir(arg) \/ Rmdir(arg) \/ Wc(arg) \/ Ls(arg)
  \/ Cat(arg) \/ Touch(arg) \/ Rm(arg)
  \/ \E msg \in LineTexts : WriteText(arg, msg) \/ AppendText(arg, msg)

\* Every name is within file_t.name.
NamesInSlots == \A name \in UsedNames : PathLen(name) < NAME_SIZE

\* Once mv's strcpy has run over a slot's name into its data, what the slots hold
\* is not modelled any more.
Overrun == ~NamesInSlots /\ UNCHANGED shellVars

ShellNext ==
  \/ NamesInSlots /\ (CdRoot \/ CdParent \/ Pwd)
  \/ NamesInSlots /\ \E arg \in CommandArgs : Command(arg)
  \/ NamesInSlots /\ \E src, dest \in CommandArgs : Cp(src, dest) \/ Mv(src, dest)
  \/ Overrun

ShellSpec == ShellInit /\ [][ShellNext]_shellVars

-----------------------------------------------------------------------------
ShellTypeOK == TypeOK /\ current_path \in Dirs

\* A name longer than file_t.name enters the table in one way only: mv, which
\* copies with strcpy, has gone on after build_path refused the destination.
NamesFit ==
  [][ \/ \A name \in UsedNames' \ UsedNames : PathLen(name) < NAME_SIZE
      \/ \E src, dest \in CommandArgs : Mv(src, dest) /\ ~BuildOk(current_path, dest)
    ]_shellVars

\* cd keeps the prompt in a directory that exists if it was in one: `cd ..`,
\* which tests nothing, is safe because parents of directories are directories.
CdStaysInside ==
  [][ (UNCHANGED fs_table /\ fs_dir_exists(current_path)) => fs_dir_exists(current_path') ]_shellVars

Holds(table, name, text) ==
  \E i \in Slots : table[i].used /\ table[i].name = name /\ table[i].data = text

\* After the step, `to` has the text that `from` had before it.
Carried(from, to) == \E i \in Matches(from) : Holds(fs_table', to, fs_table[i].data)

\* The success messages are true when build_path accepted the arguments: the
\* copy equals the original, a moved file has left its old name, written text
\* replaces the old, directories and files are there or gone.  fs_mkdir drops the
\* slashes at the end of its argument and fs_dir_exists does not: "mkdir a/" makes
\* the directory that "cd a" enters and "cd a/" does not find.
SuccessIsTrue ==
  [][ /\ \A arg \in CommandArgs : BuildOk(current_path, arg) =>
           LET path == build_path(arg)
           IN  /\ \A msg \in LineTexts :
                    reply' = "Written." /\ WriteText(arg, msg) => Holds(fs_table', path, msg)
               /\ reply' = "File created." /\ Touch(arg) => Holds(fs_table', path, <<>>)
               /\ reply' = "File deleted." /\ Rm(arg) => path \notin UsedNames'
               /\ reply' = "Directory created." /\ Mkdir(arg) =>
                    fs_dir_exists(StripSlashes(path))'
               /\ reply' = "Directory removed." /\ Rmdir(arg) => ~fs_dir_exists(path)'
      /\ \A src, dest \in CommandArgs :
           BuildOk(current_path, src) /\ BuildOk(current_path, dest) =>
             LET from == build_path(src)
                 to == build_path(dest)
             IN  /\ reply' = "Copied." /\ Cp(src, dest) => Carried(from, to)
                 /\ reply' = "Moved." /\ Mv(src, dest) =>
                      Carried(from, to) /\ from \notin UsedNames'
    ]_shellVars

\* An error message means that the disk is as it was.
ErrorChangesNothing ==
  [][ reply' \in {"Error: Invalid path.", "Error: No space.", "Error: File not found.",
                  "Error: Directory not found.", "Error: Destination exists.",
                  "Error: Unable to create directory.", "Source not found."}
      => UNCHANGED <<fs_table, current_path>> ]_shellVars

\* ls and cd agree: what ls lists as a directory cd enters, what it lists as a
\* file cat finds, and nothing below the directory goes unlisted but for an entry
\* of the same text (a file and a directory of one name share a line).
ListingMatchesDisk ==
  \A dir \in {current_path, <<>>} :
    /\ \A k \in Shown(dir) :
         LET path == Append(dir, Entry(k, dir))
         IN  IF IsDirEntry(k, dir) THEN fs_dir_exists(path) ELSE path \in UsedNames
    /\ \A name \in UsedNames : IsUnder(name, dir) /\ name # Append(dir, Empty) =>
         \E k \in Shown(dir) : IsPrefix(Append(dir, Entry(k, dir)), name)

\* "write: Dosyaya yazar" (writes to the file) and "Written.": the file the user
\* named holds the text.  The code does not keep to it: a build_path that failed
\* and a result of -2 are both taken for success.
WrittenIsStored ==
  [][ \A arg \in CommandArgs, msg \in LineTexts :
        reply' = "Written." /\ WriteText(arg, msg)
          => Holds(fs_table', build_path(arg), msg) ]_shellVars
=============================================================================
