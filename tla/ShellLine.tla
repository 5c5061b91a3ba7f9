----------------------------- MODULE ShellLine ------------------------------
(***************************************************************************)
(* The prompt of shell_loop in kernel/kernel.c: the line buffer, the       *)
(* history that the up arrow recalls, and the splitting of a line into the *)
(* tokens its command gets.                                                *)
(*                                                                         *)
(* `line` is an array whose tail holds what earlier keys left there; the   *)
(* code ends the text with a 0 only where it needs one.  A key is the      *)
(* character scancode_to_char yields for it, or "up"; keys that yield 0    *)
(* and the shift keys change nothing else and are left out.                *)
(***************************************************************************)
EXTENDS Integers, SequencesExt

CONSTANTS
  Chars,          \* the characters keys yield, 27 and (char)-2 among them
  NUL,            \* the character 0
  Blanks,         \* ' ' and '\t'
  LINE_SIZE,      \* bytes of line and of a history entry (64)
  HISTORY_SIZE,   \* 8
  MAX_ARGS        \* 8, tokens that split_args takes

ASSUME LineAssumption ==
  /\ NUL \notin Chars /\ Blanks \subseteq Chars
  /\ LINE_SIZE \in Nat \ {0} /\ HISTORY_SIZE \in Nat \ {0} /\ MAX_ARGS \in Nat

VARIABLES
  line,           \* [Cells -> Chars \cup {NUL}]
  pos,            \* the length of the text
  history_buf,    \* [Entries -> Lines], each a C string
  history_count, history_pos

lineVars == <<line, pos, history_buf, history_count, history_pos>>

Cells == 0..(LINE_SIZE - 1)
Entries == 0..(HISTORY_SIZE - 1)
Lines == {s \in Seq(Chars) : Len(s) <= LINE_SIZE - 1}

LineTypeOK ==
  /\ line \in [Cells -> Chars \cup {NUL}] /\ pos \in 0..(LINE_SIZE - 1)
  /\ history_buf \in [Entries -> Lines]
  /\ history_count \in 0..HISTORY_SIZE /\ history_pos \in 0..history_count

Upto(n) == [i \in 1..n |-> line[i - 1]]     \* the first n bytes of line

Text == Upto(pos)

-----------------------------------------------------------------------------
(* split_args and after_n_tokens                                           *)

\* Where a loop that starts at p and stops at a byte of S, or at the end, stops.
Skip(s, p, S) ==
  CHOOSE q \in p..(Len(s) + 1) :
    /\ q = Len(s) + 1 \/ s[q] \in S
    /\ \A k \in p..(q - 1) : s[k] \notin S

\* The next token from p on: its first byte, and the byte behind its last one.
TokenStart(s, p) == Skip(s, p, Chars \ Blanks)
TokenEnd(s, p) == Skip(s, TokenStart(s, p), Blanks)

\* Mutant: the blanks before a token are not skipped.
SplitUnskipped(s, max_args) ==
  LET p[k \in 0..max_args] ==
        IF k = 0 THEN 1 ELSE Min({Skip(s, p[k - 1], Blanks), Len(s)}) + 1
      argc == Cardinality({k \in 1..max_args : p[k - 1] <= Len(s)})
  IN  [k \in 1..argc |-> SubSeq(s, p[k - 1], Skip(s, p[k - 1], Blanks) - 1)]

\* The tokens, at most max_args of them.  p stands at p[k] after k rounds of the
\* loop; the byte after a token is overwritten and passed over.
split_args(s, max_args) ==
  LET p[k \in 0..max_args] ==
        IF k = 0 THEN 1
        ELSE LET end == TokenEnd(s, p[k - 1]) IN IF end > Len(s) THEN end ELSE end + 1
      argc == Cardinality({k \in 1..max_args : TokenStart(s, p[k - 1]) <= Len(s)})
  IN  [k \in 1..argc |-> SubSeq(s, TokenStart(s, p[k - 1]), TokenEnd(s, p[k - 1]) - 1)]

\* What follows the first n tokens and the blanks after them.
after_n_tokens(s, n) ==
  LET past[k \in 0..n] == IF k = 0 THEN 1 ELSE TokenEnd(s, past[k - 1])
  IN  SubSeq(s, TokenStart(s, past[n]), Len(s))

-----------------------------------------------------------------------------
(* The keys                                                                *)

Insert(ch) ==
  /\ IF pos < LINE_SIZE - 1
     THEN line' = [line EXCEPT ![pos] = ch] /\ pos' = pos + 1
     ELSE UNCHANGED <<line, pos>>
  /\ UNCHANGED <<history_buf, history_count, history_pos>>

\* The byte stays in the array.
Backspace ==
  /\ pos' = IF pos > 0 THEN pos - 1 ELSE 0
  /\ UNCHANGED <<line, history_buf, history_count, history_pos>>

\* strcpy(line, entry)
Recalled(entry) ==
  [i \in Cells |-> IF i < Len(entry) THEN entry[i + 1]
                   ELSE IF i = Len(entry) THEN NUL ELSE line[i]]

\* With an empty history scancode_to_char yields -1, and the key is ignored.
Up ==
  /\ history_count > 0
  /\ history_pos' = IF history_pos > 0 THEN history_pos - 1 ELSE 0
  /\ line' = Recalled(history_buf[history_pos'])
  /\ pos' = Len(history_buf[history_pos'])
  /\ UNCHANGED <<history_buf, history_count>>

\* Mutant: the oldest entry is overwritten where it stands.
RememberInPlace(entry) ==
  /\ history_buf' = [history_buf EXCEPT ![history_count % HISTORY_SIZE] = entry]
  /\ history_count' = IF history_count < HISTORY_SIZE THEN history_count + 1 ELSE history_count

Repeats(entry) == history_count > 0 /\ history_buf[history_count - 1] = entry

\* A line that repeats the last one is not kept; a full history moves up.
Remember(entry) ==
  \/ /\ Repeats(entry)
     /\ UNCHANGED <<history_buf, history_count>>
  \/ /\ ~Repeats(entry)
     /\ \/ /\ history_count < HISTORY_SIZE
           /\ history_buf' = [history_buf EXCEPT ![history_count] = entry]
           /\ history_count' = history_count + 1
        \/ /\ history_count = HISTORY_SIZE
           /\ history_buf' = [i \in Entries |->
                IF i = HISTORY_SIZE - 1 THEN entry ELSE history_buf[i + 1]]
           /\ UNCHANGED history_count

\* '\n': the text is remembered and run, and the prompt starts again.
Enter ==
  /\ IF pos > 0 THEN Remember(Text) ELSE UNCHANGED <<history_buf, history_count>>
  /\ line' = [i \in Cells |-> NUL] /\ pos' = 0
  /\ history_pos' = history_count'

LineInit ==
  /\ line = [i \in Cells |-> NUL] /\ pos = 0
  /\ history_buf = [i \in Entries |-> <<>>]
  /\ history_count = 0 /\ history_pos = 0

LineNext == Backspace \/ Up \/ Enter \/ \E ch \in Chars : Insert(ch)

-----------------------------------------------------------------------------
\* The array with its stale tail, the indices and the shifting table behave as a
\* line and a list: what is entered is what was typed, corrected or recalled, no
\* byte of an earlier line comes back, and the k-th press of the up arrow brings
\* the k-th last line.
Input == INSTANCE LineInput WITH
  MaxLen <- LINE_SIZE - 1,
  Kept <- HISTORY_SIZE,
  text <- Text,
  past <- [i \in 1..history_count |-> history_buf[i - 1]],
  back <- history_count - history_pos

ImplementsLineInput == Input!Spec

\* The words of a line: its longest pieces without a blank, in order.
WordStarts(s) == {i \in DOMAIN s : s[i] \notin Blanks /\ (i = 1 \/ s[i - 1] \in Blanks)}

Word(s, i) == SubSeq(s, i, Max({j \in i..Len(s) : \A k \in i..j : s[k] \notin Blanks}))

\* The k-th word starts where k words start up to there.
NthStart(s, k) ==
  CHOOSE i \in WordStarts(s) : Cardinality({j \in WordStarts(s) : j <= i}) = k

\* A command gets the first words of the line, and `write` and `append` get the
\* text from the third word on, blanks inside it included.
TokensAreWords ==
  LET words == Cardinality(WordStarts(Text))
  IN  \A n \in 0..MAX_ARGS :
        /\ split_args(Text, n) =
             [k \in 1..(IF n < words THEN n ELSE words) |-> Word(Text, NthStart(Text, k))]
        /\ after_n_tokens(Text, n) =
             IF n < words THEN SubSeq(Text, NthStart(Text, n + 1), pos) ELSE <<>>
=============================================================================
