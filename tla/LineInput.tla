----------------------------- MODULE LineInput ------------------------------
(***************************************************************************)
(* What the prompt promises its user: a line that is typed, corrected and  *)
(* taken back from the past ones, and the last Kept lines entered, without *)
(* an immediate repetition.                                                *)
(***************************************************************************)
EXTENDS Integers, SequencesExt

CONSTANTS Chars, MaxLen, Kept

VARIABLES
  text,       \* the line as the user sees it
  past,       \* the lines entered, the last one last
  back        \* how many lines the user has gone back, 0 at a new prompt

Type(ch) ==
  /\ text' = IF Len(text) < MaxLen THEN Append(text, ch) ELSE text
  /\ UNCHANGED <<past, back>>

Correct ==
  /\ text' = IF text = <<>> THEN <<>> ELSE Front(text)
  /\ UNCHANGED <<past, back>>

\* Each time one line further back, at the oldest no further.
Recall ==
  /\ past # <<>>
  /\ back' = IF back < Len(past) THEN back + 1 ELSE back
  /\ text' = past[Len(past) + 1 - back']
  /\ UNCHANGED past

Newest(lines) == SubSeq(lines, IF Len(lines) > Kept THEN 2 ELSE 1, Len(lines))

Enter ==
  /\ past' = IF text = <<>> \/ (past # <<>> /\ Last(past) = text) THEN past
             ELSE Newest(Append(past, text))
  /\ text' = <<>> /\ back' = 0

Init == text = <<>> /\ past = <<>> /\ back = 0

Next == Correct \/ Recall \/ Enter \/ \E ch \in Chars : Type(ch)

Spec == Init /\ [][Next]_<<text, past, back>>
=============================================================================
