------------------------------ MODULE KeyQueue ------------------------------
(***************************************************************************)
(* What the keyboard driver promises: key events come out in the order in  *)
(* which they came in, each once, and one is lost when Capacity events are *)
(* waiting and at no other time.                                           *)
(***************************************************************************)
EXTENDS Naturals, Sequences

CONSTANTS Events, Capacity

VARIABLES
  queue,    \* events waiting
  taken,    \* the event on its way to the caller, <<>> or <<event>>
  offers    \* the parity of the events offered, so that a loss is a step too

Offer(event) ==
  /\ queue' = IF Len(queue) < Capacity THEN Append(queue, event) ELSE queue
  /\ offers' = ~offers
  /\ UNCHANGED taken

Take ==
  /\ queue # <<>> /\ taken = <<>>
  /\ taken' = <<Head(queue)>>
  /\ queue' = Tail(queue)
  /\ UNCHANGED offers

Deliver == taken # <<>> /\ taken' = <<>> /\ UNCHANGED <<queue, offers>>

Init == queue = <<>> /\ taken = <<>> /\ offers = FALSE

Next == Take \/ Deliver \/ \E event \in Events : Offer(event)

Spec == Init /\ [][Next]_<<queue, taken, offers>>
=============================================================================
