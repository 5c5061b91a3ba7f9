------------------------------ MODULE MCTimer ------------------------------
(***************************************************************************)
(* A count of three bits, the timer and the mouse (behind the slave), whose *)
(* handler comes late or never; sleeps of no tick, of two and of three, and *)
(* one whose product overflows.                                             *)
(***************************************************************************)
EXTENDS Timer

MCOthers == [line \in {12} |-> "mouse"]

=============================================================================
