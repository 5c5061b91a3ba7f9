----------------------------- MODULE MCKeyboard -----------------------------
(***************************************************************************)
(* A ring of three events; a letter, a shift key and caps lock.            *)
(***************************************************************************)
EXTENDS Keyboard

Press(k) == [key |-> k, released |-> FALSE]
Release(k) == [key |-> k, released |-> TRUE]

MCModifierOf == [k \in {"LSHIFT"} |-> "shift"]
MCLower == [k \in {"A"} |-> "a"]
MCUpper == [k \in {"A"} |-> "A"]

MCScancodes ==
  {Press("A"), Release("A"), Press("LSHIFT"), Release("LSHIFT"), Press("CAPS")}
=============================================================================
