------------------------------ MODULE Keyboard ------------------------------
(***************************************************************************)
(* The interrupt-driven keyboard driver of kernel/drivers/keyboard.c: IRQ1 *)
(* fills a ring buffer that the main program empties.                      *)
(*                                                                         *)
(* The handler runs behind an interrupt gate, so it is one step; the main  *)
(* program's buffer_pop is interrupted between its steps.  key_buffer,     *)
(* unlike the indices, is not volatile: the compiler may read the event    *)
(* before or after it stores buffer_tail, and both orders are modelled.    *)
(***************************************************************************)
EXTENDS Integers, Sequences

CONSTANTS
  KEY_BUFFER_SIZE,    \* 256
  Scancodes,          \* what arrives: [key, released]
  ModifierOf,         \* [modifier keys -> {"shift", "ctrl", "alt"}]
  KEY_CAPSLOCK,
  lower, upper,       \* the two tables, [other keys -> characters]
  NoChar              \* the character 0

ASSUME KeyboardAssumption ==
  /\ KEY_BUFFER_SIZE \in Nat \ {0}
  /\ \A s \in Scancodes : /\ s.released \in BOOLEAN
                          /\ s.key \in DOMAIN ModifierOf \cup {KEY_CAPSLOCK} \cup DOMAIN lower
  /\ DOMAIN upper = DOMAIN lower

VARIABLES
  modifiers,          \* shift_pressed, ctrl_pressed and alt_pressed
  capslock_on,
  key_buffer, buffer_head, buffer_tail,
  call,               \* the function the main program is in
  pc,                 \* where in it
  event,              \* its local event
  offers              \* history: the parity of the events the handler has made

irqVars == <<modifiers, capslock_on, key_buffer, buffer_head, offers>>
mainVars == <<buffer_tail, call, pc, event>>
keyVars == <<irqVars, mainVars>>

ModifierNames == {"shift", "ctrl", "alt"}
Indices == 0..(KEY_BUFFER_SIZE - 1)
NextIndex(i) == (i + 1) % KEY_BUFFER_SIZE

KeyEvent(key, released) ==
  LET uppercase == modifiers.shift # capslock_on
  IN  [scancode |-> key, pressed |-> ~released, mods |-> modifiers,
       ascii |-> IF uppercase THEN upper[key] ELSE lower[key]]

Events ==
  [scancode : DOMAIN lower, pressed : BOOLEAN, mods : [ModifierNames -> BOOLEAN],
   ascii : {lower[k] : k \in DOMAIN lower} \cup {upper[k] : k \in DOMAIN upper}]

NoEvent == [scancode |-> NoChar]      \* what an event holds before it is set

KeyTypeOK ==
  /\ modifiers \in [ModifierNames -> BOOLEAN] /\ capslock_on \in BOOLEAN
  /\ DOMAIN key_buffer = Indices
  /\ \A i \in Indices : key_buffer[i] \in Events \cup {NoEvent}
  /\ buffer_head \in Indices /\ buffer_tail \in Indices
  /\ call \in {"event", "char"}
  /\ pc \in {"idle", "test", "copy", "advance", "advance first", "copy late", "return"}
  /\ event \in Events \cup {NoEvent} /\ offers \in BOOLEAN

-----------------------------------------------------------------------------
(* keyboard_handler                                                        *)

\* Mutant: a full buffer is not noticed.
PushAlways(new) ==
  /\ key_buffer' = [key_buffer EXCEPT ![buffer_head] = new]
  /\ buffer_head' = NextIndex(buffer_head)

buffer_push(new) ==
  IF NextIndex(buffer_head) # buffer_tail
  THEN /\ key_buffer' = [key_buffer EXCEPT ![buffer_head] = new]
       /\ buffer_head' = NextIndex(buffer_head)
  ELSE UNCHANGED <<key_buffer, buffer_head>>

Modifier(key, released) ==
  /\ key \in DOMAIN ModifierOf
  /\ modifiers' = [modifiers EXCEPT ![ModifierOf[key]] = ~released]
  /\ UNCHANGED <<capslock_on, key_buffer, buffer_head, offers>>

CapsLock(key, released) ==
  /\ key = KEY_CAPSLOCK
  /\ capslock_on' = IF released THEN capslock_on ELSE ~capslock_on
  /\ UNCHANGED <<modifiers, key_buffer, buffer_head, offers>>

OtherKey(key, released) ==
  /\ key \in DOMAIN lower
  /\ buffer_push(KeyEvent(key, released))
  /\ offers' = ~offers
  /\ UNCHANGED <<modifiers, capslock_on>>

keyboard_handler ==
  /\ \E s \in Scancodes :
       \/ Modifier(s.key, s.released)
       \/ CapsLock(s.key, s.released)
       \/ OtherKey(s.key, s.released)
  /\ UNCHANGED mainVars

-----------------------------------------------------------------------------
(* keyboard_get_event and keyboard_getchar                                 *)

Call(function) ==
  /\ pc = "idle"
  /\ pc' = "test" /\ call' = function
  /\ UNCHANGED <<irqVars, buffer_tail, event>>

\* Mutant: the functions wait for a key.
TestWaits ==
  /\ pc = "test" /\ buffer_tail # buffer_head
  /\ pc' \in {"copy", "advance first"}
  /\ UNCHANGED <<irqVars, buffer_tail, call, event>>

\* The emptiness test; an empty buffer ends either function.
Test ==
  /\ pc = "test"
  /\ IF buffer_tail = buffer_head THEN pc' = "idle"
     ELSE pc' \in {"copy", "advance first"}
  /\ UNCHANGED <<irqVars, buffer_tail, call, event>>

\* *event = key_buffer[buffer_tail]
Copy ==
  /\ \/ pc = "copy" /\ event' = key_buffer[buffer_tail] /\ pc' = "advance"
     \/ pc = "copy late" /\ pc' = "return"
        /\ event' = key_buffer[(buffer_tail - 1) % KEY_BUFFER_SIZE]
  /\ UNCHANGED <<irqVars, buffer_tail, call>>

\* buffer_tail = (buffer_tail + 1) % KEY_BUFFER_SIZE
Advance ==
  /\ \/ pc = "advance" /\ pc' = "return"
     \/ pc = "advance first" /\ pc' = "copy late"
  /\ buffer_tail' = NextIndex(buffer_tail)
  /\ UNCHANGED <<irqVars, call, event>>

\* keyboard_getchar goes on until it has a key press with a character.
Return ==
  /\ pc = "return"
  /\ pc' = IF call = "char" /\ ~(event.pressed /\ event.ascii # NoChar)
           THEN "test" ELSE "idle"
  /\ UNCHANGED <<irqVars, buffer_tail, call, event>>

Main == Test \/ Copy \/ Advance \/ Return

-----------------------------------------------------------------------------
KeyInit ==
  /\ modifiers = [m \in ModifierNames |-> FALSE] /\ capslock_on = FALSE
  /\ key_buffer = [i \in Indices |-> NoEvent] /\ buffer_head = 0 /\ buffer_tail = 0
  /\ call = "event" /\ pc = "idle" /\ event = NoEvent
  /\ offers = FALSE

KeyNext ==
  \/ keyboard_handler
  \/ \E function \in {"event", "char"} : Call(function)
  \/ Main

KeySpec == KeyInit /\ [][KeyNext]_keyVars

\* Every interrupt returns to the main program, which then runs on.
FairKeySpec == KeySpec /\ WF_keyVars(Main)

-----------------------------------------------------------------------------
Waiting == (buffer_head - buffer_tail) % KEY_BUFFER_SIZE

\* The ring buffer behaves as a first-in first-out queue of KEY_BUFFER_SIZE - 1
\* events: an interrupt between any two steps of buffer_pop never makes it
\* return an event twice, out of order or overwritten, in either order of its
\* two assignments, and buffer_push drops an event when the ring is full and at
\* no other time.
Queue == INSTANCE KeyQueue WITH
  Capacity <- KEY_BUFFER_SIZE - 1,
  queue <- [i \in 1..Waiting |-> key_buffer[(buffer_tail + i - 1) % KEY_BUFFER_SIZE]],
  taken <- CASE pc = "return" -> <<event>>
             [] pc = "copy late" -> <<key_buffer[(buffer_tail - 1) % KEY_BUFFER_SIZE]>>
             [] OTHER -> <<>>

ImplementsQueue == Queue!Spec

\* keyboard_get_event always returns; so does keyboard_getchar, unless keys go
\* on arriving for ever.
CallsReturn ==
  /\ (pc # "idle" /\ call = "event") ~> (pc = "idle")
  /\ \/ []<><<buffer_head' # buffer_head>>_keyVars
     \/ (pc # "idle") ~> (pc = "idle")

=============================================================================
