--------------------------- MODULE KeyboardProofs ---------------------------
(***************************************************************************)
(* Theorems about the keyboard driver for a ring of any size, any keys and *)
(* any character tables: interrupted between any two of its steps,         *)
(* buffer_pop takes the oldest event, once.                                *)
(***************************************************************************)
EXTENDS Keyboard, SequenceTheorems, TLAPS

-----------------------------------------------------------------------------
(* The ring                                                                *)

\* An index that ran past either end of the ring, by less than a turn.
WrapIndex(x) ==
  IF x < 0 THEN x + KEY_BUFFER_SIZE
  ELSE IF x < KEY_BUFFER_SIZE THEN x ELSE x - KEY_BUFFER_SIZE

LEMMA Wrapped ==
  ASSUME NEW x \in Int, -KEY_BUFFER_SIZE <= x, x < 2 * KEY_BUFFER_SIZE
  PROVE  x % KEY_BUFFER_SIZE = WrapIndex(x)
<1> DEFINE n == KEY_BUFFER_SIZE
<1>1. n \in Nat \ {0}
  BY KeyboardAssumption
<1> HIDE DEF n
<1>2. 0 <= x /\ x < n => x % n = x
  BY <1>1
<1>3. n <= x /\ x < 2 * n => x % n = x - n
  BY <1>1
<1>4. -n <= x /\ x < 0 => x % n = x + n
  BY <1>1
<1> QED
  BY <1>1, <1>2, <1>3, <1>4, KeyboardAssumption DEF WrapIndex, n

\* The index of the event that has i others before it.
Slot(i) == (buffer_tail + i - 1) % KEY_BUFFER_SIZE

Indexed == buffer_head \in Indices /\ buffer_tail \in Indices

LEMMA RingSize ==
  /\ KEY_BUFFER_SIZE \in Nat \ {0} /\ Indices = 0..(KEY_BUFFER_SIZE - 1)
  /\ Indices \subseteq Nat /\ 0 \in Indices
BY KeyboardAssumption DEF Indices

LEMMA NextIndexIs ==
  ASSUME NEW i \in Indices
  PROVE  /\ NextIndex(i) = IF i = KEY_BUFFER_SIZE - 1 THEN 0 ELSE i + 1
         /\ NextIndex(i) \in Indices
<1>1. /\ i \in Int /\ i + 1 \in Int /\ 0 <= i + 1 /\ i + 1 <= KEY_BUFFER_SIZE
      /\ KEY_BUFFER_SIZE \in Int /\ KEY_BUFFER_SIZE > 0
  BY RingSize
<1>2. NextIndex(i) = WrapIndex(i + 1)
  <2>1. -KEY_BUFFER_SIZE <= i + 1 /\ i + 1 < 2 * KEY_BUFFER_SIZE
    BY <1>1
  <2> QED
    BY <1>1, <2>1, Wrapped DEF NextIndex
<1>3. NextIndex(i) = IF i = KEY_BUFFER_SIZE - 1 THEN 0 ELSE i + 1
  BY <1>1, <1>2 DEF WrapIndex
<1> QED
  BY <1>1, <1>3, RingSize

LEMMA BeforeNextIndex ==
  ASSUME NEW i \in Indices
  PROVE  (NextIndex(i) - 1) % KEY_BUFFER_SIZE = i /\ (i - 1) % KEY_BUFFER_SIZE \in Indices
<1> DEFINE m == NextIndex(i)
<1>1. /\ i \in Int /\ i >= 0 /\ i < KEY_BUFFER_SIZE
      /\ KEY_BUFFER_SIZE \in Int /\ KEY_BUFFER_SIZE > 0
      /\ m \in Int /\ m = IF i = KEY_BUFFER_SIZE - 1 THEN 0 ELSE i + 1
  BY RingSize, NextIndexIs
<1> HIDE DEF m
<1>2. (m - 1) % KEY_BUFFER_SIZE = WrapIndex(m - 1) /\ (i - 1) % KEY_BUFFER_SIZE = WrapIndex(i - 1)
  <2>1. /\ m - 1 \in Int /\ -KEY_BUFFER_SIZE <= m - 1 /\ m - 1 < 2 * KEY_BUFFER_SIZE
        /\ i - 1 \in Int /\ -KEY_BUFFER_SIZE <= i - 1 /\ i - 1 < 2 * KEY_BUFFER_SIZE
    BY <1>1
  <2> QED
    BY <2>1, Wrapped
<1>3. WrapIndex(m - 1) = i /\ WrapIndex(i - 1) \in 0..(KEY_BUFFER_SIZE - 1)
  BY <1>1 DEF WrapIndex
<1> QED
  BY <1>2, <1>3, RingSize DEF m

LEMMA BeforeNextIndexOf ==
  ASSUME NEW i \in Indices, NEW j \in Indices, (j - 1) % KEY_BUFFER_SIZE = i
  PROVE  NextIndex(i) = j
<1>1. /\ i \in Int /\ j \in Int /\ i < KEY_BUFFER_SIZE /\ j < KEY_BUFFER_SIZE /\ i >= 0 /\ j >= 0
      /\ KEY_BUFFER_SIZE \in Int /\ KEY_BUFFER_SIZE > 0
  BY RingSize
<1>2. j - 1 \in Int /\ -KEY_BUFFER_SIZE <= j - 1 /\ j - 1 < 2 * KEY_BUFFER_SIZE
  BY <1>1
<1>3. WrapIndex(j - 1) = i
  BY <1>2, Wrapped
<1> QED
  BY <1>1, <1>3, NextIndexIs DEF WrapIndex

LEMMA WaitingIs ==
  ASSUME Indexed
  PROVE  /\ Waiting = IF buffer_tail <= buffer_head THEN buffer_head - buffer_tail
                      ELSE buffer_head - buffer_tail + KEY_BUFFER_SIZE
         /\ Waiting \in 0..(KEY_BUFFER_SIZE - 1)
         /\ Waiting = 0 <=> buffer_head = buffer_tail
<1> DEFINE d == buffer_head - buffer_tail
<1>1. /\ buffer_head \in Nat /\ buffer_tail \in Nat /\ d \in Int
      /\ buffer_head < KEY_BUFFER_SIZE /\ buffer_tail < KEY_BUFFER_SIZE
      /\ KEY_BUFFER_SIZE \in Int /\ KEY_BUFFER_SIZE > 0
      /\ -KEY_BUFFER_SIZE <= d /\ d < 2 * KEY_BUFFER_SIZE
  BY RingSize DEF Indexed
<1>2. Waiting = WrapIndex(d)
  BY <1>1, Wrapped DEF Waiting
<1> QED
  BY <1>1, <1>2 DEF WrapIndex

LEMMA SlotIs ==
  ASSUME Indexed, NEW i \in 1..KEY_BUFFER_SIZE
  PROVE  /\ Slot(i) = IF buffer_tail + i - 1 < KEY_BUFFER_SIZE THEN buffer_tail + i - 1
                      ELSE buffer_tail + i - 1 - KEY_BUFFER_SIZE
         /\ Slot(i) \in Indices
<1> DEFINE x == buffer_tail + i - 1
<1>1. /\ x \in Int /\ 0 <= x /\ x < 2 * KEY_BUFFER_SIZE /\ -KEY_BUFFER_SIZE <= x
      /\ KEY_BUFFER_SIZE \in Int /\ KEY_BUFFER_SIZE > 0
  BY RingSize DEF Indexed
<1>2. Slot(i) = WrapIndex(x)
  BY <1>1, Wrapped DEF Slot
<1> HIDE DEF x
<1>3. Slot(i) = (IF x < KEY_BUFFER_SIZE THEN x ELSE x - KEY_BUFFER_SIZE)
  BY <1>1, <1>2 DEF WrapIndex
<1>4. Slot(i) \in 0..(KEY_BUFFER_SIZE - 1)
  BY <1>1, <1>3
<1>5. Slot(i) \in Indices
  BY <1>4, RingSize
<1>6. buffer_tail \in Int /\ i \in Int /\ KEY_BUFFER_SIZE \in Int
  BY RingSize DEF Indexed
<1> QED
  BY <1>3, <1>5, <1>6 DEF x

\* The event after the last one that waits is put at buffer_head; the first one
\* is at buffer_tail.
LEMMA EndsOfRing ==
  ASSUME Indexed
  PROVE  /\ Slot(1) = buffer_tail
         /\ Waiting + 1 \in 1..KEY_BUFFER_SIZE /\ Slot(Waiting + 1) = buffer_head
         /\ \A i \in 1..Waiting : i \in 1..KEY_BUFFER_SIZE /\ Slot(i) # buffer_head
         /\ NextIndex(buffer_head) = buffer_tail <=> Waiting = KEY_BUFFER_SIZE - 1
<1>1. /\ buffer_head \in Nat /\ buffer_tail \in Nat
      /\ buffer_head < KEY_BUFFER_SIZE /\ buffer_tail < KEY_BUFFER_SIZE
      /\ KEY_BUFFER_SIZE \in Int /\ KEY_BUFFER_SIZE > 0
  BY RingSize DEF Indexed
<1> DEFINE n == Waiting
<1>2. /\ n = IF buffer_tail <= buffer_head THEN buffer_head - buffer_tail
             ELSE buffer_head - buffer_tail + KEY_BUFFER_SIZE
      /\ n \in 0..(KEY_BUFFER_SIZE - 1)
  BY WaitingIs
<1> HIDE DEF n
<1>3. n + 1 \in 1..KEY_BUFFER_SIZE /\ 1 \in 1..KEY_BUFFER_SIZE
  BY <1>1, <1>2
<1>4. \A i \in 1..KEY_BUFFER_SIZE :
        Slot(i) = IF buffer_tail + i - 1 < KEY_BUFFER_SIZE THEN buffer_tail + i - 1
                  ELSE buffer_tail + i - 1 - KEY_BUFFER_SIZE
  BY SlotIs
<1>5. Slot(1) = buffer_tail
  BY <1>1, <1>3, <1>4
<1>6. Slot(n + 1) = buffer_head
  BY <1>1, <1>2, <1>3, <1>4
<1>7. ASSUME NEW i \in 1..n PROVE i \in 1..KEY_BUFFER_SIZE /\ Slot(i) # buffer_head
  <2>1. i \in 1..KEY_BUFFER_SIZE
    BY <1>1, <1>2
  <2> QED
    BY <1>1, <1>2, <1>4, <2>1
<1>8. NextIndex(buffer_head) = buffer_tail <=> n = KEY_BUFFER_SIZE - 1
  <2>1. NextIndex(buffer_head) = IF buffer_head = KEY_BUFFER_SIZE - 1 THEN 0 ELSE buffer_head + 1
    BY NextIndexIs DEF Indexed
  <2> QED
    BY <1>1, <1>2, <2>1
<1> QED
  BY <1>3, <1>5, <1>6, <1>7, <1>8 DEF n

-----------------------------------------------------------------------------
(* The types                                                               *)

\* KeyTypeOK, with the ring as a function.
KeyTyped == KeyTypeOK /\ key_buffer \in [Indices -> Events \cup {NoEvent}]

\* What is about to be taken waits, and buffer_pop has copied the oldest event
\* when it goes on to take it.
PopInv ==
  /\ pc \in {"copy", "advance first", "advance"} => buffer_tail # buffer_head
  /\ pc = "advance" => event = key_buffer[buffer_tail]

KeyInv == KeyTyped /\ PopInv

LEMMA KeyEventIsEvent ==
  ASSUME KeyTyped, NEW key \in DOMAIN lower, NEW released \in BOOLEAN
  PROVE  KeyEvent(key, released) \in Events
<1>1. DOMAIN upper = DOMAIN lower /\ modifiers \in [ModifierNames -> BOOLEAN]
  BY KeyboardAssumption DEF KeyTyped, KeyTypeOK
<1> DEFINE chars == {lower[k] : k \in DOMAIN lower} \cup {upper[k] : k \in DOMAIN upper}
<1>2. lower[key] \in chars /\ upper[key] \in chars
  BY <1>1
<1> HIDE DEF chars
<1>3. ASSUME NEW c \in chars
      PROVE  [scancode |-> key, pressed |-> ~released, mods |-> modifiers, ascii |-> c] \in
               [scancode : DOMAIN lower, pressed : BOOLEAN, mods : [ModifierNames -> BOOLEAN],
                ascii : chars]
  BY <1>1
<1>4. Events = [scancode : DOMAIN lower, pressed : BOOLEAN, mods : [ModifierNames -> BOOLEAN],
                ascii : chars]
  BY DEF Events, chars
<1>5. \E c \in chars : KeyEvent(key, released) =
        [scancode |-> key, pressed |-> ~released, mods |-> modifiers, ascii |-> c]
  <2>1. CASE modifiers.shift # capslock_on
    BY <1>2, <2>1 DEF KeyEvent
  <2>2. CASE ~(modifiers.shift # capslock_on)
    BY <1>2, <2>2 DEF KeyEvent
  <2> QED
    BY <2>1, <2>2
<1> QED
  BY <1>3, <1>4, <1>5

\* The handler leaves the ring alone, pushes an event it has made, or drops it.
Pushed(new) ==
  /\ NextIndex(buffer_head) # buffer_tail
  /\ key_buffer' = [key_buffer EXCEPT ![buffer_head] = new]
  /\ buffer_head' = NextIndex(buffer_head)

Dropped ==
  /\ NextIndex(buffer_head) = buffer_tail
  /\ UNCHANGED <<key_buffer, buffer_head>>

LEMMA HandlerPushes ==
  ASSUME KeyTyped, keyboard_handler
  PROVE  /\ UNCHANGED mainVars
         /\ modifiers' \in [ModifierNames -> BOOLEAN] /\ capslock_on' \in BOOLEAN
         /\ offers' \in BOOLEAN
         /\ \/ UNCHANGED <<key_buffer, buffer_head, offers>>
            \/ /\ offers' = ~offers
               /\ \E new \in Events : Pushed(new) \/ Dropped
<1>1. PICK s \in Scancodes : \/ Modifier(s.key, s.released)
                             \/ CapsLock(s.key, s.released)
                             \/ OtherKey(s.key, s.released)
  BY DEF keyboard_handler
<1>2. s.released \in BOOLEAN
  BY KeyboardAssumption
<1>3. modifiers \in [ModifierNames -> BOOLEAN] /\ capslock_on \in BOOLEAN /\ UNCHANGED mainVars
      /\ offers \in BOOLEAN
  BY DEF KeyTyped, KeyTypeOK, keyboard_handler
<1>4. CASE Modifier(s.key, s.released)
  BY <1>2, <1>3, <1>4 DEF Modifier
<1>5. CASE CapsLock(s.key, s.released)
  <2>1. capslock_on' \in BOOLEAN
    BY <1>3, <1>5 DEF CapsLock
  <2> QED
    BY <1>3, <1>5, <2>1 DEF CapsLock
<1>6. CASE OtherKey(s.key, s.released)
  <2>1. KeyEvent(s.key, s.released) \in Events
    BY <1>2, <1>6, KeyEventIsEvent DEF OtherKey
  <2>2. Pushed(KeyEvent(s.key, s.released)) \/ Dropped
    BY <1>6 DEF OtherKey, buffer_push, Pushed, Dropped
  <2>3. /\ modifiers' = modifiers /\ capslock_on' = capslock_on
        /\ offers' = ~offers /\ offers' \in BOOLEAN
    BY <1>3, <1>6 DEF OtherKey
  <2> QED
    BY <1>3, <2>1, <2>2, <2>3
<1> QED
  BY <1>1, <1>4, <1>5, <1>6

LEMMA InitKeyInv == KeyInit => KeyInv
<1> SUFFICES ASSUME KeyInit PROVE KeyInv
  OBVIOUS
<1>1. /\ modifiers \in [ModifierNames -> BOOLEAN] /\ capslock_on \in BOOLEAN
      /\ key_buffer \in [Indices -> Events \cup {NoEvent}]
      /\ event = NoEvent /\ pc = "idle" /\ call = "event"
      /\ buffer_head \in Indices /\ buffer_tail \in Indices /\ offers \in BOOLEAN
  BY RingSize DEF KeyInit
<1> QED
  BY <1>1 DEF KeyInv, KeyTyped, KeyTypeOK, PopInv

LEMMA PushKeepsInv ==
  ASSUME KeyInv, keyboard_handler
  PROVE  KeyInv'
<1>1. KeyTyped /\ UNCHANGED mainVars
  BY HandlerPushes DEF KeyInv
<1>2. CASE UNCHANGED <<key_buffer, buffer_head>>
  BY <1>1, <1>2, HandlerPushes
     DEF KeyInv, KeyTyped, KeyTypeOK, PopInv, mainVars, Indices, Events, NoEvent, ModifierNames
<1>3. ASSUME NEW new \in Events, Pushed(new) PROVE KeyInv'
  <2>1. buffer_head \in Indices /\ key_buffer \in [Indices -> Events \cup {NoEvent}]
    BY <1>1 DEF KeyTyped, KeyTypeOK
  <2>2. /\ buffer_head' \in Indices /\ buffer_head' # buffer_tail
        /\ key_buffer' \in [Indices -> Events \cup {NoEvent}]
        /\ \A i \in Indices : i # buffer_head => key_buffer'[i] = key_buffer[i]
    BY <1>3, <2>1, NextIndexIs DEF Pushed
  <2>3. KeyTyped'
    BY <1>1, <2>2, HandlerPushes
       DEF KeyInv, KeyTyped, KeyTypeOK, mainVars, Indices, Events, NoEvent, ModifierNames
  <2>4. PopInv'
    BY <1>1, <2>2 DEF KeyInv, PopInv, mainVars, KeyTyped, KeyTypeOK
  <2> QED
    BY <2>3, <2>4 DEF KeyInv
<1> QED
  BY <1>1, <1>2, <1>3, HandlerPushes DEF Dropped

LEMMA MainKeepsInv ==
  ASSUME KeyInv, UNCHANGED irqVars, call' \in {"event", "char"},
         buffer_tail' \in Indices, event' \in Events \cup {NoEvent},
         pc' \in {"idle", "test", "copy", "advance", "advance first", "copy late", "return"},
         PopInv'
  PROVE  KeyInv'
BY DEF KeyInv, KeyTyped, KeyTypeOK, irqVars, Indices, Events, NoEvent, ModifierNames

LEMMA NextKeyInv == KeyInv /\ [KeyNext]_keyVars => KeyInv'
<1> SUFFICES ASSUME KeyInv, [KeyNext]_keyVars PROVE KeyInv'
  OBVIOUS
<1>1. /\ call \in {"event", "char"} /\ buffer_tail \in Indices /\ event \in Events \cup {NoEvent}
      /\ pc \in {"idle", "test", "copy", "advance", "advance first", "copy late", "return"}
      /\ \A i \in Indices : key_buffer[i] \in Events \cup {NoEvent}
  BY DEF KeyInv, KeyTyped, KeyTypeOK
<1>2. CASE UNCHANGED keyVars
  BY <1>1, <1>2, MainKeepsInv DEF keyVars, mainVars, irqVars, KeyInv, PopInv
<1>3. CASE keyboard_handler
  BY <1>3, PushKeepsInv
<1>4. ASSUME NEW function \in {"event", "char"}, Call(function) PROVE KeyInv'
  BY <1>1, <1>4, MainKeepsInv DEF Call, PopInv
<1>5. CASE Test
  BY <1>1, <1>5, MainKeepsInv DEF Test, PopInv, irqVars
<1>6. CASE Copy
  <2>1. event' \in Events \cup {NoEvent}
    BY <1>1, <1>6, BeforeNextIndex DEF Copy
  <2> QED
    BY <1>1, <1>6, <2>1, MainKeepsInv DEF Copy, KeyInv, PopInv, irqVars
<1>7. CASE Advance
  BY <1>1, <1>7, NextIndexIs, MainKeepsInv DEF Advance, PopInv
<1>8. CASE Return
  BY <1>1, <1>8, MainKeepsInv DEF Return, PopInv
<1> QED
  BY <1>2, <1>3, <1>4, <1>5, <1>6, <1>7, <1>8 DEF KeyNext, Main

\* Both indices stay inside the ring, and every slot of it holds an event of the
\* handler's making or nothing yet.
THEOREM KeyTypeCorrect == KeySpec => []KeyTypeOK
<1>1. KeyInv => KeyTypeOK
  BY DEF KeyInv, KeyTyped
<1> QED
  BY InitKeyInv, NextKeyInv, <1>1, PTL DEF KeySpec

-----------------------------------------------------------------------------
(* The ring is a queue                                                     *)

Items == Events \cup {NoEvent}

Ring == [i \in 1..Waiting |-> key_buffer[(buffer_tail + i - 1) % KEY_BUFFER_SIZE]]

\* The event buffer_pop has taken and not yet returned.
InHand ==
  CASE pc = "return" -> <<event>>
    [] pc = "copy late" -> <<key_buffer[(buffer_tail - 1) % KEY_BUFFER_SIZE]>>
    [] OTHER -> <<>>

\* What holds of the ring in every state, and so after every step as well.
RingFacts ==
  /\ Waiting = (IF buffer_tail <= buffer_head THEN buffer_head - buffer_tail
                ELSE buffer_head - buffer_tail + KEY_BUFFER_SIZE)
  /\ Waiting \in Nat /\ Waiting < KEY_BUFFER_SIZE
  /\ \A i \in 1..KEY_BUFFER_SIZE :
       Slot(i) = (IF buffer_tail + i - 1 < KEY_BUFFER_SIZE THEN buffer_tail + i - 1
                  ELSE buffer_tail + i - 1 - KEY_BUFFER_SIZE)
  /\ buffer_head \in Nat /\ buffer_head < KEY_BUFFER_SIZE
  /\ buffer_tail \in Nat /\ buffer_tail < KEY_BUFFER_SIZE
  /\ Ring \in Seq(Items) /\ Len(Ring) = Waiting
  /\ \A i \in 1..Waiting : Ring[i] = key_buffer[Slot(i)]

LEMMA RingIsSequence == KeyInv => RingFacts
<1> SUFFICES ASSUME KeyInv PROVE RingFacts
  OBVIOUS
<1>1. Indexed /\ key_buffer \in [Indices -> Items]
  BY DEF KeyInv, KeyTyped, KeyTypeOK, Indexed, Items
<1>2. /\ Waiting \in Nat /\ Waiting < KEY_BUFFER_SIZE
      /\ Waiting = (IF buffer_tail <= buffer_head THEN buffer_head - buffer_tail
                    ELSE buffer_head - buffer_tail + KEY_BUFFER_SIZE)
  BY <1>1, WaitingIs, RingSize
<1>3. \A i \in 1..Waiting : Slot(i) \in Indices
  BY <1>1, EndsOfRing, SlotIs
<1>4. Ring = [i \in 1..Waiting |-> key_buffer[Slot(i)]]
  BY DEF Ring, Slot
<1> DEFINE n == Waiting
           at(i) == key_buffer[Slot(i)]
<1>5. \A i \in 1..n : at(i) \in Items
  BY <1>1, <1>3
<1> HIDE DEF n, at
<1>6. [i \in 1..n |-> at(i)] \in Seq(Items) /\ Len([i \in 1..n |-> at(i)]) = n
  BY <1>2, <1>5 DEF n
<1>7. Ring \in Seq(Items) /\ Len(Ring) = Waiting
  BY <1>4, <1>6 DEF n, at
<1>8. \A i \in 1..Waiting : Ring[i] = key_buffer[Slot(i)]
  BY <1>4
<1>9. \A i \in 1..KEY_BUFFER_SIZE :
        Slot(i) = (IF buffer_tail + i - 1 < KEY_BUFFER_SIZE THEN buffer_tail + i - 1
                   ELSE buffer_tail + i - 1 - KEY_BUFFER_SIZE)
  BY <1>1, SlotIs
<1>10. /\ buffer_head \in Nat /\ buffer_head < KEY_BUFFER_SIZE
       /\ buffer_tail \in Nat /\ buffer_tail < KEY_BUFFER_SIZE
  BY <1>1, RingSize DEF Indexed
<1> QED
  BY <1>2, <1>7, <1>8, <1>9, <1>10 DEF RingFacts

LEMMA RingIsSequenceNext == KeyInv' => RingFacts'
BY RingIsSequence, PTL

LEMMA ConstantItems ==
  Items' = Items
BY DEF Items, Events, NoEvent, ModifierNames

\* An event that is pushed comes last.
LEMMA PushAppends ==
  ASSUME KeyInv, KeyInv', NEW new \in Events, Pushed(new), UNCHANGED buffer_tail
  PROVE  /\ Ring' = Append(Ring, new) /\ Len(Ring) < KEY_BUFFER_SIZE - 1
         /\ (buffer_tail - 1) % KEY_BUFFER_SIZE # buffer_head
<1>1. RingFacts /\ RingFacts' /\ Indexed /\ KEY_BUFFER_SIZE \in Nat \ {0}
  BY RingIsSequence, RingIsSequenceNext, RingSize DEF KeyInv, KeyTyped, KeyTypeOK, Indexed
<1>2. /\ buffer_head' = NextIndex(buffer_head) /\ NextIndex(buffer_head) # buffer_tail
      /\ NextIndex(buffer_head) = IF buffer_head = KEY_BUFFER_SIZE - 1 THEN 0 ELSE buffer_head + 1
      /\ key_buffer' = [key_buffer EXCEPT ![buffer_head] = new]
  BY <1>1, NextIndexIs DEF Pushed, Indexed
<1>3. Waiting' = Waiting + 1 /\ Waiting < KEY_BUFFER_SIZE - 1
  BY <1>1, <1>2 DEF RingFacts
<1>4. \A i : Slot(i)' = Slot(i)
  BY DEF Slot
<1>5. /\ key_buffer'[buffer_head] = new
      /\ \A i \in Indices : i # buffer_head => key_buffer'[i] = key_buffer[i]
  BY <1>1, <1>2 DEF KeyInv, KeyTyped, Indexed
<1>6. /\ Ring' \in Seq(Items) /\ Len(Ring') = Waiting + 1
      /\ \A i \in 1..(Waiting + 1) : Ring'[i] = key_buffer'[Slot(i)]
  BY <1>1, <1>3, <1>4, ConstantItems DEF RingFacts
<1>7. \A i \in 1..Waiting : Ring'[i] = Ring[i]
  <2> SUFFICES ASSUME NEW i \in 1..Waiting PROVE Ring'[i] = Ring[i]
    OBVIOUS
  <2>1. i \in 1..(Waiting + 1) /\ i \in 1..KEY_BUFFER_SIZE /\ Slot(i) # buffer_head /\ Slot(i) \in Indices
    BY <1>1, EndsOfRing, SlotIs DEF RingFacts
  <2>2. Ring[i] = key_buffer[Slot(i)]
    BY <1>1 DEF RingFacts
  <2> QED
    BY <1>5, <1>6, <2>1, <2>2
<1>8. Ring'[Waiting + 1] = new
  <2>1. Slot(Waiting + 1) = buffer_head /\ Waiting + 1 \in 1..(Waiting + 1)
    BY <1>1, EndsOfRing DEF RingFacts
  <2> QED
    BY <1>5, <1>6, <2>1
<1>9. Ring' = Append(Ring, new)
  <2>1. Ring \in Seq(Items) /\ Len(Ring) = Waiting /\ Waiting \in Nat /\ new \in Items
    BY <1>1 DEF RingFacts, Items
  <2>2. /\ Append(Ring, new) \in Seq(Items) /\ Len(Append(Ring, new)) = Waiting + 1
        /\ \A i \in 1..Waiting : Append(Ring, new)[i] = Ring[i]
        /\ Append(Ring, new)[Waiting + 1] = new
    BY <2>1, AppendProperties
  <2>3. \A i \in 1..(Waiting + 1) : i \in 1..Waiting \/ i = Waiting + 1
    BY <2>1
  <2>4. \A i \in 1..Len(Ring') : Ring'[i] = Append(Ring, new)[i]
    BY <1>6, <1>7, <1>8, <2>2, <2>3
  <2> QED
    BY <1>6, <2>2, <2>4, SeqEqual
<1>10. (buffer_tail - 1) % KEY_BUFFER_SIZE # buffer_head
  BY <1>1, <1>2, BeforeNextIndexOf DEF Indexed
<1> QED
  BY <1>1, <1>3, <1>9, <1>10 DEF RingFacts

\* Moving buffer_tail on takes the first event off.
LEMMA AdvanceTakes ==
  ASSUME KeyInv, KeyInv', buffer_tail # buffer_head,
         buffer_tail' = NextIndex(buffer_tail), UNCHANGED <<key_buffer, buffer_head>>
  PROVE  /\ Ring # <<>> /\ Head(Ring) = key_buffer[buffer_tail] /\ Ring' = Tail(Ring)
         /\ (buffer_tail' - 1) % KEY_BUFFER_SIZE = buffer_tail
<1>1. RingFacts /\ RingFacts' /\ Indexed /\ KEY_BUFFER_SIZE \in Nat \ {0}
  BY RingIsSequence, RingIsSequenceNext, RingSize DEF KeyInv, KeyTyped, KeyTypeOK, Indexed
<1>2. buffer_tail' = IF buffer_tail = KEY_BUFFER_SIZE - 1 THEN 0 ELSE buffer_tail + 1
  BY <1>1, NextIndexIs DEF Indexed
<1>3. Waiting' = Waiting - 1 /\ Waiting >= 1
  BY <1>1, <1>2 DEF RingFacts
<1>4. ASSUME NEW i \in 1..(Waiting - 1) PROVE Slot(i)' = Slot(i + 1)
  <2>1. i \in 1..KEY_BUFFER_SIZE /\ i + 1 \in 1..KEY_BUFFER_SIZE
    BY <1>1, <1>3 DEF RingFacts
  <2> QED
    BY <1>1, <1>2, <2>1 DEF RingFacts
<1>5. Ring \in Seq(Items) /\ Len(Ring) = Waiting /\ Waiting \in Nat /\ Ring # <<>>
  BY <1>1, <1>3 DEF RingFacts
<1>6. /\ Tail(Ring) \in Seq(Items) /\ Len(Tail(Ring)) = Waiting - 1
      /\ \A i \in 1..(Waiting - 1) : Tail(Ring)[i] = Ring[i + 1]
  BY <1>5, HeadTailProperties
<1>7. /\ Ring' \in Seq(Items) /\ Len(Ring') = Waiting - 1
      /\ \A i \in 1..(Waiting - 1) : Ring'[i] = key_buffer[Slot(i + 1)]
  BY <1>1, <1>3, <1>4, ConstantItems DEF RingFacts
<1>8. \A i \in 1..(Waiting - 1) : Ring[i + 1] = key_buffer[Slot(i + 1)]
  <2> SUFFICES ASSUME NEW i \in 1..(Waiting - 1) PROVE Ring[i + 1] = key_buffer[Slot(i + 1)]
    OBVIOUS
  <2>1. i + 1 \in 1..Waiting
    BY <1>5
  <2> QED
    BY <1>1, <2>1 DEF RingFacts
<1>9. Ring' = Tail(Ring)
  <2>1. \A i \in 1..Len(Ring') : Ring'[i] = Tail(Ring)[i]
    BY <1>6, <1>7, <1>8
  <2> QED
    BY <1>6, <1>7, <2>1, SeqEqual
<1>10. Head(Ring) = key_buffer[buffer_tail]
  <2>1. Head(Ring) = Ring[1] /\ 1 \in 1..Waiting
    BY <1>3, <1>5
  <2> QED
    BY <1>1, <2>1, EndsOfRing DEF RingFacts
<1>11. (buffer_tail' - 1) % KEY_BUFFER_SIZE = buffer_tail
  BY <1>1, BeforeNextIndex DEF Indexed
<1> QED
  BY <1>5, <1>9, <1>10, <1>11

LEMMA SameRing ==
  ASSUME UNCHANGED <<key_buffer, buffer_head, buffer_tail>>
  PROVE  Ring' = Ring
<1>1. Waiting' = Waiting
  BY DEF Waiting
<1> QED
  BY <1>1 DEF Ring

\* An interrupt leaves what buffer_pop has taken alone: it does not write the slot
\* before buffer_tail.
LEMMA HandlerKeepsInHand ==
  ASSUME KeyInv, UNCHANGED mainVars,
         \/ UNCHANGED key_buffer
         \/ \E new : /\ key_buffer' = [key_buffer EXCEPT ![buffer_head] = new]
                     /\ (buffer_tail - 1) % KEY_BUFFER_SIZE # buffer_head
  PROVE  InHand' = InHand
<1> DEFINE before == (buffer_tail - 1) % KEY_BUFFER_SIZE
<1>1. before \in Indices /\ buffer_head \in Indices /\ key_buffer \in [Indices -> Items]
  BY BeforeNextIndex DEF KeyInv, KeyTyped, KeyTypeOK, Items
<1>2. key_buffer'[before] = key_buffer[before]
  BY <1>1
<1>3. pc' = pc /\ event' = event /\ buffer_tail' = buffer_tail
  BY DEF mainVars
<1> QED
  BY <1>2, <1>3 DEF InHand

LEMMA InHandIs ==
  /\ pc = "return" => InHand = <<event>>
  /\ pc = "copy late" => InHand = <<key_buffer[(buffer_tail - 1) % KEY_BUFFER_SIZE]>>
  /\ pc \notin {"return", "copy late"} => InHand = <<>>
BY DEF InHand

LEMMA InHandIsNext ==
  /\ pc' = "return" => InHand' = <<event'>>
  /\ pc' = "copy late" => InHand' = <<key_buffer'[(buffer_tail' - 1) % KEY_BUFFER_SIZE]>>
  /\ pc' \notin {"return", "copy late"} => InHand' = <<>>
BY DEF InHand

\* Interrupts between any two steps of buffer_pop, in either order of its two
\* assignments, never make it return an event twice, out of order or overwritten, and no event is
\* dropped while there is room for it.
THEOREM RingImplementsQueue == KeySpec => ImplementsQueue
<1>1. KeyInit => Queue!Init
  <2> SUFFICES ASSUME KeyInit PROVE Ring = <<>> /\ InHand = <<>>
    BY DEF Queue!Init, Ring, InHand, KeyInit
  <2>1. KeyInv /\ buffer_head = buffer_tail /\ pc = "idle"
    BY InitKeyInv DEF KeyInit
  <2>2. Ring \in Seq(Items) /\ Len(Ring) = 0
    BY <2>1, RingIsSequence, WaitingIs DEF RingFacts, KeyInv, KeyTyped, KeyTypeOK, Indexed
  <2> QED
    BY <2>1, <2>2, InHandIs
<1>2. KeyInv /\ KeyInv' /\ [KeyNext]_keyVars => [Queue!Next]_<<Ring, InHand, offers>>
  <2> SUFFICES ASSUME KeyInv, KeyInv', KeyNext
               PROVE  Queue!Next \/ (Ring' = Ring /\ InHand' = InHand /\ offers' = offers)
    <3>1. UNCHANGED keyVars => Ring' = Ring /\ InHand' = InHand /\ offers' = offers
      BY SameRing DEF keyVars, irqVars, mainVars, InHand
    <3> QED
      BY <3>1
  <2>1. CASE keyboard_handler
    <3>1. KeyTyped /\ UNCHANGED mainVars /\ UNCHANGED buffer_tail
      BY <2>1, HandlerPushes DEF KeyInv, mainVars
    <3>2. UNCHANGED <<key_buffer, buffer_head>> => Ring' = Ring /\ InHand' = InHand
      BY <3>1, SameRing, HandlerKeepsInHand
    <3>3. ASSUME NEW new \in Events, Pushed(new), offers' = ~offers PROVE Queue!Next
      <4>1. /\ Ring' = Append(Ring, new) /\ Len(Ring) < KEY_BUFFER_SIZE - 1
            /\ (buffer_tail - 1) % KEY_BUFFER_SIZE # buffer_head
        BY <3>1, <3>3, PushAppends
      <4>2. InHand' = InHand
        BY <3>1, <3>3, <4>1, HandlerKeepsInHand DEF Pushed
      <4>3. Queue!Offer(new)
        BY <3>3, <4>1, <4>2 DEF Queue!Offer, Ring, InHand
      <4> QED
        BY <4>3 DEF Queue!Next
    <3>4. ASSUME NEW new \in Events, Dropped, offers' = ~offers PROVE Queue!Next
      <4>1. Len(Ring) = KEY_BUFFER_SIZE - 1
        BY <3>4, RingIsSequence, EndsOfRing
           DEF Dropped, RingFacts, KeyInv, KeyTyped, KeyTypeOK, Indexed
      <4>2. Ring' = Ring /\ InHand' = InHand /\ ~(Len(Ring) < KEY_BUFFER_SIZE - 1)
        BY <3>2, <3>4, <4>1, RingSize DEF Dropped
      <4>3. Queue!Offer(new)
        BY <3>4, <4>2 DEF Queue!Offer, Ring, InHand
      <4> QED
        BY <4>3 DEF Queue!Next
    <3> QED
      BY <2>1, <3>1, <3>2, <3>3, <3>4, HandlerPushes
  <2>2. CASE Test \/ \E function \in {"event", "char"} : Call(function)
    <3>1. /\ UNCHANGED irqVars /\ UNCHANGED buffer_tail /\ UNCHANGED offers
          /\ pc \notin {"return", "copy late"} /\ pc' \notin {"return", "copy late"}
      BY <2>2 DEF Test, Call, irqVars
    <3>2. Ring' = Ring
      BY <3>1, SameRing DEF irqVars
    <3> QED
      BY <3>1, <3>2, InHandIs, InHandIsNext
  <2>3. CASE Copy
    <3>1. Ring' = Ring /\ offers' = offers
      BY <2>3, SameRing DEF Copy, irqVars
    <3>2. InHand' = InHand
      BY <2>3, InHandIs, InHandIsNext DEF Copy
    <3> QED
      BY <3>1, <3>2
  <2>4. CASE Advance
    <3>1. /\ buffer_tail # buffer_head /\ buffer_tail' = NextIndex(buffer_tail)
          /\ UNCHANGED <<key_buffer, buffer_head, offers>> /\ event' = event
          /\ pc = "advance" => event = key_buffer[buffer_tail]
      BY <2>4 DEF Advance, irqVars, KeyInv, PopInv
    <3>2. /\ Ring # <<>> /\ Head(Ring) = key_buffer[buffer_tail] /\ Ring' = Tail(Ring)
          /\ (buffer_tail' - 1) % KEY_BUFFER_SIZE = buffer_tail
      BY <3>1, AdvanceTakes
    <3>3. InHand = <<>> /\ InHand' = <<Head(Ring)>>
      BY <2>4, <3>1, <3>2, InHandIs, InHandIsNext DEF Advance
    <3>4. Queue!Take
      BY <3>1, <3>2, <3>3 DEF Queue!Take, Ring, InHand
    <3> QED
      BY <3>4 DEF Queue!Next
  <2>5. CASE Return
    <3>1. Ring' = Ring /\ offers' = offers
      BY <2>5, SameRing DEF Return, irqVars
    <3>2. InHand = <<event>> /\ InHand' = <<>>
      BY <2>5, InHandIs, InHandIsNext DEF Return
    <3>3. Queue!Deliver
      BY <3>1, <3>2 DEF Queue!Deliver, Ring, InHand
    <3> QED
      BY <3>3 DEF Queue!Next
  <2> QED
    BY <2>1, <2>2, <2>3, <2>4, <2>5 DEF KeyNext, Main
<1> QED
  BY InitKeyInv, NextKeyInv, <1>1, <1>2, PTL DEF KeySpec, ImplementsQueue, Queue!Spec, Ring, InHand
=============================================================================
