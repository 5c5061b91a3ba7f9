------------------------ MODULE WindowManagerProofs -------------------------
(***************************************************************************)
(* Theorems about the window table for any number of windows, any sizes,   *)
(* flags, positions and decorations, and any bound on top_z_order.         *)
(***************************************************************************)
EXTENDS WindowManager, WellFoundedInduction, FiniteSetTheorems, TLAPS

\* The strengthening: no window lies above top_z_order, so the next one raised
\* lies above all; and with one window at each height, the search for the
\* highest finds one.
NoneAboveTop == \A i \in UsedSlots : windows[i].z_order <= top_z_order

WmInv == WmTypeOK /\ NoneAboveTop /\ ZOrderUnique /\ FocusedExists

-----------------------------------------------------------------------------
(* The searches                                                            *)

\* A non-empty set of naturals has a least member, from the well-foundedness of <.
LEMMA LeastNatural ==
  ASSUME NEW S, S \subseteq Nat, S # {}
  PROVE  \E n \in S : \A m \in S : n <= m
<1>1. PICK n \in S : \A m \in S : ~(<<m, n>> \in OpToRel(<, Nat))
  BY NatLessThanWellFounded, WFMin, Zenon
<1>2. \A m \in S : ~(m < n)
  BY <1>1, Zenon DEF OpToRel
<1> QED
  BY <1>2

LEMMA SlotsOfWindows ==
  /\ Slots \subseteq Nat /\ -1 \notin Slots
  /\ UsedSlots \subseteq Slots /\ Visible \subseteq UsedSlots
BY WindowAssumption DEF Slots, UsedSlots, Visible

\* The slot wm_create_window takes is a slot, and free.
LEMMA FreeSlotIsFree ==
  ASSUME FreeSlot # -1
  PROVE  FreeSlot \in Slots /\ FreeSlot \notin UsedSlots
<1> DEFINE free == Slots \ UsedSlots
<1>1. free # {} /\ free \subseteq Nat
  BY SlotsOfWindows DEF FreeSlot
<1>2. \E i \in free : \A j \in free : i <= j
  BY <1>1, LeastNatural
<1>3. FreeSlot = CHOOSE i \in free : \A j \in free : i <= j
  BY <1>1 DEF FreeSlot
<1>4. FreeSlot \in free
  BY <1>2, <1>3
<1> QED
  BY <1>4

\* The highest of a set of windows is one of them.
LEMMA HighestIsMember ==
  ASSUME WmTypeOK, NoneAboveTop, ZOrderUnique,
         NEW S, S \subseteq UsedSlots, S # {}
  PROVE  Highest(S) \in S
<1> DEFINE Depth(i) == top_z_order - windows[i].z_order
           Depths == {Depth(i) : i \in S}
           Tops(i) == \A j \in S : \/ windows[j].z_order < windows[i].z_order
                                   \/ windows[j].z_order = windows[i].z_order /\ i <= j
<1>1. top_z_order \in Nat /\ \A i \in S : windows[i].z_order \in Nat
  BY SlotsOfWindows DEF WmTypeOK, window_t
<1>2. \A i \in S : Depth(i) \in Nat
  BY <1>1 DEF NoneAboveTop
<1>3. PICK i \in S : \A j \in S : Depth(i) <= Depth(j)
  <2>1. Depths \subseteq Nat /\ Depths # {}
    BY <1>2
  <2>2. PICK d \in Depths : \A e \in Depths : d <= e
    BY <2>1, LeastNatural
  <2> QED
    BY <2>2
<1>4. Tops(i)
  <2> SUFFICES ASSUME NEW j \in S
               PROVE  \/ windows[j].z_order < windows[i].z_order
                      \/ windows[j].z_order = windows[i].z_order /\ i <= j
    OBVIOUS
  <2>1. windows[j].z_order <= windows[i].z_order
    BY <1>1, <1>3
  <2>2. windows[j].z_order = windows[i].z_order => i = j
    BY DEF ZOrderUnique
  <2>3. i \in Nat
    BY SlotsOfWindows
  <2>4. CASE i = j
    BY <2>3, <2>4
  <2>5. CASE i # j
    BY <1>1, <2>1, <2>2, <2>5
  <2> QED
    BY <2>4, <2>5
<1>5. Highest(S) = CHOOSE k \in S : Tops(k)
  BY Zenon DEF Highest
<1> HIDE DEF Tops
<1> QED
  BY <1>4, <1>5

\* So the focus that wm_destroy_window falls back to is on another window.
LEMMA FallbackExists ==
  ASSUME WmInv, NEW i
  PROVE  Highest(Visible \ {i}) \in (UsedSlots \ {i}) \cup {-1}
<1>1. CASE Visible \ {i} = {}
  BY <1>1 DEF Highest
<1>2. CASE Visible \ {i} # {}
  <2>1. Highest(Visible \ {i}) \in Visible \ {i}
    BY <1>2, SlotsOfWindows, HighestIsMember DEF WmInv
  <2> QED
    BY <2>1, SlotsOfWindows
<1> QED
  BY <1>1, <1>2

LEMMA WindowAtIsUsed ==
  ASSUME WmInv, NEW p, wm_window_at(p) # -1
  PROVE  wm_window_at(p) \in UsedSlots
<1> DEFINE hit == {i \in Visible : point_in_window(windows[i], p)}
<1>1. wm_window_at(p) = Highest(hit)
  BY DEF wm_window_at
<1>2. hit \subseteq UsedSlots
  BY SlotsOfWindows
<1> HIDE DEF hit
<1>3. hit # {}
  BY <1>1 DEF Highest
<1>4. Highest(hit) \in hit
  BY <1>2, <1>3, HighestIsMember DEF WmInv
<1> QED
  BY <1>1, <1>2, <1>4

-----------------------------------------------------------------------------
(* The two ways in which a step changes the stacking order                 *)

WmTyped == WmTypeOK /\ (focused_window = -1 \/ focused_window \in UsedSlots)

\* It leaves it alone, and may take windows away.
LEMMA SameOrder ==
  ASSUME WmInv, WmTyped', top_z_order' = top_z_order,
         \A k \in Slots : /\ window_used'[k] => window_used[k]
                          /\ windows'[k].z_order = windows[k].z_order
  PROVE  WmInv'
<1>1. UsedSlots' \subseteq UsedSlots
  BY DEF UsedSlots, Slots
<1>2. \A k \in UsedSlots' : windows'[k].z_order = windows[k].z_order
  BY SlotsOfWindows, <1>1
<1>3. NoneAboveTop' /\ ZOrderUnique'
  BY <1>1, <1>2 DEF WmInv, NoneAboveTop, ZOrderUnique
<1> QED
  BY <1>3 DEF WmInv, WmTyped, FocusedExists

\* It puts one window above all the others.
LEMMA OnTop ==
  ASSUME WmInv, WmTyped', NEW i \in Slots,
         top_z_order' > top_z_order, windows'[i].z_order = top_z_order',
         \A k \in Slots \ {i} : window_used'[k] => window_used[k],
         \A k \in Slots \ {i} : windows'[k].z_order = windows[k].z_order
  PROVE  WmInv'
<1>1. UsedSlots' \subseteq UsedSlots \cup {i}
  BY DEF UsedSlots, Slots
<1>2. \A k \in UsedSlots' \ {i} :
        k \in UsedSlots /\ windows'[k].z_order = windows[k].z_order
  BY SlotsOfWindows, <1>1
<1>3. /\ top_z_order \in Nat /\ top_z_order' \in Nat
      /\ \A k \in UsedSlots : windows[k].z_order \in Nat
  BY SlotsOfWindows DEF WmInv, WmTyped, WmTypeOK, window_t
<1>4. \A k \in UsedSlots' \ {i} : windows'[k].z_order < windows'[i].z_order
  BY <1>2, <1>3 DEF WmInv, NoneAboveTop
<1>5. NoneAboveTop'
  <2> SUFFICES ASSUME NEW k \in UsedSlots' PROVE windows'[k].z_order <= top_z_order'
    BY DEF NoneAboveTop
  <2>1. CASE k = i
    BY <2>1, <1>3
  <2>2. CASE k # i
    <3>1. k \in UsedSlots /\ windows'[k].z_order = windows[k].z_order
      BY <2>2, <1>2
    <3> QED
      BY <3>1, <1>3 DEF WmInv, NoneAboveTop
  <2> QED
    BY <2>1, <2>2
<1>6. ZOrderUnique'
  <2> SUFFICES ASSUME NEW j \in UsedSlots', NEW k \in UsedSlots',
                      windows'[j].z_order = windows'[k].z_order
               PROVE  j = k
    BY DEF ZOrderUnique
  <2>1. \A m \in UsedSlots' \ {i} : windows'[m].z_order \in Nat
    BY <1>2, <1>3
  <2>2. windows'[i].z_order \in Nat
    BY <1>3
  <2>3. CASE j = i \/ k = i
    BY <2>1, <2>2, <2>3, <1>4
  <2>4. CASE j # i /\ k # i
    BY <2>4, <1>2 DEF WmInv, ZOrderUnique
  <2> QED
    BY <2>3, <2>4
<1> QED
  BY <1>5, <1>6 DEF WmInv, WmTyped, FocusedExists
-----------------------------------------------------------------------------
(* The operations                                                          *)

LEMMA CreateKeepsInv ==
  ASSUME WmInv, NEW at \in Points, NEW size \in Sizes, NEW flags \in FlagSets,
         wm_create_window(at, size, flags)
  PROVE  WmInv'
<1> DEFINE slot == FreeSlot
           new == [windows[slot] EXCEPT
                     !.x = at.x, !.y = at.y, !.width = size.width, !.height = size.height,
                     !.flags = flags, !.z_order = top_z_order + 2, !.is_dragging = FALSE]
<1>1. slot \in Slots /\ slot \notin UsedSlots
  BY FreeSlotIsFree DEF wm_create_window
<1>2. windows[slot] \in window_t /\ top_z_order \in Nat
  BY <1>1 DEF WmInv, WmTypeOK
<1>3. new \in window_t /\ new.z_order = top_z_order + 2
  <2>1. at.x \in Int /\ at.y \in Int /\ size.width \in Nat /\ size.height \in Nat
    BY WindowAssumption
  <2>2. flags \in SUBSET {"visible", "movable", "closable"}
    BY WindowAssumption
  <2> DEFINE z == top_z_order + 2
  <2>3. z \in Nat
    BY <1>2
  <2> HIDE DEF z, slot
  <2> QED
    BY <1>2, <2>1, <2>2, <2>3 DEF window_t, z
<1>4. windows' = [windows EXCEPT ![slot] = new]
  BY DEF wm_create_window
<1> HIDE DEF new
<1>5. /\ window_used' = [window_used EXCEPT ![slot] = TRUE]
      /\ focused_window' = slot /\ top_z_order' = top_z_order + 2
      /\ prev_left_btn' = prev_left_btn
  BY DEF wm_create_window
<1> HIDE DEF slot
<1>6. WmTyped'
  <2>1. WmTypeOK'
    BY <1>1, <1>2, <1>3, <1>4, <1>5 DEF WmInv, WmTypeOK, Slots
  <2>2. slot \in UsedSlots'
    BY <1>1, <1>5 DEF WmInv, WmTypeOK, UsedSlots, Slots
  <2> QED
    BY <2>1, <2>2, <1>5 DEF WmTyped
<1>7. windows'[slot].z_order = top_z_order' /\ top_z_order' > top_z_order
  BY <1>1, <1>2, <1>3, <1>4, <1>5 DEF WmInv, WmTypeOK
<1>8. \A k \in Slots \ {slot} : window_used'[k] => window_used[k]
  BY <1>5 DEF WmInv, WmTypeOK
<1>9. \A k \in Slots \ {slot} : windows'[k].z_order = windows[k].z_order
  BY <1>4 DEF WmInv, WmTypeOK
<1> QED
  BY <1>1, <1>6, <1>7, <1>8, <1>9, OnTop

LEMMA DestroyKeepsInv ==
  ASSUME WmInv, NEW i \in Slots, wm_destroy_window(i)
  PROVE  WmInv'
<1>1. focused_window' \in (UsedSlots \ {i}) \cup {-1}
  BY FallbackExists DEF wm_destroy_window, NextFocus, WmInv, WmTypeOK, FocusedExists
<1>2. UsedSlots' = UsedSlots \ {i}
  BY DEF wm_destroy_window, UsedSlots, Slots, WmInv, WmTypeOK
<1>3. WmTyped'
  BY <1>1, <1>2, SlotsOfWindows DEF wm_destroy_window, WmTyped, WmInv, WmTypeOK, Slots
<1>4. \A k \in Slots : /\ window_used'[k] => window_used[k]
                        /\ windows'[k].z_order = windows[k].z_order
  BY DEF wm_destroy_window, WmInv, WmTypeOK
<1> QED
  BY <1>3, <1>4, SameOrder DEF wm_destroy_window

\* Raising a window: what wm_focus_window and a click have in common.
LEMMA RaisedKeepsInv ==
  ASSUME WmInv, NEW i \in UsedSlots, NEW win \in window_t,
         windows' = Raised(i, win), top_z_order' = top_z_order + 1,
         window_used' \in [Slots -> BOOLEAN],
         \A k \in Slots : window_used'[k] => window_used[k],
         focused_window' = -1 \/ focused_window' \in UsedSlots',
         prev_left_btn' \in BOOLEAN
  PROVE  WmInv'
<1> DEFINE top == [win EXCEPT !.z_order = top_z_order + 1]
<1>1. i \in Slots /\ top_z_order \in Nat
  BY SlotsOfWindows DEF WmInv, WmTypeOK
<1>2. top \in window_t /\ top.z_order = top_z_order + 1
  BY <1>1 DEF window_t
<1>3. windows' = [windows EXCEPT ![i] = top]
  BY DEF Raised
<1> HIDE DEF top
<1>4. UsedSlots' \subseteq Slots
  BY DEF UsedSlots, Slots
<1>5. WmTyped'
  <2>1. (windows \in [Slots -> window_t])' /\ top_z_order' \in Nat
    BY <1>1, <1>2, <1>3 DEF WmInv, WmTypeOK, Slots
  <2>2. (window_used \in [Slots -> BOOLEAN])' /\ (focused_window \in Slots \cup {-1})'
    BY <1>4 DEF Slots
  <2> QED
    BY <2>1, <2>2 DEF WmTyped, WmTypeOK
<1>6. windows'[i].z_order = top_z_order' /\ top_z_order' > top_z_order
  BY <1>1, <1>2, <1>3 DEF WmInv, WmTypeOK
<1>7. \A k \in Slots \ {i} : windows'[k].z_order = windows[k].z_order
  BY <1>3 DEF WmInv, WmTypeOK
<1> QED
  BY <1>1, <1>5, <1>6, <1>7, OnTop

LEMMA FocusKeepsInv ==
  ASSUME WmInv, NEW i \in Slots, wm_focus_window(i)
  PROVE  WmInv'
<1>1. i \in UsedSlots /\ windows[i] \in window_t
  BY DEF wm_focus_window, WmInv, WmTypeOK
<1>2. UsedSlots' = UsedSlots /\ window_used' \in [Slots -> BOOLEAN]
  BY DEF wm_focus_window, UsedSlots, Slots, WmInv, WmTypeOK
<1> QED
  BY <1>1, <1>2, RaisedKeepsInv DEF wm_focus_window, WmInv, WmTypeOK

\* wm_set_position, wm_set_size, wm_set_visible, and a drag, leave the heights alone.
LEMMA ReplacedKeepsInv ==
  ASSUME WmInv, NEW i \in UsedSlots, NEW win \in window_t,
         win.z_order = windows[i].z_order,
         windows' = [windows EXCEPT ![i] = win],
         UNCHANGED <<window_used, focused_window, top_z_order>>,
         prev_left_btn' \in BOOLEAN
  PROVE  WmInv'
<1>1. i \in Slots
  BY SlotsOfWindows
<1>2. UsedSlots' = UsedSlots
  BY DEF UsedSlots, Slots
<1>3. WmTyped'
  BY <1>1, <1>2 DEF WmTyped, WmInv, WmTypeOK, FocusedExists, Slots
<1>4. \A k \in Slots : windows'[k].z_order = windows[k].z_order
  BY <1>1 DEF WmInv, WmTypeOK
<1> QED
  BY <1>3, <1>4, SameOrder

LEMMA SettersKeepInv ==
  ASSUME WmInv, NEW i \in Slots,
         \/ \E at \in Points : wm_set_position(i, at)
         \/ \E size \in Sizes : wm_set_size(i, size)
         \/ \E visible \in BOOLEAN : wm_set_visible(i, visible)
  PROVE  WmInv'
<1>1. windows[i] \in window_t
  BY DEF WmInv, WmTypeOK
<1>2. ASSUME NEW win \in window_t, Change(i, win), win.z_order = windows[i].z_order
      PROVE  WmInv'
  BY <1>2, ReplacedKeepsInv DEF Change, WmInv, WmTypeOK
<1>3. ASSUME NEW at \in Points, wm_set_position(i, at) PROVE WmInv'
  <2> DEFINE win == [windows[i] EXCEPT !.x = at.x, !.y = at.y]
  <2>1. win \in window_t /\ win.z_order = windows[i].z_order
    BY <1>1, WindowAssumption DEF window_t
  <2>2. Change(i, win)
    BY <1>3 DEF wm_set_position
  <2> HIDE DEF win
  <2> QED
    BY <1>2, <2>1, <2>2
<1>4. ASSUME NEW size \in Sizes, wm_set_size(i, size) PROVE WmInv'
  <2> DEFINE win == [windows[i] EXCEPT !.width = size.width, !.height = size.height]
  <2>1. win \in window_t /\ win.z_order = windows[i].z_order
    BY <1>1, WindowAssumption DEF window_t
  <2>2. Change(i, win)
    BY <1>4 DEF wm_set_size
  <2> HIDE DEF win
  <2> QED
    BY <1>2, <2>1, <2>2
<1>5. ASSUME NEW visible \in BOOLEAN, wm_set_visible(i, visible) PROVE WmInv'
  <2> DEFINE flags == IF visible THEN windows[i].flags \cup {"visible"}
                      ELSE windows[i].flags \ {"visible"}
             win == [windows[i] EXCEPT !.flags = flags]
  <2>1. flags \in SUBSET {"visible", "movable", "closable"}
    BY <1>1 DEF window_t
  <2>2. Change(i, win)
    BY <1>5 DEF wm_set_visible
  <2> HIDE DEF flags
  <2>3. win \in window_t /\ win.z_order = windows[i].z_order
    BY <1>1, <2>1 DEF window_t
  <2> HIDE DEF win
  <2> QED
    BY <1>2, <2>2, <2>3
<1> QED
  BY <1>3, <1>4, <1>5

-----------------------------------------------------------------------------
(* The mouse                                                               *)

LEMMA DragKeepsInv ==
  ASSUME WmInv, NEW p \in Points, prev_left_btn' \in BOOLEAN,
         Dragging, Drag(p) \/ Drop
  PROVE  WmInv'
<1> DEFINE i == focused_window
<1>1. i \in UsedSlots /\ windows[i] \in window_t
  <2>1. focused_window # -1
    BY DEF Dragging
  <2> QED
    BY <2>1, SlotsOfWindows DEF WmInv, WmTypeOK, FocusedExists
<1>2. CASE Drag(p)
  <2> DEFINE y == p.y - windows[i].drag_y
             newx == p.x - windows[i].drag_x
             newy == IF y < 0 THEN 0 ELSE y
             win == [windows[i] EXCEPT !.x = newx, !.y = newy]
  <2>1. win \in window_t /\ win.z_order = windows[i].z_order
    <3>1. p.x \in Int /\ p.y \in Int
      BY WindowAssumption
    <3>2. newx \in Int /\ newy \in Int
      BY <1>1, <3>1 DEF window_t
    <3> HIDE DEF newx, newy
    <3> QED
      BY <1>1, <3>2 DEF window_t
  <2>2. windows' = [windows EXCEPT ![i] = win]
    BY <1>2 DEF Drag
  <2> HIDE DEF win
  <2> QED
    BY <1>1, <1>2, <2>1, <2>2, ReplacedKeepsInv DEF Drag
<1>3. CASE Drop
  <2> DEFINE win == [windows[i] EXCEPT !.is_dragging = FALSE]
  <2>1. win \in window_t /\ win.z_order = windows[i].z_order
    BY <1>1 DEF window_t
  <2>2. windows' = [windows EXCEPT ![i] = win]
    BY <1>3 DEF Drop
  <2> HIDE DEF win
  <2> QED
    BY <1>1, <1>3, <2>1, <2>2, ReplacedKeepsInv DEF Drop
<1> QED
  BY <1>2, <1>3

LEMMA ClickKeepsInv ==
  ASSUME WmInv, NEW i \in UsedSlots, NEW p \in Points, prev_left_btn' \in BOOLEAN,
         Click(i, p)
  PROVE  WmInv'
<1> DEFINE closes == wm_point_in_close_button(windows[i], p)
           grabs == /\ ~closes /\ wm_point_in_titlebar(windows[i], p)
                    /\ "movable" \in windows[i].flags
           dx == p.x - windows[i].x
           dy == p.y - windows[i].y
           grabbed == [windows[i] EXCEPT !.is_dragging = TRUE, !.drag_x = dx, !.drag_y = dy]
           win == IF grabs THEN grabbed ELSE windows[i]
<1>1. i \in Slots /\ windows[i] \in window_t
  BY SlotsOfWindows DEF WmInv, WmTypeOK
<1>2. win \in window_t
  <2>1. grabbed \in window_t
    <3>1. p.x \in Int /\ p.y \in Int
      BY WindowAssumption
    <3>2. dx \in Int /\ dy \in Int
      BY <1>1, <3>1 DEF window_t
    <3> HIDE DEF dx, dy
    <3> QED
      BY <1>1, <3>2 DEF window_t
  <2> HIDE DEF grabbed, grabs
  <2> QED
    BY <1>1, <2>1
<1>3. closes \in BOOLEAN
  BY DEF wm_point_in_close_button
<1>4. /\ windows' = Raised(i, win) /\ top_z_order' = top_z_order + 1
      /\ window_used' = [window_used EXCEPT ![i] = ~closes]
      /\ focused_window' = IF closes THEN Highest(Visible \ {i}) ELSE i
  BY DEF Click
<1> HIDE DEF closes, win
<1>5. /\ window_used' \in [Slots -> BOOLEAN]
      /\ \A k \in Slots : window_used'[k] => window_used[k]
  BY <1>1, <1>3, <1>4 DEF WmInv, WmTypeOK, UsedSlots, Slots
<1>6. UsedSlots' = IF closes THEN UsedSlots \ {i} ELSE UsedSlots
  BY <1>1, <1>3, <1>4 DEF WmInv, WmTypeOK, UsedSlots, Slots
<1>7. focused_window' = -1 \/ focused_window' \in UsedSlots'
  BY <1>4, <1>6, FallbackExists
<1> QED
  BY <1>2, <1>4, <1>5, <1>7, RaisedKeepsInv

LEMMA MouseKeepsInv ==
  ASSUME WmInv, NEW p \in Points, NEW left_btn \in BOOLEAN,
         wm_process_mouse(p, left_btn)
  PROVE  WmInv'
<1>1. prev_left_btn' \in BOOLEAN
  BY DEF wm_process_mouse
<1>2. CASE Dragging /\ (Drag(p) \/ Drop)
  BY <1>1, <1>2, DragKeepsInv
<1>3. CASE wm_window_at(p) # -1 /\ Click(wm_window_at(p), p)
  BY <1>1, <1>3, WindowAtIsUsed, ClickKeepsInv
<1>4. CASE UNCHANGED <<windows, window_used, focused_window, top_z_order>>
  BY <1>1, <1>4 DEF WmInv, WmTypeOK, NoneAboveTop, ZOrderUnique, FocusedExists, UsedSlots, Slots
<1> QED
  BY <1>2, <1>3, <1>4 DEF wm_process_mouse

-----------------------------------------------------------------------------
LEMMA InitWmInv == WmInit => WmInv
<1> SUFFICES ASSUME WmInit PROVE WmInv
  OBVIOUS
<1>1. UsedSlots = {}
  BY DEF WmInit, UsedSlots
<1>2. WmTypeOK
  <2>1. windows \in [Slots -> window_t]
    BY DEF WmInit, window_t
  <2> QED
    BY <2>1 DEF WmInit, WmTypeOK
<1> QED
  BY <1>1, <1>2 DEF WmInit, WmInv, NoneAboveTop, ZOrderUnique, FocusedExists

LEMMA NextWmInv == WmInv /\ [WmNext]_wmVars => WmInv'
<1> SUFFICES ASSUME WmInv, [WmNext]_wmVars PROVE WmInv'
  OBVIOUS
<1>1. CASE UNCHANGED wmVars
  BY <1>1 DEF wmVars, WmInv, WmTypeOK, NoneAboveTop, ZOrderUnique, FocusedExists, UsedSlots, Slots
<1>2. CASE \E at \in Points, size \in Sizes, flags \in FlagSets : wm_create_window(at, size, flags)
  BY <1>2, CreateKeepsInv
<1>3. CASE \E i \in Slots : wm_destroy_window(i)
  BY <1>3, DestroyKeepsInv
<1>4. CASE \E i \in Slots : wm_focus_window(i)
  BY <1>4, FocusKeepsInv
<1>5. ASSUME NEW i \in Slots,
             \/ \E at \in Points : wm_set_position(i, at)
             \/ \E size \in Sizes : wm_set_size(i, size)
             \/ \E visible \in BOOLEAN : wm_set_visible(i, visible)
      PROVE  WmInv'
  BY <1>5, SettersKeepInv
<1>6. CASE \E p \in Points, left_btn \in BOOLEAN : wm_process_mouse(p, left_btn)
  BY <1>6, MouseKeepsInv
<1> QED
  BY <1>1, <1>2, <1>3, <1>4, <1>5, <1>6 DEF WmNext

\* The window table stays well formed under any mix of calls and mouse events.
THEOREM WmTypeCorrect == WmSpec => []WmTypeOK
<1>1. WmInv => WmTypeOK
  BY DEF WmInv
<1> QED
  BY InitWmInv, NextWmInv, <1>1, PTL DEF WmSpec

\* No two windows ever share a z_order: the order in which wm_compose draws and
\* the order in which wm_window_at looks are one.
THEOREM ZOrderStaysUnique == WmSpec => []ZOrderUnique
<1>1. WmInv => ZOrderUnique
  BY DEF WmInv
<1> QED
  BY InitWmInv, NextWmInv, <1>1, PTL DEF WmSpec

\* The focus is never left on a slot without a window, however a window goes.
THEOREM FocusStaysOnWindow == WmSpec => []FocusedExists
<1>1. WmInv => FocusedExists
  BY DEF WmInv
<1> QED
  BY InitWmInv, NextWmInv, <1>1, PTL DEF WmSpec

-----------------------------------------------------------------------------
(* Loops                                                                   *)

\* Counting from 0 to n.
LEMMA UpToN ==
  ASSUME NEW n \in Nat, NEW T, 0 \in T, \A k \in 1..n : k - 1 \in T => k \in T
  PROVE  \A k \in 0..n : k \in T
<1> DEFINE missed == {k \in 0..n : k \notin T}
<1> SUFFICES ASSUME missed # {} PROVE FALSE
  OBVIOUS
<1>1. missed \subseteq Nat
  OBVIOUS
<1> HIDE DEF missed
<1>2. PICK k \in missed : \A m \in missed : k <= m
  BY <1>1, LeastNatural
<1>3. k \in 0..n /\ k \notin T
  BY <1>2 DEF missed
<1>4. k \in 1..n /\ k - 1 \in 0..n /\ ~(k <= k - 1)
  BY <1>3
<1>5. k - 1 \in T
  BY <1>2, <1>4 DEF missed
<1> QED
  BY <1>3, <1>4, <1>5

\* A loop of n steps from b, step j of which turns the value s into G[j][s],
\* computes something.
Computes(n, S, b, G) ==
  \E f \in [0..n -> S] : f[0] = b /\ \A j \in 1..n : f[j] = G[j][f[j - 1]]

LEMMA LoopExists ==
  ASSUME NEW n \in Nat, NEW S, NEW b \in S, NEW G \in [1..n -> [S -> S]]
  PROVE  Computes(n, S, b, G)
<1> DEFINE Runs(f, k) == f[0] = b /\ \A j \in 1..k : f[j] = G[j][f[j - 1]]
           T == {k \in 0..n : \E f \in [0..k -> S] : Runs(f, k)}
<1>1. 0 \in T
  <2> DEFINE g == [j \in 0..0 |-> b]
  <2>1. g \in [0..0 -> S] /\ g[0] = b
    OBVIOUS
  <2> HIDE DEF g
  <2>2. Runs(g, 0)
    BY <2>1
  <2> QED
    BY <2>1, <2>2
<1>2. ASSUME NEW k \in 1..n, k - 1 \in T PROVE k \in T
  <2>1. PICK f \in [0..(k - 1) -> S] : Runs(f, k - 1)
    BY <1>2
  <2> DEFINE v == G[k][f[k - 1]]
             g == [j \in 0..k |-> IF j = k THEN v ELSE f[j]]
  <2>2. k \in Nat /\ k # 0 /\ k - 1 \in 0..(k - 1) /\ k \in 0..n /\ k \in 0..k /\ 0 \in 0..k
    OBVIOUS
  <2>3. v \in S
    <3>1. f[k - 1] \in S /\ G[k] \in [S -> S]
      BY <2>2
    <3> QED
      BY <3>1
  <2> HIDE DEF v
  <2>4. g \in [0..k -> S]
    BY <2>2, <2>3
  <2>5. g[k] = v /\ \A j \in 0..k : j # k => g[j] = f[j]
    BY <2>2
  <2> HIDE DEF g
  <2>6. g[0] = b
    BY <2>1, <2>2, <2>5
  <2>7. ASSUME NEW j \in 1..k PROVE g[j] = G[j][g[j - 1]]
    <3>1. j - 1 \in 0..k /\ j - 1 # k
      BY <2>2
    <3>2. g[j - 1] = f[j - 1]
      BY <2>5, <3>1
    <3>3. CASE j = k
      BY <2>5, <3>2, <3>3 DEF v
    <3>4. CASE j # k
      <4>1. j \in 1..(k - 1) /\ j \in 0..k
        BY <2>2, <3>4
      <4>2. f[j] = G[j][f[j - 1]]
        BY <2>1, <4>1
      <4> QED
        BY <2>5, <3>2, <3>4, <4>1, <4>2
    <3> QED
      BY <3>3, <3>4
  <2>8. Runs(g, k)
    BY <2>6, <2>7
  <2> QED
    BY <2>2, <2>4, <2>8
<1>3. n \in T
  <2> HIDE DEF T
  <2>1. \A k \in 0..n : k \in T
    BY <1>1, <1>2, UpToN
  <2> QED
    BY <2>1
<1> QED
  BY <1>3 DEF Computes

-----------------------------------------------------------------------------
(* The drawing order                                                       *)

Orders(n) == {o \in Seq(Slots) : Len(o) = n}

Height(o, k) == windows[o[k]].z_order

\* s has the elements of o, those at the first m places in another order perhaps.
Rearranged(s, o, n, m) ==
  /\ \A k \in 1..n : k > m => s[k] = o[k]
  /\ \A k \in 1..m : \E l \in 1..m : s[k] = o[l]
  /\ \A l \in 1..m : \E k \in 1..m : s[k] = o[l]

LEMMA HeightsAreNumbers ==
  ASSUME WmTypeOK, NEW n \in Nat, NEW o \in Orders(n), NEW k \in 1..n
  PROVE  Height(o, k) \in Nat /\ o[k] \in Slots
<1>1. o[k] \in Slots
  BY DEF Orders
<1>2. windows[o[k]] \in window_t
  BY <1>1 DEF WmTypeOK
<1> QED
  BY <1>1, <1>2 DEF Height, window_t

LEMMA SwapOrders ==
  ASSUME WmTypeOK, NEW n \in Nat, NEW o \in Orders(n), NEW j \in 1..(n - 1)
  PROVE  LET s == Swap(o, j)
         IN  /\ s \in Orders(n)
             /\ \A k \in 1..n : k # j /\ k # j + 1 => s[k] = o[k]
             /\ (s[j] = o[j] /\ s[j + 1] = o[j + 1]) \/ (s[j] = o[j + 1] /\ s[j + 1] = o[j])
             /\ Height(s, j) <= Height(s, j + 1)
             /\ Height(o, j) <= Height(s, j + 1)
<1> DEFINE s == Swap(o, j)
           e == [o EXCEPT ![j] = o[j + 1], ![j + 1] = o[j]]
<1>1. j \in 1..n /\ j + 1 \in 1..n /\ j # j + 1
  OBVIOUS
<1>2. /\ Height(o, j) \in Nat /\ Height(o, j + 1) \in Nat
      /\ o[j] \in Slots /\ o[j + 1] \in Slots
  BY <1>1, HeightsAreNumbers
<1>3. o \in Seq(Slots) /\ Len(o) = n /\ DOMAIN o = 1..n
  BY DEF Orders
<1>4. CASE Height(o, j) > Height(o, j + 1)
  <2>1. s = e
    BY <1>4 DEF Swap, Height
  <2>2. e \in Seq(Slots) /\ Len(e) = n
    BY <1>1, <1>2, <1>3
  <2>3. e[j] = o[j + 1] /\ e[j + 1] = o[j] /\ \A k \in 1..n : k # j /\ k # j + 1 => e[k] = o[k]
    BY <1>1, <1>3
  <2> HIDE DEF e, s
  <2>4. Height(s, j) = Height(o, j + 1) /\ Height(s, j + 1) = Height(o, j)
    BY <2>1, <2>3 DEF Height
  <2> QED
    BY <1>2, <1>4, <2>1, <2>2, <2>3, <2>4 DEF Orders, s
<1>5. CASE ~(Height(o, j) > Height(o, j + 1))
  <2>1. s = o
    BY <1>5 DEF Swap, Height
  <2> HIDE DEF s
  <2> QED
    BY <1>2, <1>5, <2>1 DEF s
<1> QED
  BY <1>4, <1>5

\* A sweep over m neighbours leaves the highest of the first m + 1 at place m + 1.
LEMMA SweepOrders ==
  ASSUME WmTypeOK, NEW n \in Nat, NEW o \in Orders(n), NEW m \in Nat, m < n
  PROVE  LET s == Sweep(o, m)
         IN  /\ s \in Orders(n) /\ Rearranged(s, o, n, m + 1)
             /\ \A k \in 1..(m + 1) : Height(s, k) <= Height(s, m + 1)
<1> DEFINE swept[j \in 0..m] == IF j = 0 THEN o ELSE Swap(swept[j - 1], j)
           G == [j \in 1..m |-> [x \in Orders(n) |-> Swap(x, j)]]
           T == {j \in 0..m : /\ swept[j] \in Orders(n) /\ Rearranged(swept[j], o, n, m + 1)
                              /\ \A k \in 1..(j + 1) : Height(swept[j], k) <= Height(swept[j], j + 1)}
<1>1. \A x \in Orders(n), j \in 1..m : Swap(x, j) \in Orders(n)
  BY SwapOrders
<1>2. G \in [1..m -> [Orders(n) -> Orders(n)]]
  BY <1>1
<1>3. \A x \in Orders(n), j \in 1..m : G[j][x] = Swap(x, j)
  OBVIOUS
<1> HIDE DEF G
<1>4. PICK f \in [0..m -> Orders(n)] : f[0] = o /\ \A j \in 1..m : f[j] = G[j][f[j - 1]]
  <2>1. Computes(m, Orders(n), o, G)
    BY <1>2, LoopExists
  <2> QED
    BY <2>1 DEF Computes
<1>5. \A j \in 0..m : f[j] = IF j = 0 THEN o ELSE Swap(f[j - 1], j)
  <2> SUFFICES ASSUME NEW j \in 0..m PROVE f[j] = IF j = 0 THEN o ELSE Swap(f[j - 1], j)
    OBVIOUS
  <2>1. CASE j = 0
    BY <1>4, <2>1
  <2>2. CASE j # 0
    <3>1. j \in 1..m /\ j - 1 \in 0..m
      BY <2>2
    <3>2. f[j - 1] \in Orders(n)
      BY <3>1
    <3> QED
      BY <1>3, <1>4, <2>2, <3>1, <3>2
  <2> QED
    BY <2>1, <2>2
<1>6. f = [j \in 0..m |-> IF j = 0 THEN o ELSE Swap(f[j - 1], j)]
  BY <1>5
<1>7. swept = [j \in 0..m |-> IF j = 0 THEN o ELSE Swap(swept[j - 1], j)]
  BY <1>6, Zenon
<1>8. Sweep(o, m) = swept[m]
  BY DEF Sweep
<1> HIDE DEF swept
<1>9. 0 \in T
  <2>1. swept[0] = o
    BY <1>7
  <2>2. Rearranged(o, o, n, m + 1)
    BY DEF Rearranged
  <2>3. Height(o, 1) <= Height(o, 1)
    BY HeightsAreNumbers
  <2>4. \A k \in 1..(0 + 1) : Height(o, k) <= Height(o, 0 + 1)
    BY <2>3
  <2> QED
    BY <2>1, <2>2, <2>4
<1>10. ASSUME NEW j \in 1..m, j - 1 \in T PROVE j \in T
  <2> DEFINE x == swept[j - 1]
             s == Swap(x, j)
  <2>1. swept[j] = s
    BY <1>7
  <2>2. /\ x \in Orders(n) /\ Rearranged(x, o, n, m + 1)
        /\ \A k \in 1..j : Height(x, k) <= Height(x, j)
    BY <1>10
  <2> HIDE DEF x
  <2>3. j \in 1..(n - 1)
    OBVIOUS
  <2>4. /\ s \in Orders(n)
        /\ \A k \in 1..n : k # j /\ k # j + 1 => s[k] = x[k]
        /\ (s[j] = x[j] /\ s[j + 1] = x[j + 1]) \/ (s[j] = x[j + 1] /\ s[j + 1] = x[j])
        /\ Height(s, j) <= Height(s, j + 1)
        /\ Height(x, j) <= Height(s, j + 1)
    BY <2>2, <2>3, SwapOrders
  <2> HIDE DEF s
  <2>5. Rearranged(s, o, n, m + 1)
    <3>1. \A k \in 1..n : k > m + 1 => s[k] = o[k]
      BY <2>2, <2>3, <2>4 DEF Rearranged
    <3>2. \A k \in 1..(m + 1) : \E l \in 1..(m + 1) : s[k] = x[l]
      <4> SUFFICES ASSUME NEW k \in 1..(m + 1) PROVE \E l \in 1..(m + 1) : s[k] = x[l]
        OBVIOUS
      <4>1. k \in 1..n /\ j \in 1..(m + 1) /\ j + 1 \in 1..(m + 1)
        OBVIOUS
      <4> QED
        BY <2>4, <4>1
    <3>3. \A l \in 1..(m + 1) : \E k \in 1..(m + 1) : s[k] = x[l]
      <4> SUFFICES ASSUME NEW l \in 1..(m + 1) PROVE \E k \in 1..(m + 1) : s[k] = x[l]
        OBVIOUS
      <4>1. l \in 1..n /\ j \in 1..(m + 1) /\ j + 1 \in 1..(m + 1)
        OBVIOUS
      <4> QED
        BY <2>4, <4>1
    <3> DEFINE Low == 1..(m + 1)
    <3>4. /\ \A k \in Low : \E l \in Low : x[k] = o[l]
          /\ \A l \in Low : \E k \in Low : x[k] = o[l]
      BY <2>2 DEF Rearranged
    <3>5. /\ \A k \in Low : \E l \in Low : s[k] = x[l]
          /\ \A l \in Low : \E k \in Low : s[k] = x[l]
      BY <3>2, <3>3
    <3> HIDE DEF Low
    <3>6. \A k \in Low : \E l \in Low : s[k] = o[l]
      <4> SUFFICES ASSUME NEW k \in Low PROVE \E l \in Low : s[k] = o[l]
        OBVIOUS
      <4>1. PICK l \in Low : s[k] = x[l]
        BY <3>5
      <4> QED
        BY <3>4, <4>1
    <3>7. \A l \in Low : \E k \in Low : s[k] = o[l]
      <4> SUFFICES ASSUME NEW l \in Low PROVE \E k \in Low : s[k] = o[l]
        OBVIOUS
      <4>1. PICK i \in Low : x[i] = o[l]
        BY <3>4
      <4> QED
        BY <3>5, <4>1
    <3> QED
      BY <3>1, <3>6, <3>7 DEF Rearranged, Low
  <2>6. ASSUME NEW k \in 1..(j + 1) PROVE Height(s, k) <= Height(s, j + 1)
    <3>1. k \in 1..n /\ j \in 1..n /\ j + 1 \in 1..n
      OBVIOUS
    <3>2. /\ Height(s, k) \in Nat /\ Height(s, j + 1) \in Nat /\ Height(x, k) \in Nat
          /\ Height(x, j) \in Nat
      BY <2>2, <2>4, <3>1, HeightsAreNumbers
    <3>3. CASE k = j + 1
      BY <3>2, <3>3
    <3>4. CASE k = j
      BY <2>4, <3>4
    <3>5. CASE k # j /\ k # j + 1
      <4>1. Height(s, k) = Height(x, k)
        BY <2>4, <3>1, <3>5 DEF Height
      <4>2. Height(x, k) <= Height(x, j)
        BY <2>2, <3>5
      <4> QED
        BY <2>4, <3>2, <4>1, <4>2
    <3> QED
      BY <3>3, <3>4, <3>5
  <2> QED
    BY <2>1, <2>4, <2>5, <2>6
<1> HIDE DEF T
<1>11. m \in T
  <2>1. \A j \in 0..m : j \in T
    BY <1>9, <1>10, UpToN
  <2> QED
    BY <2>1
<1>12. /\ swept[m] \in Orders(n) /\ Rearranged(swept[m], o, n, m + 1)
       /\ \A k \in 1..(m + 1) : Height(swept[m], k) <= Height(swept[m], m + 1)
  BY <1>11 DEF T
<1> QED
  BY <1>8, <1>12

\* The bubble sort rearranges the windows and leaves no higher one before a lower one.
LEMMA SortOrders ==
  ASSUME WmTypeOK, NEW n \in Nat, NEW o \in Orders(n)
  PROVE  LET s == sort_windows_by_z(o)
         IN  /\ s \in Orders(n) /\ Rearranged(s, o, n, n)
             /\ \A k \in 1..n : \A l \in 1..k : Height(s, l) <= Height(s, k)
<1> DEFINE sorted[i \in 0..n] == IF i = 0 THEN o ELSE Sweep(sorted[i - 1], n - i)
           G == [i \in 1..n |-> [x \in Orders(n) |-> Sweep(x, n - i)]]
           Settled(s, i) == \A k \in 1..n : k > n - i =>
                              \A l \in 1..k : Height(s, l) <= Height(s, k)
           T == {i \in 0..n : /\ sorted[i] \in Orders(n) /\ Rearranged(sorted[i], o, n, n)
                              /\ Settled(sorted[i], i)}
<1>1. CASE n = 0
  <2>1. o = <<>>
    BY <1>1 DEF Orders
  <2>2. sort_windows_by_z(o) = o
    BY <2>1 DEF sort_windows_by_z
  <2> QED
    BY <1>1, <2>2 DEF Rearranged
<1>2. CASE n # 0
  <2>1. \A x \in Orders(n), i \in 1..n : Sweep(x, n - i) \in Orders(n)
    <3> SUFFICES ASSUME NEW x \in Orders(n), NEW i \in 1..n PROVE Sweep(x, n - i) \in Orders(n)
      OBVIOUS
    <3>1. n - i \in Nat /\ n - i < n
      OBVIOUS
    <3> QED
      BY <3>1, SweepOrders
  <2>2. G \in [1..n -> [Orders(n) -> Orders(n)]]
    BY <2>1
  <2>3. \A x \in Orders(n), i \in 1..n : G[i][x] = Sweep(x, n - i)
    OBVIOUS
  <2> HIDE DEF G
  <2>4. PICK f \in [0..n -> Orders(n)] : f[0] = o /\ \A i \in 1..n : f[i] = G[i][f[i - 1]]
    <3>1. Computes(n, Orders(n), o, G)
      BY <2>2, LoopExists
    <3> QED
      BY <3>1 DEF Computes
  <2>5. \A i \in 0..n : f[i] = IF i = 0 THEN o ELSE Sweep(f[i - 1], n - i)
    <3> SUFFICES ASSUME NEW i \in 0..n
                 PROVE  f[i] = IF i = 0 THEN o ELSE Sweep(f[i - 1], n - i)
      OBVIOUS
    <3>1. CASE i = 0
      BY <2>4, <3>1
    <3>2. CASE i # 0
      <4>1. i \in 1..n /\ i - 1 \in 0..n
        BY <3>2
      <4>2. f[i - 1] \in Orders(n)
        BY <4>1
      <4> QED
        BY <2>3, <2>4, <3>2, <4>1, <4>2
    <3> QED
      BY <3>1, <3>2
  <2>6. f = [i \in 0..n |-> IF i = 0 THEN o ELSE Sweep(f[i - 1], n - i)]
    BY <2>5
  <2>7. sorted = [i \in 0..n |-> IF i = 0 THEN o ELSE Sweep(sorted[i - 1], n - i)]
    BY <2>6, Zenon
  <2>8. Len(o) = n /\ o # <<>>
    BY <1>2 DEF Orders
  <2>9. sort_windows_by_z(o) = sorted[n - 1]
    BY <2>8 DEF sort_windows_by_z
  <2> HIDE DEF sorted
  <2>10. 0 \in T
    <3>1. sorted[0] = o
      BY <2>7
    <3>2. Rearranged(o, o, n, n) /\ Settled(o, 0)
      BY DEF Rearranged
    <3> QED
      BY <3>1, <3>2
  <2>11. ASSUME NEW i \in 1..n, i - 1 \in T PROVE i \in T
    <3> DEFINE x == sorted[i - 1]
               m == n - i
               s == Sweep(x, m)
    <3>1. sorted[i] = s
      BY <2>7
    <3>2. x \in Orders(n) /\ Rearranged(x, o, n, n) /\ Settled(x, i - 1)
      BY <2>11
    <3> HIDE DEF x
    <3>3. m \in Nat /\ m < n /\ m + 1 \in 1..n /\ m = n - i
      OBVIOUS
    <3> HIDE DEF m
    <3>4. /\ s \in Orders(n) /\ Rearranged(s, x, n, m + 1)
          /\ \A k \in 1..(m + 1) : Height(s, k) <= Height(s, m + 1)
      BY <3>2, <3>3, SweepOrders
    <3> HIDE DEF s
    <3>5. Rearranged(s, o, n, n)
      <4>1. /\ \A k \in 1..n : k > m + 1 => s[k] = x[k]
            /\ \A k \in 1..(m + 1) : \E l \in 1..(m + 1) : s[k] = x[l]
            /\ \A l \in 1..(m + 1) : \E k \in 1..(m + 1) : s[k] = x[l]
        BY <3>4 DEF Rearranged
      <4>2. \A k \in 1..(m + 1) : k \in 1..n
        BY <3>3
      <4>3. \A k \in 1..n : k > m + 1 \/ k \in 1..(m + 1)
        BY <3>3
      <4>4. \A k \in 1..n : \E l \in 1..n : s[k] = x[l]
        BY <4>1, <4>2, <4>3
      <4>5. \A l \in 1..n : \E k \in 1..n : s[k] = x[l]
        BY <4>1, <4>2, <4>3
      <4>6. /\ \A k \in 1..n : \E l \in 1..n : x[k] = o[l]
            /\ \A l \in 1..n : \E k \in 1..n : x[k] = o[l]
        BY <3>2 DEF Rearranged
      <4>7. \A k \in 1..n : \E l \in 1..n : s[k] = o[l]
        BY <4>4, <4>6
      <4>8. \A l \in 1..n : \E k \in 1..n : s[k] = o[l]
        BY <4>5, <4>6
      <4>9. \A k \in 1..n : ~(k > n)
        OBVIOUS
      <4> QED
        BY <4>7, <4>8, <4>9 DEF Rearranged
    <3>6. ASSUME NEW k \in 1..n, k > n - i, NEW l \in 1..k
          PROVE  Height(s, l) <= Height(s, k)
      <4>1. CASE k = m + 1
        BY <3>4, <4>1
      <4>2. CASE k # m + 1
        <5>1. k > m + 1 /\ k > n - (i - 1) /\ l \in 1..n
          BY <3>3, <3>6, <4>2
        <5>2. s[k] = x[k]
          BY <3>4, <5>1 DEF Rearranged
        <5>3. PICK r \in 1..k : s[l] = x[r]
          <6>1. CASE l > m + 1
            BY <3>4, <5>1, <6>1 DEF Rearranged
          <6>2. CASE ~(l > m + 1)
            <7>1. l \in 1..(m + 1)
              BY <3>3, <6>2
            <7>2. PICK r \in 1..(m + 1) : s[l] = x[r]
              BY <3>4, <7>1 DEF Rearranged
            <7> QED
              BY <3>3, <5>1, <7>2
          <6> QED
            BY <6>1, <6>2
        <5>4. Height(x, r) <= Height(x, k)
          BY <3>2, <5>1
        <5> QED
          BY <5>2, <5>3, <5>4 DEF Height
      <4> QED
        BY <4>1, <4>2
    <3> QED
      BY <3>1, <3>4, <3>5, <3>6
  <2> HIDE DEF T
  <2>12. n - 1 \in T
    <3>1. \A i \in 0..n : i \in T
      BY <2>10, <2>11, UpToN
    <3> QED
      BY <1>2, <3>1
  <2>13. /\ sorted[n - 1] \in Orders(n) /\ Rearranged(sorted[n - 1], o, n, n)
         /\ Settled(sorted[n - 1], n - 1)
    BY <2>12 DEF T
  <2>14. ASSUME NEW k \in 1..n, NEW l \in 1..k
         PROVE  Height(sorted[n - 1], l) <= Height(sorted[n - 1], k)
    <3>1. CASE k = 1
      <4>1. l = 1
        BY <3>1
      <4>2. Height(sorted[n - 1], 1) \in Nat
        BY <1>2, <2>13, HeightsAreNumbers
      <4> QED
        BY <3>1, <4>1, <4>2
    <3>2. CASE k # 1
      <4>1. k > n - (n - 1)
        BY <3>2
      <4> QED
        BY <2>13, <4>1
    <3> QED
      BY <3>1, <3>2
  <2> QED
    BY <2>9, <2>13, <2>14
<1> QED
  BY <1>1, <1>2

\* The loop of wm_compose collects every visible window once.
LEMMA CollectsVisible ==
  /\ Collected \in Orders(Cardinality(Visible)) /\ Cardinality(Visible) \in Nat
  /\ \A i : i \in Visible <=> \E k \in 1..Cardinality(Visible) : Collected[k] = i
<1> DEFINE N == WM_MAX_WINDOWS
           visible[n \in 0..N] ==
             IF n = 0 THEN <<>>
             ELSE IF n - 1 \in Visible THEN Append(visible[n - 1], n - 1) ELSE visible[n - 1]
           G == [n \in 1..N |-> [x \in Seq(Slots) |->
                   IF n - 1 \in Visible THEN Append(x, n - 1) ELSE x]]
           Seen(n) == {i \in Visible : i < n}
           T == {n \in 0..N : /\ visible[n] \in Seq(Slots) /\ IsFiniteSet(Seen(n))
                              /\ Len(visible[n]) = Cardinality(Seen(n))
                              /\ \A i : i \in Seen(n) <=> \E k \in 1..Len(visible[n]) : visible[n][k] = i}
<1>1. N \in Nat /\ Visible \subseteq Slots /\ Slots = 0..(N - 1)
  BY WindowAssumption, SlotsOfWindows DEF Slots
<1>2. G \in [1..N -> [Seq(Slots) -> Seq(Slots)]]
  <2> HIDE DEF N
  <2>1. \A x \in Seq(Slots), n \in 1..N :
          (IF n - 1 \in Visible THEN Append(x, n - 1) ELSE x) \in Seq(Slots)
    <3> SUFFICES ASSUME NEW x \in Seq(Slots), NEW n \in 1..N
                 PROVE  (IF n - 1 \in Visible THEN Append(x, n - 1) ELSE x) \in Seq(Slots)
      OBVIOUS
    <3>1. n - 1 \in Slots
      BY <1>1
    <3>2. Append(x, n - 1) \in Seq(Slots)
      BY <3>1
    <3> QED
      BY <3>2
  <2> QED
    BY <2>1
<1>3. \A x \in Seq(Slots), n \in 1..N :
        G[n][x] = IF n - 1 \in Visible THEN Append(x, n - 1) ELSE x
  OBVIOUS
<1> HIDE DEF G, N
<1>4. PICK f \in [0..N -> Seq(Slots)] :
        f[0] = <<>> /\ \A n \in 1..N : f[n] = G[n][f[n - 1]]
  <2>1. <<>> \in Seq(Slots)
    OBVIOUS
  <2>2. Computes(N, Seq(Slots), <<>>, G)
    BY <1>1, <1>2, <2>1, LoopExists
  <2> QED
    BY <2>2 DEF Computes
<1>5. \A n \in 0..N : f[n] = IF n = 0 THEN <<>>
                             ELSE IF n - 1 \in Visible THEN Append(f[n - 1], n - 1) ELSE f[n - 1]
  <2> SUFFICES ASSUME NEW n \in 0..N
               PROVE  f[n] = IF n = 0 THEN <<>>
                             ELSE IF n - 1 \in Visible THEN Append(f[n - 1], n - 1) ELSE f[n - 1]
    OBVIOUS
  <2>1. CASE n = 0
    BY <1>4, <2>1
  <2>2. CASE n # 0
    <3>1. n \in 1..N /\ n - 1 \in 0..N
      BY <1>1, <2>2
    <3>2. f[n - 1] \in Seq(Slots)
      BY <3>1
    <3> QED
      BY <1>3, <1>4, <2>2, <3>1, <3>2
  <2> QED
    BY <2>1, <2>2
<1>6. f = [n \in 0..N |-> IF n = 0 THEN <<>>
                          ELSE IF n - 1 \in Visible THEN Append(f[n - 1], n - 1) ELSE f[n - 1]]
  BY <1>5
<1>7. visible = [n \in 0..N |-> IF n = 0 THEN <<>>
                   ELSE IF n - 1 \in Visible THEN Append(visible[n - 1], n - 1) ELSE visible[n - 1]]
  BY <1>6, Zenon
<1>8. Collected = visible[N]
  BY DEF Collected, N
<1> HIDE DEF visible
<1>9. 0 \in T
  <2>1. visible[0] = <<>>
    BY <1>1, <1>7
  <2>2. Seen(0) = {}
    BY <1>1
  <2>3. IsFiniteSet(Seen(0)) /\ Cardinality(Seen(0)) = 0
    BY <2>2, FS_EmptySet
  <2>4. Len(<<>>) = 0 /\ <<>> \in Seq(Slots) /\ \A k : k \notin 1..0
    OBVIOUS
  <2>5. 0 \in 0..N
    BY <1>1
  <2> HIDE DEF Seen
  <2>6. /\ visible[0] \in Seq(Slots) /\ IsFiniteSet(Seen(0))
        /\ Len(visible[0]) = Cardinality(Seen(0))
    BY <2>1, <2>3, <2>4
  <2>7. \A i : i \in Seen(0) <=> \E k \in 1..Len(visible[0]) : visible[0][k] = i
    BY <2>1, <2>2, <2>4
  <2> QED
    BY <2>5, <2>6, <2>7
<1>10. ASSUME NEW n \in 1..N, n - 1 \in T PROVE n \in T
  <2> DEFINE x == visible[n - 1]
             S == Seen(n - 1)
  <2>1. /\ x \in Seq(Slots) /\ IsFiniteSet(S) /\ Len(x) = Cardinality(S)
        /\ \A i : i \in S <=> \E k \in 1..Len(x) : x[k] = i
    BY <1>10
  <2>2. n \in 0..N /\ n \in Nat /\ n - 1 \in Slots /\ n # 0
    BY <1>1
  <2>3. \A i \in Visible : i \in Nat
    BY <1>1
  <2>4. CASE n - 1 \in Visible
    <3>1. visible[n] = Append(x, n - 1)
      BY <1>7, <2>2, <2>4
    <3>2. Seen(n) = S \cup {n - 1} /\ n - 1 \notin S
      BY <2>2, <2>3, <2>4
    <3> DEFINE y == Append(x, n - 1)
    <3> HIDE DEF x, S
    <3>3. y \in Seq(Slots) /\ Len(y) = Len(x) + 1
      BY <2>1, <2>2
    <3>4. IsFiniteSet(Seen(n)) /\ Cardinality(Seen(n)) = Cardinality(S) + 1
      BY <2>1, <3>2, FS_AddElement
    <3>5. y[Len(x) + 1] = n - 1 /\ \A k \in 1..Len(x) : y[k] = x[k]
      BY <2>1, <2>2
    <3>6. \A k : k \in 1..Len(y) <=> k \in 1..Len(x) \/ k = Len(x) + 1
      BY <2>1, <3>3
    <3> HIDE DEF y
    <3>7. \A i : i \in S \cup {n - 1} <=> \E k \in 1..Len(y) : y[k] = i
      BY <2>1, <3>5, <3>6
    <3>8. visible[n] = y
      BY <3>1 DEF y
    <3> QED
      BY <2>1, <2>2, <3>2, <3>3, <3>4, <3>7, <3>8
  <2>5. CASE n - 1 \notin Visible
    <3>1. visible[n] = x
      BY <1>7, <2>2, <2>5
    <3>2. Seen(n) = S
      BY <2>2, <2>3, <2>5
    <3> HIDE DEF x, S
    <3> QED
      BY <2>1, <2>2, <3>1, <3>2
  <2> QED
    BY <2>4, <2>5
<1> HIDE DEF T
<1>11. N \in T
  <2>1. \A n \in 0..N : n \in T
    BY <1>1, <1>9, <1>10, UpToN
  <2> QED
    BY <1>1, <2>1
<1>12. Seen(N) = Visible
  <2>1. \A i \in 0..(N - 1) : i < N
    BY <1>1
  <2> QED
    BY <1>1, <2>1
<1>13. /\ visible[N] \in Seq(Slots) /\ Len(visible[N]) = Cardinality(Seen(N))
       /\ IsFiniteSet(Seen(N))
       /\ \A i : i \in Seen(N) <=> \E k \in 1..Len(visible[N]) : visible[N][k] = i
  BY <1>11 DEF T
<1> HIDE DEF Seen
<1>14. Cardinality(Visible) \in Nat
  BY <1>12, <1>13, FS_CardinalityType
<1> QED
  BY <1>8, <1>12, <1>13, <1>14 DEF Orders

\* So wm_compose draws every visible window once, the higher ones later.
LEMMA DrawnInOrder ==
  ASSUME WmTypeOK
  PROVE  /\ Len(Drawn) = Cardinality(Visible) /\ Cardinality(Visible) \in Nat
         /\ DOMAIN Drawn = 1..Cardinality(Visible)
         /\ \A i : i \in Visible <=> \E k \in 1..Cardinality(Visible) : Drawn[k] = i
         /\ \A k \in 1..Cardinality(Visible) : \A l \in 1..k : Height(Drawn, l) <= Height(Drawn, k)
<1> DEFINE n == Cardinality(Visible)
<1>1. n \in Nat /\ Collected \in Orders(n)
      /\ \A i : i \in Visible <=> \E k \in 1..n : Collected[k] = i
  BY CollectsVisible
<1> HIDE DEF n
<1>2. /\ Drawn \in Orders(n) /\ Rearranged(Drawn, Collected, n, n)
      /\ \A k \in 1..n : \A l \in 1..k : Height(Drawn, l) <= Height(Drawn, k)
  BY <1>1, SortOrders DEF Drawn
<1>3. Len(Drawn) = n /\ DOMAIN Drawn = 1..n
  BY <1>2 DEF Orders
<1>4. \A i : i \in Visible <=> \E k \in 1..n : Drawn[k] = i
  <2>1. /\ \A k \in 1..n : \E l \in 1..n : Drawn[k] = Collected[l]
        /\ \A l \in 1..n : \E k \in 1..n : Drawn[k] = Collected[l]
    BY <1>2 DEF Rearranged
  <2> QED
    BY <1>1, <2>1
<1> QED
  BY <1>1, <1>2, <1>3, <1>4 DEF n

\* The window that nothing in S lies above is the only one of that kind.
LEMMA HighestIsTop ==
  ASSUME WmTypeOK, ZOrderUnique, NEW S, S \subseteq UsedSlots, NEW i \in S,
         \A j \in S : windows[j].z_order <= windows[i].z_order
  PROVE  Highest(S) = i
<1> DEFINE Tops(k) == \A j \in S : \/ windows[j].z_order < windows[k].z_order
                                   \/ windows[j].z_order = windows[k].z_order /\ k <= j
<1>1. \A k \in S : windows[k].z_order \in Nat /\ k \in Nat
  BY SlotsOfWindows DEF WmTypeOK, window_t
<1>2. \A j \in S : windows[j].z_order = windows[i].z_order => i = j
  BY DEF ZOrderUnique
<1>3. Tops(i)
  <2> SUFFICES ASSUME NEW j \in S
               PROVE  \/ windows[j].z_order < windows[i].z_order
                      \/ windows[j].z_order = windows[i].z_order /\ i <= j
    OBVIOUS
  <2>1. windows[j].z_order \in Nat /\ windows[i].z_order \in Nat /\ i \in Nat
    BY <1>1
  <2>2. CASE i = j
    BY <2>1, <2>2
  <2>3. CASE i # j
    BY <1>2, <2>1, <2>3
  <2> QED
    BY <2>2, <2>3
<1>4. ASSUME NEW k \in S, Tops(k) PROVE k = i
  <2>1. windows[i].z_order <= windows[k].z_order /\ windows[k].z_order <= windows[i].z_order
    BY <1>1, <1>4
  <2>2. windows[k].z_order = windows[i].z_order
    BY <1>1, <2>1
  <2> QED
    BY <1>2, <2>2
<1>5. Highest(S) = CHOOSE k \in S : Tops(k)
  BY Zenon DEF Highest
<1> HIDE DEF Tops
<1> QED
  BY <1>3, <1>4, <1>5

\* A non-empty set of places has a last one.
LEMMA LastPlace ==
  ASSUME NEW n \in Nat, NEW H, H \subseteq 1..n, H # {}
  PROVE  Max(H) \in H /\ \A l \in H : l <= Max(H)
<1> DEFINE above == {n - k : k \in H}
<1>1. \A k \in H : k \in Nat /\ k <= n /\ n - k \in Nat
  <2> SUFFICES ASSUME NEW k \in H PROVE k \in Nat /\ k <= n /\ n - k \in Nat
    OBVIOUS
  <2>1. k \in 1..n
    OBVIOUS
  <2> QED
    BY <2>1
<1>2. above \subseteq Nat /\ above # {}
  BY <1>1
<1>3. PICK d \in above : \A e \in above : d <= e
  BY <1>2, LeastNatural
<1>4. PICK k \in H : d = n - k
  BY <1>3
<1>5. \A l \in H : k >= l
  <2> SUFFICES ASSUME NEW l \in H PROVE k >= l
    OBVIOUS
  <2>1. n - k <= n - l
    BY <1>3, <1>4
  <2>2. k \in Nat /\ l \in Nat
    BY <1>1
  <2> QED
    BY <2>1, <2>2
<1>6. Max(H) \in H /\ \A l \in H : Max(H) >= l
  BY <1>4, <1>5 DEF Max
<1>7. Max(H) \in Nat
  BY <1>1, <1>6
<1> QED
  BY <1>1, <1>6, <1>7

\* What the user clicks is what the user sees: for any number of windows, the
\* bubble sort of wm_compose draws every visible window, and over every point the
\* window that wm_window_at finds there is the last one drawn.
THEOREM ClicksHitTopDrawn == WmSpec => []ClickHitsTopDrawn
<1>1. WmInv => ClickHitsTopDrawn
  <2> SUFFICES ASSUME WmInv PROVE ClickHitsTopDrawn
    OBVIOUS
  <2> DEFINE n == Cardinality(Visible)
  <2>1. WmTypeOK /\ ZOrderUnique
    BY DEF WmInv
  <2>2. /\ Len(Drawn) = n /\ n \in Nat /\ DOMAIN Drawn = 1..n
        /\ \A i : i \in Visible <=> \E k \in 1..n : Drawn[k] = i
        /\ \A k \in 1..n : \A l \in 1..k : Height(Drawn, l) <= Height(Drawn, k)
    BY <2>1, DrawnInOrder
  <2> HIDE DEF n
  <2>3. Range(Drawn) = Visible
    BY <2>2 DEF Range
  <2>4. ASSUME NEW p \in Points
        PROVE  LET hit == {k \in DOMAIN Drawn : point_in_window(windows[Drawn[k]], p)}
               IN  wm_window_at(p) = IF hit = {} THEN -1 ELSE Drawn[Max(hit)]
    <3> DEFINE hit == {k \in DOMAIN Drawn : point_in_window(windows[Drawn[k]], p)}
               S == {i \in Visible : point_in_window(windows[i], p)}
    <3>1. hit \subseteq 1..n
      BY <2>2
    <3>2. \A i : i \in S <=> \E k \in hit : Drawn[k] = i
      BY <2>2
    <3>3. wm_window_at(p) = Highest(S) /\ S \subseteq UsedSlots
      BY SlotsOfWindows DEF wm_window_at
    <3> HIDE DEF hit, S
    <3>4. CASE hit = {}
      <4>1. S = {}
        BY <3>2, <3>4
      <4> QED
        BY <3>3, <3>4, <4>1 DEF Highest, hit
    <3>5. CASE hit # {}
      <4>1. Max(hit) \in hit /\ \A l \in hit : l <= Max(hit)
        BY <2>2, <3>1, <3>5, LastPlace
      <4> DEFINE k == Max(hit)
      <4>2. k \in 1..n /\ Drawn[k] \in S
        BY <3>1, <3>2, <4>1
      <4>3. \A j \in S : windows[j].z_order <= windows[Drawn[k]].z_order
        <5> SUFFICES ASSUME NEW j \in S PROVE windows[j].z_order <= windows[Drawn[k]].z_order
          OBVIOUS
        <5>1. PICK l \in hit : Drawn[l] = j
          BY <3>2
        <5>2. l \in 1..k
          BY <2>2, <3>1, <4>1, <4>2, <5>1
        <5>3. Height(Drawn, l) <= Height(Drawn, k)
          BY <2>2, <4>2, <5>2
        <5> QED
          BY <5>1, <5>3 DEF Height
      <4>4. Highest(S) = Drawn[k]
        <5> HIDE DEF k
        <5> QED
          BY <2>1, <3>3, <4>2, <4>3, HighestIsTop
      <4> QED
        BY <3>3, <3>5, <4>4 DEF hit
    <3> QED
      BY <3>4, <3>5
  <2> QED
    BY <2>2, <2>3, <2>4 DEF ClickHitsTopDrawn, n
<1> QED
  BY InitWmInv, NextWmInv, <1>1, PTL DEF WmSpec
=============================================================================
