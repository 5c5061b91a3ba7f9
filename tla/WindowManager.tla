---------------------------- MODULE WindowManager ----------------------------
(***************************************************************************)
(* kernel/gui/window_manager.c: a table of windows with a stacking order,  *)
(* changed by the programs that own the windows and by wm_process_mouse,   *)
(* which the main loop calls, and drawn by wm_compose.                     *)
(*                                                                         *)
(* A slot that is not used keeps what it held.  Titles, colours, the       *)
(* resizing flags and WINDOW_FOCUSED, which nothing reads, are left out.   *)
(***************************************************************************)
EXTENDS Integers, SequencesExt

CONSTANTS
  WM_MAX_WINDOWS, WM_TITLEBAR_HEIGHT, WM_BORDER_SIZE, WM_BUTTON_SIZE,
  CLOSE_MARGIN,     \* the 4 between the close button and the border
  Points,           \* where the mouse and the windows' owners point, [x, y]
  Sizes,            \* content sizes, [width, height]
  FlagSets,         \* subsets of {"visible", "movable", "closable"}
  Z_BOUND           \* bound: top_z_order stops here

ASSUME WindowAssumption ==
  /\ WM_MAX_WINDOWS \in Nat \ {0} /\ Z_BOUND \in Nat
  /\ WM_TITLEBAR_HEIGHT \in Nat /\ WM_BORDER_SIZE \in Nat
  /\ WM_BUTTON_SIZE \in Nat /\ CLOSE_MARGIN \in Nat
  /\ Points \subseteq [x : Int, y : Int]
  /\ Sizes \subseteq [width : Nat, height : Nat]
  /\ FlagSets \subseteq SUBSET {"visible", "movable", "closable"}

VARIABLES
  windows,          \* [Slots -> window_t]
  window_used,      \* [Slots -> BOOLEAN]
  focused_window, top_z_order,
  prev_left_btn

wmVars == <<windows, window_used, focused_window, top_z_order, prev_left_btn>>

Slots == 0..(WM_MAX_WINDOWS - 1)

window_t ==
  [x : Int, y : Int, width : Nat, height : Nat,
   flags : SUBSET {"visible", "movable", "closable"},
   z_order : Nat, is_dragging : BOOLEAN, drag_x : Int, drag_y : Int]

WmTypeOK ==
  /\ windows \in [Slots -> window_t] /\ window_used \in [Slots -> BOOLEAN]
  /\ focused_window \in Slots \cup {-1}
  /\ top_z_order \in Nat /\ prev_left_btn \in BOOLEAN

-----------------------------------------------------------------------------
UsedSlots == {i \in Slots : window_used[i]}
Visible == {i \in UsedSlots : "visible" \in windows[i].flags}

InBox(p, x, y, w, h) == x <= p.x /\ p.x < x + w /\ y <= p.y /\ p.y < y + h

point_in_window(win, p) ==
  InBox(p, win.x, win.y, win.width + WM_BORDER_SIZE * 2,
        win.height + WM_TITLEBAR_HEIGHT + WM_BORDER_SIZE)

wm_point_in_titlebar(win, p) ==
  InBox(p, win.x + WM_BORDER_SIZE, win.y, win.width, WM_TITLEBAR_HEIGHT)

wm_point_in_close_button(win, p) ==
  /\ "closable" \in win.flags
  /\ InBox(p, win.x + WM_BORDER_SIZE + win.width - WM_BUTTON_SIZE - CLOSE_MARGIN,
           win.y + (WM_TITLEBAR_HEIGHT - WM_BUTTON_SIZE) \div 2,
           WM_BUTTON_SIZE, WM_BUTTON_SIZE)

\* The first slot of S that no other slot of S lies above; -1 if S is empty.
Highest(S) ==
  IF S = {} THEN -1
  ELSE CHOOSE i \in S : \A j \in S : \/ windows[j].z_order < windows[i].z_order
                                     \/ windows[j].z_order = windows[i].z_order /\ i <= j

wm_window_at(p) == Highest({i \in Visible : point_in_window(windows[i], p)})

-----------------------------------------------------------------------------
(* wm_compose                                                              *)

Swap(order, j) ==
  IF windows[order[j]].z_order > windows[order[j + 1]].z_order
  THEN [order EXCEPT ![j] = order[j + 1], ![j + 1] = order[j]] ELSE order

\* One pass of the inner loop: the first n neighbours, from the front.
Sweep(order, n) ==
  LET swept[j \in 0..n] == IF j = 0 THEN order ELSE Swap(swept[j - 1], j)
  IN  swept[n]

\* Mutant: the sweeps stop one short.
SortShort(order) ==
  LET sorted[i \in 0..Len(order)] ==
        IF i = 0 THEN order ELSE Sweep(sorted[i - 1], Len(order) - i - 1)
  IN  IF order = <<>> THEN order ELSE sorted[Len(order) - 1]

\* The bubble sort: sweep i compares the first Len(order) - i neighbours.
sort_windows_by_z(order) ==
  LET sorted[i \in 0..Len(order)] ==
        IF i = 0 THEN order ELSE Sweep(sorted[i - 1], Len(order) - i)
  IN  IF order = <<>> THEN order ELSE sorted[Len(order) - 1]

\* The visible windows in the order of their slots.
Collected ==
  LET visible[n \in 0..WM_MAX_WINDOWS] ==
        IF n = 0 THEN <<>>
        ELSE IF n - 1 \in Visible THEN Append(visible[n - 1], n - 1) ELSE visible[n - 1]
  IN  visible[WM_MAX_WINDOWS]

\* The windows in the order in which they are drawn, back to front.
Drawn == sort_windows_by_z(Collected)

-----------------------------------------------------------------------------
(* What wm_focus_window and wm_destroy_window do, before an assignment to    *)
(* the window's other fields: the z_order and the focus that result.         *)

Raised(i, win) == [windows EXCEPT ![i] = [win EXCEPT !.z_order = top_z_order + 1]]

\* The focus after window i is gone.
NextFocus(i) == IF focused_window = i THEN Highest(Visible \ {i}) ELSE focused_window

FreeSlot ==
  LET free == Slots \ UsedSlots
  IN  IF free = {} THEN -1 ELSE CHOOSE i \in free : \A j \in free : i <= j

wm_create_window(at, size, flags) ==
  LET slot == FreeSlot
  IN  /\ slot # -1 /\ top_z_order + 2 <= Z_BOUND
      /\ windows' = [windows EXCEPT ![slot] =
           [@ EXCEPT !.x = at.x, !.y = at.y, !.width = size.width, !.height = size.height,
                     !.flags = flags, !.z_order = top_z_order + 2, !.is_dragging = FALSE]]
      /\ window_used' = [window_used EXCEPT ![slot] = TRUE]
      /\ focused_window' = slot
      /\ top_z_order' = top_z_order + 2      \* one here, one in wm_focus_window
      /\ UNCHANGED prev_left_btn

\* Mutant: the focus is left on the window that is gone.
DestroyKeepsFocus(i) ==
  /\ i \in UsedSlots
  /\ window_used' = [window_used EXCEPT ![i] = FALSE]
  /\ UNCHANGED <<windows, focused_window, top_z_order, prev_left_btn>>

wm_destroy_window(i) ==
  /\ i \in UsedSlots
  /\ window_used' = [window_used EXCEPT ![i] = FALSE]
  /\ focused_window' = NextFocus(i)
  /\ UNCHANGED <<windows, top_z_order, prev_left_btn>>

\* Mutant: the window is raised to top_z_order, which another one has.
FocusWithoutIncrement(i) ==
  /\ i \in UsedSlots
  /\ focused_window' = i
  /\ windows' = [windows EXCEPT ![i].z_order = top_z_order]
  /\ UNCHANGED <<window_used, top_z_order, prev_left_btn>>

wm_focus_window(i) ==
  /\ i \in UsedSlots /\ top_z_order < Z_BOUND
  /\ focused_window' = i
  /\ windows' = Raised(i, windows[i])
  /\ top_z_order' = top_z_order + 1
  /\ UNCHANGED <<window_used, prev_left_btn>>

Change(i, win) ==
  /\ i \in UsedSlots
  /\ windows' = [windows EXCEPT ![i] = win]
  /\ UNCHANGED <<window_used, focused_window, top_z_order, prev_left_btn>>

wm_set_position(i, at) == Change(i, [windows[i] EXCEPT !.x = at.x, !.y = at.y])
wm_set_size(i, size) == Change(i, [windows[i] EXCEPT !.width = size.width, !.height = size.height])
wm_set_visible(i, visible) ==
  Change(i, [windows[i] EXCEPT !.flags = IF visible THEN @ \cup {"visible"} ELSE @ \ {"visible"}])

-----------------------------------------------------------------------------
(* wm_process_mouse                                                        *)

Dragging == focused_window >= 0 /\ windows[focused_window].is_dragging

Drag(p) ==
  LET win == windows[focused_window]
      y == p.y - win.drag_y
  IN  /\ windows' = [windows EXCEPT ![focused_window] =
                       [win EXCEPT !.x = p.x - win.drag_x, !.y = IF y < 0 THEN 0 ELSE y]]
      /\ UNCHANGED <<window_used, focused_window, top_z_order>>

Drop ==
  /\ windows' = [windows EXCEPT ![focused_window].is_dragging = FALSE]
  /\ UNCHANGED <<window_used, focused_window, top_z_order>>

\* A click focuses the window and then closes it or starts to drag it.
Click(i, p) ==
  LET win == windows[i]
      closes == wm_point_in_close_button(win, p)
      grabs == ~closes /\ wm_point_in_titlebar(win, p) /\ "movable" \in win.flags
      grabbed == [win EXCEPT !.is_dragging = TRUE, !.drag_x = p.x - win.x, !.drag_y = p.y - win.y]
  IN  /\ top_z_order < Z_BOUND
      /\ top_z_order' = top_z_order + 1
      /\ windows' = Raised(i, IF grabs THEN grabbed ELSE win)
      /\ window_used' = [window_used EXCEPT ![i] = ~closes]
      /\ focused_window' = IF closes THEN Highest(Visible \ {i}) ELSE i

wm_process_mouse(p, left_btn) ==
  /\ prev_left_btn' = left_btn
  /\ \/ Dragging /\ left_btn /\ Drag(p)
     \/ Dragging /\ ~left_btn /\ Drop
     \/ /\ ~Dragging /\ left_btn /\ ~prev_left_btn
        /\ wm_window_at(p) # -1
        /\ Click(wm_window_at(p), p)
     \/ /\ ~Dragging /\ (~left_btn \/ prev_left_btn \/ wm_window_at(p) = -1)
        /\ UNCHANGED <<windows, window_used, focused_window, top_z_order>>

-----------------------------------------------------------------------------
\* wm_init
WmInit ==
  /\ windows = [i \in Slots |->
       [x |-> 0, y |-> 0, width |-> 0, height |-> 0, flags |-> {}, z_order |-> 0,
        is_dragging |-> FALSE, drag_x |-> 0, drag_y |-> 0]]
  /\ window_used = [i \in Slots |-> FALSE]
  /\ focused_window = -1 /\ top_z_order = 0 /\ prev_left_btn = FALSE

WmNext ==
  \/ \E at \in Points, size \in Sizes, flags \in FlagSets : wm_create_window(at, size, flags)
  \/ \E i \in Slots : \/ wm_destroy_window(i) \/ wm_focus_window(i)
                      \/ \E at \in Points : wm_set_position(i, at)
                      \/ \E size \in Sizes : wm_set_size(i, size)
                      \/ \E visible \in BOOLEAN : wm_set_visible(i, visible)
  \/ \E p \in Points, left_btn \in BOOLEAN : wm_process_mouse(p, left_btn)

WmSpec == WmInit /\ [][WmNext]_wmVars

-----------------------------------------------------------------------------
\* The stacking order is one: no two windows share a z_order, so the click test
\* and the drawing, which break ties differently, cannot disagree.
ZOrderUnique ==
  \A i, j \in UsedSlots : windows[i].z_order = windows[j].z_order => i = j

\* What is clicked is what is seen: the window that wm_window_at finds is the last
\* one that wm_compose draws over the point, and every visible window is drawn.
ClickHitsTopDrawn ==
  /\ Range(Drawn) = Visible /\ Len(Drawn) = Cardinality(Visible)
  /\ \A p \in Points :
       LET hit == {k \in DOMAIN Drawn : point_in_window(windows[Drawn[k]], p)}
       IN  wm_window_at(p) = IF hit = {} THEN -1 ELSE Drawn[Max(hit)]

\* The keyboard's window exists: wherever a window is closed from, by its owner,
\* by a click or in the middle of a drag, the focus is not left on a dead slot.
FocusedExists == focused_window # -1 => focused_window \in UsedSlots
=============================================================================
