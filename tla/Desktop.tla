------------------------------ MODULE Desktop ------------------------------
(***************************************************************************)
(* The graphical desktop: windows and mouse events (gui/gui.c), launching  *)
(* of applications (apps/apps.c), the mouse interrupt (drivers/mouse.c)    *)
(* and the GUI half of the main loop (kernel/kernel.c).                    *)
(*                                                                         *)
(* The interrupt handler runs mouse events to their end, launching and     *)
(* destroying windows, while the main loop may be anywhere: in particular  *)
(* inside gui_move_window, before either limit of the window's new place   *)
(* is computed from its size and before either coordinate is stored.       *)
(* Lengths are counted in cells coarser than pixels; the title bar is the  *)
(* top row of a window, the close button its last cell.  The memory of a   *)
(* destroyed window gives any size when it is read; what a store to it     *)
(* does is not followed (when the record of an application launched since  *)
(* lies there, its pointers to functions are hit).  drag_offset is kept    *)
(* only while there is a drag.  Drawing is reduced to which rectangle is   *)
(* painted last.                                                           *)
(***************************************************************************)
EXTENDS Integers, Sequences, SequencesExt, TLC

CONSTANTS
  SCREEN_WIDTH, SCREEN_HEIGHT, TASKBAR_HEIGHT,
  Addr,          \* where windows can lie in memory
  AppType,       \* the applications that icons launch
  Frame,         \* type -> where its window opens: [x, y, width, height]
  Icon,          \* type -> the cell of its icon
  DataFirst,     \* types that allocate their data before the window, and give up without it
  MaxApps,       \* bound: applications launched
  Stale,         \* sizes that the memory of a destroyed window may hold
  Movement,      \* the pairs of movement bytes that packets carry
  Button,        \* the buttons of the mouse
  MaxScroll      \* bound: rows scrolled in the explorer

NULL == 0

ASSUME AddrAssumption == Addr \subseteq Nat \ {NULL} /\ IsFiniteSet(Addr)
ASSUME ScreenAssumption ==
  /\ SCREEN_WIDTH \in Nat \ {0} /\ SCREEN_HEIGHT \in Nat \ {0}
  /\ TASKBAR_HEIGHT \in 0 .. SCREEN_HEIGHT
\* The windows of all applications open on the screen, above the taskbar.
ASSUME FrameAssumption ==
  \A t \in AppType :
    /\ Frame[t] \in [x : Nat, y : Nat, width : Nat, height : Nat]
    /\ Frame[t].x + Frame[t].width <= SCREEN_WIDTH
    /\ Frame[t].y + Frame[t].height <= SCREEN_HEIGHT - TASKBAR_HEIGHT
ASSUME StaleAssumption == Stale # {} /\ Stale \subseteq [width : Int, height : Int]
ASSUME MovementAssumption == Movement \subseteq (0 .. 255) \X (0 .. 255)

NoOffset == [x |-> 0, y |-> 0]
NoMove   == [window |-> NULL, x |-> 0, y |-> 0, lost |-> FALSE, next |-> "none"]

VARIABLES
  desk,          \* gui_system, the windows in memory and the applications
  mouse,         \* mouse_state: position and buttons
  moving,        \* variables of the gui_move_window under way and what it does
                 \* next, or NoMove; lost: its window was destroyed meanwhile
  astray         \* history: the windows last placed by such a lost move

vars == <<desk, mouse, moving, astray>>

(***************************************************************************)
(* Geometry.                                                               *)
(***************************************************************************)
Inside(p, r) == /\ p.x >= r.x /\ p.x < r.x + r.width
                /\ p.y >= r.y /\ p.y < r.y + r.height

Rect(x, y, w, h) == [x |-> x, y |-> y, width |-> w, height |-> h]

CloseButton(r) == Rect(r.x + r.width - 1, r.y, 1, 1)
TitleBar(r)    == Rect(r.x, r.y, r.width, 1)
ScrollUp(r)    == Rect(r.x + r.width - 1, r.y + 1, 1, 1)
ScrollDown(r)  == Rect(r.x + r.width - 1, r.y + r.height - 1, 1, 1)

(***************************************************************************)
(* The list of windows.                                                    *)
(***************************************************************************)

\* The windows that the links lead to from the head, one more than there are
\* addresses at most: a cycle would show.
Chain(d) ==
  LET limit == Cardinality(Addr) + 1
      From[n \in 0 .. limit] ==
        [w \in Addr \cup {NULL} |->
           IF n = 0 \/ w = NULL THEN << >> ELSE <<w>> \o From[n - 1][d.next[w]]]
  IN From[limit][d.windows]

Unlinked(d, w) ==
  LET before == {p \in Range(Chain(d)) : d.next[p] = w}
  IN CASE d.windows = w  -> [d EXCEPT !.windows = d.next[w]]
       [] d.windows # w /\ before # {} -> [d EXCEPT !.next[CHOOSE p \in before : TRUE] = d.next[w]]
       [] OTHER          -> d

\* dragged_window is no longer w.
Dropped(d, w) ==
  [d EXCEPT !.offset = IF d.dragged = w THEN NoOffset ELSE @,
            !.dragged = IF @ = w THEN NULL ELSE @]

\* gui_create_window at a free address w.
Create(d, w, bounds) ==
  [d EXCEPT !.live = @ \cup {w}, !.bounds[w] = bounds, !.user_data[w] = NULL,
            !.next[w] = d.windows, !.windows = w, !.focused = w]

Destroy_keepsFocus(d, w) ==                                          \* slip
  [Dropped(Unlinked(d, w), w) EXCEPT !.live = @ \ {w}]

Destroy(d, w) ==
  LET u == Dropped(Unlinked(d, w), w)
  IN [u EXCEPT !.focused = IF @ = w THEN u.windows ELSE @,
               !.live = @ \ {w}, !.next[w] = NULL, !.bounds[w] = Rect(0, 0, 1, 1),
               !.user_data[w] = NULL]

Focus_noUnlink(d, w) ==                                              \* slip
  IF d.focused = w THEN d
  ELSE [d EXCEPT !.next[w] = d.windows, !.windows = w, !.focused = w]

Focus(d, w) ==
  IF d.focused = w \/ d.windows = w THEN [d EXCEPT !.focused = w]
  ELSE LET u == Unlinked(d, w)
       IN [u EXCEPT !.next[w] = u.windows, !.windows = w, !.focused = w]

\* Where gui_move_window lets a window of that width or height begin.
ClampedX_short(x, width) ==                                          \* slip
  LET n == IF x < 0 THEN 0 ELSE x
  IN IF n + width >= SCREEN_WIDTH THEN SCREEN_WIDTH - width - 1 ELSE n

ClampedX(x, width) ==
  LET n == IF x < 0 THEN 0 ELSE x
  IN IF n + width > SCREEN_WIDTH THEN SCREEN_WIDTH - width ELSE n

ClampedY_noTaskbar(y, height) ==                                     \* slip
  LET n == IF y < 0 THEN 0 ELSE y
  IN IF n + height > SCREEN_HEIGHT THEN SCREEN_HEIGHT - height ELSE n

ClampedY(y, height) ==
  LET n == IF y < 0 THEN 0 ELSE y
      bottom == SCREEN_HEIGHT - TASKBAR_HEIGHT
  IN IF n + height > bottom THEN bottom - height ELSE n

\* gui_get_window_at: the first of the list under the point.
WindowAt(d, p) ==
  LET c == Chain(d)
      under == {i \in DOMAIN c : Inside(p, d.bounds[c[i]])}
  IN IF under = {} THEN NULL ELSE c[CHOOSE i \in under : \A j \in under : i <= j]

(***************************************************************************)
(* Applications.  kmalloc takes the first of equally good places; an       *)
(* allocation that fails gives NULL: without a record nothing is launched; *)
(* the inits that do not look write the fields of a missing window or of   *)
(* missing data to low memory, where nothing of the desktop lies.          *)
(***************************************************************************)
NothingAllocated == [record |-> FALSE, data |-> FALSE, window |-> NULL]

Allocations ==
  {NothingAllocated}
    \cup [record : {TRUE}, data : BOOLEAN,
          window : {NULL} \cup {w \in Addr \ desk.live : \A v \in Addr \ desk.live : w <= v}]

\* apps_create, at the end of a sequence instead of the head of a list.
AppsCreate(d, type) ==
  [d EXCEPT !.apps = Append(@, [type |-> type, window |-> NULL, data |-> FALSE, scroll_offset |-> 0])]

\* The window of application i opens at w.
Shown_byName(d, i, w) ==                                             \* slip
  LET type == d.apps[i].type
      same == {j \in DOMAIN d.apps : d.apps[j].type = type}
      e    == Create(d, w, Frame[type])
  IN [e EXCEPT !.apps[i].window = w, !.user_data[w] = CHOOSE j \in same : \A k \in same : j <= k]

Shown(d, i, w) ==
  LET e == Create(d, w, Frame[d.apps[i].type])
  IN [e EXCEPT !.apps[i].window = w, !.user_data[w] = i]

\* The inits of terminal, explorer and minesweeper ...
InitWindowFirst(d, i, a) ==
  [IF a.window = NULL THEN d ELSE Shown(d, i, a.window) EXCEPT !.apps[i].data = a.data]

\* ... and those of editor, monitor and browser.
InitDataFirst(d, i, a) == IF a.data THEN InitWindowFirst(d, i, a) ELSE d

Launch(d, type, a) ==
  LET e == AppsCreate(d, type)
      i == Len(e.apps)
  IN CASE ~a.record -> d
       [] a.record /\ type \in DataFirst -> InitDataFirst(e, i, a)
       [] OTHER -> InitWindowFirst(e, i, a)

\* Body of an explorer's window: its scroll buttons.
Scroll(d, app, r, p) ==
  IF d.apps[app].type # "explorer" \/ ~d.apps[app].data THEN d
  ELSE CASE Inside(p, ScrollUp(r)) /\ d.apps[app].scroll_offset > 0
              -> [d EXCEPT !.apps[app].scroll_offset = @ - 1]
         [] ~(Inside(p, ScrollUp(r)) /\ d.apps[app].scroll_offset > 0) /\ Inside(p, ScrollDown(r))
              -> [d EXCEPT !.apps[app].scroll_offset = @ + 1]
         [] OTHER -> d

(***************************************************************************)
(* Mouse events, in the interrupt.                                         *)
(***************************************************************************)
ClickWindow(d, w, p) ==
  LET f == Focus(d, w)
      r == f.bounds[w]
  IN CASE Inside(p, CloseButton(r)) -> Destroy(f, w)
       [] Inside(p, TitleBar(r)) /\ ~Inside(p, CloseButton(r))
            -> [f EXCEPT !.dragged = w, !.offset = [x |-> p.x - r.x, y |-> p.y - r.y]]
       [] OTHER -> IF f.user_data[w] = NULL THEN f ELSE Scroll(f, f.user_data[w], r, p)

IconAt(p) == {t \in AppType : Inside(p, Rect(Icon[t].x, Icon[t].y, 1, 1))}

ClickDesktop(d, p, a) ==
  IF IconAt(p) = {} THEN d ELSE Launch(d, CHOOSE t \in IconAt(p) : TRUE, a)

Press(d, p, a) ==
  LET w == WindowAt(d, p)
  IN IF w # NULL THEN ClickWindow(d, w, p) ELSE ClickDesktop(d, p, a)

HandleMouseEvent(d, m, a) ==
  LET left == "left" \in m.buttons
      e    == IF left /\ ~d.left_was_pressed THEN Press(d, m, a) ELSE d
  IN [IF left THEN e ELSE Dropped(e, e.dragged) EXCEPT !.left_was_pressed = left]

\* A byte stored in an int8_t.
SignedByte(b) == IF b < 128 THEN b ELSE b - 256

Clamp(n, size) == IF n < 0 THEN 0 ELSE IF n >= size THEN size - 1 ELSE n

\* The third byte of a packet.  The two before it were only stored.
MousePacket(buttons, dx, dy) ==
  LET m == [x |-> Clamp(mouse.x + SignedByte(dx), SCREEN_WIDTH),
            y |-> Clamp(mouse.y - SignedByte(dy), SCREEN_HEIGHT), buttons |-> buttons]
  IN /\ mouse' = m
     /\ IF mouse.buttons = buttons THEN desk' = desk
        ELSE \E a \in IF IconAt(m) = {} THEN {NothingAllocated} ELSE Allocations :
                desk' = HandleMouseEvent(desk, m, a)
     /\ Len(desk'.apps) <= MaxApps
     /\ \A i \in DOMAIN desk'.apps : desk'.apps[i].scroll_offset <= MaxScroll
     /\ moving' = [moving EXCEPT !.lost = moving # NoMove /\ (@ \/ moving.window \notin desk'.live)]
     /\ astray' = astray \cap desk'.live

(***************************************************************************)
(* A turn of the main loop.  Services, applications and drawing change     *)
(* nothing here; the hlt at its end lasts until an interrupt, and the      *)
(* timer's keep coming.                                                    *)
(***************************************************************************)

Dragging == desk.dragged # NULL /\ "left" \in mouse.buttons

\* gui_update up to the call of gui_move_window ...
Update ==
  /\ moving = NoMove
  /\ Dragging
  /\ moving' = [window |-> desk.dragged, x |-> mouse.x - desk.offset.x,
                y |-> mouse.y - desk.offset.y, lost |-> FALSE, next |-> "clampX"]
  /\ UNCHANGED <<desk, mouse, astray>>

\* ... and the call, which interrupts may separate from it and take apart:
\* the size of the window is read for each limit, ...
Sizes(w) ==
  IF w \in desk.live THEN {[width |-> desk.bounds[w].width, height |-> desk.bounds[w].height]}
  ELSE Stale

ClampX ==
  /\ moving.next = "clampX"
  /\ \E size \in Sizes(moving.window) :
        moving' = [moving EXCEPT !.x = ClampedX(@, size.width), !.next = "clampY"]
  /\ UNCHANGED <<desk, mouse, astray>>

ClampY ==
  /\ moving.next = "clampY"
  /\ \E size \in Sizes(moving.window) :
        moving' = [moving EXCEPT !.y = ClampedY(@, size.height), !.next = "storeX"]
  /\ UNCHANGED <<desk, mouse, astray>>

\* ... and each coordinate stored, in whatever lies at the address by then.
StoreX ==
  LET w == moving.window
  IN /\ moving.next = "storeX"
     /\ moving' = [moving EXCEPT !.x = 0, !.next = "storeY"]          \* x is not read again
     /\ desk' = IF w \in desk.live THEN [desk EXCEPT !.bounds[w].x = moving.x] ELSE desk
     /\ astray' = IF w \in desk.live /\ moving.lost THEN astray \cup {w} ELSE astray
     /\ UNCHANGED mouse

StoreY ==
  LET w == moving.window
  IN /\ moving.next = "storeY"
     /\ moving' = NoMove
     /\ desk' = IF w \in desk.live THEN [desk EXCEPT !.bounds[w].y = moving.y] ELSE desk
     /\ astray' = IF w \in desk.live /\ moving.lost THEN astray \cup {w} ELSE astray \ {w}
     /\ UNCHANGED mouse

\* start_gui_mode: no window, the pointer in the middle.
Init ==
  /\ desk = [windows |-> NULL, focused |-> NULL, dragged |-> NULL, offset |-> NoOffset,
             left_was_pressed |-> FALSE, live |-> {}, next |-> [w \in Addr |-> NULL],
             bounds |-> [w \in Addr |-> Rect(0, 0, 1, 1)], user_data |-> [w \in Addr |-> NULL],
             apps |-> << >>]
  /\ mouse = [x |-> SCREEN_WIDTH \div 2, y |-> SCREEN_HEIGHT \div 2, buttons |-> {}]
  /\ moving = NoMove
  /\ astray = {}

MainLoop == Update \/ ClampX \/ ClampY \/ StoreX \/ StoreY

Next ==
  \/ MainLoop
  \/ \E buttons \in SUBSET Button, m \in Movement : MousePacket(buttons, m[1], m[2])

\* The processor executes the main loop between interrupts.
Spec == Init /\ [][Next]_vars /\ WF_vars(MainLoop)

(***************************************************************************)
(* What gui_render leaves on the screen: rectangles painted over one       *)
(* another, the windows in the order of the list.                          *)
(***************************************************************************)
Painted(what, r) == <<[what |-> what, rect |-> r]>>

DesktopLayers == Painted("desktop", Rect(0, 0, SCREEN_WIDTH, SCREEN_HEIGHT - TASKBAR_HEIGHT))

WindowLayers(d) ==
  LET c == Chain(d) IN [i \in DOMAIN c |-> [what |-> ToString(c[i]), rect |-> d.bounds[c[i]]]]

TaskbarLayers ==
  Painted("taskbar", Rect(0, SCREEN_HEIGHT - TASKBAR_HEIGHT, SCREEN_WIDTH, TASKBAR_HEIGHT))

Render(d) == DesktopLayers \o WindowLayers(d) \o TaskbarLayers

\* Each pixel keeps the colour it was given last.
Seen(d, p) ==
  LET layers == Render(d)
      covering == {i \in DOMAIN layers : Inside(p, layers[i].rect)}
  IN layers[CHOOSE i \in covering : \A j \in covering : j <= i].what

(***************************************************************************)
(* Properties.                                                             *)
(***************************************************************************)

\* The links lead to exactly the windows that exist; the focused one is the
\* first; the one being dragged is that one, and the left button is held: a
\* drag never outlives its window or its button.
FocusIsTop ==
  /\ Range(Chain(desk)) = desk.live
  /\ desk.focused = desk.windows
  /\ desk.dragged # NULL => desk.dragged = desk.focused /\ "left" \in mouse.buttons

\* Every window belongs to an application that holds its address, although
\* applications go on holding the address of a window that was closed, where
\* another one may have been made since.
WindowsBelong ==
  \A w \in desk.live :
    /\ desk.user_data[w] \in DOMAIN desk.apps
    /\ desk.apps[desk.user_data[w]].window = w
    /\ \A v \in desk.live \ {w} : desk.user_data[v] # desk.user_data[w]

\* The linked list is a stack of windows.
Stack == INSTANCE WindowStack WITH Window <- Addr, stack <- Chain(desk)

RefinesWindowStack == Stack!Spec

\* What a click would reach is what is seen there, wherever windows do not lie
\* over one another (gui_render paints the first of the list first, so there
\* the last one is seen and the first one clicked), for no window is in part
\* under the taskbar or off the screen.  That fails for a window made where
\* the window being moved was destroyed in the meantime, and for no other; it
\* may be anywhere until a move that does not lose its window ends, and where
\* it is under the taskbar the click goes to it all the same.
ClicksReachWhatIsSeen ==
  /\ \A x \in 0 .. SCREEN_WIDTH - 1, y \in 0 .. SCREEN_HEIGHT - 1 :
       LET p == [x |-> x, y |-> y]
           w == WindowAt(desk, p)
           above == y < SCREEN_HEIGHT - TASKBAR_HEIGHT
           ground == IF above THEN "desktop" ELSE "taskbar"
           there == {v \in desk.live : Inside(p, desk.bounds[v])}
       IN Cardinality(there) <= 1 /\ (above \/ there \cap astray = {})
            => Seen(desk, p) = IF w = NULL THEN ground ELSE ToString(w)
  /\ \A w \in desk.live \ astray :
       LET r == desk.bounds[w]
       IN /\ r.x >= 0 /\ r.x + r.width <= SCREEN_WIDTH
          /\ r.y >= 0 /\ r.y + r.height <= SCREEN_HEIGHT - TASKBAR_HEIGHT

\* Where the pointer has dragged a window to, as near as the screen allows.
CaughtUp ==
  LET r == desk.bounds[desk.dragged]
      Nearest(n, most) == CHOOSE k \in 0 .. most : \A l \in 0 .. most : (k - n)^2 <= (l - n)^2
  IN /\ r.x = Nearest(mouse.x - desk.offset.x, SCREEN_WIDTH - r.width)
     /\ r.y = Nearest(mouse.y - desk.offset.y, SCREEN_HEIGHT - TASKBAR_HEIGHT - r.height)

\* A window being dragged reaches the pointer once the mouse rests, although
\* the main loop moves it to where the mouse was when it looked.
DragCatchesUp == []<>(Dragging => CaughtUp) \/ []<><<mouse' # mouse>>_vars
=============================================================================
