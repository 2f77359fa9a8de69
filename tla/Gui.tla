--------------------------------- MODULE Gui ---------------------------------
(***************************************************************************)
(* The GUI service, its frames, and the applications whose windows it      *)
(* shows.                                                                  *)
(*                                                                         *)
(* The thread of the service answers requests; once a frame the kernel     *)
(* thread handles the input of the host and composites, all under the lock *)
(* of the tree, so that no application touches a view meanwhile.  Input is *)
(* mailed to the owner of the view below the mouse, and each application   *)
(* handles its mail in its own time.                                       *)
(*                                                                         *)
(* Mail that only reaches methods View leaves empty (enter, leave, key,    *)
(* wheel and resize notices) is not kept; what the service does before it  *)
(* sends it is.                                                            *)
(***************************************************************************)
EXTENDS Views

CONSTANTS
  Titles, Buttons, \* the controls by class
  Launcher, LauncherBox, \* the first window and where it is put
  Positions,       \* where other windows ask to be put
  PrefSize,        \* of a control
  Held,            \* Held[w] : the child of window w
  ScreenBox,       \* what the host makes of the screen at first
  Sizes,           \* the sizes the host window may take
  Points,          \* where the mouse may go
  Cuts,            \* what programs add to and take from the covered part
  MaxInputs,       \* bound: the events of the host in a behaviour
  MaxMends         \* bound: the changes made to what a window covers

\* Each control is of one class and the child of one window; positions and sizes are in pixels;
\* what a program adds to a region or takes from it is not empty.
ASSUME GuiAssumption ==
  /\ Titles \subseteq Controls /\ Buttons \subseteq Controls /\ Titles \cap Buttons = {}
  /\ Held \in [Windows -> Controls] /\ \A c \in Controls : \E w \in Windows : Held[w] = c
  /\ \A v, w \in Windows : Held[v] = Held[w] => v = w
  /\ PrefSize \in [Controls -> [w : Nat, h : Nat]]
  /\ Launcher \in Windows /\ LauncherBox \in Boxes
  /\ ScreenBox \in Boxes /\ ScreenBox.x = 0 /\ ScreenBox.y = 0
  /\ Sizes \subseteq Int \X Int /\ Points \subseteq Int \X Int
  /\ Cuts \subseteq AllRects /\ \A r \in Cuts : ~IsEmpty(r)

VARIABLES
  tree,
  fb,         \* fb[p] : what was drawn at pixel p, the lowest first
  at,         \* m_ctx : where a view was when last composited
  mouse,      \* m_mouse_x, m_mouse_y, m_mouse_buttons, m_mouse_id
  box,        \* the mailbox of the service
  phase,      \* of the service: waits for the first request, polls its mail, is
              \* in a frame, ended or crashed
  app,        \* of the application of a window
  mail,       \* to it
  grip,       \* m_last_buttons, m_mode of a window
  drag,       \* m_drag_x, m_drag_y of a title
  state,      \* m_state of a button
  held,       \* the buttons of the mouse that are down
  inputs,     \* the events so far
  other,      \* whether one was not a motion or the left button
  distracted, \* whether what a release means was upset while a button was held: by a
              \* key, the wheel, a second button, or moving with the right button
  lost,       \* pixels that were dirty in a window when it was taken away
  shrunk      \* whether the screen ever lost size: a bound

vars == <<tree, fb, at, mouse, box, phase, app, mail, grip, drag, state,
          held, inputs, other, distracted, lost, shrunk>>

-----------------------------------------------------------------------------
(* Compositing.                                                            *)

Grid == UNION {(0 .. s[1] - 1) \X (0 .. s[2] - 1) : s \in Sizes \cup {<<ScreenBox.w, ScreenBox.h>>}}

\* What a view lets nothing show through.
Cover(t, v) == IF Has(t, v, "opaque") THEN <<Whole(t.box[v])>> ELSE t.opaque[v]

\* On the way down: the cover of v, moved and clipped level by level, is taken
\* from what is already dirty in its ancestors.
HideBehind(t, v) ==
  LET path == PathUp(t, v)
      seen[i \in DOMAIN path] ==
        IF i = 1 THEN Cover(t, v)
        ELSE LET b == t.box[path[i - 1]]
             IN  ClipRect(Translate(seen[i - 1], b.x, b.y), Whole(t.box[path[i]]))
      Less(d, i) == [d EXCEPT ![path[i]] = RemoveRegion(seen[i], @, 0, 0)]
  IN  [t EXCEPT !.dirty = Walk([i \in 1 .. Len(path) - 1 |-> i + 1], @, Less)]

\* On the way up: what is dirty in v goes to its parent, or stays in the root.
Raise(t, v) ==
  LET p == IF t.parent[v] = NoView THEN v ELSE t.parent[v]
      b == t.box[v]
      own == ClipRect(t.dirty[v], Moved(Whole(t.box[p]), -b.x, -b.y))
      given == IF p = v THEN [t EXCEPT !.dirty[v] = own]
               ELSE [t EXCEPT !.dirty[p] = PasteRegion(own, @, b.x, b.y), !.dirty[v] = <<>>]
  IN  IF ~Has(t, v, "dirty_all") THEN given
      ELSE [given EXCEPT !.flags[v] = @ \ {"dirty_all"}, !.dirty[p] = PasteRect(@, InParent(b))]

Gather(t) ==
  Walk(BackwardTree(t), t,
       LAMBDA u, c : IF c.going = "up" THEN Raise(u, c.view) ELSE HideBehind(u, c.view))

\* The second walk: v takes its share of its parent, in the coordinates of the
\* screen, and leaves to those behind what it does not cover.
Share(t, v) ==
  LET p == t.parent[v]
      d == CopyRect(t.dirty[p], t.dirty[v], AbsRect(t, v))
      path == PathUp(t, v)
      clipped[i \in DOMAIN path] ==
        IF i = 1 THEN AbsRect(t, v) ELSE Common(clipped[i - 1], AbsRect(t, path[i]))
      hidden == [i \in 2 .. Len(path) |->
                   IF Has(t, v, "opaque") THEN <<clipped[i]>>
                   ELSE Translate(t.opaque[path[i - 1]], Place(t, path[i - 1])[1],
                                                         Place(t, path[i - 1])[2])]
      Less(u, i) == [u EXCEPT ![path[i]] = RemoveRegion(hidden[i], @, 0, 0)]
      taken == [t.dirty EXCEPT ![v] = d]
  IN  IF p = NoView THEN t
      ELSE IF d = <<>> THEN [t EXCEPT !.dirty = taken]
      ELSE [t EXCEPT !.dirty = Walk([i \in 1 .. Len(path) - 1 |-> i + 1], taken, Less)]

Distribute(t) == Walk(Visits(ForwardTree(t), "down"), t, Share)

\* A stand-in draws nothing; the backdrop and what is opaque leave nothing of
\* what was there.
Fills(t, v, p, there) ==
  \/ v = Screen
  \/ \E i \in DOMAIN Cover(t, v) : Holds(Cover(t, v)[i], p[1] - there.x, p[2] - there.y)

Blend(t, under, v, p) ==
  LET there == AbsRect(t, v)
      look == [view |-> v, where |-> there, pressed |-> v \in Buttons /\ state[v] = -1]
  IN  IF v \in Ghosts THEN under
      ELSE IF Fills(t, v, p, there) THEN <<look>> ELSE Append(under, look)

\* What the draw list, from the back to the front, makes of pixel p.
Drawn(t, list, under, p) ==
  LET drawn == SelectSeq(list, LAMBDA v : \E i \in DOMAIN t.dirty[v] :
                                            Holds(t.dirty[v][i], p[1], p[2]))
  IN  Walk(drawn, under, LAMBDA u, v : Blend(t, u, v, p))

Freed(t) == [t EXCEPT !.dirty = [v \in Nodes |-> <<>>]]

\* After the frame the flushed part of the screen is what the host shows.
Composite(t, shown) ==
  LET gathered == Gather(t)
      flush == Bounds(gathered.dirty[Screen])
      shared == Distribute(gathered)
      list == Reverse(SelectSeq(FrontToBack(t), LAMBDA v : shared.dirty[v] # <<>>))
  IN  [tree |-> Freed(gathered),
       fb |-> [p \in Grid |-> IF Holds(flush, p[1], p[2]) THEN Drawn(shared, list, shown[p], p)
                              ELSE shown[p]],
       fresh |-> Pixels(gathered.dirty[Screen], Grid)]

-----------------------------------------------------------------------------
(* Init and the service.                                                   *)

Unborn == [kids |-> [v \in Nodes |-> IF v \in Windows THEN <<Held[v]>> ELSE <<>>],
           parent |-> [v \in Nodes |-> IF v \in Controls
                                       THEN CHOOSE w \in Windows : Held[w] = v ELSE NoView],
           box |-> [v \in Nodes |-> Box(0, 0, 0, 0)],
           flags |-> [v \in Nodes |-> {"solid"}],
           dirty |-> [v \in Nodes |-> <<>>], opaque |-> [v \in Nodes |-> <<>>],
           gui |-> {}, temps |-> <<>>]

\* The screen has had its first size and its flag before the first message.
Init ==
  /\ tree = DirtyAll(ControlLayout(SetBounds(Unborn, Screen, ScreenBox), Screen), Screen)
  /\ fb = [p \in Grid |-> <<>>]
  /\ at = [v \in Nodes |-> <<0, 0>>]
  /\ mouse = [x |-> 0, y |-> 0, buttons |-> {}, id |-> NoView]
  /\ box = <<>>
  /\ phase = "waiting"
  /\ app = [w \in Windows |-> "new"]
  /\ mail = [w \in Windows |-> <<>>]
  /\ grip = [w \in Windows |-> [last |-> {}, mode |-> {}, x |-> 0, y |-> 0]]
  /\ drag = [c \in Titles |-> <<0, 0>>]
  /\ state = [c \in Buttons |-> 1]
  /\ held = {} /\ inputs = 0 /\ other = FALSE /\ distracted = FALSE /\ lost = {} /\ shrunk = FALSE

hostVars == <<held, inputs, other, distracted, shrunk>>
widgetVars == <<grip, drag, state>>

\* locate: beside the mouse, then fitted to the screen.
Locate(w, h, pos) ==
  LET sw == tree.box[Screen].w
      sh == tree.box[Screen].h
      x == CASE pos = "left" -> mouse.x
             [] pos = "right" -> mouse.x - w + 1
             [] OTHER -> mouse.x - w \div 2
      y == CASE pos = "top" -> mouse.y
             [] pos = "bottom" -> mouse.y - h + 1
             [] OTHER -> mouse.y - h \div 2
  IN  Box(Greater(0, Lesser(x, sw - w)), Greater(0, Lesser(y, sh - h)),
          Lesser(w, sw), Lesser(h, sh))

Serve ==
  /\ phase \in {"waiting", "poll"} /\ box # <<>>
  /\ phase' = "poll"
  /\ box' = Tail(box)
  /\ \E m \in {Head(box)} :
       CASE m.evt = "add_front" ->
              /\ tree' = DirtyAll(AddFront(tree, Screen, m.view), m.view)
              /\ app' = [app EXCEPT ![m.view] = "open"]
              /\ UNCHANGED <<mail, lost>>
         [] m.evt = "add_back" ->
              /\ tree' = DirtyAll(AddBack(tree, Screen, m.view), m.view)
              /\ app' = [app EXCEPT ![m.view] = "open"]
              /\ UNCHANGED <<mail, lost>>
         [] m.evt = "sub" ->
              /\ Spare(tree)
              /\ tree' = Sub(Hide(tree, m.view), m.view)
              /\ app' = [app EXCEPT ![m.view] = "gone"]
              /\ lost' = lost \cup Pixels(Translate(tree.dirty[m.view], tree.box[m.view].x,
                                                    tree.box[m.view].y), Grid)
              /\ mail' = mail
         [] m.evt = "locate" ->
              /\ mail' = [mail EXCEPT ![m.view] =
                           Append(@, [type |-> "bounds", box |-> Locate(m.w, m.h, m.pos)])]
              /\ UNCHANGED <<tree, app, lost>>
  /\ UNCHANGED <<fb, at, mouse, widgetVars, hostVars>>

\* The mailbox was found empty: the kernel thread takes the lock for a frame.
InFrame == phase = "frame" \/ (phase = "poll" /\ box = <<>>)

-----------------------------------------------------------------------------
(* Input, in a frame.                                                      *)

Mouse(type, v) == [type |-> type, view |-> v, x |-> mouse'.x, y |-> mouse'.y,
                   rx |-> mouse'.x - at[v][1], ry |-> mouse'.y - at[v][2],
                   buttons |-> mouse'.buttons]

\* To the owner of v, if it has one.
Tell(v, msg) ==
  mail' = IF FindOwner(tree, v) = NoView THEN mail
          ELSE [mail EXCEPT ![FindOwner(tree, v)] = Append(@, msg)]

Event ==
  /\ InFrame /\ inputs < MaxInputs
  /\ inputs' = inputs + 1
  /\ UNCHANGED <<fb, at, box, app, widgetVars, lost>>

\* Bound: one event beyond the motions and the left button.
Other == Event /\ ~other /\ other' = TRUE

\* SDL numbers the buttons 1 and 3, and the service keeps the numbers as bits;
\* the state that comes with a motion has a bit for each button.
Number(b) == IF b = "left" THEN {0} ELSE {0, 1}
Mask(bs) == {IF b = "left" THEN 0 ELSE 2 : b \in bs}

HitAt(p) == HitTree(tree, p[1], p[2])

\* set_mouse_id uses the view it hit, also when there is none.
Crash ==
  /\ phase' = "crashed"
  /\ UNCHANGED <<mouse, mail>>

\* The host reports a press or a free motion only inside its window.
OnHost(p) == Holds(Whole(tree.box[Screen]), p[1], p[2])

ButtonDown(b, p) ==
  /\ IF b = "left" THEN Event /\ other' = other ELSE Other
  /\ b \notin held /\ OnHost(p)
  /\ held' = held \cup {b}
  /\ distracted' = (distracted \/ held # {})
  /\ \E v \in {HitAt(p)} :
       IF v = NoView THEN Crash
       ELSE /\ mouse' = [x |-> p[1], y |-> p[2], id |-> v,
                         buttons |-> mouse.buttons \cup Number(b)]
            /\ Tell(v, Mouse("mouse", v))
            /\ phase' = "frame"
  /\ UNCHANGED <<tree, shrunk>>

\* A release comes where the last motion was, and goes to the view of the last
\* enter, wherever that is.
ButtonUp(b) ==
  /\ Event /\ b \in held
  /\ held' = held \ {b}
  /\ distracted' = (distracted \/ held' # {})
  /\ mouse' = [mouse EXCEPT !.buttons = @ \ Number(b)]
  /\ IF mouse.id # NoView /\ OnScreen(tree, mouse.id)
     THEN Tell(mouse.id, Mouse("mouse", mouse.id)) ELSE mail' = mail
  /\ phase' = "frame"
  /\ UNCHANGED <<tree, shrunk, other>>

Motion(p) ==
  /\ Event /\ (held = {} => OnHost(p))
  /\ \E v \in {IF held = {} THEN HitAt(p) ELSE mouse.id} :
       IF held = {} /\ v = NoView THEN Crash
       ELSE /\ mouse' = [x |-> p[1], y |-> p[2], id |-> v, buttons |-> Mask(held)]
            /\ IF v # NoView /\ OnScreen(tree, v) THEN Tell(v, Mouse("mouse", v))
               ELSE mail' = mail
            /\ phase' = "frame"
  /\ distracted' = (distracted \/ "right" \in held)
  /\ UNCHANGED <<tree, held, shrunk, other>>

\* Keys and the wheel go to the view below the mouse, which becomes m_mouse_id.
KeyOrWheel ==
  /\ Other
  /\ \E v \in {HitAt(<<mouse.x, mouse.y>>)} :
       IF v = NoView THEN Crash
       ELSE /\ mouse' = [mouse EXCEPT !.id = v]
            /\ phase' = "frame"
            /\ mail' = mail
  /\ distracted' = (distracted \/ held # {})
  /\ UNCHANGED <<tree, held, shrunk>>

\* Bound: until the screen is smaller.
SizeChanged(s) ==
  /\ Event /\ ~shrunk /\ other' = other
  /\ tree' = SetFlags(SetBounds(tree, Screen, Box(0, 0, s[1], s[2])), Screen,
                      {"dirty_all", "screen"}, {"dirty_all", "screen"})
  /\ shrunk' = (shrunk \/ s[1] < tree.box[Screen].w \/ s[2] < tree.box[Screen].h)
  /\ phase' = "frame"
  /\ UNCHANGED <<mouse, mail, held, distracted>>

Shown ==
  /\ Other
  /\ tree' = DirtyAll(tree, Screen)
  /\ phase' = "frame"
  /\ UNCHANGED <<mouse, mail, held, distracted, shrunk>>

\* Every window on the screen is asked to close.
Quit ==
  /\ Other
  /\ mail' = [w \in Windows |-> IF Among(tree, Screen, w) THEN Append(mail[w], [type |-> "exit"])
                               ELSE mail[w]]
  /\ phase' = "frame"
  /\ UNCHANGED <<tree, mouse, held, distracted, shrunk>>

\* The back buffer is resized, what is dirty is drawn, and the stand-ins go;
\* with no window left the service ends.
EndFrame ==
  /\ InFrame
  /\ \E resized \in {"screen" \in tree.gui} :
     \E t \in {IF resized THEN DirtyAll(tree, Screen) ELSE tree} :
     \E blank \in {IF resized THEN [p \in Grid |-> <<>>] ELSE fb} :
     \E end \in {IF "dirty_all" \in t.gui THEN Composite(t, blank)
                 ELSE [tree |-> t, fb |-> blank, fresh |-> {}]} :
       /\ tree' = DropTemps([end.tree EXCEPT !.gui = {}])
       /\ fb' = end.fb
       /\ lost' = lost \ end.fresh
       /\ at' = IF "dirty_all" \in t.gui
                THEN [v \in Nodes |-> IF OnScreen(t, v) /\ v \notin Ghosts THEN Place(t, v) ELSE at[v]]
                ELSE at
  /\ phase' = IF tree'.kids[Screen] = <<>> THEN "ended" ELSE "poll"
  /\ UNCHANGED <<mouse, box, app, mail, widgetVars, hostVars>>

-----------------------------------------------------------------------------
(* The applications: one window each, one thread each.                     *)

App(w) ==
  /\ phase # "frame"
  /\ UNCHANGED <<fb, at, mouse, phase, hostVars, lost>>

Edge(w) == Border[w] + Shadow[w]
Pref(w) == LET s == PrefSize[Held[w]]
           IN  [w |-> s.w + 2 * Edge(w), h |-> s.h + 2 * Edge(w)]

Request(evt, w) == box' = Append(box, [evt |-> evt, view |-> w])

Launch ==
  /\ App(Launcher) /\ app[Launcher] = "new"
  /\ app' = [app EXCEPT ![Launcher] = "opening"]
  /\ tree' = Change(tree, Launcher, LauncherBox)
  /\ Request("add_front", Launcher)
  /\ UNCHANGED <<mail, widgetVars>>

\* Applications are launched while the launcher is there.
Ask(w) ==
  /\ App(w) /\ app[w] = "new" /\ app[Launcher] = "open"
  /\ app' = [app EXCEPT ![w] = "asking"]
  /\ \E pos \in Positions :
       box' = Append(box, [evt |-> "locate", view |-> w, w |-> Pref(w).w, h |-> Pref(w).h,
                           pos |-> pos])
  /\ UNCHANGED <<tree, mail, widgetVars>>

Open(w) ==
  /\ App(w) /\ app[w] = "asking" /\ mail[w] # <<>>
  /\ app' = [app EXCEPT ![w] = "opening"]
  /\ tree' = Change(tree, w, Head(mail[w]).box)
  /\ mail' = [mail EXCEPT ![w] = Tail(@)]
  /\ \E evt \in {"add_front", "add_back"} : Request(evt, w)
  /\ UNCHANGED widgetVars

\* Close button or quit: the mail that is left is never read.
Close(w) ==
  /\ App(w) /\ app[w] = "open" /\ mail[w] # <<>>
  /\ Head(mail[w]).type \in {"exit", "action"}
  /\ app' = [app EXCEPT ![w] = "closing"]
  /\ mail' = [mail EXCEPT ![w] = <<>>]
  /\ Request("sub", w)
  /\ UNCHANGED <<tree, widgetVars>>

\* Window::event: what a mouse event means depends on m_last_buttons.
Gesture(w, e) ==
  IF grip[w].last = {} THEN (IF e.buttons = {} THEN "hover" ELSE "down")
  ELSE IF e.buttons = {} THEN "up" ELSE "move"

\* Mistake: a release is passed on but the buttons are remembered.
KeptButtons(w, e) ==
  CASE Gesture(w, e) = "down" -> e.buttons
    [] OTHER -> grip[w].last
LastButtons(w, e) ==
  CASE Gesture(w, e) = "down" -> e.buttons
    [] Gesture(w, e) = "up" -> {}
    [] OTHER -> grip[w].last

Gestures(w, v, gesture) ==
  /\ App(w) /\ app[w] = "open" /\ mail[w] # <<>>
  /\ Head(mail[w]).type = "mouse" /\ Head(mail[w]).view = v
  /\ Gesture(w, Head(mail[w])) = gesture
  /\ UNCHANGED <<app, box>>

Take(w) == mail' = [mail EXCEPT ![w] = Tail(@)]
Remember(w) == grip' = [grip EXCEPT ![w].last = LastButtons(w, Head(mail[w]))]

TitleDown(w, c) ==
  /\ Gestures(w, c, "down") /\ c \in Titles
  /\ Take(w) /\ Remember(w)
  /\ \E e \in {Head(mail[w])} :
       /\ drag' = [drag EXCEPT ![c] = <<tree.box[w].x - e.x, tree.box[w].y - e.y>>]
       /\ e.buttons # {0} => Spare(tree)
       /\ tree' = IF e.buttons = {0} THEN ToFront(tree, w) ELSE ToBack(tree, w)
  /\ UNCHANGED state

\* Mistake: the window goes to where the mouse is in the title.
TitleMoveWithin(w, c) ==
  /\ Gestures(w, c, "move") /\ c \in Titles
  /\ Take(w)
  /\ \E e \in {Head(mail[w])} :
       tree' = ChangeDirty(tree, w, [tree.box[w] EXCEPT !.x = e.rx + drag[c][1],
                                                        !.y = e.ry + drag[c][2]])
  /\ UNCHANGED widgetVars
TitleMove(w, c) ==
  /\ Gestures(w, c, "move") /\ c \in Titles
  /\ Take(w)
  /\ \E e \in {Head(mail[w])} :
       tree' = ChangeDirty(tree, w, [tree.box[w] EXCEPT !.x = e.x + drag[c][1],
                                                        !.y = e.y + drag[c][2]])
  /\ UNCHANGED widgetVars

\* get_drag_mode: the edges within border and shadow are what is dragged.
WindowDown(w) ==
  /\ Gestures(w, w, "down")
  /\ Take(w)
  /\ \E e \in {Head(mail[w])} :
     LET b == tree.box[w]
         mode == {s \in {"x"} : e.rx < Edge(w)} \cup {s \in {"y"} : e.ry < Edge(w)}
                   \cup {s \in {"x1"} : e.rx >= b.w - Edge(w)}
                   \cup {s \in {"y1"} : e.ry >= b.h - Edge(w)}
     IN  grip' = [grip EXCEPT ![w] =
                    [last |-> LastButtons(w, e), mode |-> mode,
                     x |-> IF "x1" \in mode THEN e.rx - b.w ELSE IF "x" \in mode THEN e.rx ELSE 0,
                     y |-> IF "y1" \in mode THEN e.ry - b.h ELSE IF "y" \in mode THEN e.ry ELSE 0]]
  /\ UNCHANGED <<tree, drag, state>>

\* No edge goes past the preferred size.
WindowMove(w) ==
  /\ Gestures(w, w, "move")
  /\ Take(w)
  /\ \E e \in {Head(mail[w])} :
     LET r == InParent(tree.box[w])
         g == grip[w]
         x == IF "x" \in g.mode THEN Lesser(e.x - g.x, r.x1 - Pref(w).w) ELSE r.x
         y == IF "y" \in g.mode THEN Lesser(e.y - g.y, r.y1 - Pref(w).h) ELSE r.y
         x1 == IF "x1" \in g.mode THEN Greater(e.x - g.x, x + Pref(w).w) ELSE r.x1
         y1 == IF "y1" \in g.mode THEN Greater(e.y - g.y, y + Pref(w).h) ELSE r.y1
     IN  tree' = ChangeDirty(tree, w, Box(x, y, x1 - x, y1 - y))
  /\ UNCHANGED widgetVars

\* A button that changes is laid out, which makes it opaque, and redrawn.
Pressed(c, s) ==
  /\ state' = [state EXCEPT ![c] = s]
  /\ tree' = DirtyAll(SetFlags(tree, c, {"opaque"}, {"opaque"}), c)

ButtonPress(w, c) ==
  /\ Gestures(w, c, "down") /\ c \in Buttons
  /\ Take(w) /\ Remember(w)
  /\ Pressed(c, -1)
  /\ UNCHANGED drag

\* The close button emits its action to the application.
ButtonRelease(w, c) ==
  /\ Gestures(w, c, "up") /\ c \in Buttons
  /\ Remember(w)
  /\ IF state[c] = 1 THEN Take(w) /\ UNCHANGED <<tree, state>>
     ELSE /\ mail' = [mail EXCEPT ![w] = Append(Tail(@), [type |-> "action"])]
          /\ Pressed(c, 1)
  /\ UNCHANGED drag

ButtonMove(w, c) ==
  /\ Gestures(w, c, "move") /\ c \in Buttons
  /\ Take(w)
  /\ \E e \in {Head(mail[w])} :
     \E s \in {IF Holds(Whole(tree.box[c]), e.rx, e.ry) THEN -1 ELSE 1} :
       IF s = state[c] THEN UNCHANGED <<tree, state>> ELSE Pressed(c, s)
  /\ UNCHANGED <<grip, drag>>

\* Releases and hovers that the class does not override.
NoEffect(w, v) ==
  /\ \/ Gestures(w, v, "hover")
     \/ Gestures(w, v, "up") /\ v \notin Buttons
  /\ Take(w) /\ Remember(w)
  /\ UNCHANGED <<tree, drag, state>>

\* A program may cut and mend what its window covers before it is shown.
Mend(w, r) ==
  /\ phase # "frame" /\ app[w] = "new" /\ inputs < MaxMends
  /\ inputs' = inputs + 1
  /\ \/ tree' = AddOpaque(tree, w, r)
     \/ tree' = SubOpaque(tree, w, r)
     \/ tree' = ClrOpaque(tree, w)
  /\ UNCHANGED <<fb, at, mouse, box, phase, app, mail, widgetVars, held, other, distracted, lost, shrunk>>

-----------------------------------------------------------------------------
Input ==
  \/ \E b \in {"left", "right"} : ButtonUp(b) \/ \E p \in Points : ButtonDown(b, p)
  \/ \E p \in Points : Motion(p)
  \/ KeyOrWheel \/ Shown \/ Quit
  \/ \E s \in Sizes : SizeChanged(s)

Widgets(w) ==
  \/ \E c \in Controls : \/ TitleDown(w, c) \/ TitleMove(w, c)
                         \/ ButtonPress(w, c) \/ ButtonRelease(w, c) \/ ButtonMove(w, c)
  \/ \E v \in Views : NoEffect(w, v)
  \/ WindowDown(w) \/ WindowMove(w)

Handle(w) == Open(w) \/ Close(w) \/ Widgets(w)

Step ==
  \/ Serve \/ EndFrame \/ Input
  \/ Launch
  \/ \E w \in Windows \ {Launcher} : Ask(w)
  \/ \E w \in Windows : Handle(w)

Next == Step \/ \E w \in Windows, r \in Cuts : Mend(w, r)

Spec == Init /\ [][Next]_vars

-----------------------------------------------------------------------------
(* Properties.                                                             *)

\* The state is well formed: in particular no list of rectangles holds an
\* empty one or two that overlap, and every child list agrees with m_parent
\* (region.h, view.h).
TypeOK ==
  /\ \A v \in Nodes : IsRegion(tree.dirty[v]) /\ IsRegion(tree.opaque[v]) /\ tree.flags[v] \subseteq Flags
  /\ \A v \in Nodes : \A i \in DOMAIN tree.kids[v] :
       /\ tree.parent[tree.kids[v][i]] = v
       /\ \A j \in DOMAIN tree.kids[v] : tree.kids[v][i] = tree.kids[v][j] => i = j
  /\ tree.gui \subseteq {"dirty_all", "screen"}
  /\ phase \in {"waiting", "poll", "frame", "ended", "crashed"}
  /\ \A w \in Windows : app[w] \in {"new", "asking", "opening", "open", "closing", "gone"}

\* What the screen should show, drawn whole from the back to the front.
Expected ==
  LET order == Reverse(FrontToBack(tree))
      Seen(v, p) == \A i \in DOMAIN PathUp(tree, v) :
                      Holds(AbsRect(tree, PathUp(tree, v)[i]), p[1], p[2])
  IN  [p \in Grid |-> Walk(order, <<>>, LAMBDA u, v : IF Seen(v, p) THEN Blend(tree, u, v, p) ELSE u)]

\* However the windows moved, changed or left, compositing only what is dirty
\* shows what drawing everything would have shown; except where a window was
\* taken away with dirty pixels of its own, which are lost with it
\* (gui_service.cpp composite, view.cpp hide).
Painted ==
  phase \in {"poll", "ended"} /\ tree.gui = {} =>
    \A p \in Grid \ lost : fb[p] = Expected[p]

\* No input misses all views but a key or the wheel, while the mouse is off the
\* screen: dragged out of it, or left outside when it got smaller.
MissesOutside ==
  phase' = "crashed" /\ phase # "crashed" =>
    other' # other /\ held' = held /\ ~OnHost(<<mouse.x, mouse.y>>)

\* A press goes to the view that is seen below the mouse, and says where in it
\* the mouse is (gui_service.cpp set_mouse_id, view.cpp hit_tree).
PressHitsWhatShows ==
  [][/\ MissesOutside
     /\ held' \ held # {} /\ tree.gui = {} /\ phase' # "crashed" =>
          LET p == <<mouse'.x, mouse'.y>>
              seen == fb[p][Len(fb[p])]
          IN  p \in Grid \ lost =>
                /\ mouse'.id = seen.view
                /\ at[seen.view] = <<seen.where.x, seen.where.y>>]_vars

Settled == phase = "poll" /\ \A w \in Windows : mail[w] = <<>>

\* When every button of the mouse is up and the mail is read, no window and no
\* button takes itself to be held; unless a key, the wheel or a second button
\* moved m_mouse_id meanwhile, or a motion named the right button by another
\* bit than its release does (gui_service.cpp mouse_button_up, window.cpp event).
NothingStuck ==
  Settled /\ held = {} /\ ~distracted =>
    /\ \A w \in Windows : app[w] = "open" => grip[w].last = {}
    /\ \A c \in Buttons : app[tree.parent[c]] = "open" => state[c] = 1

\* While a title is held its window keeps its distance from the mouse, across
\* frames and whatever the order of the windows (title.cpp).
DragFollows ==
  \A w \in Windows : \A c \in Titles \cap {Held[w]} :
    Settled /\ ~distracted /\ mouse.id = c /\ app[w] = "open" /\ grip[w].last # {} =>
      <<tree.box[w].x, tree.box[w].y>> = <<mouse.x + drag[c][1], mouse.y + drag[c][2]>>

\* The rectangle lists compute sets of pixels: pasting is union, removing is
\* difference, clipping and copying are intersection, whatever the list and
\* the rectangle (region.cpp).
RegionOps(s, c) ==
  LET P == Pixels(s, Grid)
      C == Pixels(<<c>>, Grid)
      cut == CutRect(s, <<>>, c)
      Exact(r, Q) == IsRegion(r) /\ Pixels(r, Grid) = Q
  IN  /\ Exact(PasteRect(s, c), P \cup C)
      /\ Exact(RemoveRect(s, c), P \ C)
      /\ Exact(ClipRect(s, c), P \cap C)
      /\ Exact(CopyRect(s, <<>>, c), P \cap C)
      /\ Exact(cut.region, P \ C) /\ Exact(cut.dest, P \cap C)
      /\ Exact(PasteRegion(s, <<c>>, 0, 0), P \cup C)
      /\ Exact(CopyRegion(s, <<>>, <<c>>, 0, 0), P \cap C)
=============================================================================
