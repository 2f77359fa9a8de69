-------------------------------- MODULE Views --------------------------------
(***************************************************************************)
(* The tree of views and the methods of class View, each of which runs     *)
(* under the one recursive lock of the tree: every method is an operator   *)
(* from a tree to the tree it leaves behind, and a method that calls       *)
(* others under the lock is their composition.                             *)
(*                                                                         *)
(* A tree t holds, of every view v: t.kids[v] front to back, t.parent[v],  *)
(* t.box[v] in the coordinates of the parent, t.flags[v], the lists        *)
(* t.dirty[v] and t.opaque[v]; and the globals t.gui (m_gui_flags) and     *)
(* t.temps, the views that stand in for what was hidden.                   *)
(***************************************************************************)
EXTENDS Region, FiniteSets

CONSTANTS
  Screen,   \* the root view
  Windows,  \* the views that applications put on the screen
  Controls, \* the views inside windows
  Ghosts,   \* bound: the stand-ins that can be needed between two frames
  NoView,
  Border, Shadow, \* properties of the views
  Coloured  \* the views whose colour has alpha 0xff

Views == {Screen} \cup Windows \cup Controls
Nodes == Views \cup Ghosts

\* The views are told apart, and the properties are sizes in pixels.
ASSUME ViewsAssumption ==
  /\ Screen \notin Windows \cup Controls \cup Ghosts /\ NoView \notin Nodes
  /\ Windows \cap Controls = {} /\ Windows \cap Ghosts = {} /\ Controls \cap Ghosts = {}
  /\ Border \in [Windows \cup Controls -> Nat] /\ Shadow \in [Windows \cup Controls -> Nat]

Flags == {"solid", "opaque", "dirty_all", "at_back", "at_front", "screen"}

Boxes == [x : Int, y : Int, w : Int, h : Int]
Box(x, y, w, h) == [x |-> x, y |-> y, w |-> w, h |-> h]
Size(b) == [w |-> b.w, h |-> b.h]
InParent(b) == Rect(b.x, b.y, b.x + b.w, b.y + b.h)
Whole(b) == Rect(0, 0, b.w, b.h)

FirstIndex(s, P(_)) ==
  LET S == {i \in DOMAIN s : P(s[i])}
  IN  IF S = {} THEN Len(s) + 1 ELSE CHOOSE i \in S : \A j \in S : i <= j

-----------------------------------------------------------------------------
(* Flags and dirty regions.                                                *)

SetFlags(t, v, flags, mask) ==
  [t EXCEPT !.flags[v] = (@ \ mask) \cup flags \cup (@ \cap {"dirty_all"}),
            !.gui = @ \cup (flags \cap {"dirty_all", "screen"})]

DirtyAll(t, v) == SetFlags(t, v, {"dirty_all"}, {"dirty_all"})

\* m_gui_flags is assigned, not added to.
AddDirty(t, v, r) ==
  [t EXCEPT !.dirty[v] = PasteRect(@, r), !.gui = {"dirty_all"}]

Dirty(t, v) == AddDirty(t, v, Whole(t.box[v]))
TransDirty(t, v, dx, dy) == [t EXCEPT !.dirty[v] = Translate(@, dx, dy)]

AddOpaque(t, v, r) == [t EXCEPT !.opaque[v] = PasteRect(@, r)]
SubOpaque(t, v, r) == [t EXCEPT !.opaque[v] = RemoveRect(@, r)]
ClrOpaque(t, v) == [t EXCEPT !.opaque[v] = <<>>]

-----------------------------------------------------------------------------
(* Bounds.  A change of size calls the layout of the class.                *)

SetBounds(t, v, b) == [t EXCEPT !.box[v] = b]

ControlLayout(t, v) ==
  IF v \in Coloured THEN SetFlags(t, v, {"opaque"}, {"opaque"}) ELSE t

ChangeControl(t, v, b) ==
  LET moved == SetBounds(t, v, b)
  IN  IF Size(t.box[v]) = Size(b) THEN moved ELSE ControlLayout(moved, v)

\* A window gives its child what the shadow and the border leave.
WindowLayout(t, w) ==
  LET edge == Border[w] + Shadow[w]
      b == t.box[w]
      inner == Box(edge, edge, b.w - 2 * edge, b.h - 2 * edge)
      filled == IF t.kids[w] = <<>> THEN t ELSE ChangeControl(t, t.kids[w][1], inner)
  IN  IF w \notin Coloured THEN filled
      ELSE IF Shadow[w] = 0 THEN SetFlags(filled, w, {"opaque"}, {"opaque"})
      ELSE AddOpaque(ClrOpaque(filled, w), w,
                     InParent(Box(Shadow[w], Shadow[w],
                                  b.w - 2 * Shadow[w], b.h - 2 * Shadow[w])))

Change(t, w, b) ==
  LET moved == SetBounds(t, w, b)
  IN  IF Size(t.box[w]) = Size(b) THEN moved ELSE WindowLayout(moved, w)

\* Mistake: the dirty region is moved with the window, not against it.
ChangeDirtyWithIt(t, w, b) ==
  LET old == t.box[w]
  IN  DirtyAll(TransDirty(Change(Dirty(t, w), w, b), w, b.x - old.x, b.y - old.y), w)

\* What was there is dirty where it was, what comes is dirty as a whole.
ChangeDirty(t, w, b) ==
  LET old == t.box[w]
  IN  DirtyAll(TransDirty(Change(Dirty(t, w), w, b), w, old.x - b.x, old.y - b.y), w)

-----------------------------------------------------------------------------
(* Children.                                                               *)

Has(t, v, flag) == flag \in t.flags[v]
Among(t, p, v) == \E i \in DOMAIN t.kids[p] : t.kids[p][i] = v
PlaceOf(t, v) == FirstIndex(t.kids[t.parent[v]], LAMBDA u : u = v)

\* A view that is not in the list of its parent keeps its m_parent.
Sub(t, v) ==
  LET p == t.parent[v]
  IN  IF p = NoView \/ ~Among(t, p, v) THEN t
      ELSE [t EXCEPT !.kids[p] = RemoveAt(@, PlaceOf(t, v)), !.parent[v] = NoView]

Insert(t, p, v, i) ==
  [t EXCEPT !.kids[p] = InsertAt(@, i, v), !.parent[v] = p]

AddFront(t, p, v) ==
  LET s == Sub(t, v)
  IN  Insert(s, p, v, FirstIndex(s.kids[p], LAMBDA u : ~Has(s, u, "at_front")))

AddBack(t, p, v) ==
  LET s == Sub(t, v)
  IN  Insert(s, p, v, FirstIndex(s.kids[p], LAMBDA u : Has(s, u, "at_back")))

\* Bound: the views that are hidden between two frames are no more than the stand-ins.
Spare(t) == \E g \in Ghosts : t.parent[g] = NoView

\* A stand-in that cannot be clicked keeps the place of v and is redrawn.
Ghost(t, v) ==
  LET g == CHOOSE n \in Ghosts : t.parent[n] = NoView
      there == [t EXCEPT !.parent[g] = t.parent[v], !.box[g] = t.box[v],
                         !.kids[t.parent[v]][PlaceOf(t, v)] = g,
                         !.temps = Append(@, g)]
  IN  SetFlags(there, g, {"dirty_all"}, {"dirty_all", "solid"})

\* m_parent of the hidden view is left as it is.
Hide(t, v) == IF t.parent[v] = NoView THEN t ELSE Ghost(t, v)

ToBack(t, v) ==
  LET p == t.parent[v]
      me == PlaceOf(t, v)
      back == FirstIndex(t.kids[p], LAMBDA u : PlaceOf(t, u) >= me /\ Has(t, u, "at_back"))
  IN  IF p = NoView \/ back \in {me, me + 1} THEN t
      ELSE [Ghost(t, v) EXCEPT !.kids[p] = InsertAt(@, back, v)]

\* Mistake: the view is put in its new place before it is taken from the old one.
ToFrontTwice(t, v) ==
  LET p == t.parent[v]
      me == PlaceOf(t, v)
      front == FirstIndex(t.kids[p], LAMBDA u : u = v \/ ~Has(t, u, "at_front"))
  IN  IF p = NoView \/ front = me THEN t
      ELSE DirtyAll([t EXCEPT !.kids[p] = RemoveAt(InsertAt(@, front, v), me)], v)
ToFront(t, v) ==
  LET p == t.parent[v]
      me == PlaceOf(t, v)
      front == FirstIndex(t.kids[p], LAMBDA u : u = v \/ ~Has(t, u, "at_front"))
  IN  IF p = NoView \/ front = me THEN t
      ELSE DirtyAll([t EXCEPT !.kids[p] = InsertAt(RemoveAt(@, me), front, v)], v)

\* Temporary views are taken out after the frame and are no more.
DropTemps(t) ==
  LET gone == {t.temps[i] : i \in DOMAIN t.temps}
      sub == Walk(t.temps, t, Sub)
  IN  [sub EXCEPT !.temps = <<>>,
                  !.flags = [v \in Nodes |-> IF v \in gone THEN {"solid"} ELSE @[v]],
                  !.box = [v \in Nodes |-> IF v \in gone THEN Box(0, 0, 0, 0) ELSE @[v]]]

-----------------------------------------------------------------------------
(* Walks over the tree and what is found by them.                          *)

\* The calls of forward_tree, and with the children turned round those of
\* backward_tree: down into a view, its children, and up.
Calls(kids) ==
  LET walk[v \in Nodes] ==
        <<[going |-> "down", view |-> v]>>
          \o Walk(kids[v], <<>>, LAMBDA calls, u : calls \o walk[u])
          \o <<[going |-> "up", view |-> v]>>
  IN  walk[Screen]

ForwardTree(t) == Calls(t.kids)
BackwardTree(t) == Calls([v \in Nodes |-> Reverse(t.kids[v])])

Visits(calls, way) ==
  Walk(calls, <<>>, LAMBDA views, c : IF c.going = way THEN Append(views, c.view) ELSE views)

\* Children before their parent, the front ones first.
FrontToBack(t) == Visits(ForwardTree(t), "up")

OnScreen(t, v) == Contains(FrontToBack(t), v)

\* From v up to the root.
PathUp(t, v) ==
  LET path[u \in Nodes] == IF t.parent[u] = NoView THEN <<u>> ELSE <<u>> \o path[t.parent[u]]
  IN  path[v]

Place(t, v) ==
  Walk(PathUp(t, v), <<0, 0>>, LAMBDA q, u : <<q[1] + t.box[u].x, q[2] + t.box[u].y>>)

AbsRect(t, v) ==
  LET q == Place(t, v) IN Moved(Whole(t.box[v]), q[1], q[2])

\* Mistake: the views are asked from the back.
HitTreeFromBack(t, x, y) ==
  LET order == Visits(BackwardTree(t), "up")
      Hit(v) == Holds(AbsRect(t, v), x, y) /\ Has(t, v, "solid")
      i == FirstIndex(order, LAMBDA v : \A j \in DOMAIN PathUp(t, v) : Hit(PathUp(t, v)[j]))
  IN  IF i > Len(order) THEN NoView ELSE order[i]

\* The first view whose own area and whose parents' areas hold the point.
HitTree(t, x, y) ==
  LET order == FrontToBack(t)
      Hit(v) == Holds(AbsRect(t, v), x, y) /\ Has(t, v, "solid")
      i == FirstIndex(order, LAMBDA v : \A j \in DOMAIN PathUp(t, v) : Hit(PathUp(t, v)[j]))
  IN  IF i > Len(order) THEN NoView ELSE order[i]

\* The application of the nearest view upwards that has one; only windows
\* are given an owner.
FindOwner(t, v) ==
  LET path == PathUp(t, v)
      i == FirstIndex(path, LAMBDA u : u \in Windows)
  IN  IF i > Len(path) THEN NoView ELSE path[i]
=============================================================================
