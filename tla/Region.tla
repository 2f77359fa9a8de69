------------------------------- MODULE Region -------------------------------
(***************************************************************************)
(* A region: a list of rectangles, none of which overlap.  Every operation *)
(* of the class is an operator that returns the new list.  What is pushed  *)
(* to the front while the list is walked is not visited again.             *)
(***************************************************************************)
EXTENDS Rectangles, Sequences, SequencesExt

\* What is made of start when the rectangles of s are visited from the front.
\* (A fold, as a function of how far the walk has come.)
Walk(s, start, Visit(_, _)) ==
  LET walk[i \in 0 .. Len(s)] == IF i = 0 THEN start ELSE Visit(walk[i - 1], s[i])
  IN  walk[Len(s)]

\* What a rectangle becomes when c is taken out of it: the parts that go to
\* the front, the last one pushed first, and the part that stays.
Pushed(r, c) ==
  LET S == Sides(r, c)
      Part(s) == IF s \in S \ {InPlace(S)} THEN <<Around(r, c)[s]>> ELSE <<>>
  IN  Part("y") \o Part("x") \o Part("x1")

Kept(r, c) ==
  IF Sides(r, c) = {} THEN <<>> ELSE <<Around(r, c)[InPlace(Sides(r, c))]>>

Translate(s, dx, dy) == [i \in DOMAIN s |-> Moved(s[i], dx, dy)]

\* The hull of the region, the null rectangle if it is empty.
Bounds(s) ==
  IF s = <<>> THEN Rect(0, 0, 0, 0)
  ELSE Walk(s, s[1], LAMBDA b, r : Rect(Lesser(b.x, r.x), Lesser(b.y, r.y),
                                        Greater(b.x1, r.x1), Greater(b.y1, r.y1)))

\* An empty clip rectangle leaves the region as it is.
ClipRect(s, c) ==
  IF IsEmpty(c) THEN s
  ELSE Walk(s, <<>>, LAMBDA kept, r : IF Apart(r, c) THEN kept ELSE Append(kept, Common(r, c)))

\* The intersections are pushed on to dest one by one.
CopyRect(s, dest, c) ==
  IF IsEmpty(c) THEN dest
  ELSE Walk(s, dest, LAMBDA d, r : IF Apart(r, c) THEN d ELSE <<Common(r, c)>> \o d)

\* One step of the walk that takes c out.
TakeOut(acc, r, c) ==
  IF Apart(r, c) THEN [acc EXCEPT !.rest = Append(@, r)]
  ELSE [acc EXCEPT !.front = Pushed(r, c) \o @, !.rest = @ \o Kept(r, c)]

RemoveRect(s, c) ==
  LET end == Walk(s, [front |-> <<>>, rest |-> <<>>], LAMBDA acc, r : TakeOut(acc, r, c))
  IN  IF IsEmpty(c) THEN s ELSE end.front \o end.rest

\* The same walk with the common part of each rectangle moved to dest.
CutRect(s, dest, c) == [region |-> RemoveRect(s, c), dest |-> CopyRect(s, dest, c)]

\* One step of the walk that makes room for the rectangle to be pasted.
MakeRoom(acc, r) ==
  IF acc.covered \/ Apart(r, acc.clip) THEN [acc EXCEPT !.rest = Append(@, r)]
  ELSE IF Covers(r, acc.clip) THEN [acc EXCEPT !.rest = Append(@, r), !.covered = TRUE]
  ELSE IF Spans(r, acc.clip) THEN [acc EXCEPT !.rest = Append(@, r), !.clip = Shortened(r, @)]
  ELSE TakeOut(acc, r, acc.clip)

PasteRect(s, c) ==
  LET end == Walk(s, [front |-> <<>>, rest |-> <<>>, clip |-> c, covered |-> FALSE], MakeRoom)
      new == IF end.covered \/ end.clip.x = end.clip.x1 \/ end.clip.y = end.clip.y1
             THEN <<>> ELSE <<end.clip>>
  IN  IF IsEmpty(c) THEN s ELSE new \o end.front \o end.rest

\* Every rectangle of s, moved, is removed from dest, pasted on to dest, or
\* used to copy from one region to another.
RemoveRegion(s, dest, dx, dy) == Walk(Translate(s, dx, dy), dest, RemoveRect)
PasteRegion(s, dest, dx, dy) == Walk(Translate(s, dx, dy), dest, PasteRect)
CopyRegion(s, dest, copy, dx, dy) ==
  Walk(Translate(copy, dx, dy), dest, LAMBDA d, r : CopyRect(s, d, r))

-----------------------------------------------------------------------------
(* What a region means: the set of its pixels.                             *)

Pixels(s, D) == {p \in D : \E i \in DOMAIN s : Holds(s[i], p[1], p[2])}
IsRegion(s) ==
  /\ \A i \in DOMAIN s : ~IsEmpty(s[i])
  /\ \A i, j \in DOMAIN s : i # j => Apart(s[i], s[j])
=============================================================================
