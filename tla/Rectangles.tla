----------------------------- MODULE Rectangles -----------------------------
(***************************************************************************)
(* What the region code does with one rectangle of a list and the          *)
(* rectangle it is cut by: the sixteen ways they can meet, and the parts   *)
(* each of them leaves.                                                    *)
(*                                                                         *)
(* A rectangle holds the pixels from its upper left corner (x, y) up to,   *)
(* and without, its lower right corner (x1, y1).                           *)
(***************************************************************************)
EXTENDS Integers

Rect(x, y, x1, y1) == [x |-> x, y |-> y, x1 |-> x1, y1 |-> y1]
AllRects == [x : Int, y : Int, x1 : Int, y1 : Int]

Holds(r, px, py) == r.x <= px /\ px < r.x1 /\ r.y <= py /\ py < r.y1

Lesser(a, b) == IF a <= b THEN a ELSE b
Greater(a, b) == IF a <= b THEN b ELSE a

IsEmpty(r) == r.x1 <= r.x \/ r.y1 <= r.y

\* The test at the head of every loop: the rectangle is outside the clip area.
Apart(r, c) == r.x >= c.x1 \/ r.y >= c.y1 \/ r.x1 <= c.x \/ r.y1 <= c.y

Moved(r, dx, dy) == Rect(r.x + dx, r.y + dy, r.x1 + dx, r.y1 + dy)

Common(r, c) == Rect(Greater(r.x, c.x), Greater(r.y, c.y),
                     Lesser(r.x1, c.x1), Lesser(r.y1, c.y1))

\* The edges of c that lie inside r: they choose the branch.
Edges == {"x", "y", "x1", "y1"}
Inside(r, c) == [x |-> r.x < c.x,    y |-> r.y < c.y,
                 x1 |-> c.x1 < r.x1, y1 |-> c.y1 < r.y1]
Sides(r, c) == {s \in Edges : Inside(r, c)[s]}

\* The part of r behind each edge of c: whole rows above and below, and what
\* is left of the rows between on either hand.
Around(r, c) ==
  [y  |-> Rect(r.x, r.y, r.x1, c.y),
   x  |-> Rect(r.x, Greater(r.y, c.y), c.x, Lesser(r.y1, c.y1)),
   x1 |-> Rect(c.x1, Greater(r.y, c.y), r.x1, Lesser(r.y1, c.y1)),
   y1 |-> Rect(r.x, c.y1, r.x1, r.y1)]

\* One part is written over r, where r stands in the list; the others are
\* pushed to the front of the list.
InPlace(S) == IF "y1" \in S THEN "y1"
              ELSE IF "x" \in S /\ S # {"x", "x1"} THEN "x"
              ELSE IF "x1" \in S THEN "x1"
              ELSE "y"

\* When c is pasted, r may span it from edge to edge and over a third: then
\* not r is cut but c, back to the edge of r.
Covers(r, c) == Sides(r, c) = Edges
Spans(r, c) == \E s \in Edges : Sides(r, c) = Edges \ {s}
\* Mistake: c is cut back to the wrong edge of r when it sticks out at the top.
ShortenedToNearEdge(r, c) ==
  LET missing == CHOOSE s \in Edges : s \notin Sides(r, c)
  IN  CASE missing = "x"  -> [c EXCEPT !.x1 = r.x]
        [] missing = "y"  -> [c EXCEPT !.y1 = r.y1]
        [] missing = "x1" -> [c EXCEPT !.x = r.x1]
        [] missing = "y1" -> [c EXCEPT !.y = r.y1]
Shortened(r, c) ==
  LET missing == CHOOSE s \in Edges : s \notin Sides(r, c)
  IN  CASE missing = "x"  -> [c EXCEPT !.x1 = r.x]
        [] missing = "y"  -> [c EXCEPT !.y1 = r.y]
        [] missing = "x1" -> [c EXCEPT !.x = r.x1]
        [] missing = "y1" -> [c EXCEPT !.y = r.y1]
=============================================================================
