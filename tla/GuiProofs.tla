------------------------------ MODULE GuiProofs ------------------------------
(***************************************************************************)
(* The regions of the GUI are exact for lists of any length and rectangles *)
(* of any size, and for any windows, screen and input its state stays well *)
(* formed, no window or button is left held and a title keeps its distance *)
(* from the mouse: no list of rectangles ever holds an empty one or two    *)
(* that overlap, every list of children agrees with m_parent, and the mail *)
(* of a window leads to what the mouse does.                               *)
(***************************************************************************)
EXTENDS MCGui, WellFoundedInduction, TLAPS

-----------------------------------------------------------------------------
(* Two rectangles: what the region code keeps of one is what lies outside  *)
(* the other, no pixel is kept twice, and no part is empty.                *)

\* The part that two rectangles share, as clip_rect, copy_rect and cut_rect
\* compute it.
THEOREM CommonExact ==
  ASSUME NEW r \in AllRects, NEW c \in AllRects, NEW px \in Int, NEW py \in Int
  PROVE  Holds(Common(r, c), px, py) <=> Holds(r, px, py) /\ Holds(c, px, py)
BY DEF AllRects, Holds, Common, Greater, Lesser, Rect

\* The test that skips a rectangle is right: with no pixel in common they are
\* apart, and apart they have none in common.
THEOREM ApartExact ==
  ASSUME NEW r \in AllRects, NEW c \in AllRects, ~IsEmpty(r), ~IsEmpty(c)
  PROVE  Apart(r, c) <=> \A px \in Int, py \in Int : ~(Holds(r, px, py) /\ Holds(c, px, py))
<1>1. ASSUME Apart(r, c), NEW px \in Int, NEW py \in Int
      PROVE  ~(Holds(r, px, py) /\ Holds(c, px, py))
  BY <1>1 DEF AllRects, Holds, Apart
<1>2. ASSUME ~Apart(r, c)
      PROVE  \E px \in Int, py \in Int : Holds(r, px, py) /\ Holds(c, px, py)
  <2>1. /\ Greater(r.x, c.x) \in Int
        /\ Greater(r.y, c.y) \in Int
    BY DEF AllRects, Greater
  <2>2. Holds(r, Greater(r.x, c.x), Greater(r.y, c.y)) /\ Holds(c, Greater(r.x, c.x), Greater(r.y, c.y))
    BY <1>2 DEF AllRects, Holds, Apart, IsEmpty, Greater
  <2>. QED  BY <2>1, <2>2
<1>. QED  BY <1>1, <1>2

\* The corners of a rectangle, of the parts around c, and the edges of c in r.
LEMMA Corners ==
  ASSUME NEW r \in AllRects
  PROVE  r.x \in Int /\ r.y \in Int /\ r.x1 \in Int /\ r.y1 \in Int
BY DEF AllRects

LEMMA InsideIs ==
  ASSUME NEW r, NEW c
  PROVE  /\ Inside(r, c)["x"] <=> r.x < c.x
         /\ Inside(r, c)["y"] <=> r.y < c.y
         /\ Inside(r, c)["x1"] <=> c.x1 < r.x1
         /\ Inside(r, c)["y1"] <=> c.y1 < r.y1
BY DEF Inside

\* Both values of Greater and Lesser, and the corners of every part.
LEMMA PartCorners ==
  ASSUME NEW r \in AllRects, NEW c \in AllRects
  PROVE  LET top == Greater(r.y, c.y)
             bottom == Lesser(r.y1, c.y1)
             A == Around(r, c)
         IN  /\ top \in Int /\ top >= r.y /\ top >= c.y /\ (top = r.y \/ top = c.y)
             /\ bottom \in Int /\ bottom <= r.y1 /\ bottom <= c.y1
             /\ (bottom = r.y1 \/ bottom = c.y1)
             /\ A["y"].x = r.x /\ A["y"].y = r.y /\ A["y"].x1 = r.x1 /\ A["y"].y1 = c.y
             /\ A["x"].x = r.x /\ A["x"].y = top /\ A["x"].x1 = c.x /\ A["x"].y1 = bottom
             /\ A["x1"].x = c.x1 /\ A["x1"].y = top /\ A["x1"].x1 = r.x1 /\ A["x1"].y1 = bottom
             /\ A["y1"].x = r.x /\ A["y1"].y = c.y1 /\ A["y1"].x1 = r.x1 /\ A["y1"].y1 = r.y1
<1>1. /\ r.x \in Int /\ r.y \in Int /\ r.x1 \in Int /\ r.y1 \in Int
      /\ c.x \in Int /\ c.y \in Int /\ c.x1 \in Int /\ c.y1 \in Int
  BY Corners
<1>2. /\ Greater(r.y, c.y) \in Int /\ Greater(r.y, c.y) >= r.y /\ Greater(r.y, c.y) >= c.y
      /\ (Greater(r.y, c.y) = r.y \/ Greater(r.y, c.y) = c.y)
  BY <1>1 DEF Greater
<1>3. /\ Lesser(r.y1, c.y1) \in Int /\ Lesser(r.y1, c.y1) <= r.y1 /\ Lesser(r.y1, c.y1) <= c.y1
      /\ (Lesser(r.y1, c.y1) = r.y1 \/ Lesser(r.y1, c.y1) = c.y1)
  BY <1>1 DEF Lesser
<1>. DEFINE top == Greater(r.y, c.y)
            bottom == Lesser(r.y1, c.y1)
            A == Around(r, c)
<1>4. A["y"].x = r.x /\ A["y"].y = r.y /\ A["y"].x1 = r.x1 /\ A["y"].y1 = c.y
  BY DEF Around, Rect
<1>5. A["x"].x = r.x /\ A["x"].y = top /\ A["x"].x1 = c.x /\ A["x"].y1 = bottom
  BY DEF Around, Rect
<1>6. A["x1"].x = c.x1 /\ A["x1"].y = top /\ A["x1"].x1 = r.x1 /\ A["x1"].y1 = bottom
  BY DEF Around, Rect
<1>7. A["y1"].x = r.x /\ A["y1"].y = c.y1 /\ A["y1"].x1 = r.x1 /\ A["y1"].y1 = r.y1
  BY DEF Around, Rect
<1>. HIDE DEF A, top, bottom
<1>. QED  BY <1>2, <1>3, <1>4, <1>5, <1>6, <1>7 DEF A, top, bottom

\* No part that remove_rect, cut_rect or paste_rect makes is empty.
THEOREM PartsNotEmpty ==
  ASSUME NEW r \in AllRects, NEW c \in AllRects, ~IsEmpty(r), ~IsEmpty(c), ~Apart(r, c),
         NEW s \in Sides(r, c)
  PROVE  ~IsEmpty(Around(r, c)[s])
<1>1. s \in {"x", "y", "x1", "y1"} /\ Inside(r, c)[s]
  BY DEF Sides, Edges
<1>2. /\ r.x \in Int /\ r.y \in Int /\ r.x1 \in Int /\ r.y1 \in Int
      /\ c.x \in Int /\ c.y \in Int /\ c.x1 \in Int /\ c.y1 \in Int
  BY Corners
<1>3. CASE s = "x"
  BY <1>1, <1>2, <1>3, PartCorners, InsideIs DEF IsEmpty, Apart
<1>4. CASE s = "y"
  BY <1>1, <1>2, <1>4, PartCorners, InsideIs DEF IsEmpty, Apart
<1>5. CASE s = "x1"
  BY <1>1, <1>2, <1>5, PartCorners, InsideIs DEF IsEmpty, Apart
<1>6. CASE s = "y1"
  BY <1>1, <1>2, <1>6, PartCorners, InsideIs DEF IsEmpty, Apart
<1>. QED  BY <1>1, <1>3, <1>4, <1>5, <1>6

\* No two parts overlap: a region that had no pixel twice still has none.
THEOREM PartsApart ==
  ASSUME NEW r \in AllRects, NEW c \in AllRects, ~IsEmpty(c),
         NEW s \in Sides(r, c), NEW u \in Sides(r, c), s # u
  PROVE  Apart(Around(r, c)[s], Around(r, c)[u])
<1>1. s \in {"x", "y", "x1", "y1"} /\ u \in {"x", "y", "x1", "y1"}
  BY DEF Sides, Edges
<1>2. /\ c.x \in Int /\ c.y \in Int /\ c.x1 \in Int /\ c.y1 \in Int
      /\ c.x < c.x1 /\ c.y < c.y1
  BY Corners DEF IsEmpty
<1>3. CASE s = "y" \/ u = "y"
  BY <1>1, <1>2, <1>3, PartCorners DEF Apart
<1>4. CASE s = "y1" \/ u = "y1"
  BY <1>1, <1>2, <1>4, PartCorners DEF Apart
<1>5. CASE s = "x" /\ u = "x1"
  BY <1>2, <1>5, PartCorners DEF Apart
<1>6. CASE s = "x1" /\ u = "x"
  BY <1>2, <1>6, PartCorners DEF Apart
<1>. QED  BY <1>1, <1>3, <1>4, <1>5, <1>6

\* The parts together hold exactly the pixels of r that c does not hold: what
\* remove_rect and cut_rect keep.
THEOREM PartsExact ==
  ASSUME NEW r \in AllRects, NEW c \in AllRects, ~Apart(r, c), NEW px \in Int, NEW py \in Int
  PROVE  (\E s \in Sides(r, c) : Holds(Around(r, c)[s], px, py))
           <=> Holds(r, px, py) /\ ~Holds(c, px, py)
<1>1. /\ r.x \in Int /\ r.y \in Int /\ r.x1 \in Int /\ r.y1 \in Int
      /\ c.x \in Int /\ c.y \in Int /\ c.x1 \in Int /\ c.y1 \in Int
  BY Corners
<1>2. ASSUME NEW s \in Sides(r, c), Holds(Around(r, c)[s], px, py)
      PROVE  Holds(r, px, py) /\ ~Holds(c, px, py)
  <2>1. s \in {"x", "y", "x1", "y1"} /\ Inside(r, c)[s]
    BY DEF Sides, Edges
  <2>2. CASE s = "x"
    BY <1>1, <1>2, <2>1, <2>2, PartCorners, InsideIs DEF Holds, Apart
  <2>3. CASE s = "y"
    BY <1>1, <1>2, <2>1, <2>3, PartCorners, InsideIs DEF Holds, Apart
  <2>4. CASE s = "x1"
    BY <1>1, <1>2, <2>1, <2>4, PartCorners, InsideIs DEF Holds, Apart
  <2>5. CASE s = "y1"
    BY <1>1, <1>2, <2>1, <2>5, PartCorners, InsideIs DEF Holds, Apart
  <2>. QED  BY <2>1, <2>2, <2>3, <2>4, <2>5
<1>3. ASSUME Holds(r, px, py), ~Holds(c, px, py)
      PROVE  \E s \in Sides(r, c) : Holds(Around(r, c)[s], px, py)
  <2>1. ASSUME NEW s \in Edges, Inside(r, c)[s], Holds(Around(r, c)[s], px, py)
        PROVE  \E u \in Sides(r, c) : Holds(Around(r, c)[u], px, py)
    BY <2>1 DEF Sides
  <2>2. CASE py < c.y
    <3>1. Inside(r, c)["y"] /\ Holds(Around(r, c)["y"], px, py)
      BY <1>1, <1>3, <2>2, PartCorners, InsideIs DEF Holds
    <3>. QED  BY <3>1, <2>1 DEF Edges
  <2>3. CASE py >= c.y1
    <3>1. Inside(r, c)["y1"] /\ Holds(Around(r, c)["y1"], px, py)
      BY <1>1, <1>3, <2>3, PartCorners, InsideIs DEF Holds
    <3>. QED  BY <3>1, <2>1 DEF Edges
  <2>4. CASE c.y <= py /\ py < c.y1 /\ px < c.x
    <3>1. Inside(r, c)["x"] /\ Holds(Around(r, c)["x"], px, py)
      BY <1>1, <1>3, <2>4, PartCorners, InsideIs DEF Holds
    <3>. QED  BY <3>1, <2>1 DEF Edges
  <2>5. CASE c.y <= py /\ py < c.y1 /\ px >= c.x1
    <3>1. Inside(r, c)["x1"] /\ Holds(Around(r, c)["x1"], px, py)
      BY <1>1, <1>3, <2>5, PartCorners, InsideIs DEF Holds
    <3>. QED  BY <3>1, <2>1 DEF Edges
  <2>. QED  BY <1>1, <1>3, <2>2, <2>3, <2>4, <2>5 DEF Holds
<1>. QED  BY <1>2, <1>3

\* paste_rect leaves r whole and stops when r holds all of c.
THEOREM CoversExact ==
  ASSUME NEW r \in AllRects, NEW c \in AllRects, Covers(r, c),
         NEW px \in Int, NEW py \in Int, Holds(c, px, py)
  PROVE  Holds(r, px, py)
<1>1. Inside(r, c)["x"] /\ Inside(r, c)["y"] /\ Inside(r, c)["x1"] /\ Inside(r, c)["y1"]
  BY DEF Covers, Sides, Edges
<1>. QED  BY <1>1, InsideIs, Corners DEF Holds

\* When r spans c, paste_rect cuts c back to the edge of r: the two still hold
\* the same pixels together, and none of them twice.
THEOREM ShortenedExact ==
  ASSUME NEW r \in AllRects, NEW c \in AllRects, Spans(r, c), ~Apart(r, c)
  PROVE  /\ Apart(r, Shortened(r, c))
         /\ \A px \in Int, py \in Int :
              Holds(r, px, py) \/ Holds(Shortened(r, c), px, py)
                <=> Holds(r, px, py) \/ Holds(c, px, py)
<1>1. PICK s \in Edges : Sides(r, c) = Edges \ {s}
  BY DEF Spans
<1>. DEFINE missing == CHOOSE u \in Edges : u \notin Sides(r, c)
<1>2. missing = s
  BY <1>1
<1>3. /\ ~Inside(r, c)[s]
      /\ \A u \in {"x", "y", "x1", "y1"} : u # s => Inside(r, c)[u]
  BY <1>1 DEF Sides, Edges
<1>4. s \in {"x", "y", "x1", "y1"}
  BY DEF Edges
<1>5. /\ r.x \in Int /\ r.y \in Int /\ r.x1 \in Int /\ r.y1 \in Int
      /\ c.x \in Int /\ c.y \in Int /\ c.x1 \in Int /\ c.y1 \in Int
  BY Corners
<1>6. CASE s = "x"
  <2>1. Shortened(r, c) = [c EXCEPT !.x1 = r.x]
    BY <1>2, <1>6 DEF Shortened
  <2>2. /\ Shortened(r, c).x = c.x /\ Shortened(r, c).y = c.y
        /\ Shortened(r, c).x1 = r.x /\ Shortened(r, c).y1 = c.y1
    BY <2>1 DEF AllRects
  <2>3. c.x <= r.x /\ r.y < c.y /\ c.x1 < r.x1 /\ c.y1 < r.y1
    BY <1>3, <1>5, <1>6, InsideIs
  <2>. QED  BY <1>5, <2>2, <2>3 DEF Holds, Apart
<1>7. CASE s = "y"
  <2>1. Shortened(r, c) = [c EXCEPT !.y1 = r.y]
    BY <1>2, <1>7 DEF Shortened
  <2>2. /\ Shortened(r, c).x = c.x /\ Shortened(r, c).y = c.y
        /\ Shortened(r, c).x1 = c.x1 /\ Shortened(r, c).y1 = r.y
    BY <2>1 DEF AllRects
  <2>3. r.x < c.x /\ c.y <= r.y /\ c.x1 < r.x1 /\ c.y1 < r.y1
    BY <1>3, <1>5, <1>7, InsideIs
  <2>. QED  BY <1>5, <2>2, <2>3 DEF Holds, Apart
<1>8. CASE s = "x1"
  <2>1. Shortened(r, c) = [c EXCEPT !.x = r.x1]
    BY <1>2, <1>8 DEF Shortened
  <2>2. /\ Shortened(r, c).x = r.x1 /\ Shortened(r, c).y = c.y
        /\ Shortened(r, c).x1 = c.x1 /\ Shortened(r, c).y1 = c.y1
    BY <2>1 DEF AllRects
  <2>3. r.x < c.x /\ r.y < c.y /\ r.x1 <= c.x1 /\ c.y1 < r.y1
    BY <1>3, <1>5, <1>8, InsideIs
  <2>. QED  BY <1>5, <2>2, <2>3 DEF Holds, Apart
<1>9. CASE s = "y1"
  <2>1. Shortened(r, c) = [c EXCEPT !.y = r.y1]
    BY <1>2, <1>9 DEF Shortened
  <2>2. /\ Shortened(r, c).x = c.x /\ Shortened(r, c).y = r.y1
        /\ Shortened(r, c).x1 = c.x1 /\ Shortened(r, c).y1 = c.y1
    BY <2>1 DEF AllRects
  <2>3. r.x < c.x /\ r.y < c.y /\ c.x1 < r.x1 /\ r.y1 <= c.y1
    BY <1>3, <1>5, <1>9, InsideIs
  <2>. QED  BY <1>5, <2>2, <2>3 DEF Holds, Apart
<1>. QED  BY <1>4, <1>6, <1>7, <1>8, <1>9

-----------------------------------------------------------------------------
(* Walks along a list. Induction is a fact about sets here, and a walk is  *)
(* shown to exist before anything is said of it.                           *)

\* Induction as a fact about sets.
LEMMA UpTo ==
  ASSUME NEW n \in Nat, NEW S, 0 \in S, \A i \in 0 .. n - 1 : i \in S => i + 1 \in S
  PROVE  \A i \in 0 .. n : i \in S
<1>. SUFFICES ASSUME NEW k \in 0 .. n, k \notin S PROVE FALSE
  OBVIOUS
<1>. DEFINE T == {i \in 0 .. n : i \notin S}
<1>1. T \subseteq Nat /\ T # {}
  OBVIOUS
<1>2. PICK m \in T : \A j \in T : <<j, m>> \notin OpToRel(<, Nat)
  <2>. HIDE DEF T
  <2>. QED  BY <1>1, NatLessThanWellFounded, WFMin, Zenon
<1>3. m \in Nat /\ m # 0 /\ m \notin S
  OBVIOUS
<1>4. m - 1 \notin T
  <2>1. <<m - 1, m>> \in OpToRel(<, Nat)
    BY <1>3 DEF OpToRel
  <2>. QED  BY <2>1, <1>2
<1>5. m - 1 \in S /\ m - 1 \in 0 .. n - 1
  BY <1>3, <1>4
<1>. QED  BY <1>3, <1>5

\* A function is walked step by step.
Steps(n, A) == [(1 .. n) \X A -> A]
IsWalk(f, n, a, step) == f[0] = a /\ \A i \in 1 .. n : f[i] = step[<<i, f[i - 1]>>]

LEMMA WalkExists ==
  ASSUME NEW n \in Nat, NEW A, NEW a \in A, NEW step \in Steps(n, A)
  PROVE  \E f \in [0 .. n -> A] : IsWalk(f, n, a, step)
<1>. USE DEF Steps, IsWalk
<1>. DEFINE Walked(k) == \E f \in [0 .. k -> A] :
                           f[0] = a /\ \A i \in 1 .. k : f[i] = step[<<i, f[i - 1]>>]
            S == {k \in Nat : Walked(k)}
<1>1. 0 \in S
  <2>1. \E f \in [0 .. 0 -> A] : f[0] = a
    <3>1. [i \in 0 .. 0 |-> a] \in [0 .. 0 -> A] /\ [i \in 0 .. 0 |-> a][0] = a
      OBVIOUS
    <3>. QED  BY <3>1
  <2>2. Walked(0)
    BY <2>1
  <2>. QED  BY <2>2
<1>2. ASSUME NEW k \in 0 .. n - 1, k \in S
      PROVE  k + 1 \in S
  <2>1. PICK f \in [0 .. k -> A] : f[0] = a /\ \A i \in 1 .. k : f[i] = step[<<i, f[i - 1]>>]
    BY <1>2
  <2>. DEFINE g == [i \in 0 .. k + 1 |-> IF i = k + 1 THEN step[<<k + 1, f[k]>>] ELSE f[i]]
  <2>2. k + 1 \in 1 .. n /\ f[k] \in A
    OBVIOUS
  <2>3. step[<<k + 1, f[k]>>] \in A
    BY <2>2
  <2>4. g \in [0 .. k + 1 -> A]
    BY <2>3
  <2>5. g[0] = a
    BY <2>1
  <2>6. ASSUME NEW i \in 1 .. k + 1
        PROVE  g[i] = step[<<i, g[i - 1]>>]
    <3>1. CASE i = k + 1
      <4>1. i - 1 = k /\ g[k] = f[k]
        BY <3>1
      <4>2. g[i] = step[<<k + 1, f[k]>>]
        BY <3>1
      <4>. HIDE DEF g
      <4>. QED  BY <3>1, <4>1, <4>2
    <3>2. CASE i # k + 1
      <4>1. i \in 1 .. k /\ g[i] = f[i] /\ g[i - 1] = f[i - 1]
        BY <3>2
      <4>. QED  BY <4>1, <2>1
    <3>. QED  BY <3>1, <3>2
  <2>. HIDE DEF g
  <2>. QED  BY <2>4, <2>5, <2>6
<1>. HIDE DEF S
<1>3. n \in S
  BY <1>1, <1>2, UpTo
<1>. QED  BY <1>3 DEF S

\* Where a walk gets to.
LEMMA WalkStays ==
  ASSUME NEW n \in Nat, NEW A, NEW g, g[0] \in A, \A i \in 1 .. n : g[i - 1] \in A => g[i] \in A
  PROVE  \A i \in 0 .. n : g[i] \in A
<1>. DEFINE S == {i \in 0 .. n : g[i] \in A}
<1>1. 0 \in S
  OBVIOUS
<1>2. ASSUME NEW i \in 0 .. n - 1, i \in S
      PROVE  i + 1 \in S
  <2>1. i + 1 \in 1 .. n /\ (i + 1) - 1 = i
    OBVIOUS
  <2>. QED  BY <2>1, <1>2
<1>. HIDE DEF S
<1>3. \A i \in 0 .. n : i \in S
  BY <1>1, <1>2, UpTo
<1>. QED  BY <1>3 DEF S

-----------------------------------------------------------------------------
(* Lists of rectangles: every operation computes a set of pixels, and      *)
(* leaves a list without empty or overlapping rectangles.                  *)

Regions == {s \in Seq(AllRects) : IsRegion(s)}
Holding(s, px, py) == \E i \in DOMAIN s : Holds(s[i], px, py)
Off(s, r) == \A i \in DOMAIN s : Apart(s[i], r)

LEMMA ApartTurned ==
  ASSUME NEW r \in AllRects, NEW c \in AllRects
  PROVE  Apart(r, c) <=> Apart(c, r)
BY DEF Apart, AllRects

LEMMA OffTurned ==
  ASSUME NEW s \in Seq(AllRects), NEW c \in AllRects
  PROVE  Off(s, c) <=> \A i \in DOMAIN s : Apart(c, s[i])
<1>1. \A i \in DOMAIN s : s[i] \in AllRects
  OBVIOUS
<1>. QED  BY <1>1, ApartTurned DEF Off

\* Two lists joined.
LEMMA Joined ==
  ASSUME NEW a \in Seq(AllRects), NEW b \in Seq(AllRects)
  PROVE  /\ a \o b \in Seq(AllRects)
         /\ IsRegion(a) /\ IsRegion(b) /\ (\A j \in DOMAIN b : Off(a, b[j])) => IsRegion(a \o b)
         /\ \A r : Off(a \o b, r) <=> Off(a, r) /\ Off(b, r)
         /\ \A px, py : Holding(a \o b, px, py) <=> Holding(a, px, py) \/ Holding(b, px, py)
<1>1. a \o b \in Seq(AllRects)
  OBVIOUS
<1>2. /\ DOMAIN a = 1 .. Len(a) /\ DOMAIN b = 1 .. Len(b)
      /\ DOMAIN (a \o b) = 1 .. Len(a) + Len(b)
      /\ \A i \in DOMAIN a : (a \o b)[i] = a[i] /\ i \in DOMAIN (a \o b)
      /\ \A i \in DOMAIN b : (a \o b)[i + Len(a)] = b[i] /\ i + Len(a) \in DOMAIN (a \o b)
      /\ Len(a) \in Nat /\ Len(b) \in Nat
  OBVIOUS
<1>3. \A i \in DOMAIN (a \o b) : i \in DOMAIN a \/ (i - Len(a) \in DOMAIN b /\ (a \o b)[i] = b[i - Len(a)])
  OBVIOUS
<1>4. \A i \in DOMAIN a : a[i] \in AllRects
  OBVIOUS
<1>5. \A i \in DOMAIN b : b[i] \in AllRects
  OBVIOUS
<1>. DEFINE ab == a \o b
<1>6. /\ DOMAIN ab = 1 .. Len(a) + Len(b)
      /\ \A i \in DOMAIN a : ab[i] = a[i] /\ i \in DOMAIN ab
      /\ \A i \in DOMAIN b : ab[i + Len(a)] = b[i] /\ i + Len(a) \in DOMAIN ab
      /\ \A i \in DOMAIN ab : i \in DOMAIN a \/ (i - Len(a) \in DOMAIN b /\ ab[i] = b[i - Len(a)])
  BY <1>2, <1>3
<1>. HIDE DEF ab
<1>7. ASSUME IsRegion(a), IsRegion(b), \A j \in DOMAIN b : Off(a, b[j])
      PROVE  IsRegion(ab)
  <2>1. \A i \in DOMAIN ab : ~IsEmpty(ab[i])
    BY <1>6, <1>7 DEF IsRegion
  <2>2. ASSUME NEW i \in DOMAIN ab, NEW j \in DOMAIN ab, i # j
        PROVE  Apart(ab[i], ab[j])
    <3>1. CASE i \in DOMAIN a /\ j \in DOMAIN a
      BY <3>1, <2>2, <1>6, <1>7 DEF IsRegion
    <3>2. CASE i \in DOMAIN a /\ j \notin DOMAIN a
      BY <3>2, <2>2, <1>6, <1>7 DEF Off
    <3>3. CASE i \notin DOMAIN a /\ j \in DOMAIN a
      <4>1. Apart(ab[j], ab[i])
        BY <3>3, <2>2, <1>6, <1>7 DEF Off
      <4>2. ab[i] \in AllRects /\ ab[j] \in AllRects
        BY <3>3, <1>4, <1>5, <1>6
      <4>. QED  BY <4>1, <4>2, ApartTurned
    <3>4. CASE i \notin DOMAIN a /\ j \notin DOMAIN a
      <4>1. i - Len(a) # j - Len(a)
        BY <2>2, <1>2, <1>6
      <4>. QED  BY <4>1, <3>4, <2>2, <1>6, <1>7 DEF IsRegion
    <3>. QED  BY <3>1, <3>2, <3>3, <3>4
  <2>. QED  BY <2>1, <2>2 DEF IsRegion
<1>8. ASSUME NEW r
      PROVE  Off(ab, r) <=> Off(a, r) /\ Off(b, r)
  BY <1>6 DEF Off
<1>9. ASSUME NEW px, NEW py
      PROVE  Holding(ab, px, py) <=> Holding(a, px, py) \/ Holding(b, px, py)
  BY <1>6 DEF Holding
<1>. QED  BY <1>1, <1>7, <1>8, <1>9 DEF ab

LEMMA One ==
  ASSUME NEW r \in AllRects
  PROVE  /\ <<r>> \in Seq(AllRects)
         /\ ~IsEmpty(r) => IsRegion(<<r>>)
         /\ \A c : Off(<<r>>, c) <=> Apart(r, c)
         /\ \A px, py : Holding(<<r>>, px, py) <=> Holds(r, px, py)
         /\ \A s \in Seq(AllRects) : Append(s, r) = s \o <<r>>
<1>1. <<r>> \in Seq(AllRects) /\ DOMAIN <<r>> = {1} /\ <<r>>[1] = r
  OBVIOUS
<1>2. \A s \in Seq(AllRects) : Append(s, r) = s \o <<r>>
  OBVIOUS
<1>. QED  BY <1>1, <1>2 DEF IsRegion, Off, Holding

LEMMA None ==
  /\ <<>> \in Seq(AllRects) /\ IsRegion(<<>>)
  /\ \A c : Off(<<>>, c)
  /\ \A px, py : ~Holding(<<>>, px, py)
BY DEF IsRegion, Off, Holding

\* What is common to two rectangles lies within both.
Within(p, r) == r.x <= p.x /\ r.y <= p.y /\ p.x1 <= r.x1 /\ p.y1 <= r.y1

LEMMA WithinApart ==
  ASSUME NEW p \in AllRects, NEW r \in AllRects, NEW q \in AllRects, Within(p, r), Apart(r, q)
  PROVE  Apart(p, q)
BY DEF Within, Apart, AllRects

LEMMA CommonWithin ==
  ASSUME NEW r \in AllRects, NEW c \in AllRects
  PROVE  /\ Common(r, c) \in AllRects
         /\ Within(Common(r, c), r)
         /\ Within(Common(r, c), c)
         /\ ~IsEmpty(r) /\ ~IsEmpty(c) /\ ~Apart(r, c) => ~IsEmpty(Common(r, c))
BY DEF Within, Common, AllRects, Greater, Lesser, Rect, IsEmpty, Apart

\* The part of a list that a walk has still to visit.
Ahead(s, i, r) == \A j \in i + 1 .. Len(s) : Apart(s[j], r)
Behind(s, i, px, py) == \E j \in 1 .. i : Holds(s[j], px, py)

LEMMA Visited ==
  ASSUME NEW s \in Seq(AllRects), NEW i \in 0 .. Len(s) - 1
  PROVE  /\ i + 1 \in DOMAIN s /\ i + 1 \in 1 .. Len(s) /\ s[i + 1] \in AllRects /\ i + 1 \in 0 .. Len(s) /\ i \in 0 .. Len(s)
         /\ \A r : Ahead(s, i, r) => Ahead(s, i + 1, r) /\ Apart(s[i + 1], r)
         /\ \A px, py : Behind(s, i + 1, px, py) <=> Behind(s, i, px, py) \/ Holds(s[i + 1], px, py)
<1>1. i + 1 \in DOMAIN s /\ i + 1 \in 1 .. Len(s) /\ s[i + 1] \in AllRects /\ Len(s) \in Nat
  OBVIOUS
<1>2. i + 1 \in i + 1 .. Len(s) /\ \A j \in i + 2 .. Len(s) : j \in i + 1 .. Len(s)
  BY <1>1
<1>3. i \in Nat /\ \A j \in 1 .. i + 1 : j \in 1 .. i \/ j = i + 1
  BY <1>1
<1>4. i + 1 \in 1 .. i + 1 /\ \A j \in 1 .. i : j \in 1 .. i + 1
  BY <1>1
<1>. QED  BY <1>1, <1>2, <1>3, <1>4 DEF Ahead, Behind

LEMMA WholeWalk ==
  ASSUME NEW s \in Seq(AllRects)
  PROVE  /\ 0 \in 0 .. Len(s) /\ Len(s) \in Nat /\ Len(s) \in 0 .. Len(s)
         /\ \A px, py : ~Behind(s, 0, px, py)
         /\ \A px, py : Behind(s, Len(s), px, py) <=> Holding(s, px, py)
         /\ IsRegion(s) => \A i \in DOMAIN s : Ahead(s, i, s[i])
<1>1. /\ 0 \in 0 .. Len(s) /\ Len(s) \in Nat /\ Len(s) \in 0 .. Len(s)
      /\ DOMAIN s = 1 .. Len(s)
  OBVIOUS
<1>2. 1 .. 0 = {}
  OBVIOUS
<1>3. \A i \in DOMAIN s : \A j \in i + 1 .. Len(s) : j \in DOMAIN s /\ i # j
  BY <1>1, SMTT(30)
<1>. QED  BY <1>1, <1>2, <1>3 DEF Ahead, Behind, Holding, IsRegion

LEMMA ClipWalk ==
  ASSUME NEW s \in Seq(AllRects), NEW c \in AllRects, ~IsEmpty(c)
  PROVE  \E walk \in [0 .. Len(s) -> Seq(AllRects)] :
           /\ ClipRect(s, c) = walk[Len(s)]
           /\ walk[0] = <<>>
           /\ \A i \in 1 .. Len(s) : walk[i] = IF Apart(s[i], c) THEN walk[i - 1]
                                               ELSE Append(walk[i - 1], Common(s[i], c))
<1>. DEFINE A == Seq(AllRects)
            n == Len(s)
            step == [z \in (1 .. n) \X A |-> IF Apart(s[z[1]], c) THEN z[2] ELSE Append(z[2], Common(s[z[1]], c))]
<1>1. n \in Nat /\ <<>> \in A
  OBVIOUS
<1>2. step \in Steps(n, A)
  <2>1. \A i \in 1 .. n, kept \in A : Append(kept, Common(s[i], c)) \in A
    BY CommonWithin
  <2>. QED  BY <2>1 DEF Steps
<1>3. PICK f \in [0 .. n -> A] : IsWalk(f, n, <<>>, step)
  <2>. HIDE DEF n, A, step
  <2>. QED  BY <1>1, <1>2, WalkExists
<1>4. \A i \in 1 .. n : step[<<i, f[i - 1]>>] = IF Apart(s[i], c) THEN f[i - 1] ELSE Append(f[i - 1], Common(s[i], c))
  <2>1. \A i \in 1 .. n : i - 1 \in 0 .. n
    BY <1>1
  <2>. HIDE DEF n, A
  <2>2. \A i \in 1 .. n : f[i - 1] \in A
    BY <2>1
  <2>. QED  BY <2>2
<1>. DEFINE Good(g) == g = [i \in 0 .. n |-> IF i = 0 THEN <<>>
                                         ELSE IF Apart(s[i], c) THEN g[i - 1] ELSE Append(g[i - 1], Common(s[i], c))]
<1>5. Good(f)
  <2>1. \A i \in 0 .. n : i # 0 => i \in 1 .. n
    BY <1>1
  <2>. HIDE DEF step, n
  <2>. QED  BY <1>3, <1>4, <2>1 DEF IsWalk
<1>6. ClipRect(s, c) = (CHOOSE g : Good(g))[n]
  BY DEF ClipRect, Walk
<1>. DEFINE walk == CHOOSE g : Good(g)
<1>7. Good(walk)
  <2>. HIDE DEF Good
  <2>. QED  BY <1>5
<1>. HIDE DEF walk
<1>8. /\ walk[0] = <<>>
      /\ \A i \in 1 .. n : walk[i] = IF Apart(s[i], c) THEN walk[i - 1] ELSE Append(walk[i - 1], Common(s[i], c))
      /\ walk = [i \in 0 .. n |-> walk[i]]
  <2>1. /\ 0 \in 0 .. n
        /\ \A i \in 1 .. n : i \in 0 .. n /\ i # 0
    BY <1>1
  <2>2. walk = [i \in 0 .. n |-> walk[i]]
    BY <1>7
  <2>3. \A i \in 0 .. n : walk[i] = IF i = 0 THEN <<>>
             ELSE IF Apart(s[i], c) THEN walk[i - 1] ELSE Append(walk[i - 1], Common(s[i], c))
    <3>. HIDE DEF n
    <3>. QED  BY <1>7, Zenon
  <2>. HIDE DEF n
  <2>. QED  BY <2>1, <2>2, <2>3
<1>9. \A i \in 1 .. n : walk[i - 1] \in A => walk[i] \in A
  <2>1. \A i \in 1 .. n, kept \in A : Append(kept, Common(s[i], c)) \in A
    BY CommonWithin
  <2>. QED  BY <2>1, <1>8
<1>10. \A i \in 0 .. n : walk[i] \in A
  <2>. HIDE DEF n, A
  <2>. QED  BY <1>1, <1>8, <1>9, WalkStays, ZenonT(60)
<1>. QED  BY <1>6, <1>8, <1>10 DEF walk

LEMMA CopyWalk ==
  ASSUME NEW s \in Seq(AllRects), NEW dest \in Seq(AllRects), NEW c \in AllRects, ~IsEmpty(c)
  PROVE  \E walk \in [0 .. Len(s) -> Seq(AllRects)] :
           /\ CopyRect(s, dest, c) = walk[Len(s)]
           /\ walk[0] = dest
           /\ \A i \in 1 .. Len(s) : walk[i] = IF Apart(s[i], c) THEN walk[i - 1]
                                               ELSE <<Common(s[i], c)>> \o walk[i - 1]
<1>. DEFINE A == Seq(AllRects)
            n == Len(s)
            step == [z \in (1 .. n) \X A |-> IF Apart(s[z[1]], c) THEN z[2] ELSE <<Common(s[z[1]], c)>> \o z[2]]
<1>1. n \in Nat /\ dest \in A
  OBVIOUS
<1>2. step \in Steps(n, A)
  <2>1. \A i \in 1 .. n, d \in A : <<Common(s[i], c)>> \o d \in A
    BY CommonWithin
  <2>. QED  BY <2>1 DEF Steps
<1>3. PICK f \in [0 .. n -> A] : IsWalk(f, n, dest, step)
  <2>. HIDE DEF n, A, step
  <2>. QED  BY <1>1, <1>2, WalkExists
<1>4. \A i \in 1 .. n : step[<<i, f[i - 1]>>] = IF Apart(s[i], c) THEN f[i - 1] ELSE <<Common(s[i], c)>> \o f[i - 1]
  <2>1. \A i \in 1 .. n : i - 1 \in 0 .. n
    BY <1>1
  <2>. HIDE DEF n, A
  <2>2. \A i \in 1 .. n : f[i - 1] \in A
    BY <2>1
  <2>. QED  BY <2>2
<1>. DEFINE Good(g) == g = [i \in 0 .. n |-> IF i = 0 THEN dest
                                         ELSE IF Apart(s[i], c) THEN g[i - 1] ELSE <<Common(s[i], c)>> \o g[i - 1]]
<1>5. Good(f)
  <2>1. \A i \in 0 .. n : i # 0 => i \in 1 .. n
    BY <1>1
  <2>. HIDE DEF step, n
  <2>. QED  BY <1>3, <1>4, <2>1 DEF IsWalk
<1>6. CopyRect(s, dest, c) = (CHOOSE g : Good(g))[n]
  BY DEF CopyRect, Walk
<1>. DEFINE walk == CHOOSE g : Good(g)
<1>7. Good(walk)
  <2>. HIDE DEF Good
  <2>. QED  BY <1>5
<1>. HIDE DEF walk
<1>8. /\ walk[0] = dest
      /\ \A i \in 1 .. n : walk[i] = IF Apart(s[i], c) THEN walk[i - 1] ELSE <<Common(s[i], c)>> \o walk[i - 1]
      /\ walk = [i \in 0 .. n |-> walk[i]]
  <2>1. /\ 0 \in 0 .. n
        /\ \A i \in 1 .. n : i \in 0 .. n /\ i # 0
    BY <1>1
  <2>2. walk = [i \in 0 .. n |-> walk[i]]
    BY <1>7
  <2>3. \A i \in 0 .. n : walk[i] = IF i = 0 THEN dest
             ELSE IF Apart(s[i], c) THEN walk[i - 1] ELSE <<Common(s[i], c)>> \o walk[i - 1]
    <3>. HIDE DEF n
    <3>. QED  BY <1>7, Zenon
  <2>. HIDE DEF n
  <2>. QED  BY <2>1, <2>2, <2>3
<1>9. \A i \in 1 .. n : walk[i - 1] \in A => walk[i] \in A
  <2>1. \A i \in 1 .. n, d \in A : <<Common(s[i], c)>> \o d \in A
    BY CommonWithin
  <2>. QED  BY <2>1, <1>8
<1>10. \A i \in 0 .. n : walk[i] \in A
  <2>. HIDE DEF n, A
  <2>. QED  BY <1>1, <1>8, <1>9, WalkStays
<1>. QED  BY <1>6, <1>8, <1>10 DEF walk

\* A region.
IsList(s) == s \in Seq(AllRects) /\ IsRegion(s)

\* clip_rect: what is left is what the rectangle holds too; an empty rectangle
\* leaves the list alone.
THEOREM ClipRectExact ==
  ASSUME NEW s, IsList(s), NEW c \in AllRects
  PROVE  /\ IsList(ClipRect(s, c))
         /\ ~IsEmpty(c) => \A px \in Int, py \in Int :
              Holding(ClipRect(s, c), px, py) <=> Holding(s, px, py) /\ Holds(c, px, py)
<1>. SUFFICES ASSUME ~IsEmpty(c)
              PROVE  /\ IsList(ClipRect(s, c))
                     /\ \A px \in Int, py \in Int :
                          Holding(ClipRect(s, c), px, py) <=> Holding(s, px, py) /\ Holds(c, px, py)
  BY DEF ClipRect
<1>0. s \in Seq(AllRects) /\ IsRegion(s)
  BY DEF IsList
<1>1. PICK walk \in [0 .. Len(s) -> Seq(AllRects)] :
           /\ ClipRect(s, c) = walk[Len(s)]
           /\ walk[0] = <<>>
           /\ \A i \in 1 .. Len(s) : walk[i] = IF Apart(s[i], c) THEN walk[i - 1]
                                               ELSE Append(walk[i - 1], Common(s[i], c))
  BY <1>0, ClipWalk
<1>. DEFINE Good(i) == /\ IsRegion(walk[i])
                       /\ \A j \in i + 1 .. Len(s) : Off(walk[i], s[j])
                       /\ \A px \in Int, py \in Int :
                            Holding(walk[i], px, py) <=> Behind(s, i, px, py) /\ Holds(c, px, py)
            S == {i \in 0 .. Len(s) : Good(i)}
<1>2. 0 \in S
  BY <1>1, <1>0, None, WholeWalk
<1>3. ASSUME NEW i \in 0 .. Len(s) - 1, i \in S
      PROVE  i + 1 \in S
  <2>1. Good(i)
    BY <1>3
  <2>. DEFINE r == s[i + 1]
              kept == walk[i]
  <2>2. r \in AllRects /\ kept \in Seq(AllRects) /\ i + 1 \in 0 .. Len(s) /\ ~IsEmpty(r)
    BY <1>0, <1>1, Visited DEF IsRegion
  <2>3. walk[i + 1] = IF Apart(r, c) THEN kept ELSE Append(kept, Common(r, c))
    BY <1>0, <1>1, Visited
  <2>4. /\ \A px, py : Behind(s, i + 1, px, py) <=> Behind(s, i, px, py) \/ Holds(r, px, py)
        /\ \A j \in i + 2 .. Len(s) : j \in i + 1 .. Len(s)
        /\ i + 1 \in i + 1 .. Len(s)
    BY <1>0, Visited
  <2>. HIDE DEF r, kept
  <2>5. CASE Apart(r, c)
    <3>1. \A px \in Int, py \in Int : ~(Holds(r, px, py) /\ Holds(c, px, py))
      BY <2>2, <2>5, ApartExact
    <3>2. Good(i + 1)
      BY <2>1, <2>3, <2>4, <2>5, <3>1 DEF kept
    <3>. QED  BY <3>2, <2>2
  <2>6. CASE ~Apart(r, c)
    <3>. DEFINE part == Common(r, c)
    <3>1. part \in AllRects /\ Within(part, r) /\ ~IsEmpty(part)
      BY <2>2, <2>6, CommonWithin
    <3>2. walk[i + 1] = kept \o <<part>>
      BY <2>2, <2>3, <2>6, <3>1, One
    <3>3. \A px \in Int, py \in Int : Holds(part, px, py) <=> Holds(r, px, py) /\ Holds(c, px, py)
      BY <2>2, CommonExact
    <3>. HIDE DEF part
    <3>4. Off(kept, part)
      <4>1. Off(kept, r)
        BY <2>1, <2>4 DEF r, kept
      <4>. QED  BY <4>1, <2>2, <3>1, WithinApart, ApartTurned DEF Off
    <3>5. IsRegion(kept \o <<part>>)
      <4>1. <<part>> \in Seq(AllRects) /\ IsRegion(<<part>>)
        BY <3>1, One
      <4>2. \A j \in DOMAIN <<part>> : Off(kept, <<part>>[j])
        BY <3>4
      <4>3. IsRegion(kept)
        BY <2>1 DEF kept
      <4>. HIDE DEF kept
      <4>. QED  BY <2>2, <4>1, <4>2, <4>3, Joined
    <3>6. ASSUME NEW j \in i + 2 .. Len(s)
          PROVE  Off(kept \o <<part>>, s[j])
      <4>1. Off(kept, s[j])
        BY <2>1, <2>4 DEF kept
      <4>2. Apart(r, s[j]) /\ s[j] \in AllRects
        BY <1>0 DEF r, IsRegion
      <4>3. Apart(part, s[j])
        BY <2>2, <3>1, <4>2, WithinApart
      <4>. QED  BY <2>2, <3>1, <4>1, <4>3, One, Joined
    <3>7. \A px, py : Holding(kept \o <<part>>, px, py) <=> Holding(kept, px, py) \/ Holds(part, px, py)
      BY <2>2, <3>1, One, Joined
    <3>8. Good(i + 1)
      <4>1. \A j \in (i + 1) + 1 .. Len(s) : Off(walk[i + 1], s[j])
        BY <3>2, <3>6
      <4>2. \A px \in Int, py \in Int : Holding(walk[i + 1], px, py) <=> Behind(s, i + 1, px, py) /\ Holds(c, px, py)
        BY <2>1, <2>4, <3>2, <3>3, <3>7 DEF kept
      <4>. QED  BY <3>2, <3>5, <4>1, <4>2
    <3>. QED  BY <3>8, <2>2
  <2>. QED  BY <2>5, <2>6
<1>4. Len(s) \in S
  <2>. HIDE DEF S
  <2>. QED  BY <1>0, <1>2, <1>3, UpTo, WholeWalk
<1>. QED  BY <1>0, <1>1, <1>4, WholeWalk DEF IsList

\* copy_rect: what the rectangle holds of the list is added to the other list,
\* whose rectangles it does not touch.
THEOREM CopyRectExact ==
  ASSUME NEW s, IsList(s), NEW dest, IsList(dest), NEW c \in AllRects, Off(dest, c)
  PROVE  /\ IsList(CopyRect(s, dest, c))
         /\ \A q \in AllRects : Off(dest, q) /\ Apart(c, q) => Off(CopyRect(s, dest, c), q)
         /\ \A px \in Int, py \in Int :
              Holding(CopyRect(s, dest, c), px, py)
                <=> Holding(dest, px, py) \/ (Holding(s, px, py) /\ Holds(c, px, py))
<1>1. CASE IsEmpty(c)
  <2>1. \A px \in Int, py \in Int : ~Holds(c, px, py)
    BY <1>1 DEF Holds, IsEmpty, AllRects
  <2>. QED  BY <1>1, <2>1 DEF CopyRect
<1>2. CASE ~IsEmpty(c)
  <2>0. s \in Seq(AllRects) /\ IsRegion(s) /\ dest \in Seq(AllRects) /\ IsRegion(dest)
    BY DEF IsList
  <2>1. PICK walk \in [0 .. Len(s) -> Seq(AllRects)] :
             /\ CopyRect(s, dest, c) = walk[Len(s)]
             /\ walk[0] = dest
             /\ \A i \in 1 .. Len(s) : walk[i] = IF Apart(s[i], c) THEN walk[i - 1]
                                                 ELSE <<Common(s[i], c)>> \o walk[i - 1]
    BY <2>0, <1>2, CopyWalk, ZenonT(30)
  <2>. DEFINE Good(i) == /\ IsRegion(walk[i])
                         /\ \A q \in AllRects : Off(dest, q) /\ (Apart(c, q) \/ \A j \in 1 .. i : Apart(s[j], q))
                               => Off(walk[i], q)
                         /\ \A px \in Int, py \in Int :
                              Holding(walk[i], px, py)
                                <=> Holding(dest, px, py) \/ (Behind(s, i, px, py) /\ Holds(c, px, py))
              S == {i \in 0 .. Len(s) : Good(i)}
  <2>2. 0 \in S
    BY <2>0, <2>1, WholeWalk
  <2>3. ASSUME NEW i \in 0 .. Len(s) - 1, i \in S
        PROVE  i + 1 \in S
    <3>1. Good(i)
      BY <2>3
    <3>. DEFINE r == s[i + 1]
                old == walk[i]
    <3>2. r \in AllRects /\ old \in Seq(AllRects) /\ i + 1 \in 0 .. Len(s) /\ ~IsEmpty(r)
      BY <2>0, <2>1, Visited DEF IsRegion
    <3>3. walk[i + 1] = IF Apart(r, c) THEN old ELSE <<Common(r, c)>> \o old
      <4>1. i + 1 \in 1 .. Len(s) /\ (i + 1) - 1 = i
        BY <2>0, Visited
      <4>2. walk[i + 1] = IF Apart(s[i + 1], c) THEN walk[(i + 1) - 1] ELSE <<Common(s[i + 1], c)>> \o walk[(i + 1) - 1]
        BY <2>1, <4>1
      <4>. QED  BY <4>1, <4>2
    <3>4. /\ \A px, py : Behind(s, i + 1, px, py) <=> Behind(s, i, px, py) \/ Holds(r, px, py)
          /\ \A j \in 1 .. i : j \in 1 .. i + 1
          /\ i + 1 \in 1 .. i + 1
      BY <2>0, Visited
    <3>. HIDE DEF r, old
    <3>5. CASE Apart(r, c)
      <4>1. \A px \in Int, py \in Int : ~(Holds(r, px, py) /\ Holds(c, px, py))
        BY <3>2, <3>5, <1>2, ApartExact
      <4>2. walk[i + 1] = walk[i]
        BY <3>3, <3>5 DEF old
      <4>3. Good(i + 1)
        BY <3>1, <3>4, <4>1, <4>2
      <4>. QED  BY <4>3, <3>2
    <3>6. CASE ~Apart(r, c)
      <4>. DEFINE part == Common(r, c)
      <4>1. part \in AllRects /\ Within(part, r) /\ Within(part, c) /\ ~IsEmpty(part)
        BY <3>2, <3>6, <1>2, CommonWithin
      <4>2. walk[i + 1] = <<part>> \o old
        BY <3>3, <3>6
      <4>3. \A px \in Int, py \in Int : Holds(part, px, py) <=> Holds(r, px, py) /\ Holds(c, px, py)
        BY <3>2, CommonExact
      <4>. HIDE DEF part
      <4>4. Off(old, part)
        <5>1. Off(dest, part)
          <6>1. Within(part, c) /\ \A k \in DOMAIN dest : dest[k] \in AllRects
            BY <2>0, <4>1
          <6>. QED  BY <6>1, <4>1, WithinApart, ApartTurned DEF Off
        <5>2. \A j \in 1 .. i : Apart(s[j], part)
          <6>1. \A j \in 1 .. i : Apart(s[j], r) /\ s[j] \in AllRects
            BY <2>0 DEF r, IsRegion
          <6>. QED  BY <6>1, <3>2, <4>1, WithinApart, ApartTurned
        <5>. QED  BY <5>1, <5>2, <4>1, <3>1 DEF old
      <4>5. IsRegion(<<part>> \o old)
        <5>1. <<part>> \in Seq(AllRects) /\ IsRegion(<<part>>)
          BY <4>1, One
        <5>2. \A j \in DOMAIN old : Off(<<part>>, old[j])
          BY <3>2, <4>1, <4>4, One, OffTurned
        <5>3. IsRegion(old)
          BY <3>1 DEF old
        <5>. QED  BY <3>2, <5>1, <5>2, <5>3, Joined
      <4>6. ASSUME NEW q \in AllRects, Off(dest, q), Apart(c, q) \/ \A j \in 1 .. i + 1 : Apart(s[j], q)
            PROVE  Off(<<part>> \o old, q)
        <5>1. Off(old, q)
          BY <3>1, <3>4, <4>6 DEF old
        <5>2. Apart(r, q) \/ Apart(c, q)
          BY <3>4, <4>6 DEF r
        <5>3. Apart(part, q)
          BY <3>2, <4>1, <5>2, WithinApart
        <5>. QED  BY <3>2, <4>1, <5>1, <5>3, One, Joined
      <4>7. \A px, py : Holding(<<part>> \o old, px, py) <=> Holding(old, px, py) \/ Holds(part, px, py)
        BY <3>2, <4>1, One, Joined
      <4>8. Good(i + 1)
        <5>1. \A px \in Int, py \in Int :
                Holding(walk[i + 1], px, py)
                  <=> Holding(dest, px, py) \/ (Behind(s, i + 1, px, py) /\ Holds(c, px, py))
          BY <3>1, <3>4, <4>2, <4>3, <4>7 DEF old
        <5>. QED  BY <4>2, <4>5, <4>6, <5>1
      <4>. QED  BY <4>8, <3>2
    <3>. QED  BY <3>5, <3>6
  <2>4. Len(s) \in S
    <3>. HIDE DEF S
    <3>. QED  BY <2>0, <2>2, <2>3, UpTo, WholeWalk
  <2>. QED  BY <2>0, <2>1, <2>4, WholeWalk DEF IsList
<1>. QED  BY <1>1, <1>2

LEMMA PartPlaces ==
  ASSUME NEW r \in AllRects, NEW c \in AllRects, ~Apart(r, c), NEW s \in Edges
  PROVE  /\ Around(r, c)[s] \in AllRects
         /\ s \in Sides(r, c) => Within(Around(r, c)[s], r)
         /\ Apart(Around(r, c)[s], c)
<1>1. s \in {"x", "y", "x1", "y1"}
  BY DEF Edges
<1>2. /\ r.x \in Int /\ r.y \in Int /\ r.x1 \in Int /\ r.y1 \in Int
      /\ c.x \in Int /\ c.y \in Int /\ c.x1 \in Int /\ c.y1 \in Int
  BY Corners
<1>3. Greater(r.y, c.y) \in Int /\ Lesser(r.y1, c.y1) \in Int
  BY <1>2 DEF Greater, Lesser
<1>4. Around(r, c)[s] \in AllRects
  BY <1>1, <1>2, <1>3 DEF Around, Rect, AllRects
<1>5. s \in Sides(r, c) => Inside(r, c)[s]
  BY DEF Sides
<1>6. CASE s = "x"
  BY <1>2, <1>4, <1>5, <1>6, PartCorners, InsideIs DEF Within, Apart
<1>7. CASE s = "y"
  BY <1>2, <1>4, <1>5, <1>7, PartCorners, InsideIs DEF Within, Apart
<1>8. CASE s = "x1"
  BY <1>2, <1>4, <1>5, <1>8, PartCorners, InsideIs DEF Within, Apart
<1>9. CASE s = "y1"
  BY <1>2, <1>4, <1>5, <1>9, PartCorners, InsideIs DEF Within, Apart
<1>. QED  BY <1>1, <1>6, <1>7, <1>8, <1>9

\* One part is written in place of the rectangle, and it is the last row where
\* there is one.
LEMMA InPlaceIs ==
  ASSUME NEW S \in SUBSET Edges, S # {}
  PROVE  /\ InPlace(S) \in S
         /\ S \ {InPlace(S)} \subseteq {"y", "x", "x1"}
BY DEF InPlace, Edges

\* A part that may be missing.
Maybe(yes, r) == IF yes THEN <<r>> ELSE <<>>

LEMMA MaybeOne ==
  ASSUME NEW yes \in BOOLEAN, NEW r \in AllRects
  PROVE  /\ Maybe(yes, r) \in Seq(AllRects)
         /\ (yes => ~IsEmpty(r)) => IsRegion(Maybe(yes, r))
         /\ \A c : Off(Maybe(yes, r), c) <=> (yes => Apart(r, c))
         /\ \A px, py : Holding(Maybe(yes, r), px, py) <=> yes /\ Holds(r, px, py)
         /\ \A j \in DOMAIN Maybe(yes, r) : yes /\ Maybe(yes, r)[j] = r
<1>1. CASE yes
  BY <1>1, One DEF Maybe
<1>2. CASE ~yes
  BY <1>2, None DEF Maybe
<1>. QED  BY <1>1, <1>2

\* What a rectangle becomes when c is taken out of it.
LEMMA PartsAreLists ==
  ASSUME NEW r \in AllRects, NEW c \in AllRects, ~IsEmpty(r), ~IsEmpty(c), ~Apart(r, c)
  PROVE  /\ IsList(Pushed(r, c)) /\ IsList(Kept(r, c))
         /\ \A j \in DOMAIN Kept(r, c) : Off(Pushed(r, c), Kept(r, c)[j])
         /\ Off(Pushed(r, c), c) /\ Off(Kept(r, c), c)
         /\ \A q \in AllRects : Apart(r, q) => Off(Pushed(r, c), q) /\ Off(Kept(r, c), q)
         /\ \A px \in Int, py \in Int :
              Holding(Pushed(r, c), px, py) \/ Holding(Kept(r, c), px, py)
                <=> Holds(r, px, py) /\ ~Holds(c, px, py)
<1>. DEFINE S == Sides(r, c)
            A == Around(r, c)
            m == InPlace(S)
            In(s) == s \in S \ {m}
            front == (Maybe(In("y"), A["y"]) \o Maybe(In("x"), A["x"])) \o Maybe(In("x1"), A["x1"])
            place == Maybe(S # {}, A[m])
<1>1. Pushed(r, c) = front
  BY DEF Pushed, Maybe
<1>2. Kept(r, c) = place
  BY DEF Kept, Maybe
<1>3. S \in SUBSET Edges
  BY DEF Sides
<1>4. S # {} => m \in S /\ S \ {m} \subseteq {"y", "x", "x1"}
  BY <1>3, InPlaceIs
<1>5. \A s \in Edges : A[s] \in AllRects /\ (s \in S => Within(A[s], r)) /\ Apart(A[s], c)
  BY PartPlaces
<1>6. \A s \in S : ~IsEmpty(A[s])
  BY PartsNotEmpty
<1>7. \A s \in S, u \in S : s # u => Apart(A[s], A[u])
  BY PartsApart
<1>8. \A px \in Int, py \in Int : (\E s \in S : Holds(A[s], px, py)) <=> Holds(r, px, py) /\ ~Holds(c, px, py)
  BY PartsExact
<1>9. \A q \in AllRects, s \in S : Apart(r, q) => Apart(A[s], q)
  BY <1>3, <1>5, WithinApart
<1>10. {"y", "x", "x1"} \subseteq Edges
  BY DEF Edges
<1>. HIDE DEF S, A, m
<1>. DEFINE a == Maybe(In("y"), A["y"])
            b == Maybe(In("x"), A["x"])
            d == Maybe(In("x1"), A["x1"])
<1>11. ASSUME NEW s \in {"y", "x", "x1"}
       PROVE  /\ Maybe(In(s), A[s]) \in Seq(AllRects) /\ IsRegion(Maybe(In(s), A[s]))
              /\ \A q : Off(Maybe(In(s), A[s]), q) <=> (In(s) => Apart(A[s], q))
              /\ \A px, py : Holding(Maybe(In(s), A[s]), px, py) <=> In(s) /\ Holds(A[s], px, py)
              /\ \A j \in DOMAIN Maybe(In(s), A[s]) : In(s) /\ Maybe(In(s), A[s])[j] = A[s]
  <2>1. In(s) \in BOOLEAN /\ A[s] \in AllRects /\ (In(s) => ~IsEmpty(A[s]))
    BY <1>5, <1>6, <1>10
  <2>. HIDE DEF In
  <2>. QED  BY <2>1, MaybeOne
<1>12. /\ a \in Seq(AllRects) /\ IsRegion(a) /\ b \in Seq(AllRects) /\ IsRegion(b)
       /\ d \in Seq(AllRects) /\ IsRegion(d)
  <2>. HIDE DEF In
  <2>. QED  BY <1>11
<1>13. /\ \A q : /\ Off(a, q) <=> (In("y") => Apart(A["y"], q))
                 /\ Off(b, q) <=> (In("x") => Apart(A["x"], q))
                 /\ Off(d, q) <=> (In("x1") => Apart(A["x1"], q))
       /\ \A px, py : /\ Holding(a, px, py) <=> In("y") /\ Holds(A["y"], px, py)
                      /\ Holding(b, px, py) <=> In("x") /\ Holds(A["x"], px, py)
                      /\ Holding(d, px, py) <=> In("x1") /\ Holds(A["x1"], px, py)
       /\ \A j \in DOMAIN b : In("x") /\ b[j] = A["x"]
       /\ \A j \in DOMAIN d : In("x1") /\ d[j] = A["x1"]
  <2>. HIDE DEF In
  <2>. QED  BY <1>11
<1>14. A[m] \in AllRects \/ S = {}
  BY <1>3, <1>4, <1>5
<1>15. /\ place \in Seq(AllRects) /\ IsRegion(place)
       /\ \A q : Off(place, q) <=> (S # {} => Apart(A[m], q))
       /\ \A px, py : Holding(place, px, py) <=> S # {} /\ Holds(A[m], px, py)
       /\ \A j \in DOMAIN place : S # {} /\ place[j] = A[m]
  <2>1. CASE S = {}
    BY <2>1, None DEF Maybe
  <2>2. CASE S # {}
    BY <2>2, <1>4, <1>6, <1>14, MaybeOne
  <2>. QED  BY <2>1, <2>2
<1>. HIDE DEF a, b, d, place
<1>16. /\ a \o b \in Seq(AllRects) /\ IsRegion(a \o b)
       /\ \A q : Off(a \o b, q) <=> Off(a, q) /\ Off(b, q)
       /\ \A px, py : Holding(a \o b, px, py) <=> Holding(a, px, py) \/ Holding(b, px, py)
  <2>1. \A j \in DOMAIN b : Off(a, b[j])
    BY <1>7, <1>12, <1>13
  <2>. QED  BY <2>1, <1>12, Joined
<1>17. /\ front \in Seq(AllRects) /\ IsRegion(front)
       /\ \A q : Off(front, q) <=> Off(a, q) /\ Off(b, q) /\ Off(d, q)
       /\ \A px, py : Holding(front, px, py) <=> Holding(a, px, py) \/ Holding(b, px, py) \/ Holding(d, px, py)
  <2>1. \A j \in DOMAIN d : Off(a \o b, d[j])
    BY <1>7, <1>12, <1>13, <1>16
  <2>2. front = (a \o b) \o d
    BY DEF a, b, d
  <2>. HIDE DEF front
  <2>. QED  BY <2>1, <2>2, <1>12, <1>16, Joined
<1>. HIDE DEF front
<1>18. \A j \in DOMAIN place : Off(front, place[j])
  BY <1>4, <1>7, <1>12, <1>13, <1>15, <1>17
<1>19. Off(front, c) /\ Off(place, c)
  BY <1>3, <1>4, <1>5, <1>10, <1>12, <1>13, <1>15, <1>17
<1>20. \A q \in AllRects : Apart(r, q) => Off(front, q) /\ Off(place, q)
  BY <1>4, <1>9, <1>12, <1>13, <1>15, <1>17
<1>21. ASSUME NEW px \in Int, NEW py \in Int
       PROVE  Holding(front, px, py) \/ Holding(place, px, py) <=> \E s \in S : Holds(A[s], px, py)
  <2>1. ASSUME NEW s \in S, Holds(A[s], px, py)
        PROVE  Holding(front, px, py) \/ Holding(place, px, py)
    <3>1. CASE s = m
      BY <2>1, <3>1, <1>15
    <3>2. CASE s # m
      <4>1. s \in {"y", "x", "x1"} /\ In(s)
        BY <3>2, <1>4
      <4>. HIDE DEF In
      <4>. QED  BY <2>1, <4>1, <1>13, <1>17
    <3>. QED  BY <3>1, <3>2
  <2>2. ASSUME Holding(front, px, py)
        PROVE  \E s \in S : Holds(A[s], px, py)
    <3>1. PICK s \in {"y", "x", "x1"} : In(s) /\ Holds(A[s], px, py)
      <4>. HIDE DEF In
      <4>. QED  BY <2>2, <1>13, <1>17
    <3>. QED  BY <3>1
  <2>3. ASSUME Holding(place, px, py)
        PROVE  \E s \in S : Holds(A[s], px, py)
    BY <2>3, <1>4, <1>15
  <2>. QED  BY <2>1, <2>2, <2>3
<1>. QED  BY <1>1, <1>2, <1>8, <1>15, <1>17, <1>18, <1>19, <1>20, <1>21 DEF IsList

\* The two lists of a walk that takes a rectangle out: together a region.
Both(f, k) == IsList(f) /\ IsList(k) /\ \A j \in DOMAIN k : Off(f, k[j])
OffBoth(f, k, q) == Off(f, q) /\ Off(k, q)
HoldingBoth(f, k, px, py) == Holding(f, px, py) \/ Holding(k, px, py)

LEMMA OffParts ==
  ASSUME NEW a \in Seq(AllRects), NEW b \in Seq(AllRects),
         \A j \in DOMAIN b : Off(a, b[j])
  PROVE  \A j \in DOMAIN a : Off(b, a[j])
BY ApartTurned DEF Off

LEMMA BothJoined ==
  ASSUME NEW f, NEW k, Both(f, k)
  PROVE  /\ IsList(f \o k)
         /\ \A q : Off(f \o k, q) <=> OffBoth(f, k, q)
         /\ \A px, py : Holding(f \o k, px, py) <=> HoldingBoth(f, k, px, py)
<1>1. f \in Seq(AllRects) /\ k \in Seq(AllRects) /\ IsRegion(f) /\ IsRegion(k) /\ \A j \in DOMAIN k : Off(f, k[j])
  BY DEF Both, IsList
<1>. QED  BY <1>1, Joined DEF IsList, OffBoth, HoldingBoth

LEMMA WholeAdded ==
  ASSUME NEW f, NEW k, Both(f, k), NEW r \in AllRects, ~IsEmpty(r), OffBoth(f, k, r)
  PROVE  /\ Both(f, Append(k, r))
         /\ \A q : OffBoth(f, Append(k, r), q) <=> OffBoth(f, k, q) /\ Apart(r, q)
         /\ \A px, py : HoldingBoth(f, Append(k, r), px, py) <=> HoldingBoth(f, k, px, py) \/ Holds(r, px, py)
<1>1. f \in Seq(AllRects) /\ k \in Seq(AllRects) /\ IsRegion(f) /\ IsRegion(k) /\ \A j \in DOMAIN k : Off(f, k[j])
  BY DEF Both, IsList
<1>2. /\ <<r>> \in Seq(AllRects) /\ IsRegion(<<r>>) /\ Append(k, r) = k \o <<r>>
      /\ \A q : Off(<<r>>, q) <=> Apart(r, q)
      /\ \A px, py : Holding(<<r>>, px, py) <=> Holds(r, px, py)
      /\ \A j \in DOMAIN <<r>> : <<r>>[j] = r
  BY <1>1, One, SMTT(30)
<1>3. /\ k \o <<r>> \in Seq(AllRects) /\ IsRegion(k \o <<r>>)
      /\ \A q : Off(k \o <<r>>, q) <=> Off(k, q) /\ Apart(r, q)
      /\ \A px, py : Holding(k \o <<r>>, px, py) <=> Holding(k, px, py) \/ Holds(r, px, py)
  <2>1. \A j \in DOMAIN <<r>> : Off(k, <<r>>[j])
    BY <1>2 DEF OffBoth
  <2>. QED  BY <1>1, <1>2, <2>1, Joined
<1>4. \A i \in DOMAIN f : Off(k \o <<r>>, f[i])
  <2>1. \A i \in DOMAIN f : Off(k, f[i])
    BY <1>1, OffParts
  <2>2. \A i \in DOMAIN f : Apart(r, f[i])
    BY <1>1, OffTurned DEF OffBoth
  <2>. QED  BY <1>3, <2>1, <2>2
<1>5. \A j \in DOMAIN (k \o <<r>>) : Off(f, (k \o <<r>>)[j])
  BY <1>1, <1>3, <1>4, OffParts
<1>. QED  BY <1>1, <1>2, <1>3, <1>5 DEF Both, IsList, OffBoth, HoldingBoth

LEMMA PartsAdded ==
  ASSUME NEW f, NEW k, Both(f, k), NEW r \in AllRects, NEW c \in AllRects, ~IsEmpty(r), ~IsEmpty(c),
         ~Apart(r, c), OffBoth(f, k, r)
  PROVE  /\ Both(Pushed(r, c) \o f, k \o Kept(r, c))
         /\ \A q \in AllRects : OffBoth(f, k, q) /\ Apart(r, q) => OffBoth(Pushed(r, c) \o f, k \o Kept(r, c), q)
         /\ OffBoth(f, k, c) => OffBoth(Pushed(r, c) \o f, k \o Kept(r, c), c)
         /\ \A px \in Int, py \in Int :
              HoldingBoth(Pushed(r, c) \o f, k \o Kept(r, c), px, py)
                <=> HoldingBoth(f, k, px, py) \/ (Holds(r, px, py) /\ ~Holds(c, px, py))
<1>1. f \in Seq(AllRects) /\ k \in Seq(AllRects) /\ IsRegion(f) /\ IsRegion(k) /\ \A j \in DOMAIN k : Off(f, k[j])
  BY DEF Both, IsList
<1>. DEFINE a == Pushed(r, c)
            b == Kept(r, c)
<1>2. /\ a \in Seq(AllRects) /\ IsRegion(a) /\ b \in Seq(AllRects) /\ IsRegion(b)
      /\ \A j \in DOMAIN b : Off(a, b[j])
      /\ Off(a, c) /\ Off(b, c)
      /\ \A q \in AllRects : Apart(r, q) => Off(a, q) /\ Off(b, q)
      /\ \A px \in Int, py \in Int :
           Holding(a, px, py) \/ Holding(b, px, py) <=> Holds(r, px, py) /\ ~Holds(c, px, py)
  BY PartsAreLists DEF IsList
<1>3. /\ \A j \in DOMAIN f : f[j] \in AllRects /\ Apart(f[j], r) /\ Apart(r, f[j])
      /\ \A j \in DOMAIN k : k[j] \in AllRects /\ Apart(k[j], r) /\ Apart(r, k[j])
  BY <1>1, ApartTurned DEF OffBoth, Off
<1>. HIDE DEF a, b
<1>4. /\ a \o f \in Seq(AllRects) /\ IsRegion(a \o f)
      /\ \A q : Off(a \o f, q) <=> Off(a, q) /\ Off(f, q)
      /\ \A px, py : Holding(a \o f, px, py) <=> Holding(a, px, py) \/ Holding(f, px, py)
  <2>1. \A j \in DOMAIN f : Off(a, f[j])
    BY <1>2, <1>3
  <2>. QED  BY <1>1, <1>2, <2>1, Joined
<1>5. \A j \in DOMAIN k : Off(b, k[j])
  BY <1>2, <1>3
<1>6. /\ k \o b \in Seq(AllRects) /\ IsRegion(k \o b)
      /\ \A q : Off(k \o b, q) <=> Off(k, q) /\ Off(b, q)
      /\ \A px, py : Holding(k \o b, px, py) <=> Holding(k, px, py) \/ Holding(b, px, py)
  <2>1. \A j \in DOMAIN b : Off(k, b[j])
    BY <1>1, <1>2, <1>5, OffParts
  <2>. QED  BY <1>1, <1>2, <2>1, Joined
<1>7. \A i \in DOMAIN a : Off(k \o b, a[i])
  <2>1. \A i \in DOMAIN a : Off(b, a[i])
    BY <1>2, OffParts
  <2>2. \A j \in DOMAIN k : Off(a, k[j])
    BY <1>2, <1>3
  <2>3. \A i \in DOMAIN a : Off(k, a[i])
    BY <1>1, <1>2, <2>2, OffParts
  <2>. QED  BY <1>6, <2>1, <2>3
<1>8. \A i \in DOMAIN f : Off(k \o b, f[i])
  <2>1. \A i \in DOMAIN f : Off(b, f[i])
    BY <1>2, <1>3
  <2>2. \A i \in DOMAIN f : Off(k, f[i])
    BY <1>1, OffParts
  <2>. QED  BY <1>6, <2>1, <2>2
<1>9. \A j \in DOMAIN (k \o b) : Off(a, (k \o b)[j])
  BY <1>2, <1>6, <1>7, OffParts
<1>10. \A j \in DOMAIN (k \o b) : Off(f, (k \o b)[j])
  BY <1>1, <1>6, <1>8, OffParts
<1>11. Both(a \o f, k \o b)
  BY <1>4, <1>6, <1>9, <1>10 DEF Both, IsList
<1>12. \A q \in AllRects : OffBoth(f, k, q) /\ Apart(r, q) => OffBoth(a \o f, k \o b, q)
  BY <1>2, <1>4, <1>6 DEF OffBoth
<1>13. OffBoth(f, k, c) => OffBoth(a \o f, k \o b, c)
  BY <1>2, <1>4, <1>6 DEF OffBoth
<1>14. \A px \in Int, py \in Int :
         HoldingBoth(a \o f, k \o b, px, py) <=> HoldingBoth(f, k, px, py) \/ (Holds(r, px, py) /\ ~Holds(c, px, py))
  BY <1>2, <1>4, <1>6, SMTT(30) DEF HoldingBoth
<1>. QED  BY <1>11, <1>12, <1>13, <1>14 DEF a, b

LEMMA RemoveWalk ==
  ASSUME NEW s \in Seq(AllRects), NEW c \in AllRects, ~IsEmpty(c), \A i \in DOMAIN s : ~IsEmpty(s[i])
  PROVE  \E walk \in [0 .. Len(s) -> [front : Seq(AllRects), rest : Seq(AllRects)]] :
           /\ RemoveRect(s, c) = walk[Len(s)].front \o walk[Len(s)].rest
           /\ walk[0] = [front |-> <<>>, rest |-> <<>>]
           /\ \A i \in 1 .. Len(s) : walk[i] = TakeOut(walk[i - 1], s[i], c)
<1>. DEFINE A == [front : Seq(AllRects), rest : Seq(AllRects)]
            n == Len(s)
            a == [front |-> <<>>, rest |-> <<>>]
            step == [z \in (1 .. n) \X A |-> TakeOut(z[2], s[z[1]], c)]
<1>1. n \in Nat /\ a \in A
  OBVIOUS
<1>2. \A i \in 1 .. n, acc \in A : TakeOut(acc, s[i], c) \in A
  <2>. SUFFICES ASSUME NEW i \in 1 .. n, NEW acc \in A
                PROVE  TakeOut(acc, s[i], c) \in A
    OBVIOUS
  <2>1. s[i] \in AllRects /\ ~IsEmpty(s[i])
    OBVIOUS
  <2>2. ~Apart(s[i], c) => Pushed(s[i], c) \in Seq(AllRects) /\ Kept(s[i], c) \in Seq(AllRects)
    BY <2>1, PartsAreLists DEF IsList
  <2>3. CASE Apart(s[i], c)
    <3>1. Append(acc.rest, s[i]) \in Seq(AllRects)
      BY <2>1
    <3>. QED  BY <2>3, <3>1 DEF TakeOut
  <2>4. CASE ~Apart(s[i], c)
    <3>1. /\ Pushed(s[i], c) \o acc.front \in Seq(AllRects)
          /\ acc.rest \o Kept(s[i], c) \in Seq(AllRects)
      BY <2>2, <2>4
    <3>. QED  BY <2>4, <3>1 DEF TakeOut
  <2>. QED  BY <2>3, <2>4
<1>3. step \in Steps(n, A)
  BY <1>2 DEF Steps
<1>4. PICK f \in [0 .. n -> A] : IsWalk(f, n, a, step)
  <2>. HIDE DEF n, A, a, step
  <2>. QED  BY <1>1, <1>3, WalkExists
<1>. DEFINE Good(g) == g = [i \in 0 .. n |-> IF i = 0 THEN a ELSE TakeOut(g[i - 1], s[i], c)]
<1>5. Good(f)
  <2>1. \A i \in 0 .. n : i # 0 => i \in 1 .. n /\ i - 1 \in 0 .. n
    BY <1>1
  <2>. HIDE DEF n, A, a
  <2>2. \A i \in 1 .. n : i - 1 \in 0 .. n => step[<<i, f[i - 1]>>] = TakeOut(f[i - 1], s[i], c)
    BY SMTT(30)
  <2>. HIDE DEF step
  <2>. QED  BY <1>4, <2>1, <2>2 DEF IsWalk
<1>. DEFINE walk == CHOOSE g : Good(g)
<1>6. RemoveRect(s, c) = walk[n].front \o walk[n].rest
  BY DEF RemoveRect, Walk
<1>7. Good(walk)
  <2>. HIDE DEF Good
  <2>. QED  BY <1>5
<1>. HIDE DEF walk
<1>8. /\ walk[0] = a
      /\ \A i \in 1 .. n : walk[i] = TakeOut(walk[i - 1], s[i], c)
      /\ walk = [i \in 0 .. n |-> walk[i]]
  <2>1. /\ 0 \in 0 .. n
        /\ \A i \in 1 .. n : i \in 0 .. n /\ i # 0
    BY <1>1
  <2>2. walk = [i \in 0 .. n |-> walk[i]]
    BY <1>7
  <2>3. \A i \in 0 .. n : walk[i] = IF i = 0 THEN a ELSE TakeOut(walk[i - 1], s[i], c)
    <3>. HIDE DEF n
    <3>. QED  BY <1>7, Zenon
  <2>. HIDE DEF n
  <2>. QED  BY <2>1, <2>2, <2>3
<1>9. \A i \in 1 .. n : walk[i - 1] \in A => walk[i] \in A
  <2>. HIDE DEF n, A
  <2>. QED  BY <1>2, <1>8
<1>10. \A i \in 0 .. n : walk[i] \in A
  <2>. HIDE DEF n, A, a
  <2>. QED  BY <1>1, <1>8, <1>9, WalkStays
<1>. QED  BY <1>6, <1>8, <1>10, Zenon DEF walk

Rooms == [front : Seq(AllRects), rest : Seq(AllRects), clip : AllRects, covered : BOOLEAN]

\* What one step of the walk does to a region.
LEMMA TakenOut ==
  ASSUME NEW acc \in [front : Seq(AllRects), rest : Seq(AllRects)] \cup Rooms, Both(acc.front, acc.rest),
         NEW r \in AllRects, NEW c \in AllRects, ~IsEmpty(r), ~IsEmpty(c), OffBoth(acc.front, acc.rest, r)
  PROVE  LET new == TakeOut(acc, r, c) IN
           /\ Both(new.front, new.rest)
           /\ \A q \in AllRects : OffBoth(acc.front, acc.rest, q) /\ Apart(r, q) => OffBoth(new.front, new.rest, q)
           /\ OffBoth(acc.front, acc.rest, c) => OffBoth(new.front, new.rest, c)
           /\ \A px \in Int, py \in Int :
                HoldingBoth(new.front, new.rest, px, py)
                  <=> HoldingBoth(acc.front, acc.rest, px, py) \/ (Holds(r, px, py) /\ ~Holds(c, px, py))
<1>1. CASE Apart(r, c)
  <2>1. TakeOut(acc, r, c).front = acc.front /\ TakeOut(acc, r, c).rest = Append(acc.rest, r)
    BY <1>1 DEF TakeOut, Rooms
  <2>2. \A px \in Int, py \in Int : Holds(r, px, py) => ~Holds(c, px, py)
    BY <1>1, ApartExact
  <2>. QED  BY <1>1, <2>1, <2>2, WholeAdded
<1>2. CASE ~Apart(r, c)
  <2>1. /\ TakeOut(acc, r, c).front = Pushed(r, c) \o acc.front
        /\ TakeOut(acc, r, c).rest = acc.rest \o Kept(r, c)
    BY <1>2 DEF TakeOut, Rooms
  <2>. QED  BY <1>2, <2>1, PartsAdded
<1>. QED  BY <1>1, <1>2

\* remove_rect: the pixels of the rectangle are taken out, and no others.
THEOREM RemoveRectExact ==
  ASSUME NEW s, IsList(s), NEW c \in AllRects
  PROVE  /\ IsList(RemoveRect(s, c))
         /\ ~IsEmpty(c) => Off(RemoveRect(s, c), c)
         /\ \A q \in AllRects : Off(s, q) => Off(RemoveRect(s, c), q)
         /\ \A px \in Int, py \in Int :
              Holding(RemoveRect(s, c), px, py) <=> Holding(s, px, py) /\ ~Holds(c, px, py)
<1>1. CASE IsEmpty(c)
  <2>1. \A px \in Int, py \in Int : ~Holds(c, px, py)
    BY <1>1 DEF Holds, IsEmpty, AllRects
  <2>. QED  BY <1>1, <2>1 DEF RemoveRect
<1>2. CASE ~IsEmpty(c)
  <2>. DEFINE A == [front : Seq(AllRects), rest : Seq(AllRects)]
  <2>0. s \in Seq(AllRects) /\ IsRegion(s) /\ \A i \in DOMAIN s : ~IsEmpty(s[i])
    BY DEF IsList, IsRegion
  <2>1. PICK walk \in [0 .. Len(s) -> A] :
             /\ RemoveRect(s, c) = walk[Len(s)].front \o walk[Len(s)].rest
             /\ walk[0] = [front |-> <<>>, rest |-> <<>>]
             /\ \A i \in 1 .. Len(s) : walk[i] = TakeOut(walk[i - 1], s[i], c)
    BY <2>0, <1>2, RemoveWalk
  <2>. DEFINE f(i) == walk[i].front
              k(i) == walk[i].rest
              Good(i) == /\ Both(f(i), k(i))
                         /\ OffBoth(f(i), k(i), c)
                         /\ \A q \in AllRects : (\A j \in 1 .. i : Apart(s[j], q)) => OffBoth(f(i), k(i), q)
                         /\ \A px \in Int, py \in Int :
                              HoldingBoth(f(i), k(i), px, py) <=> Behind(s, i, px, py) /\ ~Holds(c, px, py)
              S == {i \in 0 .. Len(s) : Good(i)}
  <2>2. 0 \in S
    <3>1. f(0) = <<>> /\ k(0) = <<>>
      BY <2>1
    <3>2. Both(<<>>, <<>>) /\ \A q : OffBoth(<<>>, <<>>, q)
      BY None DEF Both, OffBoth, IsList
    <3>3. \A px \in Int, py \in Int : ~HoldingBoth(<<>>, <<>>, px, py)
      BY None DEF HoldingBoth
    <3>. HIDE DEF f, k
    <3>. QED  BY <2>0, <3>1, <3>2, <3>3, WholeWalk
  <2>3. ASSUME NEW i \in 0 .. Len(s) - 1, i \in S
        PROVE  i + 1 \in S
    <3>1. Good(i)
      BY <2>3
    <3>. DEFINE r == s[i + 1]
    <3>2. r \in AllRects /\ i + 1 \in 0 .. Len(s) /\ i \in 0 .. Len(s) /\ ~IsEmpty(r) /\ i + 1 \in DOMAIN s
      BY <2>0, Visited
    <3>3. walk[i + 1] = TakeOut(walk[i], r, c) /\ walk[i] \in A
      BY <2>0, <2>1, <3>2
    <3>4. /\ \A px, py : Behind(s, i + 1, px, py) <=> Behind(s, i, px, py) \/ Holds(r, px, py)
          /\ \A j \in 1 .. i : j \in 1 .. i + 1 /\ j \in DOMAIN s /\ j # i + 1
          /\ i + 1 \in 1 .. i + 1
      BY <2>0, Visited
    <3>5. \A j \in 1 .. i : Apart(s[j], r)
      BY <2>0, <3>2, <3>4 DEF IsRegion
    <3>6. OffBoth(f(i), k(i), r)
      BY <3>1, <3>2, <3>5
    <3>. HIDE DEF r, A
    <3>7. /\ Both(f(i + 1), k(i + 1))
          /\ \A q \in AllRects : OffBoth(f(i), k(i), q) /\ Apart(r, q) => OffBoth(f(i + 1), k(i + 1), q)
          /\ OffBoth(f(i), k(i), c) => OffBoth(f(i + 1), k(i + 1), c)
          /\ \A px \in Int, py \in Int :
               HoldingBoth(f(i + 1), k(i + 1), px, py)
                 <=> HoldingBoth(f(i), k(i), px, py) \/ (Holds(r, px, py) /\ ~Holds(c, px, py))
      BY <3>1, <3>2, <3>3, <3>6, <1>2, TakenOut DEF A
    <3>. HIDE DEF f, k
    <3>8. \A q \in AllRects : (\A j \in 1 .. i + 1 : Apart(s[j], q)) => OffBoth(f(i + 1), k(i + 1), q)
      BY <3>1, <3>4, <3>7 DEF r
    <3>9. Good(i + 1)
      BY <3>1, <3>4, <3>7, <3>8
    <3>. QED  BY <3>9, <3>2
  <2>4. Len(s) \in S
    <3>. HIDE DEF S
    <3>. QED  BY <2>0, <2>2, <2>3, UpTo, WholeWalk
  <2>5. Good(Len(s))
    BY <2>4
  <2>6. \A q \in AllRects : Off(s, q) => \A j \in 1 .. Len(s) : Apart(s[j], q)
    BY <2>0 DEF Off
  <2>7. RemoveRect(s, c) = f(Len(s)) \o k(Len(s))
    BY <2>1
  <2>. HIDE DEF f, k
  <2>. QED  BY <2>0, <2>5, <2>6, <2>7, BothJoined, WholeWalk
<1>. QED  BY <1>1, <1>2

\* A rectangle with no negative side: it may have no pixels.
Upright(r) == r.x <= r.x1 /\ r.y <= r.y1

\* What is left of the rectangle to be pasted when r spans it lies within it;
\* if nothing is, it lies on the edge of r.
LEMMA ShortenedWithin ==
  ASSUME NEW r \in AllRects, NEW c \in AllRects, Spans(r, c), ~Apart(r, c), ~IsEmpty(c)
  PROVE  /\ Shortened(r, c) \in AllRects
         /\ Within(Shortened(r, c), c)
         /\ Upright(Shortened(r, c))
         /\ IsEmpty(Shortened(r, c)) => \A q \in AllRects : Apart(q, r) => Apart(q, Shortened(r, c))
<1>1. PICK s \in Edges : Sides(r, c) = Edges \ {s}
  BY DEF Spans
<1>. DEFINE missing == CHOOSE u \in Edges : u \notin Sides(r, c)
            n == Shortened(r, c)
<1>2. missing = s
  BY <1>1
<1>3. /\ ~Inside(r, c)[s]
      /\ \A u \in {"x", "y", "x1", "y1"} : u # s => Inside(r, c)[u]
  BY <1>1 DEF Sides, Edges
<1>4. s \in {"x", "y", "x1", "y1"}
  BY DEF Edges
<1>5. /\ r.x \in Int /\ r.y \in Int /\ r.x1 \in Int /\ r.y1 \in Int
      /\ c.x \in Int /\ c.y \in Int /\ c.x1 \in Int /\ c.y1 \in Int
  BY Corners
<1>. c.x < c.x1 /\ c.y < c.y1
  BY <1>5 DEF IsEmpty
<1>6. CASE s = "x"
  <2>1. n = [c EXCEPT !.x1 = r.x]
    BY <1>2, <1>6 DEF Shortened
  <2>2. n \in AllRects /\ n.x = c.x /\ n.y = c.y /\ n.x1 = r.x /\ n.y1 = c.y1
    BY <1>5, <2>1 DEF AllRects
  <2>3. c.x <= r.x /\ r.y < c.y /\ c.x1 < r.x1 /\ c.y1 < r.y1
    BY <1>3, <1>5, <1>6, InsideIs
  <2>. HIDE DEF n
  <2>5. ASSUME NEW q \in AllRects, Apart(q, r), IsEmpty(n)
        PROVE  Apart(q, n)
    BY <1>5, <2>2, <2>3, <2>5, Corners DEF Apart, IsEmpty, Upright
  <2>. QED  BY <1>5, <2>2, <2>3, <2>5 DEF Within, Upright, Apart, n
<1>7. CASE s = "y"
  <2>1. n = [c EXCEPT !.y1 = r.y]
    BY <1>2, <1>7 DEF Shortened
  <2>2. n \in AllRects /\ n.x = c.x /\ n.y = c.y /\ n.x1 = c.x1 /\ n.y1 = r.y
    BY <1>5, <2>1 DEF AllRects
  <2>3. r.x < c.x /\ c.y <= r.y /\ c.x1 < r.x1 /\ c.y1 < r.y1
    BY <1>3, <1>5, <1>7, InsideIs
  <2>. HIDE DEF n
  <2>5. ASSUME NEW q \in AllRects, Apart(q, r), IsEmpty(n)
        PROVE  Apart(q, n)
    BY <1>5, <2>2, <2>3, <2>5, Corners DEF Apart, IsEmpty, Upright
  <2>. QED  BY <1>5, <2>2, <2>3, <2>5 DEF Within, Upright, Apart, n
<1>8. CASE s = "x1"
  <2>1. n = [c EXCEPT !.x = r.x1]
    BY <1>2, <1>8 DEF Shortened
  <2>2. n \in AllRects /\ n.x = r.x1 /\ n.y = c.y /\ n.x1 = c.x1 /\ n.y1 = c.y1
    BY <1>5, <2>1 DEF AllRects
  <2>3. r.x < c.x /\ r.y < c.y /\ r.x1 <= c.x1 /\ c.y1 < r.y1
    BY <1>3, <1>5, <1>8, InsideIs
  <2>. HIDE DEF n
  <2>5. ASSUME NEW q \in AllRects, Apart(q, r), IsEmpty(n)
        PROVE  Apart(q, n)
    BY <1>5, <2>2, <2>3, <2>5, Corners DEF Apart, IsEmpty, Upright
  <2>. QED  BY <1>5, <2>2, <2>3, <2>5 DEF Within, Upright, Apart, n
<1>9. CASE s = "y1"
  <2>1. n = [c EXCEPT !.y = r.y1]
    BY <1>2, <1>9 DEF Shortened
  <2>2. n \in AllRects /\ n.x = c.x /\ n.y = r.y1 /\ n.x1 = c.x1 /\ n.y1 = c.y1
    BY <1>5, <2>1 DEF AllRects
  <2>3. r.x < c.x /\ r.y < c.y /\ c.x1 < r.x1 /\ r.y1 <= c.y1
    BY <1>3, <1>5, <1>9, InsideIs
  <2>. HIDE DEF n
  <2>5. ASSUME NEW q \in AllRects, Apart(q, r), IsEmpty(n)
        PROVE  Apart(q, n)
    BY <1>5, <2>2, <2>3, <2>5, Corners DEF Apart, IsEmpty, Upright
  <2>. QED  BY <1>5, <2>2, <2>3, <2>5 DEF Within, Upright, Apart, n
<1>. QED  BY <1>4, <1>6, <1>7, <1>8, <1>9

LEMMA PartsAreRects ==
  ASSUME NEW r \in AllRects, NEW c \in AllRects
  PROVE  /\ Pushed(r, c) \in Seq(AllRects) /\ Kept(r, c) \in Seq(AllRects)
         /\ Spans(r, c) => Shortened(r, c) \in AllRects
<1>1. /\ r.x \in Int /\ r.y \in Int /\ r.x1 \in Int /\ r.y1 \in Int
      /\ c.x \in Int /\ c.y \in Int /\ c.x1 \in Int /\ c.y1 \in Int
  BY Corners
<1>2. Greater(r.y, c.y) \in Int /\ Lesser(r.y1, c.y1) \in Int
  BY <1>1 DEF Greater, Lesser
<1>. DEFINE A == Around(r, c)
<1>3. \A s \in Edges : A[s] \in AllRects
  BY <1>1, <1>2 DEF Around, Rect, AllRects, Edges
<1>. HIDE DEF A
<1>4. \A s \in Edges : <<A[s]>> \in Seq(AllRects)
  BY <1>3
<1>5. Kept(r, c) \in Seq(AllRects)
  <2>1. Sides(r, c) \in SUBSET Edges
    BY DEF Sides
  <2>2. Sides(r, c) # {} => InPlace(Sides(r, c)) \in Edges
    BY <2>1, InPlaceIs
  <2>3. <<>> \in Seq(AllRects)
    OBVIOUS
  <2>. QED  BY <1>4, <2>2, <2>3 DEF Kept, A
<1>6. Pushed(r, c) \in Seq(AllRects)
  <2>. DEFINE S == Sides(r, c)
              Part(s) == IF s \in S \ {InPlace(S)} THEN <<A[s]>> ELSE <<>>
  <2>1. \A s \in Edges : Part(s) \in Seq(AllRects)
    BY <1>4
  <2>2. Pushed(r, c) = Part("y") \o Part("x") \o Part("x1")
    BY DEF Pushed, A
  <2>. HIDE DEF Part
  <2>3. Part("y") \in Seq(AllRects) /\ Part("x") \in Seq(AllRects) /\ Part("x1") \in Seq(AllRects)
    BY <2>1 DEF Edges
  <2>. QED  BY <2>2, <2>3
<1>7. ASSUME Spans(r, c)
      PROVE  Shortened(r, c) \in AllRects
  <2>1. PICK s \in Edges : Sides(r, c) = Edges \ {s}
    BY <1>7 DEF Spans
  <2>. DEFINE missing == CHOOSE u \in Edges : u \notin Sides(r, c)
  <2>2. missing \in {"x", "y", "x1", "y1"}
    BY <2>1 DEF Edges
  <2>3. /\ [c EXCEPT !.x1 = r.x] \in AllRects /\ [c EXCEPT !.y1 = r.y] \in AllRects
        /\ [c EXCEPT !.x = r.x1] \in AllRects /\ [c EXCEPT !.y = r.y1] \in AllRects
    BY <1>1 DEF AllRects
  <2>. QED  BY <2>2, <2>3 DEF Shortened
<1>. QED  BY <1>5, <1>6, <1>7

LEMMA RoomMade ==
  ASSUME NEW acc \in Rooms, NEW r \in AllRects
  PROVE  MakeRoom(acc, r) \in Rooms
<1>1. /\ acc.front \in Seq(AllRects) /\ acc.rest \in Seq(AllRects) /\ acc.clip \in AllRects
      /\ acc.covered \in BOOLEAN /\ Append(acc.rest, r) \in Seq(AllRects)
  BY DEF Rooms
<1>2. CASE acc.covered \/ Apart(r, acc.clip)
  BY <1>1, <1>2 DEF MakeRoom, Rooms
<1>3. CASE ~(acc.covered \/ Apart(r, acc.clip)) /\ Covers(r, acc.clip)
  BY <1>1, <1>3 DEF MakeRoom, Rooms
<1>4. CASE ~(acc.covered \/ Apart(r, acc.clip)) /\ ~Covers(r, acc.clip) /\ Spans(r, acc.clip)
  <2>1. Shortened(r, acc.clip) \in AllRects
    BY <1>1, <1>4, PartsAreRects
  <2>. QED  BY <1>1, <1>4, <2>1 DEF MakeRoom, Rooms
<1>5. CASE ~(acc.covered \/ Apart(r, acc.clip)) /\ ~Covers(r, acc.clip) /\ ~Spans(r, acc.clip)
  <2>1. Pushed(r, acc.clip) \in Seq(AllRects) /\ Kept(r, acc.clip) \in Seq(AllRects)
    BY <1>1, PartsAreRects
  <2>2. Pushed(r, acc.clip) \o acc.front \in Seq(AllRects) /\ acc.rest \o Kept(r, acc.clip) \in Seq(AllRects)
    BY <1>1, <2>1
  <2>. QED  BY <1>1, <1>5, <2>2 DEF MakeRoom, TakeOut, Rooms
<1>. QED  BY <1>2, <1>3, <1>4, <1>5

StartRoom(c) == [front |-> <<>>, rest |-> <<>>, clip |-> c, covered |-> FALSE]
Pasted(acc) == IF acc.covered \/ acc.clip.x = acc.clip.x1 \/ acc.clip.y = acc.clip.y1
               THEN <<>> ELSE <<acc.clip>>

LEMMA PasteWalk ==
  ASSUME NEW s \in Seq(AllRects), NEW c \in AllRects, ~IsEmpty(c)
  PROVE  \E walk \in [0 .. Len(s) -> Rooms] :
           /\ PasteRect(s, c) = Pasted(walk[Len(s)]) \o walk[Len(s)].front \o walk[Len(s)].rest
           /\ walk[0] = StartRoom(c)
           /\ \A i \in 1 .. Len(s) : walk[i] = MakeRoom(walk[i - 1], s[i])
<1>. DEFINE n == Len(s)
            a == StartRoom(c)
            step == [z \in (1 .. n) \X Rooms |-> MakeRoom(z[2], s[z[1]])]
<1>1. n \in Nat /\ a \in Rooms
  BY DEF StartRoom, Rooms
<1>2. \A i \in 1 .. n, acc \in Rooms : MakeRoom(acc, s[i]) \in Rooms
  BY RoomMade
<1>3. step \in Steps(n, Rooms)
  BY <1>2 DEF Steps
<1>4. PICK f \in [0 .. n -> Rooms] : IsWalk(f, n, a, step)
  <2>. HIDE DEF n, a, step
  <2>. QED  BY <1>1, <1>3, WalkExists
<1>. DEFINE Good(g) == g = [i \in 0 .. n |-> IF i = 0 THEN a ELSE MakeRoom(g[i - 1], s[i])]
<1>5. Good(f)
  <2>1. \A i \in 0 .. n : i # 0 => i \in 1 .. n /\ i - 1 \in 0 .. n
    BY <1>1
  <2>. HIDE DEF n, a
  <2>2. \A i \in 1 .. n : i - 1 \in 0 .. n => step[<<i, f[i - 1]>>] = MakeRoom(f[i - 1], s[i])
    BY SMTT(30)
  <2>. HIDE DEF step
  <2>. QED  BY <1>4, <2>1, <2>2 DEF IsWalk
<1>. DEFINE walk == CHOOSE g : Good(g)
<1>6. PasteRect(s, c) = Pasted(walk[n]) \o walk[n].front \o walk[n].rest
  BY Zenon DEF PasteRect, Walk, Pasted, StartRoom
<1>7. Good(walk)
  <2>. HIDE DEF Good
  <2>. QED  BY <1>5
<1>. HIDE DEF walk
<1>8. /\ walk[0] = a
      /\ \A i \in 1 .. n : walk[i] = MakeRoom(walk[i - 1], s[i])
      /\ walk = [i \in 0 .. n |-> walk[i]]
  <2>1. /\ 0 \in 0 .. n
        /\ \A i \in 1 .. n : i \in 0 .. n /\ i # 0
    BY <1>1
  <2>2. walk = [i \in 0 .. n |-> walk[i]]
    BY <1>7
  <2>3. \A i \in 0 .. n : walk[i] = IF i = 0 THEN a ELSE MakeRoom(walk[i - 1], s[i])
    <3>. HIDE DEF n
    <3>. QED  BY <1>7, Zenon
  <2>. HIDE DEF n
  <2>. QED  BY <2>1, <2>2, <2>3
<1>9. \A i \in 1 .. n : walk[i - 1] \in Rooms => walk[i] \in Rooms
  <2>. HIDE DEF n
  <2>. QED  BY <1>2, <1>8
<1>10. \A i \in 0 .. n : walk[i] \in Rooms
  <2>. HIDE DEF n, a
  <2>. QED  BY <1>1, <1>8, <1>9, WalkStays
<1>. QED  BY <1>6, <1>8, <1>10, Zenon DEF walk

\* What the walk keeps true while it makes room for c: together with what is
\* left of c, the two lists hold what was visited and what is to be pasted.
Roomy(acc, s, i, c) ==
  /\ Both(acc.front, acc.rest)
  /\ Upright(acc.clip) /\ Within(acc.clip, c)
  /\ IsEmpty(acc.clip) => \A j \in i + 1 .. Len(s) : Apart(s[j], acc.clip)
  /\ ~acc.covered => OffBoth(acc.front, acc.rest, acc.clip)
  /\ \A q \in AllRects : (\A j \in 1 .. i : Apart(s[j], q)) => OffBoth(acc.front, acc.rest, q)
  /\ \A px \in Int, py \in Int :
       /\ HoldingBoth(acc.front, acc.rest, px, py) \/ Holds(acc.clip, px, py)
            <=> Behind(s, i, px, py) \/ Holds(c, px, py)
       /\ acc.covered /\ Holds(acc.clip, px, py) => HoldingBoth(acc.front, acc.rest, px, py)

LEMMA StaysRoomy ==
  ASSUME NEW s, IsList(s), NEW c \in AllRects, NEW i \in 0 .. Len(s) - 1,
         NEW acc \in Rooms, Roomy(acc, s, i, c)
  PROVE  Roomy(MakeRoom(acc, s[i + 1]), s, i + 1, c)
<1>. DEFINE r == s[i + 1]
            new == MakeRoom(acc, r)
            clip == acc.clip
<1>1. /\ s \in Seq(AllRects) /\ IsRegion(s)
  BY DEF IsList
<1>2. /\ r \in AllRects /\ ~IsEmpty(r) /\ i + 1 \in DOMAIN s
      /\ \A px, py : Behind(s, i + 1, px, py) <=> Behind(s, i, px, py) \/ Holds(r, px, py)
      /\ \A j \in 1 .. i : j \in 1 .. i + 1 /\ j \in DOMAIN s /\ j # i + 1
      /\ \A j \in (i + 1) + 1 .. Len(s) : j \in i + 1 .. Len(s) /\ j \in DOMAIN s /\ j # i + 1
      /\ i + 1 \in 1 .. i + 1 /\ i + 1 \in i + 1 .. Len(s)
  BY <1>1, Visited DEF IsRegion
<1>3. /\ \A j \in 1 .. i : Apart(s[j], r)
      /\ \A j \in (i + 1) + 1 .. Len(s) : Apart(s[j], r) /\ s[j] \in AllRects
  BY <1>1, <1>2 DEF IsRegion
<1>4. clip \in AllRects /\ acc.covered \in BOOLEAN
  BY DEF Rooms
<1>5. /\ Both(acc.front, acc.rest)
      /\ Upright(clip) /\ Within(clip, c)
      /\ IsEmpty(clip) => \A j \in i + 1 .. Len(s) : Apart(s[j], clip)
      /\ ~acc.covered => OffBoth(acc.front, acc.rest, clip)
      /\ \A q \in AllRects : (\A j \in 1 .. i : Apart(s[j], q)) => OffBoth(acc.front, acc.rest, q)
      /\ \A px \in Int, py \in Int :
           /\ HoldingBoth(acc.front, acc.rest, px, py) \/ Holds(clip, px, py)
                <=> Behind(s, i, px, py) \/ Holds(c, px, py)
           /\ acc.covered /\ Holds(clip, px, py) => HoldingBoth(acc.front, acc.rest, px, py)
  BY DEF Roomy
<1>6. OffBoth(acc.front, acc.rest, r)
  BY <1>2, <1>3, <1>5
<1>7. /\ Both(acc.front, Append(acc.rest, r))
      /\ \A q : OffBoth(acc.front, Append(acc.rest, r), q) <=> OffBoth(acc.front, acc.rest, q) /\ Apart(r, q)
      /\ \A px, py : HoldingBoth(acc.front, Append(acc.rest, r), px, py)
                       <=> HoldingBoth(acc.front, acc.rest, px, py) \/ Holds(r, px, py)
  BY <1>2, <1>5, <1>6, WholeAdded
<1>8. r = s[i + 1]
  OBVIOUS
<1>. HIDE DEF r, clip
<1>9. \A q \in AllRects : (\A j \in 1 .. i + 1 : Apart(s[j], q))
          => OffBoth(acc.front, acc.rest, q) /\ Apart(r, q)
  BY <1>2, <1>5, <1>8
<1>10. CASE acc.covered \/ Apart(r, clip)
  <2>1. new.front = acc.front /\ new.rest = Append(acc.rest, r) /\ new.clip = clip /\ new.covered = acc.covered
    BY <1>10 DEF MakeRoom, Rooms, clip
  <2>2. ~new.covered => OffBoth(new.front, new.rest, new.clip)
    BY <1>5, <1>7, <1>10, <2>1
  <2>. HIDE DEF new
  <2>3. Roomy(new, s, i + 1, c)
    BY <1>2, <1>5, <1>7, <1>9, <2>1, <2>2 DEF Roomy
  <2>. QED  BY <2>3 DEF new, r
<1>11. CASE ~(acc.covered \/ Apart(r, clip)) /\ Covers(r, clip)
  <2>1. new.front = acc.front /\ new.rest = Append(acc.rest, r) /\ new.clip = clip /\ new.covered = TRUE
    BY <1>11 DEF MakeRoom, Rooms, clip
  <2>2. \A px \in Int, py \in Int : Holds(clip, px, py) => Holds(r, px, py)
    BY <1>2, <1>4, <1>11, CoversExact
  <2>. HIDE DEF new
  <2>3. Roomy(new, s, i + 1, c)
    BY <1>2, <1>5, <1>7, <1>9, <2>1, <2>2 DEF Roomy
  <2>. QED  BY <2>3 DEF new, r
<1>12. CASE ~(acc.covered \/ Apart(r, clip)) /\ ~Covers(r, clip) /\ Spans(r, clip)
  <2>. DEFINE short == Shortened(r, clip)
  <2>1. new.front = acc.front /\ new.rest = Append(acc.rest, r) /\ new.clip = short /\ new.covered = acc.covered
    BY <1>12 DEF MakeRoom, Rooms, clip
  <2>2. ~IsEmpty(clip)
    BY <1>2, <1>5, <1>8, <1>12
  <2>3. /\ short \in AllRects /\ Within(short, clip) /\ Upright(short)
        /\ IsEmpty(short) => \A q \in AllRects : Apart(q, r) => Apart(q, short)
    BY <1>2, <1>4, <1>12, <2>2, ShortenedWithin
  <2>4. /\ Apart(r, short)
        /\ \A px \in Int, py \in Int :
             Holds(r, px, py) \/ Holds(short, px, py) <=> Holds(r, px, py) \/ Holds(clip, px, py)
    BY <1>2, <1>4, <1>12, ShortenedExact
  <2>. HIDE DEF short
  <2>5. Within(short, c)
    BY <1>4, <1>5, <2>3, SMTT(30) DEF Within, AllRects
  <2>6. OffBoth(acc.front, acc.rest, short)
    <3>1. \A j \in DOMAIN acc.front : acc.front[j] \in AllRects
      BY DEF Rooms
    <3>2. \A j \in DOMAIN acc.rest : acc.rest[j] \in AllRects
      BY DEF Rooms
    <3>. QED  BY <1>4, <1>5, <1>12, <2>3, <3>1, <3>2, WithinApart, ApartTurned DEF OffBoth, Off
  <2>7. ~new.covered => OffBoth(new.front, new.rest, new.clip)
    BY <1>7, <2>1, <2>4, <2>6
  <2>8. IsEmpty(new.clip) => \A j \in (i + 1) + 1 .. Len(s) : Apart(s[j], new.clip)
    BY <1>3, <2>1, <2>3
  <2>. HIDE DEF new
  <2>9. \A px \in Int, py \in Int :
          HoldingBoth(new.front, new.rest, px, py) \/ Holds(new.clip, px, py)
            <=> Behind(s, i + 1, px, py) \/ Holds(c, px, py)
    BY <1>2, <1>5, <1>7, <2>1, <2>4
  <2>10. Roomy(new, s, i + 1, c)
    BY <1>5, <1>7, <1>9, <1>12, <2>1, <2>3, <2>5, <2>7, <2>8, <2>9 DEF Roomy
  <2>. QED  BY <2>10 DEF new, r
<1>13. CASE ~(acc.covered \/ Apart(r, clip)) /\ ~Covers(r, clip) /\ ~Spans(r, clip)
  <2>1. new = TakeOut(acc, r, clip) /\ new.clip = clip /\ new.covered = acc.covered
    BY <1>13 DEF MakeRoom, TakeOut, Rooms, clip
  <2>2. ~IsEmpty(clip)
    BY <1>2, <1>5, <1>8, <1>13
  <2>. HIDE DEF new
  <2>3. /\ Both(new.front, new.rest)
        /\ \A q \in AllRects : OffBoth(acc.front, acc.rest, q) /\ Apart(r, q) => OffBoth(new.front, new.rest, q)
        /\ OffBoth(acc.front, acc.rest, clip) => OffBoth(new.front, new.rest, clip)
        /\ \A px \in Int, py \in Int :
             HoldingBoth(new.front, new.rest, px, py)
               <=> HoldingBoth(acc.front, acc.rest, px, py) \/ (Holds(r, px, py) /\ ~Holds(clip, px, py))
    BY <1>2, <1>4, <1>5, <1>6, <2>1, <2>2, TakenOut
  <2>4. \A px \in Int, py \in Int :
          HoldingBoth(new.front, new.rest, px, py) \/ Holds(new.clip, px, py)
            <=> Behind(s, i + 1, px, py) \/ Holds(c, px, py)
    BY <1>2, <1>5, <2>1, <2>3
  <2>5. Roomy(new, s, i + 1, c)
    BY <1>2, <1>5, <1>9, <1>13, <2>1, <2>2, <2>3, <2>4 DEF Roomy
  <2>. QED  BY <2>5 DEF new, r
<1>. QED  BY <1>10, <1>11, <1>12, <1>13

\* paste_rect: the pixels of the rectangle are added, and none is held twice.
THEOREM PasteRectExact ==
  ASSUME NEW s, IsList(s), NEW c \in AllRects
  PROVE  /\ IsList(PasteRect(s, c))
         /\ \A q \in AllRects : Off(s, q) /\ Apart(c, q) => Off(PasteRect(s, c), q)
         /\ \A px \in Int, py \in Int :
              Holding(PasteRect(s, c), px, py) <=> Holding(s, px, py) \/ Holds(c, px, py)
<1>1. CASE IsEmpty(c)
  <2>1. \A px \in Int, py \in Int : ~Holds(c, px, py)
    BY <1>1 DEF Holds, IsEmpty, AllRects
  <2>. QED  BY <1>1, <2>1 DEF PasteRect
<1>2. CASE ~IsEmpty(c)
  <2>0. s \in Seq(AllRects) /\ IsRegion(s)
    BY DEF IsList
  <2>1. PICK walk \in [0 .. Len(s) -> Rooms] :
             /\ PasteRect(s, c) = Pasted(walk[Len(s)]) \o walk[Len(s)].front \o walk[Len(s)].rest
             /\ walk[0] = StartRoom(c)
             /\ \A i \in 1 .. Len(s) : walk[i] = MakeRoom(walk[i - 1], s[i])
    BY <2>0, <1>2, PasteWalk
  <2>. DEFINE S == {i \in 0 .. Len(s) : Roomy(walk[i], s, i, c)}
  <2>2. 0 \in S
    <3>1. /\ walk[0].front = <<>> /\ walk[0].rest = <<>> /\ walk[0].clip = c /\ walk[0].covered = FALSE
      BY <2>1 DEF StartRoom
    <3>2. Both(<<>>, <<>>) /\ \A q : OffBoth(<<>>, <<>>, q)
      BY None DEF Both, OffBoth, IsList
    <3>3. \A px \in Int, py \in Int : ~HoldingBoth(<<>>, <<>>, px, py)
      BY None DEF HoldingBoth
    <3>4. Upright(c) /\ Within(c, c)
      BY <1>2 DEF Upright, Within, IsEmpty, AllRects
    <3>5. Roomy(walk[0], s, 0, c)
      BY <2>0, <1>2, <3>1, <3>2, <3>3, <3>4, WholeWalk DEF Roomy
    <3>. QED  BY <2>0, <3>5, WholeWalk
  <2>3. ASSUME NEW i \in 0 .. Len(s) - 1, i \in S
        PROVE  i + 1 \in S
    <3>1. i + 1 \in 0 .. Len(s) /\ i \in 0 .. Len(s) /\ walk[i] \in Rooms
      BY <2>0, Visited
    <3>2. walk[i + 1] = MakeRoom(walk[i], s[i + 1])
      BY <2>0, <2>1
    <3>3. Roomy(walk[i + 1], s, i + 1, c)
      BY <2>3, <3>1, <3>2, StaysRoomy
    <3>. QED  BY <3>1, <3>3
  <2>4. Len(s) \in S
    <3>. HIDE DEF S
    <3>. QED  BY <2>0, <2>2, <2>3, UpTo, WholeWalk
  <2>. DEFINE end == walk[Len(s)]
              f == end.front
              k == end.rest
              new == Pasted(end)
  <2>5. end \in Rooms /\ Roomy(end, s, Len(s), c) /\ PasteRect(s, c) = (new \o f) \o k
    BY <2>0, <2>1, <2>4, WholeWalk
  <2>. HIDE DEF end
  <2>6. /\ Both(f, k) /\ f \in Seq(AllRects) /\ k \in Seq(AllRects) /\ end.clip \in AllRects
        /\ IsRegion(f) /\ IsRegion(k) /\ \A j \in DOMAIN k : Off(f, k[j])
    BY <2>5 DEF Roomy, Rooms, Both, IsList
  <2>7. \A q \in AllRects : Off(s, q) => OffBoth(f, k, q)
    <3>1. \A q \in AllRects : Off(s, q) => \A j \in 1 .. Len(s) : Apart(s[j], q)
      BY <2>0 DEF Off
    <3>. QED  BY <2>5, <3>1 DEF Roomy
  <2>8. \A px \in Int, py \in Int :
          /\ HoldingBoth(f, k, px, py) \/ Holds(end.clip, px, py) <=> Holding(s, px, py) \/ Holds(c, px, py)
          /\ end.covered /\ Holds(end.clip, px, py) => HoldingBoth(f, k, px, py)
    BY <2>0, <2>5, WholeWalk DEF Roomy
  <2>9. CASE new = <<>>
    <3>1. new \o f = f
      BY <2>6, <2>9
    <3>2. end.covered \/ IsEmpty(end.clip)
      BY <2>6, <2>9 DEF Pasted, IsEmpty, AllRects
    <3>3. \A px \in Int, py \in Int : IsEmpty(end.clip) => ~Holds(end.clip, px, py)
      BY <2>6, SMTT(30) DEF Holds, IsEmpty, AllRects
    <3>4. /\ IsList(f \o k)
          /\ \A q : Off(f \o k, q) <=> OffBoth(f, k, q)
          /\ \A px, py : Holding(f \o k, px, py) <=> HoldingBoth(f, k, px, py)
      BY <2>6, BothJoined
    <3>. HIDE DEF f, k, new
    <3>. QED  BY <2>5, <2>7, <2>8, <3>1, <3>2, <3>3, <3>4
  <2>10. CASE new # <<>>
    <3>1. new = <<end.clip>> /\ ~end.covered /\ ~IsEmpty(end.clip)
      BY <2>5, <2>6, <2>10, SMTT(30) DEF Pasted, Roomy, Upright, IsEmpty, AllRects
    <3>2. /\ new \in Seq(AllRects) /\ IsRegion(new)
          /\ \A q : Off(new, q) <=> Apart(end.clip, q)
          /\ \A px, py : Holding(new, px, py) <=> Holds(end.clip, px, py)
      BY <2>6, <3>1, One
    <3>3. OffBoth(f, k, end.clip) /\ Within(end.clip, c)
      BY <2>5, <3>1 DEF Roomy
    <3>4. (\A j \in DOMAIN f : Off(new, f[j])) /\ (\A j \in DOMAIN k : Off(new, k[j]))
      BY <2>6, <3>2, <3>3, OffTurned DEF OffBoth
    <3>. HIDE DEF f, k, new
    <3>5. /\ new \o f \in Seq(AllRects) /\ IsRegion(new \o f)
          /\ \A q : Off(new \o f, q) <=> Off(new, q) /\ Off(f, q)
          /\ \A px, py : Holding(new \o f, px, py) <=> Holding(new, px, py) \/ Holding(f, px, py)
      BY <2>6, <3>2, <3>4, Joined
    <3>6. \A j \in DOMAIN k : Off(new \o f, k[j])
      BY <2>6, <3>4, <3>5
    <3>7. /\ (new \o f) \o k \in Seq(AllRects) /\ IsRegion((new \o f) \o k)
          /\ \A q : Off((new \o f) \o k, q) <=> Off(new \o f, q) /\ Off(k, q)
          /\ \A px, py : Holding((new \o f) \o k, px, py) <=> Holding(new \o f, px, py) \/ Holding(k, px, py)
      BY <2>6, <3>5, <3>6, Joined
    <3>8. \A q \in AllRects : Apart(c, q) => Apart(end.clip, q)
      BY <2>6, <3>3, WithinApart
    <3>. QED  BY <2>5, <2>7, <2>8, <3>2, <3>5, <3>7, <3>8 DEF IsList, OffBoth, HoldingBoth
  <2>. QED  BY <2>9, <2>10
<1>. QED  BY <1>1, <1>2

\* Moving a region moves its pixels.
THEOREM TranslateExact ==
  ASSUME NEW s \in Seq(AllRects), NEW dx \in Int, NEW dy \in Int
  PROVE  /\ Translate(s, dx, dy) \in Seq(AllRects)
         /\ IsRegion(s) => IsRegion(Translate(s, dx, dy))
         /\ \A px \in Int, py \in Int :
              Holding(Translate(s, dx, dy), px, py) <=> Holding(s, px - dx, py - dy)
<1>. DEFINE m == Translate(s, dx, dy)
<1>1. DOMAIN m = DOMAIN s /\ \A i \in DOMAIN s : m[i] = Moved(s[i], dx, dy) /\ s[i] \in AllRects
  BY DEF Translate
<1>2. \A r \in AllRects : /\ Moved(r, dx, dy) \in AllRects
                          /\ IsEmpty(Moved(r, dx, dy)) <=> IsEmpty(r)
  <2>1. ASSUME NEW r \in AllRects
        PROVE  Moved(r, dx, dy) = Rect(r.x + dx, r.y + dy, r.x1 + dx, r.y1 + dy)
    BY DEF Moved
  <2>2. ASSUME NEW r \in AllRects
        PROVE  /\ Rect(r.x + dx, r.y + dy, r.x1 + dx, r.y1 + dy) \in AllRects
               /\ IsEmpty(Rect(r.x + dx, r.y + dy, r.x1 + dx, r.y1 + dy)) <=> IsEmpty(r)
    BY SMTT(30) DEF AllRects, Rect, IsEmpty
  <2>. QED  BY <2>1, <2>2
<1>3. \A r \in AllRects, q \in AllRects : Apart(Moved(r, dx, dy), Moved(q, dx, dy)) <=> Apart(r, q)
  BY SMTT(30) DEF AllRects, Moved, Rect, Apart
<1>4. \A r \in AllRects, px \in Int, py \in Int :
        Holds(Moved(r, dx, dy), px, py) <=> Holds(r, px - dx, py - dy)
  BY SMTT(30) DEF AllRects, Moved, Rect, Holds
<1>5. m \in Seq(AllRects)
  BY <1>2 DEF Translate
<1>. HIDE DEF m
<1>6. IsRegion(s) => IsRegion(m)
  BY <1>1, <1>2, <1>3 DEF IsRegion
<1>7. \A px \in Int, py \in Int : Holding(m, px, py) <=> Holding(s, px - dx, py - dy)
  BY <1>1, <1>4 DEF Holding
<1>. QED  BY <1>5, <1>6, <1>7 DEF m

LEMMA RemoveRegionWalk ==
  ASSUME NEW m \in Seq(AllRects), NEW dest \in Regions
  PROVE  \E walk \in [0 .. Len(m) -> Regions] :
           /\ Walk(m, dest, RemoveRect) = walk[Len(m)]
           /\ walk[0] = dest
           /\ \A i \in 1 .. Len(m) : walk[i] = RemoveRect(walk[i - 1], m[i])
<1>. DEFINE n == Len(m)
            step == [z \in (1 .. n) \X Regions |-> RemoveRect(z[2], m[z[1]])]
<1>1. n \in Nat
  OBVIOUS
<1>2. \A i \in 1 .. n, d \in Regions : RemoveRect(d, m[i]) \in Regions
  <2>1. \A i \in 1 .. n : m[i] \in AllRects
    OBVIOUS
  <2>. QED  BY <2>1, RemoveRectExact DEF Regions, IsList
<1>3. step \in Steps(n, Regions)
  BY <1>2 DEF Steps
<1>4. PICK f \in [0 .. n -> Regions] : IsWalk(f, n, dest, step)
  <2>. HIDE DEF n, step
  <2>. QED  BY <1>1, <1>3, WalkExists
<1>. DEFINE Good(g) == g = [i \in 0 .. n |-> IF i = 0 THEN dest ELSE RemoveRect(g[i - 1], m[i])]
<1>5. Good(f)
  <2>1. \A i \in 0 .. n : i # 0 => i \in 1 .. n /\ i - 1 \in 0 .. n
    BY <1>1
  <2>. HIDE DEF n
  <2>2. \A i \in 1 .. n : i - 1 \in 0 .. n => step[<<i, f[i - 1]>>] = RemoveRect(f[i - 1], m[i])
    OBVIOUS
  <2>. HIDE DEF step
  <2>. QED  BY <1>4, <2>1, <2>2 DEF IsWalk
<1>. DEFINE walk == CHOOSE g : Good(g)
<1>6. Walk(m, dest, RemoveRect) = walk[n]
  BY DEF Walk
<1>7. Good(walk)
  <2>. HIDE DEF Good
  <2>. QED  BY <1>5
<1>. HIDE DEF walk
<1>8. /\ walk[0] = dest
      /\ \A i \in 1 .. n : walk[i] = RemoveRect(walk[i - 1], m[i])
      /\ walk = [i \in 0 .. n |-> walk[i]]
  <2>1. /\ 0 \in 0 .. n
        /\ \A i \in 1 .. n : i \in 0 .. n /\ i # 0
    BY <1>1
  <2>2. walk = [i \in 0 .. n |-> walk[i]]
    BY <1>7
  <2>3. \A i \in 0 .. n : walk[i] = IF i = 0 THEN dest ELSE RemoveRect(walk[i - 1], m[i])
    <3>. HIDE DEF n
    <3>. QED  BY <1>7, Zenon
  <2>. HIDE DEF n
  <2>. QED  BY <2>1, <2>2, <2>3
<1>9. \A i \in 1 .. n : walk[i - 1] \in Regions => walk[i] \in Regions
  <2>. HIDE DEF n
  <2>. QED  BY <1>2, <1>8
<1>10. \A i \in 0 .. n : walk[i] \in Regions
  <2>. HIDE DEF n
  <2>. QED  BY <1>1, <1>8, <1>9, WalkStays
<1>. QED  BY <1>6, <1>8, <1>10 DEF walk

\* remove_region: the pixels of a list, moved, are taken out of another.
THEOREM RemoveRegionExact ==
  ASSUME NEW s \in Seq(AllRects), NEW dest, IsList(dest), NEW dx \in Int, NEW dy \in Int
  PROVE  /\ IsList(RemoveRegion(s, dest, dx, dy))
         /\ \A px \in Int, py \in Int :
              Holding(RemoveRegion(s, dest, dx, dy), px, py)
                <=> Holding(dest, px, py) /\ ~Holding(s, px - dx, py - dy)
<1>. DEFINE m == Translate(s, dx, dy)
<1>1. /\ m \in Seq(AllRects) /\ dest \in Regions
      /\ \A px \in Int, py \in Int : Holding(m, px, py) <=> Holding(s, px - dx, py - dy)
  BY TranslateExact DEF IsList, Regions
<1>2. RemoveRegion(s, dest, dx, dy) = Walk(m, dest, RemoveRect)
  BY DEF RemoveRegion
<1>. HIDE DEF m
<1>3. PICK walk \in [0 .. Len(m) -> Regions] :
           /\ Walk(m, dest, RemoveRect) = walk[Len(m)]
           /\ walk[0] = dest
           /\ \A i \in 1 .. Len(m) : walk[i] = RemoveRect(walk[i - 1], m[i])
  BY <1>1, RemoveRegionWalk
<1>. DEFINE Good(i) == \A px \in Int, py \in Int :
                         Holding(walk[i], px, py) <=> Holding(dest, px, py) /\ ~Behind(m, i, px, py)
            S == {i \in 0 .. Len(m) : Good(i)}
<1>4. 0 \in S
  BY <1>1, <1>3, WholeWalk
<1>5. ASSUME NEW i \in 0 .. Len(m) - 1, i \in S
      PROVE  i + 1 \in S
  <2>1. /\ i + 1 \in 0 .. Len(m) /\ i + 1 \in 1 .. Len(m) /\ m[i + 1] \in AllRects /\ i \in 0 .. Len(m)
        /\ \A px, py : Behind(m, i + 1, px, py) <=> Behind(m, i, px, py) \/ Holds(m[i + 1], px, py)
    BY <1>1, Visited
  <2>2. IsList(walk[i]) /\ walk[i + 1] = RemoveRect(walk[i], m[i + 1])
    <3>1. walk[i] \in Regions /\ (i + 1) - 1 = i
      BY <2>1
    <3>. QED  BY <1>3, <2>1, <3>1 DEF Regions, IsList
  <2>3. \A px \in Int, py \in Int :
          Holding(walk[i + 1], px, py) <=> Holding(walk[i], px, py) /\ ~Holds(m[i + 1], px, py)
    BY <2>1, <2>2, RemoveRectExact
  <2>4. Good(i + 1)
    BY <1>5, <2>1, <2>3
  <2>. QED  BY <2>1, <2>4
<1>6. Len(m) \in S
  <2>. HIDE DEF S
  <2>. QED  BY <1>1, <1>4, <1>5, UpTo, WholeWalk
<1>7. walk[Len(m)] \in Regions /\ \A px, py : Behind(m, Len(m), px, py) <=> Holding(m, px, py)
  BY <1>1, WholeWalk
<1>8. Good(Len(m))
  BY <1>6
<1>. DEFINE end == walk[Len(m)]
<1>9. IsList(end)
  BY <1>7 DEF Regions, IsList
<1>10. RemoveRegion(s, dest, dx, dy) = end
  BY <1>2, <1>3
<1>11. \A px \in Int, py \in Int : Holding(end, px, py) <=> Holding(dest, px, py) /\ ~Holding(s, px - dx, py - dy)
  BY <1>1, <1>7, <1>8
<1>. HIDE DEF end, S, Good
<1>. QED  BY <1>9, <1>10, <1>11

LEMMA PasteRegionWalk ==
  ASSUME NEW m \in Seq(AllRects), NEW dest \in Regions
  PROVE  \E walk \in [0 .. Len(m) -> Regions] :
           /\ Walk(m, dest, PasteRect) = walk[Len(m)]
           /\ walk[0] = dest
           /\ \A i \in 1 .. Len(m) : walk[i] = PasteRect(walk[i - 1], m[i])
<1>. DEFINE n == Len(m)
            step == [z \in (1 .. n) \X Regions |-> PasteRect(z[2], m[z[1]])]
<1>1. n \in Nat
  OBVIOUS
<1>2. \A i \in 1 .. n, d \in Regions : PasteRect(d, m[i]) \in Regions
  <2>1. \A i \in 1 .. n : m[i] \in AllRects
    OBVIOUS
  <2>. QED  BY <2>1, PasteRectExact DEF Regions, IsList
<1>3. step \in Steps(n, Regions)
  BY <1>2 DEF Steps
<1>4. PICK f \in [0 .. n -> Regions] : IsWalk(f, n, dest, step)
  <2>. HIDE DEF n, step
  <2>. QED  BY <1>1, <1>3, WalkExists
<1>. DEFINE Good(g) == g = [i \in 0 .. n |-> IF i = 0 THEN dest ELSE PasteRect(g[i - 1], m[i])]
<1>5. Good(f)
  <2>1. \A i \in 0 .. n : i # 0 => i \in 1 .. n /\ i - 1 \in 0 .. n
    BY <1>1
  <2>. HIDE DEF n
  <2>2. \A i \in 1 .. n : i - 1 \in 0 .. n => step[<<i, f[i - 1]>>] = PasteRect(f[i - 1], m[i])
    OBVIOUS
  <2>. HIDE DEF step
  <2>. QED  BY <1>4, <2>1, <2>2 DEF IsWalk
<1>. DEFINE walk == CHOOSE g : Good(g)
<1>6. Walk(m, dest, PasteRect) = walk[n]
  BY DEF Walk
<1>7. Good(walk)
  <2>. HIDE DEF Good
  <2>. QED  BY <1>5
<1>. HIDE DEF walk
<1>8. /\ walk[0] = dest
      /\ \A i \in 1 .. n : walk[i] = PasteRect(walk[i - 1], m[i])
      /\ walk = [i \in 0 .. n |-> walk[i]]
  <2>1. /\ 0 \in 0 .. n
        /\ \A i \in 1 .. n : i \in 0 .. n /\ i # 0
    BY <1>1
  <2>2. walk = [i \in 0 .. n |-> walk[i]]
    BY <1>7
  <2>3. \A i \in 0 .. n : walk[i] = IF i = 0 THEN dest ELSE PasteRect(walk[i - 1], m[i])
    <3>. HIDE DEF n
    <3>. QED  BY <1>7, Zenon
  <2>. HIDE DEF n
  <2>. QED  BY <2>1, <2>2, <2>3
<1>9. \A i \in 1 .. n : walk[i - 1] \in Regions => walk[i] \in Regions
  <2>. HIDE DEF n
  <2>. QED  BY <1>2, <1>8
<1>10. \A i \in 0 .. n : walk[i] \in Regions
  <2>. HIDE DEF n
  <2>. QED  BY <1>1, <1>8, <1>9, WalkStays
<1>. QED  BY <1>6, <1>8, <1>10 DEF walk

\* paste_region: the pixels of a list, moved, are added to another.
THEOREM PasteRegionExact ==
  ASSUME NEW s \in Seq(AllRects), NEW dest, IsList(dest), NEW dx \in Int, NEW dy \in Int
  PROVE  /\ IsList(PasteRegion(s, dest, dx, dy))
         /\ \A px \in Int, py \in Int :
              Holding(PasteRegion(s, dest, dx, dy), px, py)
                <=> Holding(dest, px, py) \/ Holding(s, px - dx, py - dy)
<1>. DEFINE m == Translate(s, dx, dy)
<1>1. /\ m \in Seq(AllRects) /\ dest \in Regions
      /\ \A px \in Int, py \in Int : Holding(m, px, py) <=> Holding(s, px - dx, py - dy)
  BY TranslateExact DEF IsList, Regions
<1>2. PasteRegion(s, dest, dx, dy) = Walk(m, dest, PasteRect)
  BY DEF PasteRegion
<1>. HIDE DEF m
<1>3. PICK walk \in [0 .. Len(m) -> Regions] :
           /\ Walk(m, dest, PasteRect) = walk[Len(m)]
           /\ walk[0] = dest
           /\ \A i \in 1 .. Len(m) : walk[i] = PasteRect(walk[i - 1], m[i])
  BY <1>1, PasteRegionWalk
<1>. DEFINE Good(i) == \A px \in Int, py \in Int :
                         Holding(walk[i], px, py) <=> Holding(dest, px, py) \/ Behind(m, i, px, py)
            S == {i \in 0 .. Len(m) : Good(i)}
<1>4. 0 \in S
  BY <1>1, <1>3, WholeWalk
<1>5. ASSUME NEW i \in 0 .. Len(m) - 1, i \in S
      PROVE  i + 1 \in S
  <2>1. /\ i + 1 \in 0 .. Len(m) /\ i + 1 \in 1 .. Len(m) /\ m[i + 1] \in AllRects /\ i \in 0 .. Len(m)
        /\ \A px, py : Behind(m, i + 1, px, py) <=> Behind(m, i, px, py) \/ Holds(m[i + 1], px, py)
    BY <1>1, Visited
  <2>2. IsList(walk[i]) /\ walk[i + 1] = PasteRect(walk[i], m[i + 1])
    <3>1. walk[i] \in Regions /\ (i + 1) - 1 = i
      BY <2>1
    <3>. QED  BY <1>3, <2>1, <3>1 DEF Regions, IsList
  <2>3. \A px \in Int, py \in Int :
          Holding(walk[i + 1], px, py) <=> Holding(walk[i], px, py) \/ Holds(m[i + 1], px, py)
    BY <2>1, <2>2, PasteRectExact
  <2>4. Good(i + 1)
    BY <1>5, <2>1, <2>3
  <2>. QED  BY <2>1, <2>4
<1>6. Len(m) \in S
  <2>. HIDE DEF S
  <2>. QED  BY <1>1, <1>4, <1>5, UpTo, WholeWalk
<1>7. walk[Len(m)] \in Regions /\ \A px, py : Behind(m, Len(m), px, py) <=> Holding(m, px, py)
  BY <1>1, WholeWalk
<1>8. Good(Len(m))
  BY <1>6
<1>. DEFINE end == walk[Len(m)]
<1>9. IsList(end)
  BY <1>7 DEF Regions, IsList
<1>10. PasteRegion(s, dest, dx, dy) = end
  BY <1>2, <1>3
<1>11. \A px \in Int, py \in Int : Holding(end, px, py) <=> Holding(dest, px, py) \/ Holding(s, px - dx, py - dy)
  BY <1>1, <1>7, <1>8
<1>. HIDE DEF end, S, Good
<1>. QED  BY <1>9, <1>10, <1>11


LEMMA CopyRectList ==
  ASSUME NEW s \in Seq(AllRects), NEW dest \in Seq(AllRects), NEW c \in AllRects
  PROVE  CopyRect(s, dest, c) \in Seq(AllRects)
<1>1. CASE IsEmpty(c)
  BY <1>1 DEF CopyRect
<1>2. CASE ~IsEmpty(c)
  <2>1. PICK walk \in [0 .. Len(s) -> Seq(AllRects)] : CopyRect(s, dest, c) = walk[Len(s)]
    BY <1>2, CopyWalk
  <2>. QED  BY <2>1, WholeWalk
<1>. QED  BY <1>1, <1>2

CopyEach(s, m, dest) == Walk(m, dest, LAMBDA d, r : CopyRect(s, d, r))

IsCopyWalk(walk, s, m, dest) ==
  /\ walk \in [0 .. Len(m) -> Seq(AllRects)]
  /\ CopyEach(s, m, dest) = walk[Len(m)]
  /\ walk[0] = dest
  /\ \A i \in 1 .. Len(m) : walk[i] = CopyRect(s, walk[i - 1], m[i])

LEMMA CopyRegionWalk ==
  ASSUME NEW s \in Seq(AllRects), NEW m \in Seq(AllRects), NEW dest \in Seq(AllRects)
  PROVE  \E walk : IsCopyWalk(walk, s, m, dest)
<1>. DEFINE n == Len(m)
            step == [z \in (1 .. n) \X Seq(AllRects) |-> CopyRect(s, z[2], m[z[1]])]
<1>1. n \in Nat
  OBVIOUS
<1>2. \A i \in 1 .. n, d \in Seq(AllRects) : CopyRect(s, d, m[i]) \in Seq(AllRects)
  <2>1. \A i \in 1 .. n : m[i] \in AllRects
    OBVIOUS
  <2>. QED  BY <2>1, CopyRectList
<1>3. step \in Steps(n, Seq(AllRects))
  BY <1>2 DEF Steps
<1>4. PICK f \in [0 .. n -> Seq(AllRects)] : IsWalk(f, n, dest, step)
  <2>. HIDE DEF n, step
  <2>. QED  BY <1>1, <1>3, WalkExists
<1>. DEFINE Good(g) == g = [i \in 0 .. n |-> IF i = 0 THEN dest ELSE CopyRect(s, g[i - 1], m[i])]
<1>5. Good(f)
  <2>1. \A i \in 0 .. n : i # 0 => i \in 1 .. n /\ i - 1 \in 0 .. n
    BY <1>1
  <2>. HIDE DEF n
  <2>2. \A i \in 1 .. n : i - 1 \in 0 .. n => step[<<i, f[i - 1]>>] = CopyRect(s, f[i - 1], m[i])
    OBVIOUS
  <2>. HIDE DEF step
  <2>. QED  BY <1>4, <2>1, <2>2 DEF IsWalk
<1>. DEFINE walk == CHOOSE g : Good(g)
<1>6. CopyEach(s, m, dest) = walk[n]
  BY DEF CopyEach, Walk
<1>7. Good(walk)
  <2>. HIDE DEF Good
  <2>. QED  BY <1>5
<1>. HIDE DEF walk
<1>8. /\ walk[0] = dest
      /\ \A i \in 1 .. n : walk[i] = CopyRect(s, walk[i - 1], m[i])
      /\ walk = [i \in 0 .. n |-> walk[i]]
  <2>1. /\ 0 \in 0 .. n
        /\ \A i \in 1 .. n : i \in 0 .. n /\ i # 0
    BY <1>1
  <2>2. walk = [i \in 0 .. n |-> walk[i]]
    BY <1>7
  <2>3. \A i \in 0 .. n : walk[i] = IF i = 0 THEN dest ELSE CopyRect(s, walk[i - 1], m[i])
    <3>. HIDE DEF n
    <3>. QED  BY <1>7, Zenon
  <2>. HIDE DEF n
  <2>. QED  BY <2>1, <2>2, <2>3
<1>9. \A i \in 1 .. n : walk[i - 1] \in Seq(AllRects) => walk[i] \in Seq(AllRects)
  <2>. HIDE DEF n
  <2>. QED  BY <1>2, <1>8
<1>10. \A i \in 0 .. n : walk[i] \in Seq(AllRects)
  <2>. HIDE DEF n
  <2>. QED  BY <1>1, <1>8, <1>9, WalkStays
<1>11. walk \in [0 .. n -> Seq(AllRects)]
  BY <1>8, <1>10
<1>. QED  BY <1>6, <1>8, <1>11 DEF walk, IsCopyWalk

\* copy_region: what one list holds of another, moved, is added to a third.
\* What is copied through one rectangle leaves room for what comes through the
\* next.
THEOREM CopyRegionExact ==
  ASSUME NEW s, IsList(s), NEW copy, IsList(copy), NEW dest, IsList(dest),
         NEW dx \in Int, NEW dy \in Int,
         \A i \in DOMAIN copy : Off(dest, Moved(copy[i], dx, dy))
  PROVE  /\ IsList(CopyRegion(s, dest, copy, dx, dy))
         /\ \A px \in Int, py \in Int :
              Holding(CopyRegion(s, dest, copy, dx, dy), px, py)
                <=> Holding(dest, px, py) \/ (Holding(s, px, py) /\ Holding(copy, px - dx, py - dy))
<1>. DEFINE m == Translate(copy, dx, dy)
<1>0. s \in Seq(AllRects) /\ IsRegion(s) /\ copy \in Seq(AllRects) /\ IsRegion(copy)
      /\ dest \in Seq(AllRects) /\ IsRegion(dest)
  BY DEF IsList
<1>1. /\ m \in Seq(AllRects) /\ IsRegion(m)
      /\ \A px \in Int, py \in Int : Holding(m, px, py) <=> Holding(copy, px - dx, py - dy)
  BY <1>0, TranslateExact
<1>2. \A i \in DOMAIN m : Off(dest, m[i])
  BY DEF Translate
<1>3. CopyRegion(s, dest, copy, dx, dy) = CopyEach(s, m, dest)
  BY DEF CopyRegion, CopyEach
<1>. HIDE DEF m
<1>. DEFINE walk == CHOOSE w : IsCopyWalk(w, s, m, dest)
<1>3a. IsCopyWalk(walk, s, m, dest)
  BY <1>0, <1>1, CopyRegionWalk
<1>. HIDE DEF walk
<1>4. /\ walk \in [0 .. Len(m) -> Seq(AllRects)]
       /\ CopyEach(s, m, dest) = walk[Len(m)]
       /\ walk[0] = dest
       /\ \A i \in 1 .. Len(m) : walk[i] = CopyRect(s, walk[i - 1], m[i])
  BY <1>3a DEF IsCopyWalk
<1>. DEFINE Free(i) == \A j \in i + 1 .. Len(m) : Off(walk[i], m[j])
            Exact(i) == \A px \in Int, py \in Int :
                          Holding(walk[i], px, py)
                            <=> Holding(dest, px, py) \/ (Holding(s, px, py) /\ Behind(m, i, px, py))
            Good(i) == IsRegion(walk[i]) /\ Free(i) /\ Exact(i)
            S == {i \in 0 .. Len(m) : Good(i)}
<1>5. 0 \in S
  <2>1. \A j \in 0 + 1 .. Len(m) : j \in DOMAIN m
    BY <1>1
  <2>2. Free(0)
    BY <1>2, <1>4, <2>1
  <2>3. Exact(0)
    BY <1>1, <1>4, WholeWalk
  <2>. HIDE DEF Free, Exact
  <2>. QED  BY <1>0, <1>1, <1>4, <2>2, <2>3, WholeWalk
<1>6. ASSUME NEW i \in 0 .. Len(m) - 1, i \in S
      PROVE  i + 1 \in S
  <2>0. IsRegion(walk[i]) /\ Free(i) /\ Exact(i)
    BY <1>6
  <2>1. /\ i + 1 \in 0 .. Len(m) /\ i + 1 \in 1 .. Len(m) /\ m[i + 1] \in AllRects /\ i \in 0 .. Len(m)
        /\ \A px, py : Behind(m, i + 1, px, py) <=> Behind(m, i, px, py) \/ Holds(m[i + 1], px, py)
    BY <1>1, Visited
  <2>2. IsList(walk[i]) /\ walk[i + 1] = CopyRect(s, walk[i], m[i + 1])
    <3>1. walk[i] \in Seq(AllRects) /\ (i + 1) - 1 = i
      BY <1>4, <2>1
    <3>. QED  BY <1>4, <2>0, <2>1, <3>1 DEF IsList
  <2>3. Off(walk[i], m[i + 1])
    <3>1. i + 1 \in i + 1 .. Len(m)
      BY <2>1
    <3>. QED  BY <2>0, <3>1
  <2>4. /\ IsList(walk[i + 1])
        /\ \A q \in AllRects : Off(walk[i], q) /\ Apart(m[i + 1], q) => Off(walk[i + 1], q)
        /\ \A px \in Int, py \in Int :
             Holding(walk[i + 1], px, py)
               <=> Holding(walk[i], px, py) \/ (Holding(s, px, py) /\ Holds(m[i + 1], px, py))
    <3>. HIDE DEF Good, S
    <3>. QED  BY <2>1, <2>2, <2>3, CopyRectExact
  <2>5. Free(i + 1)
    <3>1. ASSUME NEW j \in (i + 1) + 1 .. Len(m)
          PROVE  Off(walk[i + 1], m[j])
      <4>0. Len(m) \in Nat /\ DOMAIN m = 1 .. Len(m)
        BY <1>1
      <4>1. j \in i + 1 .. Len(m) /\ j \in DOMAIN m /\ i + 1 \in DOMAIN m /\ j # i + 1
        BY <4>0
      <4>2. m[j] \in AllRects
        BY <1>1, <4>1
      <4>3. Off(walk[i], m[j]) /\ Apart(m[i + 1], m[j])
        BY <1>1, <2>0, <4>1 DEF IsRegion
      <4>. QED  BY <2>4, <4>2, <4>3
    <3>. QED  BY <3>1
  <2>6. Exact(i + 1)
    <3>. HIDE DEF S, Good, Free
    <3>. QED  BY <2>0, <2>1, <2>4
  <2>. HIDE DEF Free, Exact
  <2>. QED  BY <2>1, <2>4, <2>5, <2>6 DEF IsList
<1>7. Len(m) \in S
  <2>. HIDE DEF S
  <2>. QED  BY <1>1, <1>5, <1>6, UpTo, WholeWalk
<1>8. walk[Len(m)] \in Seq(AllRects) /\ \A px, py : Behind(m, Len(m), px, py) <=> Holding(m, px, py)
  BY <1>1, <1>4, WholeWalk
<1>9. IsRegion(walk[Len(m)]) /\ Exact(Len(m))
  BY <1>7
<1>. DEFINE end == walk[Len(m)]
<1>10. IsList(end)
  BY <1>8, <1>9 DEF IsList
<1>11. CopyRegion(s, dest, copy, dx, dy) = end
  BY <1>3, <1>4
<1>12. \A px \in Int, py \in Int :
         Holding(end, px, py) <=> Holding(dest, px, py) \/ (Holding(s, px, py) /\ Holding(copy, px - dx, py - dy))
  BY <1>1, <1>8, <1>9
<1>. HIDE DEF end, S, Good
<1>. QED  BY <1>10, <1>11, <1>12

\* What is cut out of a region is moved to the other one.
THEOREM CutRectExact ==
  ASSUME NEW s, IsList(s), NEW dest, IsList(dest), NEW c \in AllRects, Off(dest, c)
  PROVE  /\ IsList(CutRect(s, dest, c).region) /\ IsList(CutRect(s, dest, c).dest)
         /\ \A px \in Int, py \in Int :
              /\ Holding(CutRect(s, dest, c).region, px, py) <=> Holding(s, px, py) /\ ~Holds(c, px, py)
              /\ Holding(CutRect(s, dest, c).dest, px, py)
                   <=> Holding(dest, px, py) \/ (Holding(s, px, py) /\ Holds(c, px, py))
<1>1. /\ CutRect(s, dest, c).region = RemoveRect(s, c)
      /\ CutRect(s, dest, c).dest = CopyRect(s, dest, c)
  BY DEF CutRect
<1>2. /\ IsList(RemoveRect(s, c))
      /\ \A px \in Int, py \in Int :
           Holding(RemoveRect(s, c), px, py) <=> Holding(s, px, py) /\ ~Holds(c, px, py)
  BY RemoveRectExact
<1>3. /\ IsList(CopyRect(s, dest, c))
      /\ \A px \in Int, py \in Int :
           Holding(CopyRect(s, dest, c), px, py)
             <=> Holding(dest, px, py) \/ (Holding(s, px, py) /\ Holds(c, px, py))
  BY CopyRectExact
<1>. QED  BY <1>1, <1>2, <1>3

-----------------------------------------------------------------------------
(* The operations on the pixels of the screen.                             *)

LEMMA GridPixels == Grid \subseteq Int \X Int
<1>1. \A w \in Int, h \in Int : (0 .. w - 1) \X (0 .. h - 1) \subseteq Int \X Int
  OBVIOUS
<1>2. \A s \in Sizes \cup {<<ScreenBox.w, ScreenBox.h>>} : s[1] \in Int /\ s[2] \in Int
  BY GuiAssumption DEF Boxes
<1>. QED  BY <1>1, <1>2 DEF Grid

\* The pixels of a list on the grid are the ones it holds.
LEMMA PixelsIs ==
  ASSUME NEW s, NEW p
  PROVE  p \in Pixels(s, Grid) <=> p \in Grid /\ Holding(s, p[1], p[2])
BY DEF Pixels, Holding

LEMMA PixelsAre ==
  ASSUME NEW s, NEW Q, Q \subseteq Grid,
         \A p \in Grid : Holding(s, p[1], p[2]) <=> p \in Q
  PROVE  Pixels(s, Grid) = Q
BY DEF Pixels, Holding

\* RegionOps (Gui.tla) for every list and every rectangle that is not empty
\* (region.cpp).
THEOREM RegionOpsHold ==
  ASSUME NEW s, IsList(s), NEW c \in AllRects, ~IsEmpty(c)
  PROVE  RegionOps(s, c)
<1>. DEFINE P == Pixels(s, Grid)
            C == Pixels(<<c>>, Grid)
            Exact(r, Q) == IsRegion(r) /\ Pixels(r, Grid) = Q
            In(p) == Holding(s, p[1], p[2])
            InC(p) == Holds(c, p[1], p[2])
<1>1. /\ P \subseteq Grid /\ C \subseteq Grid
      /\ \A p \in Grid : p[1] \in Int /\ p[2] \in Int /\ (p \in P <=> In(p)) /\ (p \in C <=> InC(p))
  <2>1. \A p \in Grid : p[1] \in Int /\ p[2] \in Int
    BY GridPixels
  <2>2. <<c>> \in Seq(AllRects) /\ \A px, py : Holding(<<c>>, px, py) <=> Holds(c, px, py)
    BY One
  <2>. QED  BY <2>1, <2>2 DEF Pixels, Holding
<1>2. ASSUME NEW r, IsList(r), NEW Q, Q \subseteq Grid, \A p \in Grid : Holding(r, p[1], p[2]) <=> p \in Q
      PROVE  Exact(r, Q)
  BY <1>2, PixelsAre DEF IsList
<1>3. /\ <<>> \in Seq(AllRects) /\ IsList(<<>>) /\ (\A r : Off(<<>>, r)) /\ \A px, py : ~Holding(<<>>, px, py)
      /\ <<c>> \in Seq(AllRects) /\ IsList(<<c>>) /\ \A px, py : Holding(<<c>>, px, py) <=> Holds(c, px, py)
  BY None, One DEF IsList
<1>. HIDE DEF P, C, Exact
<1>4. Exact(PasteRect(s, c), P \cup C)
  BY <1>1, <1>2, PasteRectExact
<1>5. Exact(RemoveRect(s, c), P \ C)
  BY <1>1, <1>2, RemoveRectExact
<1>6. Exact(ClipRect(s, c), P \cap C)
  BY <1>1, <1>2, ClipRectExact
<1>7. Exact(CopyRect(s, <<>>, c), P \cap C)
  BY <1>1, <1>2, <1>3, CopyRectExact
<1>8. /\ CutRect(s, <<>>, c).region = RemoveRect(s, c)
      /\ CutRect(s, <<>>, c).dest = CopyRect(s, <<>>, c)
  BY DEF CutRect
<1>9. Exact(PasteRegion(s, <<c>>, 0, 0), P \cup C)
  <2>1. /\ IsList(PasteRegion(s, <<c>>, 0, 0))
        /\ \A px \in Int, py \in Int :
             Holding(PasteRegion(s, <<c>>, 0, 0), px, py) <=> Holding(<<c>>, px, py) \/ Holding(s, px - 0, py - 0)
    <3>1. s \in Seq(AllRects) /\ 0 \in Int
      BY DEF IsList
    <3>. QED  BY <1>3, <3>1, PasteRegionExact
  <2>2. \A px \in Int : px - 0 = px
    OBVIOUS
  <2>. QED  BY <1>1, <1>2, <1>3, <2>1, <2>2
<1>10. Exact(CopyRegion(s, <<>>, <<c>>, 0, 0), P \cap C)
  <2>1. /\ IsList(CopyRegion(s, <<>>, <<c>>, 0, 0))
        /\ \A px \in Int, py \in Int :
             Holding(CopyRegion(s, <<>>, <<c>>, 0, 0), px, py)
               <=> Holding(<<>>, px, py) \/ (Holding(s, px, py) /\ Holding(<<c>>, px - 0, py - 0))
    BY <1>3, CopyRegionExact
  <2>2. \A px \in Int : px - 0 = px
    OBVIOUS
  <2>. QED  BY <1>1, <1>2, <1>3, <2>1, <2>2
<1>. QED  BY <1>4, <1>5, <1>6, <1>7, <1>8, <1>9, <1>10 DEF RegionOps, P, C, Exact

-----------------------------------------------------------------------------
(* The tree: its lists stay regions.                                       *)

Trees == [kids : [Nodes -> Seq(Nodes)], parent : [Nodes -> Nodes \cup {NoView}],
          box : [Nodes -> Boxes], flags : [Nodes -> SUBSET Flags],
          dirty : [Nodes -> Regions], opaque : [Nodes -> Regions],
          gui : SUBSET {"dirty_all", "screen"}, temps : Seq(Ghosts)]

\* The children are where they were.
Same(t, u) == u.kids = t.kids /\ u.parent = t.parent /\ u.temps = t.temps

LEMMA BoxRects ==
  ASSUME NEW b \in Boxes
  PROVE  Whole(b) \in AllRects /\ InParent(b) \in AllRects
BY DEF Boxes, Whole, InParent, Rect, AllRects

LEMMA RegionSteps ==
  ASSUME NEW s \in Regions
  PROVE  /\ \A r \in AllRects : PasteRect(s, r) \in Regions /\ RemoveRect(s, r) \in Regions
         /\ \A dx \in Int, dy \in Int : Translate(s, dx, dy) \in Regions
         /\ <<>> \in Regions
<1>1. s \in Seq(AllRects) /\ IsRegion(s) /\ IsList(s)
  BY DEF Regions, IsList
<1>2. \A r \in AllRects : IsList(PasteRect(s, r)) /\ IsList(RemoveRect(s, r))
  BY <1>1, PasteRectExact, RemoveRectExact
<1>3. \A dx \in Int, dy \in Int : Translate(s, dx, dy) \in Seq(AllRects) /\ IsRegion(Translate(s, dx, dy))
  BY <1>1, TranslateExact
<1>. QED  BY <1>2, <1>3, None DEF Regions, IsList

LEMMA SetFlagsTree ==
  ASSUME NEW t \in Trees, NEW v \in Nodes, NEW f \in SUBSET Flags, NEW m
  PROVE  SetFlags(t, v, f, m) \in Trees /\ Same(t, SetFlags(t, v, f, m))
BY DEF SetFlags, Trees, Same

LEMMA DirtyAllTree ==
  ASSUME NEW t \in Trees, NEW v \in Nodes
  PROVE  DirtyAll(t, v) \in Trees /\ Same(t, DirtyAll(t, v))
<1>1. {"dirty_all"} \in SUBSET Flags
  BY DEF Flags
<1>. QED  BY <1>1, SetFlagsTree DEF DirtyAll

LEMMA DirtyTree ==
  ASSUME NEW t \in Trees, NEW v \in Nodes
  PROVE  Dirty(t, v) \in Trees /\ Same(t, Dirty(t, v))
<1>1. PasteRect(t.dirty[v], Whole(t.box[v])) \in Regions
  <2>1. t.dirty[v] \in Regions /\ t.box[v] \in Boxes
    BY DEF Trees
  <2>. QED  BY <2>1, BoxRects, RegionSteps
<1>. QED  BY <1>1 DEF Dirty, AddDirty, Trees, Same

LEMMA TransDirtyTree ==
  ASSUME NEW t \in Trees, NEW v \in Nodes, NEW dx \in Int, NEW dy \in Int
  PROVE  TransDirty(t, v, dx, dy) \in Trees /\ Same(t, TransDirty(t, v, dx, dy))
<1>1. Translate(t.dirty[v], dx, dy) \in Regions
  <2>1. t.dirty[v] \in Regions
    BY DEF Trees
  <2>. QED  BY <2>1, RegionSteps
<1>. QED  BY <1>1 DEF TransDirty, Trees, Same

LEMMA OpaqueTrees ==
  ASSUME NEW t \in Trees, NEW v \in Nodes
  PROVE  /\ \A r \in AllRects : /\ AddOpaque(t, v, r) \in Trees /\ Same(t, AddOpaque(t, v, r))
                               /\ SubOpaque(t, v, r) \in Trees /\ Same(t, SubOpaque(t, v, r))
         /\ ClrOpaque(t, v) \in Trees /\ Same(t, ClrOpaque(t, v))
<1>0. t.opaque[v] \in Regions /\ <<>> \in Regions
  <2>1. t.opaque[v] \in Regions
    BY DEF Trees
  <2>. QED  BY <2>1, RegionSteps
<1>1. ASSUME NEW r \in AllRects
      PROVE  AddOpaque(t, v, r) \in Trees /\ Same(t, AddOpaque(t, v, r))
  <2>1. PasteRect(t.opaque[v], r) \in Regions
    BY <1>0, RegionSteps
  <2>. QED  BY <2>1 DEF AddOpaque, Trees, Same
<1>2. ASSUME NEW r \in AllRects
      PROVE  SubOpaque(t, v, r) \in Trees /\ Same(t, SubOpaque(t, v, r))
  <2>1. RemoveRect(t.opaque[v], r) \in Regions
    BY <1>0, RegionSteps
  <2>. QED  BY <2>1 DEF SubOpaque, Trees, Same
<1>3. ClrOpaque(t, v) \in Trees /\ Same(t, ClrOpaque(t, v))
  BY <1>0 DEF ClrOpaque, Trees, Same
<1>. QED  BY <1>1, <1>2, <1>3

LEMMA SetBoundsTree ==
  ASSUME NEW t \in Trees, NEW v \in Nodes, NEW b \in Boxes
  PROVE  SetBounds(t, v, b) \in Trees /\ Same(t, SetBounds(t, v, b))
BY DEF SetBounds, Trees, Same

LEMMA ControlLayoutTree ==
  ASSUME NEW t \in Trees, NEW v \in Nodes
  PROVE  ControlLayout(t, v) \in Trees /\ Same(t, ControlLayout(t, v))
<1>1. {"opaque"} \in SUBSET Flags
  BY DEF Flags
<1>2. Same(t, t)
  BY DEF Same
<1>. QED  BY <1>1, <1>2, SetFlagsTree DEF ControlLayout

LEMMA SameTwice ==
  ASSUME NEW t, NEW u, NEW w, Same(t, u), Same(u, w)
  PROVE  Same(t, w)
BY DEF Same

LEMMA ChangeControlTree ==
  ASSUME NEW t \in Trees, NEW v \in Nodes, NEW b \in Boxes
  PROVE  ChangeControl(t, v, b) \in Trees /\ Same(t, ChangeControl(t, v, b))
<1>. DEFINE u == SetBounds(t, v, b)
<1>1. u \in Trees /\ Same(t, u)
  BY SetBoundsTree
<1>2. ControlLayout(u, v) \in Trees /\ Same(u, ControlLayout(u, v))
  BY <1>1, ControlLayoutTree
<1>3. ChangeControl(t, v, b) \in {u, ControlLayout(u, v)}
  BY DEF ChangeControl
<1>. HIDE DEF u
<1>. QED  BY <1>1, <1>2, <1>3, SameTwice

LEMMA EdgeIs ==
  ASSUME NEW w \in Windows
  PROVE  Border[w] \in Int /\ Shadow[w] \in Int
BY ViewsAssumption

LEMMA WindowLayoutTree ==
  ASSUME NEW t \in Trees, NEW w \in Windows, t.kids[w] = <<Held[w]>>
  PROVE  WindowLayout(t, w) \in Trees /\ Same(t, WindowLayout(t, w))
<1>. DEFINE edge == Border[w] + Shadow[w]
            b == t.box[w]
            inner == Box(edge, edge, b.w - 2 * edge, b.h - 2 * edge)
            filled == ChangeControl(t, Held[w], inner)
            lit == SetFlags(filled, w, {"opaque"}, {"opaque"})
            clear == ClrOpaque(filled, w)
            core == InParent(Box(Shadow[w], Shadow[w], b.w - 2 * Shadow[w], b.h - 2 * Shadow[w]))
            mended == AddOpaque(clear, w, core)
<1>1. w \in Nodes /\ Held[w] \in Nodes /\ b \in Boxes /\ b.w \in Int /\ b.h \in Int
  BY GuiAssumption DEF Nodes, Views, Trees, Boxes
<1>2. inner \in Boxes /\ core \in AllRects
  BY <1>1, EdgeIs DEF Boxes, Box, InParent, AllRects, Rect
<1>. HIDE DEF inner, core
<1>3. filled \in Trees /\ Same(t, filled)
  BY <1>1, <1>2, ChangeControlTree
<1>. HIDE DEF filled
<1>4. lit \in Trees /\ Same(filled, lit)
  <2>1. {"opaque"} \in SUBSET Flags
    BY DEF Flags
  <2>. QED  BY <1>1, <1>3, <2>1, SetFlagsTree
<1>5. clear \in Trees /\ Same(filled, clear)
  BY <1>1, <1>3, OpaqueTrees
<1>6. mended \in Trees /\ Same(clear, mended)
  <2>. HIDE DEF clear
  <2>. QED  BY <1>1, <1>2, <1>5, OpaqueTrees
<1>7. WindowLayout(t, w) \in {filled, lit, mended}
  BY DEF WindowLayout, filled, inner, core
<1>. HIDE DEF lit, clear, mended
<1>. QED  BY <1>3, <1>4, <1>5, <1>6, <1>7, SameTwice

LEMMA ChangeTree ==
  ASSUME NEW t \in Trees, NEW w \in Windows, t.kids[w] = <<Held[w]>>, NEW b \in Boxes
  PROVE  Change(t, w, b) \in Trees /\ Same(t, Change(t, w, b))
<1>. DEFINE u == SetBounds(t, w, b)
<1>0. w \in Nodes
  BY DEF Nodes, Views
<1>1. u \in Trees /\ Same(t, u)
  BY <1>0, SetBoundsTree
<1>2. Change(t, w, b) \in {u, WindowLayout(u, w)}
  BY DEF Change
<1>. HIDE DEF u
<1>3. WindowLayout(u, w) \in Trees /\ Same(u, WindowLayout(u, w))
  <2>1. u.kids[w] = <<Held[w]>>
    BY <1>1 DEF Same
  <2>. QED  BY <1>1, <2>1, WindowLayoutTree
<1>. QED  BY <1>1, <1>2, <1>3, SameTwice

LEMMA ChangeDirtyTree ==
  ASSUME NEW t \in Trees, NEW w \in Windows, t.kids[w] = <<Held[w]>>, NEW b \in Boxes
  PROVE  ChangeDirty(t, w, b) \in Trees /\ Same(t, ChangeDirty(t, w, b))
<1>. DEFINE old == t.box[w]
            a == Dirty(t, w)
            c == Change(a, w, b)
            d == TransDirty(c, w, old.x - b.x, old.y - b.y)
            e == DirtyAll(d, w)
<1>1. w \in Nodes /\ old.x - b.x \in Int /\ old.y - b.y \in Int
  BY DEF Nodes, Views, Trees, Boxes
<1>2. a \in Trees /\ Same(t, a)
  BY <1>1, DirtyTree
<1>3. ChangeDirty(t, w, b) = e
  BY DEF ChangeDirty
<1>. HIDE DEF a
<1>4. c \in Trees /\ Same(a, c)
  <2>1. a.kids[w] = <<Held[w]>>
    BY <1>2 DEF Same
  <2>. QED  BY <1>2, <2>1, ChangeTree
<1>. HIDE DEF c, old
<1>5. d \in Trees /\ Same(c, d)
  BY <1>1, <1>4, TransDirtyTree
<1>. HIDE DEF d
<1>6. e \in Trees /\ Same(d, e)
  BY <1>1, <1>5, DirtyAllTree
<1>. HIDE DEF e
<1>. QED  BY <1>2, <1>3, <1>4, <1>5, <1>6, SameTwice

-----------------------------------------------------------------------------
(* The tree: its children stay in order.                                   *)

NoRepeats(s) == \A i \in DOMAIN s, j \in DOMAIN s : s[i] = s[j] => i = j

Shaped(t) ==
  /\ t.kids[Screen] \in Seq(Windows \cup Ghosts) /\ NoRepeats(t.kids[Screen])
  /\ \A i \in DOMAIN t.kids[Screen] : t.parent[t.kids[Screen][i]] = Screen
  /\ \A w \in Windows : t.kids[w] = <<Held[w]>> /\ t.parent[Held[w]] = w
  /\ \A v \in Controls \cup Ghosts : t.kids[v] = <<>>
  /\ t.parent[Screen] = NoView
  /\ \A v \in Windows \cup Ghosts : t.parent[v] \in {NoView, Screen}

WellTrees == {t \in Trees : Shaped(t)}
On(t) == ToSet(t.kids[Screen])

\* The windows are where they were.
Placed(t, u) == \A w \in Windows : u.box[w] = t.box[w]

\* The screen lies behind the views, and can be hit.
Backdrop(t) == t.box[Screen].x = 0 /\ t.box[Screen].y = 0 /\ "solid" \in t.flags[Screen]

LEMMA SameShape ==
  ASSUME NEW t \in WellTrees, NEW u \in Trees, Same(t, u)
  PROVE  u \in WellTrees /\ On(u) = On(t)
BY DEF WellTrees, Shaped, Same, On

LEMMA LeastOf ==
  ASSUME NEW n \in Nat, NEW S \in SUBSET (1 .. n), S # {}
  PROVE  \E i \in S : \A j \in S : i <= j
<1>. DEFINE T == {k \in 0 .. n : \A j \in S : k < j}
<1>1. ASSUME \A i \in S : \E j \in S : j < i
      PROVE  \A k \in 0 .. n : k \in T
  <2>1. 0 \in T
    OBVIOUS
  <2>2. ASSUME NEW k \in 0 .. n - 1, k \in T
        PROVE  k + 1 \in T
    <3>1. \A j \in S : j \in Int /\ k + 1 <= j
      BY <2>2
    <3>2. k + 1 \notin S
      BY <1>1, <3>1
    <3>. QED  BY <3>1, <3>2
  <2>. HIDE DEF T
  <2>. QED  BY <2>1, <2>2, UpTo
<1>2. n \notin T
  <2>1. PICK j \in S : TRUE
    OBVIOUS
  <2>. QED  BY <2>1
<1>3. PICK i \in S : \A j \in S : ~(j < i)
  BY <1>1, <1>2
<1>. QED  BY <1>3

LEMMA ChosenLeast ==
  ASSUME NEW n \in Nat, NEW S \in SUBSET (1 .. n), S # {}
  PROVE  /\ (CHOOSE i \in S : \A j \in S : i <= j) \in S
         /\ \A k \in S : (CHOOSE i \in S : \A j \in S : i <= j) <= k
BY LeastOf

LEMMA JoinedIs ==
  ASSUME NEW A, NEW a \in Seq(A), NEW b \in Seq(A)
  PROVE  /\ a \o b \in Seq(A) /\ Len(a \o b) = Len(a) + Len(b)
         /\ \A j \in 1 .. Len(a) : (a \o b)[j] = a[j]
         /\ \A j \in 1 .. Len(b) : (a \o b)[Len(a) + j] = b[j]
OBVIOUS

LEMMA RemovedIs ==
  ASSUME NEW A, NEW s \in Seq(A), NEW i \in 1 .. Len(s)
  PROVE  /\ RemoveAt(s, i) \in Seq(A) /\ Len(RemoveAt(s, i)) = Len(s) - 1
         /\ \A j \in 1 .. Len(s) - 1 : RemoveAt(s, i)[j] = IF j < i THEN s[j] ELSE s[j + 1]
<1>. DEFINE a == SubSeq(s, 1, i - 1)
            b == SubSeq(s, i + 1, Len(s))
            r == a \o b
<1>0. Len(s) \in Nat /\ i \in Int /\ 1 <= i /\ i <= Len(s)
  OBVIOUS
<1>1. /\ a \in Seq(A) /\ Len(a) = i - 1 /\ \A j \in 1 .. i - 1 : a[j] = s[j]
      /\ b \in Seq(A) /\ Len(b) = Len(s) - i /\ \A j \in 1 .. Len(s) - i : b[j] = s[j + i]
  OBVIOUS
<1>2. RemoveAt(s, i) = r
  BY DEF RemoveAt
<1>. HIDE DEF a, b
<1>3. /\ r \in Seq(A) /\ Len(r) = Len(a) + Len(b)
      /\ \A j \in 1 .. Len(a) : r[j] = a[j]
      /\ \A j \in 1 .. Len(b) : r[Len(a) + j] = b[j]
  <2>1. a \in Seq(A) /\ b \in Seq(A)
    BY <1>1
  <2>. QED  BY <2>1, JoinedIs
<1>. HIDE DEF r
<1>4. \A j \in 1 .. Len(s) - 1 : r[j] = IF j < i THEN s[j] ELSE s[j + 1]
  <2>1. ASSUME NEW j \in 1 .. Len(s) - 1, j < i
        PROVE  r[j] = s[j]
    BY <1>0, <1>1, <1>3, <2>1
  <2>2. ASSUME NEW j \in 1 .. Len(s) - 1, ~(j < i)
        PROVE  r[j] = s[j + 1]
    <3>. DEFINE k == j - (i - 1)
    <3>1. k \in 1 .. Len(s) - i /\ (i - 1) + k = j /\ k + i = j + 1
      BY <1>0, <2>2
    <3>. HIDE DEF k
    <3>2. k \in 1 .. Len(b) /\ Len(a) + k = j
      BY <1>1, <3>1
    <3>3. r[j] = b[k]
      BY <1>3, <3>2
    <3>. QED  BY <1>1, <3>1, <3>3
  <2>. QED  BY <2>1, <2>2
<1>. QED  BY <1>0, <1>1, <1>2, <1>3, <1>4

LEMMA Removed ==
  ASSUME NEW A, NEW s \in Seq(A), NEW i \in 1 .. Len(s) + 1, NoRepeats(s)
  PROVE  /\ RemoveAt(s, i) \in Seq(A) /\ NoRepeats(RemoveAt(s, i))
         /\ i \notin DOMAIN s => RemoveAt(s, i) = s
         /\ i \in DOMAIN s => /\ ToSet(RemoveAt(s, i)) = ToSet(s) \ {s[i]}
                              /\ Len(RemoveAt(s, i)) = Len(s) - 1
<1>. DEFINE r == RemoveAt(s, i)
<1>1. CASE i \in DOMAIN s
  <2>1. /\ r \in Seq(A) /\ Len(r) = Len(s) - 1 /\ DOMAIN r = 1 .. Len(s) - 1
        /\ \A j \in 1 .. Len(s) - 1 : r[j] = IF j < i THEN s[j] ELSE s[j + 1]
    <3>1. i \in 1 .. Len(s)
      BY <1>1
    <3>2. r \in Seq(A) /\ Len(r) = Len(s) - 1
          /\ \A j \in 1 .. Len(s) - 1 : r[j] = IF j < i THEN s[j] ELSE s[j + 1]
      BY <3>1, RemovedIs
    <3>. HIDE DEF r
    <3>. QED  BY <3>2
  <2>. HIDE DEF r
  <2>2. DOMAIN s = 1 .. Len(s) /\ Len(s) \in Nat
    OBVIOUS
  <2>. DEFINE from(j) == IF j < i THEN j ELSE j + 1
  <2>3. \A j \in DOMAIN r : from(j) \in DOMAIN s /\ from(j) # i /\ r[j] = s[from(j)]
    BY <2>1, <2>2
  <2>4. \A j \in DOMAIN r, k \in DOMAIN r : from(j) = from(k) => j = k
    BY <2>1
  <2>5. \A k \in DOMAIN s : k # i => \E j \in DOMAIN r : from(j) = k
    <3>1. ASSUME NEW k \in DOMAIN s, k # i
          PROVE  \E j \in DOMAIN r : from(j) = k
      <4>1. CASE k < i
        <5>1. k \in DOMAIN r /\ from(k) = k
          BY <2>1, <2>2, <4>1, <1>1
        <5>. QED  BY <5>1
      <4>2. CASE k > i
        <5>1. k - 1 \in DOMAIN r /\ from(k - 1) = k
          BY <2>1, <2>2, <4>2, <1>1
        <5>. QED  BY <5>1
      <4>. QED  BY <3>1, <4>1, <4>2, <2>2, <1>1
    <3>. QED  BY <3>1
  <2>. HIDE DEF from
  <2>6. NoRepeats(r)
    BY <2>3, <2>4 DEF NoRepeats
  <2>7. ToSet(r) = ToSet(s) \ {s[i]}
    BY <2>3, <2>5, <1>1 DEF ToSet, NoRepeats
  <2>. QED  BY <1>1, <2>1, <2>6, <2>7 DEF r
<1>2. CASE i \notin DOMAIN s
  <2>1. i = Len(s) + 1
    BY <1>2
  <2>2. SubSeq(s, 1, i - 1) = s /\ SubSeq(s, i + 1, Len(s)) = <<>>
    BY <2>1
  <2>3. r = s
    <3>1. r = s \o <<>>
      BY <2>2 DEF RemoveAt
    <3>. HIDE DEF r
    <3>. QED  BY <3>1
  <2>. QED  BY <1>2, <2>3
<1>. QED  BY <1>1, <1>2

LEMMA InsertedIs ==
  ASSUME NEW A, NEW s \in Seq(A), NEW i \in 1 .. Len(s) + 1, NEW e \in A
  PROVE  /\ InsertAt(s, i, e) \in Seq(A) /\ Len(InsertAt(s, i, e)) = Len(s) + 1
         /\ InsertAt(s, i, e)[i] = e
         /\ \A j \in 1 .. i - 1 : InsertAt(s, i, e)[j] = s[j]
         /\ \A j \in i + 1 .. Len(s) + 1 : InsertAt(s, i, e)[j] = s[j - 1]
<1>. DEFINE a == SubSeq(s, 1, i - 1)
            b == SubSeq(s, i, Len(s))
            c == a \o <<e>>
            r == c \o b
<1>0. Len(s) \in Nat /\ i \in Int /\ 1 <= i /\ i <= Len(s) + 1
  OBVIOUS
<1>1. /\ a \in Seq(A) /\ Len(a) = i - 1 /\ \A j \in 1 .. i - 1 : a[j] = s[j]
      /\ b \in Seq(A) /\ Len(b) = Len(s) - i + 1 /\ \A j \in 1 .. Len(s) - i + 1 : b[j] = s[j + i - 1]
  OBVIOUS
<1>2. InsertAt(s, i, e) = r
  BY DEF InsertAt
<1>. HIDE DEF a, b
<1>3. c \in Seq(A) /\ Len(c) = i /\ c[i] = e /\ \A j \in 1 .. i - 1 : c[j] = a[j]
  <2>1. a \in Seq(A) /\ Len(a) = i - 1
    BY <1>1
  <2>. QED  BY <1>0, <2>1
<1>. HIDE DEF c
<1>4. /\ r \in Seq(A) /\ Len(r) = Len(c) + Len(b)
      /\ \A j \in 1 .. Len(c) : r[j] = c[j]
      /\ \A j \in 1 .. Len(b) : r[Len(c) + j] = b[j]
  <2>1. c \in Seq(A) /\ b \in Seq(A)
    BY <1>1, <1>3
  <2>2. /\ c \o b \in Seq(A) /\ Len(c \o b) = Len(c) + Len(b)
        /\ \A j \in 1 .. Len(c) : (c \o b)[j] = c[j]
        /\ \A j \in 1 .. Len(b) : (c \o b)[Len(c) + j] = b[j]
    BY <2>1, JoinedIs
  <2>. QED  BY <2>2
<1>. HIDE DEF r
<1>5. r[i] = e /\ \A j \in 1 .. i - 1 : r[j] = s[j]
  BY <1>0, <1>1, <1>3, <1>4, SMTT(30)
<1>6. ASSUME NEW j \in i + 1 .. Len(s) + 1
      PROVE  r[j] = s[j - 1]
  <2>. DEFINE k == j - i
  <2>1. k \in 1 .. Len(s) - i + 1 /\ i + k = j /\ k + i - 1 = j - 1
    BY <1>0
  <2>. HIDE DEF k
  <2>2. k \in 1 .. Len(b) /\ Len(c) + k = j
    BY <1>1, <1>3, <2>1
  <2>3. r[j] = b[k]
    BY <1>4, <2>2
  <2>. QED  BY <1>1, <2>1, <2>3
<1>7. Len(r) = Len(s) + 1
  BY <1>0, <1>1, <1>3, <1>4
<1>. QED  BY <1>2, <1>4, <1>5, <1>6, <1>7

LEMMA Inserted ==
  ASSUME NEW A, NEW s \in Seq(A), NEW i \in 1 .. Len(s) + 1, NEW e \in A, NoRepeats(s), e \notin ToSet(s)
  PROVE  /\ InsertAt(s, i, e) \in Seq(A) /\ NoRepeats(InsertAt(s, i, e))
         /\ ToSet(InsertAt(s, i, e)) = ToSet(s) \cup {e}
<1>. DEFINE r == InsertAt(s, i, e)
<1>1. /\ r \in Seq(A) /\ Len(r) = Len(s) + 1 /\ r[i] = e
      /\ \A j \in 1 .. i - 1 : r[j] = s[j]
      /\ \A j \in i + 1 .. Len(s) + 1 : r[j] = s[j - 1]
  BY InsertedIs
<1>. HIDE DEF r
<1>2. /\ DOMAIN s = 1 .. Len(s) /\ Len(s) \in Nat /\ DOMAIN r = 1 .. Len(s) + 1 /\ i \in DOMAIN r
      /\ i \in Int
  BY <1>1
<1>. DEFINE from(j) == IF j < i THEN j ELSE j - 1
<1>3. r[i] = e /\ \A j \in DOMAIN r : j # i => from(j) \in DOMAIN s /\ r[j] = s[from(j)]
  BY <1>1, <1>2
<1>4. \A j \in DOMAIN r, k \in DOMAIN r : j # i /\ k # i /\ from(j) = from(k) => j = k
  BY <1>2
<1>5. \A k \in DOMAIN s : \E j \in DOMAIN r : j # i /\ from(j) = k
  <2>1. ASSUME NEW k \in DOMAIN s
        PROVE  \E j \in DOMAIN r : j # i /\ from(j) = k
    <3>1. CASE k < i
      <4>1. k \in DOMAIN r /\ from(k) = k /\ k # i
        BY <1>2, <3>1
      <4>. QED  BY <4>1
    <3>2. CASE k >= i
      <4>1. k + 1 \in DOMAIN r /\ from(k + 1) = k /\ k + 1 # i
        BY <1>2, <3>2
      <4>. QED  BY <4>1
    <3>. QED  BY <3>1, <3>2, <1>2
  <2>. QED  BY <2>1
<1>. HIDE DEF from
<1>6. \A k \in DOMAIN s : s[k] # e
  BY DEF ToSet
<1>7. NoRepeats(r)
  BY <1>3, <1>4, <1>6 DEF NoRepeats
<1>8. ToSet(r) = ToSet(s) \cup {e}
  BY <1>2, <1>3, <1>5 DEF ToSet
<1>. QED  BY <1>1, <1>7, <1>8 DEF r

\* Where a view is among the children of the screen.
LEMMA PlaceIs ==
  ASSUME NEW t \in WellTrees, NEW v, t.parent[v] = Screen
  PROVE  /\ PlaceOf(t, v) \in 1 .. Len(t.kids[Screen]) + 1
         /\ PlaceOf(t, v) \in DOMAIN t.kids[Screen] <=> v \in On(t)
         /\ v \in On(t) => t.kids[Screen][PlaceOf(t, v)] = v
<1>. DEFINE s == t.kids[Screen]
            S == {i \in DOMAIN s : s[i] = v}
            i == CHOOSE i \in S : \A j \in S : i <= j
<1>1. s \in Seq(Windows \cup Ghosts) /\ Len(s) \in Nat /\ DOMAIN s = 1 .. Len(s)
  BY DEF WellTrees, Shaped
<1>2. PlaceOf(t, v) = IF S = {} THEN Len(s) + 1 ELSE i
  BY DEF PlaceOf, FirstIndex
<1>3. S # {} <=> v \in On(t)
  BY DEF On, ToSet
<1>4. S # {} => i \in S
  <2>1. S \in SUBSET (1 .. Len(s))
    BY <1>1
  <2>. HIDE DEF S, s
  <2>. QED  BY <1>1, <2>1, ChosenLeast
<1>. HIDE DEF i
<1>5. S = {} => PlaceOf(t, v) = Len(s) + 1
  BY <1>2
<1>6. S # {} => PlaceOf(t, v) \in 1 .. Len(s) /\ s[PlaceOf(t, v)] = v
  BY <1>1, <1>2, <1>4
<1>. HIDE DEF S, s
<1>7. Len(s) + 1 \in 1 .. Len(s) + 1 /\ Len(s) + 1 \notin 1 .. Len(s) /\ \A k \in 1 .. Len(s) : k \in 1 .. Len(s) + 1
  BY <1>1
<1>. QED  BY <1>1, <1>3, <1>5, <1>6, <1>7 DEF s

\* Other children of the screen, and what that leaves to be shown.
LEMMA Reshaped ==
  ASSUME NEW t \in WellTrees, NEW u \in Trees, NEW r \in Seq(Windows \cup Ghosts), NoRepeats(r),
         u.kids = [t.kids EXCEPT ![Screen] = r],
         \A n \in Nodes \ (Windows \cup Ghosts) : u.parent[n] = t.parent[n],
         \A n \in Windows \cup Ghosts : u.parent[n] \in {NoView, Screen},
         \A j \in DOMAIN r : u.parent[r[j]] = Screen
  PROVE  u \in WellTrees /\ On(u) = ToSet(r)
<1>0. t \in Trees /\ Shaped(t) /\ Screen \in Nodes /\ Screen \notin Windows \cup Ghosts
  BY ViewsAssumption DEF WellTrees, Nodes, Views
<1>1. \A n \in Nodes : u.kids[n] = IF n = Screen THEN r ELSE t.kids[n]
  BY <1>0 DEF Trees
<1>2. u.kids[Screen] = r /\ u.parent[Screen] = NoView
  BY <1>0, <1>1 DEF Shaped
<1>3. \A w \in Windows : u.kids[w] = <<Held[w]>> /\ u.parent[Held[w]] = w
  <2>1. \A w \in Windows : /\ w \in Nodes /\ w # Screen
                            /\ Held[w] \in Nodes \ (Windows \cup Ghosts)
    BY ViewsAssumption, GuiAssumption DEF Nodes, Views
  <2>. QED  BY <1>0, <1>1, <2>1 DEF Shaped
<1>4. \A n \in Controls \cup Ghosts : u.kids[n] = <<>>
  <2>1. \A n \in Controls \cup Ghosts : n \in Nodes /\ n # Screen
    BY ViewsAssumption DEF Nodes, Views
  <2>. QED  BY <1>0, <1>1, <2>1 DEF Shaped
<1>5. Shaped(u)
  BY <1>2, <1>3, <1>4 DEF Shaped
<1>. QED  BY <1>2, <1>5 DEF WellTrees, On

LEMMA SubTree ==
  ASSUME NEW t \in WellTrees, NEW v \in Windows \cup Ghosts
  PROVE  /\ Sub(t, v) \in WellTrees /\ On(Sub(t, v)) = On(t) \ {v}
         /\ Sub(t, v).temps = t.temps
<1>. DEFINE s == t.kids[Screen]
            i == PlaceOf(t, v)
            u == Sub(t, v)
<1>0. t \in Trees /\ Shaped(t) /\ v \in Nodes /\ Screen \in Nodes /\ v # Screen /\ Screen # NoView
  BY ViewsAssumption DEF WellTrees, Nodes, Views
<1>1. t.parent[v] = NoView \/ t.parent[v] = Screen
  BY <1>0 DEF Shaped
<1>2. v \in On(t) => t.parent[v] = Screen
  BY <1>0 DEF Shaped, On, ToSet
<1>3. CASE v \notin On(t)
  <2>1. u = t
    BY <1>1, <1>3 DEF Sub, Among, On, ToSet
  <2>. QED  BY <1>3, <2>1
<1>4. CASE v \in On(t)
  <2>1. i \in DOMAIN s /\ s[i] = v /\ i \in 1 .. Len(s) + 1
    BY <1>2, <1>4, PlaceIs
  <2>. DEFINE r == RemoveAt(s, i)
  <2>2. s \in Seq(Windows \cup Ghosts) /\ NoRepeats(s)
    BY <1>0 DEF Shaped
  <2>3. u = [t EXCEPT !.kids[Screen] = r, !.parent[v] = NoView]
    BY <1>0, <1>2, <1>4 DEF Sub, Among, On, ToSet
  <2>. HIDE DEF i, s
  <2>4. /\ r \in Seq(Windows \cup Ghosts) /\ NoRepeats(r) /\ ToSet(r) = ToSet(s) \ {v}
    BY <2>1, <2>2, Removed
  <2>. HIDE DEF r, u
  <2>5. r \in Seq(Nodes)
    BY <2>4 DEF Nodes, Views
  <2>6. u \in Trees /\ u.temps = t.temps
    BY <1>0, <2>3, <2>5 DEF Trees
  <2>7. /\ u.kids = [t.kids EXCEPT ![Screen] = r]
        /\ \A n \in Nodes : u.parent[n] = IF n = v THEN NoView ELSE t.parent[n]
    BY <1>0, <2>3 DEF Trees
  <2>8. \A j \in DOMAIN r : u.parent[r[j]] = Screen
    <3>1. ASSUME NEW j \in DOMAIN r
          PROVE  u.parent[r[j]] = Screen
      <4>1. r[j] \in ToSet(s) /\ r[j] # v /\ r[j] \in Nodes
        BY <2>4, <2>5 DEF ToSet
      <4>2. t.parent[r[j]] = Screen
        BY <1>0, <4>1 DEF Shaped, ToSet, s
      <4>. QED  BY <2>7, <4>1, <4>2
    <3>. QED  BY <3>1
  <2>9. /\ \A n \in Nodes \ (Windows \cup Ghosts) : u.parent[n] = t.parent[n]
        /\ \A n \in Windows \cup Ghosts : u.parent[n] \in {NoView, Screen}
    BY <1>0, <2>7 DEF Shaped, Nodes, Views
  <2>10. u \in WellTrees /\ On(u) = ToSet(r)
    BY <2>4, <2>6, <2>7, <2>8, <2>9, Reshaped
  <2>. QED  BY <2>4, <2>6, <2>10 DEF u, On, s
<1>. QED  BY <1>3, <1>4
\* A view that is not yet there is put before the i-th child.
LEMMA InsertTree ==
  ASSUME NEW t \in WellTrees, NEW v \in Windows, v \notin On(t), NEW i \in 1 .. Len(t.kids[Screen]) + 1
  PROVE  /\ Insert(t, Screen, v, i) \in WellTrees /\ On(Insert(t, Screen, v, i)) = On(t) \cup {v}
         /\ Insert(t, Screen, v, i).temps = t.temps
<1>. DEFINE s == t.kids[Screen]
            r == InsertAt(s, i, v)
            u == Insert(t, Screen, v, i)
<1>0. t \in Trees /\ Shaped(t) /\ v \in Nodes /\ Screen \in Nodes
  BY DEF WellTrees, Nodes, Views
<1>1. s \in Seq(Windows \cup Ghosts) /\ NoRepeats(s) /\ i \in 1 .. Len(s) + 1 /\ v \notin ToSet(s)
  BY <1>0 DEF Shaped, On
<1>2. u = [t EXCEPT !.kids[Screen] = r, !.parent[v] = Screen]
  BY DEF Insert
<1>. HIDE DEF s
<1>3. r \in Seq(Windows \cup Ghosts) /\ NoRepeats(r) /\ ToSet(r) = ToSet(s) \cup {v}
  BY <1>1, Inserted
<1>. HIDE DEF r, u
<1>4. r \in Seq(Nodes)
  BY <1>3 DEF Nodes, Views
<1>5. u \in Trees /\ u.temps = t.temps
  BY <1>0, <1>2, <1>4 DEF Trees
<1>6. /\ u.kids = [t.kids EXCEPT ![Screen] = r]
      /\ \A n \in Nodes : u.parent[n] = IF n = v THEN Screen ELSE t.parent[n]
  BY <1>0, <1>2 DEF Trees
<1>7. \A j \in DOMAIN r : u.parent[r[j]] = Screen
  <2>1. ASSUME NEW j \in DOMAIN r
        PROVE  u.parent[r[j]] = Screen
    <3>1. (r[j] \in ToSet(s) \/ r[j] = v) /\ r[j] \in Nodes
      BY <1>3, <1>4 DEF ToSet
    <3>2. r[j] \in ToSet(s) => t.parent[r[j]] = Screen
      BY <1>0 DEF Shaped, ToSet, s
    <3>. QED  BY <1>6, <3>1, <3>2
  <2>. QED  BY <2>1
<1>8. /\ \A n \in Nodes \ (Windows \cup Ghosts) : u.parent[n] = t.parent[n]
      /\ \A n \in Windows \cup Ghosts : u.parent[n] \in {NoView, Screen}
  BY <1>0, <1>6 DEF Shaped, Nodes, Views
<1>9. u \in WellTrees /\ On(u) = ToSet(r)
  BY <1>3, <1>5, <1>6, <1>7, <1>8, Reshaped
<1>. QED  BY <1>3, <1>5, <1>9 DEF u, On, s

\* The first place that a condition picks, or the one behind the last.
LEMMA FirstPlace ==
  ASSUME NEW n \in Nat, NEW S \in SUBSET (1 .. n)
  PROVE  (IF S = {} THEN n + 1 ELSE CHOOSE i \in S : \A j \in S : i <= j) \in 1 .. n + 1
<1>1. CASE S = {}
  BY <1>1
<1>2. CASE S # {}
  <2>. DEFINE m == CHOOSE i \in S : \A j \in S : i <= j
  <2>1. m \in S
    BY <1>2, ChosenLeast
  <2>. HIDE DEF m
  <2>2. m \in 1 .. n + 1
    BY <2>1
  <2>. QED  BY <1>2, <2>2 DEF m
<1>. QED  BY <1>1, <1>2

LEMMA AddTree ==
  ASSUME NEW t \in WellTrees, NEW v \in Windows
  PROVE  /\ AddFront(t, Screen, v) \in WellTrees /\ On(AddFront(t, Screen, v)) = On(t) \cup {v}
         /\ AddFront(t, Screen, v).temps = t.temps
         /\ AddBack(t, Screen, v) \in WellTrees /\ On(AddBack(t, Screen, v)) = On(t) \cup {v}
         /\ AddBack(t, Screen, v).temps = t.temps
<1>. DEFINE u == Sub(t, v)
            s == u.kids[Screen]
            F == {i \in DOMAIN s : ~Has(u, s[i], "at_front")}
            B == {i \in DOMAIN s : Has(u, s[i], "at_back")}
            f == IF F = {} THEN Len(s) + 1 ELSE CHOOSE i \in F : \A j \in F : i <= j
            b == IF B = {} THEN Len(s) + 1 ELSE CHOOSE i \in B : \A j \in B : i <= j
<1>1. u \in WellTrees /\ On(u) = On(t) \ {v} /\ u.temps = t.temps
  BY SubTree
<1>2. AddFront(t, Screen, v) = Insert(u, Screen, v, f) /\ AddBack(t, Screen, v) = Insert(u, Screen, v, b)
  BY DEF AddFront, AddBack, FirstIndex
<1>. HIDE DEF u
<1>3. Len(s) \in Nat /\ DOMAIN s = 1 .. Len(s)
  BY <1>1 DEF WellTrees, Shaped
<1>4. f \in 1 .. Len(s) + 1
  <2>1. F \in SUBSET (1 .. Len(s))
    BY <1>3
  <2>. HIDE DEF F, s
  <2>. QED  BY <1>3, <2>1, FirstPlace
<1>5. b \in 1 .. Len(s) + 1
  <2>1. B \in SUBSET (1 .. Len(s))
    BY <1>3
  <2>. HIDE DEF B, s
  <2>. QED  BY <1>3, <2>1, FirstPlace
<1>. HIDE DEF f, b
<1>. QED  BY <1>1, <1>2, <1>4, <1>5, InsertTree

LEMMA GhostTree ==
  ASSUME NEW t \in WellTrees, NEW v \in Windows, t.parent[v] # NoView, Spare(t)
  PROVE  /\ Ghost(t, v) \in WellTrees
         /\ v \notin On(Ghost(t, v)) /\ On(Ghost(t, v)) \subseteq On(t) \cup Ghosts
         /\ On(t) \ {v} \subseteq On(Ghost(t, v))
         /\ Len(Ghost(t, v).kids[Screen]) = Len(t.kids[Screen])
         /\ Ghost(t, v).parent[v] = Screen
<1>. DEFINE g == CHOOSE n \in Ghosts : t.parent[n] = NoView
            s == t.kids[Screen]
            i == PlaceOf(t, v)
            there == [t EXCEPT !.parent[g] = t.parent[v], !.box[g] = t.box[v],
                               !.kids[t.parent[v]][i] = g, !.temps = Append(@, g)]
            r == [s EXCEPT ![i] = g]
            u == Ghost(t, v)
<1>0. t \in Trees /\ Shaped(t) /\ v \in Nodes /\ Screen \in Nodes /\ Screen # NoView /\ t.parent[v] = Screen
  BY ViewsAssumption DEF WellTrees, Shaped, Nodes, Views
<1>1. g \in Ghosts /\ t.parent[g] = NoView
  BY DEF Spare
<1>2. u = SetFlags(there, g, {"dirty_all"}, {"dirty_all", "solid"})
  BY DEF Ghost
<1>. HIDE DEF g
<1>3. g \in Nodes /\ g # Screen /\ g \notin On(t) /\ g # v /\ g \notin Windows
  BY <1>0, <1>1, ViewsAssumption DEF Shaped, On, ToSet, Nodes, Views
<1>4. /\ i \in 1 .. Len(s) + 1 /\ (i \in DOMAIN s <=> v \in ToSet(s))
      /\ (v \in ToSet(s) => s[i] = v)
  BY <1>0, PlaceIs DEF On
<1>5. s \in Seq(Windows \cup Ghosts) /\ NoRepeats(s) /\ g \notin ToSet(s)
  BY <1>0, <1>3 DEF Shaped, On
<1>6. there = [t EXCEPT !.parent[g] = Screen, !.box[g] = t.box[v], !.kids[Screen] = r, !.temps = Append(@, g)]
  BY <1>0
<1>. HIDE DEF i, s
<1>7. /\ r \in Seq(Windows \cup Ghosts) /\ Len(r) = Len(s) /\ DOMAIN r = DOMAIN s
      /\ \A j \in DOMAIN r : r[j] = IF j = i THEN g ELSE s[j]
  <2>1. Len(s) \in Nat /\ DOMAIN s = 1 .. Len(s) /\ \A j \in 1 .. Len(s) : s[j] \in Windows \cup Ghosts
    BY <1>5
  <2>2. DOMAIN r = 1 .. Len(s) /\ \A j \in 1 .. Len(s) : r[j] = IF j = i THEN g ELSE s[j]
    BY <2>1
  <2>3. r \in [1 .. Len(s) -> Windows \cup Ghosts]
    <3>1. r = [j \in 1 .. Len(s) |-> r[j]]
      BY <2>1
    <3>2. \A j \in 1 .. Len(s) : r[j] \in Windows \cup Ghosts
      BY <1>1, <2>1, <2>2
    <3>. HIDE DEF r
    <3>. QED  BY <3>1, <3>2
  <2>. HIDE DEF r
  <2>. QED  BY <2>1, <2>2, <2>3
<1>. HIDE DEF r
<1>8. NoRepeats(r)
  BY <1>5, <1>7 DEF NoRepeats, ToSet
<1>9. v \notin ToSet(r) /\ ToSet(r) \subseteq ToSet(s) \cup {g}
  <2>1. ASSUME NEW j \in DOMAIN r
        PROVE  r[j] # v /\ r[j] \in ToSet(s) \cup {g}
    BY <1>3, <1>4, <1>5, <1>7 DEF NoRepeats, ToSet
  <2>. QED  BY <2>1 DEF ToSet
<1>9a. ToSet(s) \ {v} \subseteq ToSet(r)
  BY <1>4, <1>7 DEF ToSet
<1>10. r \in Seq(Nodes) /\ t.box[v] \in Boxes /\ Append(t.temps, g) \in Seq(Ghosts)
  <2>1. r \in Seq(Nodes)
    BY <1>7 DEF Nodes, Views
  <2>2. t.box[v] \in Boxes /\ t.temps \in Seq(Ghosts)
    BY <1>0 DEF Trees
  <2>. QED  BY <1>1, <2>1, <2>2
<1>11. there \in Trees /\ there.kids = [t.kids EXCEPT ![Screen] = r]
       /\ \A n \in Nodes : there.parent[n] = IF n = g THEN Screen ELSE t.parent[n]
  <2>. DEFINE np == [t.parent EXCEPT ![g] = Screen]
              nk == [t.kids EXCEPT ![Screen] = r]
              nb == [t.box EXCEPT ![g] = t.box[v]]
              nt == Append(t.temps, g)
  <2>1. there = [t EXCEPT !.parent = np, !.box = nb, !.kids = nk, !.temps = nt]
    BY <1>6
  <2>2. /\ np \in [Nodes -> Nodes \cup {NoView}] /\ nk \in [Nodes -> Seq(Nodes)]
        /\ nb \in [Nodes -> Boxes] /\ nt \in Seq(Ghosts)
    BY <1>0, <1>3, <1>10 DEF Trees
  <2>3. \A n \in Nodes : np[n] = IF n = g THEN Screen ELSE t.parent[n]
    BY <1>0 DEF Trees
  <2>. HIDE DEF there, np, nb, nt, nk
  <2>4. there \in Trees /\ there.kids = nk /\ there.parent = np
    BY <1>0, <2>1, <2>2 DEF Trees
  <2>. QED  BY <2>3, <2>4 DEF nk
<1>. HIDE DEF there
<1>12. u \in Trees /\ Same(there, u)
  <2>1. {"dirty_all"} \in SUBSET Flags
    BY DEF Flags
  <2>. HIDE DEF u
  <2>. QED  BY <1>2, <1>3, <1>11, <2>1, SetFlagsTree
<1>. HIDE DEF u
<1>13. /\ u.kids = [t.kids EXCEPT ![Screen] = r]
       /\ \A n \in Nodes : u.parent[n] = IF n = g THEN Screen ELSE t.parent[n]
  BY <1>11, <1>12 DEF Same
<1>14. \A j \in DOMAIN r : u.parent[r[j]] = Screen
  <2>1. ASSUME NEW j \in DOMAIN r
        PROVE  u.parent[r[j]] = Screen
    <3>1. (r[j] \in ToSet(s) \/ r[j] = g) /\ r[j] \in Nodes
      BY <1>9, <1>10, SMTT(30) DEF ToSet
    <3>2. r[j] \in ToSet(s) => t.parent[r[j]] = Screen
      BY <1>0 DEF Shaped, ToSet, s
    <3>. QED  BY <1>13, <3>1, <3>2
  <2>. QED  BY <2>1
<1>15. /\ \A n \in Nodes \ (Windows \cup Ghosts) : u.parent[n] = t.parent[n]
       /\ \A n \in Windows \cup Ghosts : u.parent[n] \in {NoView, Screen}
  BY <1>0, <1>1, <1>13 DEF Shaped, Nodes, Views
<1>16. u \in WellTrees /\ On(u) = ToSet(r)
  BY <1>7, <1>8, <1>12, <1>13, <1>14, <1>15, Reshaped
<1>17. u.kids[Screen] = r /\ u.parent[v] = Screen
  BY <1>0, <1>3, <1>13 DEF Trees
<1>. QED  BY <1>1, <1>7, <1>9, <1>9a, <1>16, <1>17 DEF u, On, s

\* Taking a window away: a stand-in is left in its place.
LEMMA HideTree ==
  ASSUME NEW t \in WellTrees, NEW v \in Windows, Spare(t)
  PROVE  /\ Sub(Hide(t, v), v) \in WellTrees
         /\ On(Sub(Hide(t, v), v)) \subseteq (On(t) \ {v}) \cup Ghosts
         /\ On(t) \ {v} \subseteq On(Sub(Hide(t, v), v))
<1>. DEFINE u == Hide(t, v)
<1>1. u \in WellTrees /\ On(u) \subseteq On(t) \cup Ghosts /\ On(t) \ {v} \subseteq On(u)
  BY GhostTree DEF Hide
<1>. HIDE DEF u
<1>2. Sub(u, v) \in WellTrees /\ On(Sub(u, v)) = On(u) \ {v}
  BY <1>1, SubTree
<1>3. v \notin Ghosts
  BY ViewsAssumption
<1>. QED  BY <1>1, <1>2, <1>3 DEF u

LEMMA ToBackTree ==
  ASSUME NEW t \in WellTrees, NEW v \in Windows, Spare(t)
  PROVE  /\ ToBack(t, v) \in WellTrees
         /\ On(ToBack(t, v)) \subseteq On(t) \cup Ghosts \cup {v}
         /\ On(t) \subseteq On(ToBack(t, v))
<1>. DEFINE s == t.kids[Screen]
            me == PlaceOf(t, v)
            B == {j \in DOMAIN s : PlaceOf(t, s[j]) >= me /\ Has(t, s[j], "at_back")}
            back == IF B = {} THEN Len(s) + 1 ELSE CHOOSE j \in B : \A k \in B : j <= k
            h == Ghost(t, v)
            r == InsertAt(h.kids[Screen], back, v)
            u == [h EXCEPT !.kids[Screen] = r]
<1>0. t \in Trees /\ Shaped(t) /\ v \in Nodes /\ Screen \in Nodes /\ Screen # NoView
      /\ t.parent[v] \in {NoView, Screen}
  BY ViewsAssumption DEF WellTrees, Shaped, Nodes, Views
<1>1. t.parent[v] = Screen => ToBack(t, v) \in {t, u}
  BY DEF ToBack, FirstIndex
<1>2. t.parent[v] = NoView => ToBack(t, v) = t
  BY DEF ToBack
<1>3. Len(s) \in Nat /\ DOMAIN s = 1 .. Len(s)
  BY <1>0 DEF Shaped
<1>4. back \in 1 .. Len(s) + 1
  <2>1. B \in SUBSET (1 .. Len(s))
    BY <1>3
  <2>. HIDE DEF B, s
  <2>. QED  BY <1>3, <2>1, FirstPlace
<1>5. ASSUME t.parent[v] = Screen
      PROVE  u \in WellTrees /\ On(u) \subseteq On(t) \cup Ghosts \cup {v} /\ On(t) \subseteq On(u)
  <2>1. /\ h \in WellTrees /\ v \notin On(h) /\ On(h) \subseteq On(t) \cup Ghosts
        /\ On(t) \ {v} \subseteq On(h)
        /\ Len(h.kids[Screen]) = Len(s) /\ h.parent[v] = Screen
    BY <1>0, <1>5, GhostTree
  <2>. HIDE DEF h, back, s
  <2>2. /\ h \in Trees /\ Shaped(h) /\ h.kids[Screen] \in Seq(Windows \cup Ghosts) /\ NoRepeats(h.kids[Screen])
        /\ v \notin ToSet(h.kids[Screen]) /\ back \in 1 .. Len(h.kids[Screen]) + 1
    BY <1>4, <2>1 DEF WellTrees, Shaped, On
  <2>3. r \in Seq(Windows \cup Ghosts) /\ NoRepeats(r) /\ ToSet(r) = ToSet(h.kids[Screen]) \cup {v}
    BY <2>2, Inserted
  <2>. HIDE DEF r
  <2>4. r \in Seq(Nodes)
    BY <2>3 DEF Nodes, Views
  <2>5. u \in Trees /\ u.kids = [h.kids EXCEPT ![Screen] = r] /\ u.parent = h.parent
    BY <2>2, <2>4 DEF Trees
  <2>. HIDE DEF u
  <2>6. \A j \in DOMAIN r : u.parent[r[j]] = Screen
    <3>1. ASSUME NEW j \in DOMAIN r
          PROVE  u.parent[r[j]] = Screen
      <4>1. r[j] \in ToSet(h.kids[Screen]) \/ r[j] = v
        BY <2>3 DEF ToSet
      <4>2. r[j] \in ToSet(h.kids[Screen]) => h.parent[r[j]] = Screen
        BY <2>2 DEF Shaped, ToSet
      <4>. QED  BY <2>1, <2>5, <4>1, <4>2
    <3>. QED  BY <3>1
  <2>7. \A n \in Windows \cup Ghosts : u.parent[n] \in {NoView, Screen}
    BY <2>2, <2>5 DEF Shaped
  <2>8. u \in WellTrees /\ On(u) = ToSet(r)
    BY <2>1, <2>3, <2>5, <2>6, <2>7, Reshaped
  <2>. QED  BY <2>1, <2>3, <2>8 DEF On
<1>6. t \in WellTrees /\ On(t) \subseteq On(t) \cup Ghosts \cup {v}
  OBVIOUS
<1>. HIDE DEF u
<1>. QED  BY <1>0, <1>1, <1>2, <1>5, <1>6

LEMMA ToFrontTree ==
  ASSUME NEW t \in WellTrees, NEW v \in Windows
  PROVE  /\ ToFront(t, v) \in WellTrees
         /\ On(ToFront(t, v)) \subseteq On(t) \cup {v}
         /\ On(t) \subseteq On(ToFront(t, v))
<1>. DEFINE s == t.kids[Screen]
            me == PlaceOf(t, v)
            F == {j \in DOMAIN s : s[j] = v \/ ~Has(t, s[j], "at_front")}
            front == IF F = {} THEN Len(s) + 1 ELSE CHOOSE j \in F : \A k \in F : j <= k
            rest == RemoveAt(s, me)
            r == InsertAt(rest, front, v)
            u == [t EXCEPT !.kids[Screen] = r]
<1>0. t \in Trees /\ Shaped(t) /\ v \in Nodes /\ Screen \in Nodes /\ Screen # NoView
      /\ t.parent[v] \in {NoView, Screen}
  BY ViewsAssumption DEF WellTrees, Shaped, Nodes, Views
<1>1. t.parent[v] = Screen => ToFront(t, v) \in {t, DirtyAll(u, v)}
  BY DEF ToFront, FirstIndex
<1>2. t.parent[v] = NoView => ToFront(t, v) = t
  BY DEF ToFront
<1>3. Len(s) \in Nat /\ DOMAIN s = 1 .. Len(s) /\ s \in Seq(Windows \cup Ghosts) /\ NoRepeats(s)
  BY <1>0 DEF Shaped
<1>4. front \in 1 .. Len(s) + 1 /\ (me \in F => front <= me)
  <2>1. F \in SUBSET (1 .. Len(s))
    BY <1>3
  <2>2. front \in 1 .. Len(s) + 1
    <3>. HIDE DEF F, s
    <3>. QED  BY <1>3, <2>1, FirstPlace
  <2>3. me \in F => front <= me
    <3>. HIDE DEF F, s, me
    <3>1. F # {} => \A k \in F : (CHOOSE i \in F : \A j \in F : i <= j) <= k
      BY <1>3, <2>1, ChosenLeast
    <3>. QED  BY <3>1
  <2>. HIDE DEF front, F, me
  <2>. QED  BY <2>2, <2>3
<1>5. ASSUME t.parent[v] = Screen
      PROVE  /\ DirtyAll(u, v) \in WellTrees
             /\ On(DirtyAll(u, v)) \subseteq On(t) \cup {v}
             /\ On(t) \subseteq On(DirtyAll(u, v))
  <2>1. /\ me \in 1 .. Len(s) + 1 /\ (me \in DOMAIN s <=> v \in ToSet(s))
        /\ (v \in ToSet(s) => s[me] = v)
    BY <1>0, <1>5, PlaceIs DEF On
  <2>2. me \in DOMAIN s => me \in F
    BY <2>1, SMTT(30)
  <2>. HIDE DEF front, me, F, s
  <2>3. /\ rest \in Seq(Windows \cup Ghosts) /\ NoRepeats(rest)
        /\ (me \notin DOMAIN s => rest = s)
        /\ (me \in DOMAIN s => ToSet(rest) = ToSet(s) \ {v} /\ Len(rest) = Len(s) - 1)
    BY <1>3, <2>1, Removed, ZenonT(30)
  <2>. HIDE DEF rest
  <2>4. v \notin ToSet(rest) /\ ToSet(rest) \subseteq ToSet(s) /\ ToSet(s) \ {v} \subseteq ToSet(rest)
    BY <2>1, <2>3
  <2>5. front \in 1 .. Len(rest) + 1
    <3>1. CASE me \in DOMAIN s
      <4>1. front <= me /\ front \in 1 .. Len(s) + 1
        BY <1>4, <2>2, <3>1
      <4>2. me \in 1 .. Len(s)
        BY <1>3, <3>1
      <4>3. Len(rest) = Len(s) - 1
        BY <2>3, <3>1
      <4>. QED  BY <1>3, <4>1, <4>2, <4>3
    <3>2. CASE me \notin DOMAIN s
      BY <1>4, <2>3, <3>2
    <3>. QED  BY <3>1, <3>2
  <2>6. r \in Seq(Windows \cup Ghosts) /\ NoRepeats(r) /\ ToSet(r) = ToSet(rest) \cup {v}
    BY <2>3, <2>4, <2>5, Inserted
  <2>. HIDE DEF r
  <2>7. r \in Seq(Nodes)
    BY <2>6 DEF Nodes, Views
  <2>8. u \in Trees /\ u.kids = [t.kids EXCEPT ![Screen] = r] /\ u.parent = t.parent
    BY <1>0, <2>7 DEF Trees
  <2>. HIDE DEF u
  <2>9. \A j \in DOMAIN r : u.parent[r[j]] = Screen
    <3>1. ASSUME NEW j \in DOMAIN r
          PROVE  u.parent[r[j]] = Screen
      <4>1. r[j] \in ToSet(s) \/ r[j] = v
        BY <2>4, <2>6 DEF ToSet
      <4>2. r[j] \in ToSet(s) => t.parent[r[j]] = Screen
        BY <1>0 DEF Shaped, ToSet, s
      <4>. QED  BY <1>5, <2>8, <4>1, <4>2
    <3>. QED  BY <3>1
  <2>10. \A n \in Windows \cup Ghosts : u.parent[n] \in {NoView, Screen}
    BY <1>0, <2>8 DEF Shaped
  <2>11. u \in WellTrees /\ On(u) = ToSet(r)
    BY <2>6, <2>8, <2>9, <2>10, Reshaped
  <2>12. DirtyAll(u, v) \in Trees /\ Same(u, DirtyAll(u, v))
    BY <1>0, <2>8, DirtyAllTree
  <2>13. DirtyAll(u, v) \in WellTrees /\ On(DirtyAll(u, v)) = On(u)
    BY <2>11, <2>12, SameShape
  <2>. QED  BY <2>4, <2>6, <2>11, <2>13 DEF On, s
<1>6. t \in WellTrees /\ On(t) \subseteq On(t) \cup {v}
  OBVIOUS
<1>. HIDE DEF u
<1>. QED  BY <1>0, <1>1, <1>2, <1>5, <1>6

\* A tree without some of the stand-ins of t.
Dropped(t) == {u \in WellTrees : /\ On(u) \subseteq On(t) /\ On(t) \ Ghosts \subseteq On(u)
                                /\ u.box = t.box /\ u.flags = t.flags}

LEMMA DropWalk ==
  ASSUME NEW t \in WellTrees
  PROVE  Walk(t.temps, t, Sub) \in Dropped(t)
<1>. DEFINE A == Dropped(t)
            s == t.temps
            n == Len(s)
            step == [z \in (1 .. n) \X A |-> Sub(z[2], s[z[1]])]
            Good(f) == f = [i \in 0 .. n |-> IF i = 0 THEN t ELSE Sub(f[i - 1], s[i])]
            walk == CHOOSE f : Good(f)
<1>1. n \in Nat /\ t \in A /\ \A i \in 1 .. n : s[i] \in Ghosts
  <2>1. s \in Seq(Ghosts)
    BY DEF WellTrees, Trees
  <2>2. t \in A
    BY DEF Dropped
  <2>. HIDE DEF s
  <2>. QED  BY <2>1, <2>2
<1>2. \A i \in 1 .. n, u \in A : Sub(u, s[i]) \in A
  <2>1. ASSUME NEW i \in 1 .. n, NEW u \in A
        PROVE  Sub(u, s[i]) \in A
    <3>1. s[i] \in Ghosts /\ u \in WellTrees /\ u \in Trees /\ u \in Dropped(t)
      BY <1>1, <2>1 DEF Dropped, WellTrees
    <3>. HIDE DEF s
    <3>2. Sub(u, s[i]) \in WellTrees /\ On(Sub(u, s[i])) = On(u) \ {s[i]}
      BY <3>1, SubTree
    <3>3. Sub(u, s[i]).box = u.box /\ Sub(u, s[i]).flags = u.flags
      BY <3>1 DEF Sub, Trees
    <3>. QED  BY <3>1, <3>2, <3>3 DEF Dropped
  <2>. QED  BY <2>1
<1>3. Walk(s, t, Sub) = walk[n]
  BY DEF Walk
<1>. HIDE DEF A, s
<1>4. step \in Steps(n, A)
  BY <1>2 DEF Steps
<1>5. PICK f \in [0 .. n -> A] : IsWalk(f, n, t, step)
  <2>. HIDE DEF n, step
  <2>. QED  BY <1>1, <1>4, WalkExists
<1>6. Good(f)
  <2>1. \A i \in 0 .. n : i # 0 => i \in 1 .. n /\ i - 1 \in 0 .. n
    BY <1>1
  <2>. HIDE DEF n
  <2>2. \A i \in 1 .. n : i - 1 \in 0 .. n => step[<<i, f[i - 1]>>] = Sub(f[i - 1], s[i])
    OBVIOUS
  <2>. HIDE DEF step
  <2>. QED  BY <1>5, <2>1, <2>2 DEF IsWalk
<1>7. Good(walk)
  <2>. HIDE DEF Good
  <2>. QED  BY <1>6
<1>. HIDE DEF walk
<1>8. walk[0] = t /\ \A i \in 1 .. n : walk[i] = Sub(walk[i - 1], s[i])
  <2>1. /\ 0 \in 0 .. n
        /\ \A i \in 1 .. n : i \in 0 .. n /\ i # 0
    BY <1>1
  <2>2. \A i \in 0 .. n : walk[i] = IF i = 0 THEN t ELSE Sub(walk[i - 1], s[i])
    <3>. HIDE DEF n
    <3>. QED  BY <1>7, Zenon
  <2>. HIDE DEF n
  <2>. QED  BY <2>1, <2>2
<1>9. \A i \in 1 .. n : walk[i - 1] \in A => walk[i] \in A
  <2>. HIDE DEF n
  <2>. QED  BY <1>2, <1>8
<1>10. \A i \in 0 .. n : walk[i] \in A
  <2>. HIDE DEF n
  <2>. QED  BY <1>1, <1>8, <1>9, WalkStays
<1>11. n \in 0 .. n
  BY <1>1
<1>. QED  BY <1>3, <1>10, <1>11 DEF A, s

LEMMA DropTree ==
  ASSUME NEW t \in WellTrees
  PROVE  /\ DropTemps(t) \in WellTrees /\ On(DropTemps(t)) \subseteq On(t)
         /\ On(t) \ Ghosts \subseteq On(DropTemps(t)) /\ Placed(t, DropTemps(t))
         /\ Backdrop(t) => Backdrop(DropTemps(t))
<1>. DEFINE u == Walk(t.temps, t, Sub)
            gone == {t.temps[i] : i \in DOMAIN t.temps}
            d == DropTemps(t)
<1>1. /\ u \in WellTrees /\ On(u) \subseteq On(t) /\ On(t) \ Ghosts \subseteq On(u)
      /\ u.box = t.box /\ u.flags = t.flags
  BY DropWalk DEF Dropped
<1>1a. \A w \in {Screen} \cup Windows : w \notin gone /\ w \in Nodes
  <2>1. t.temps \in Seq(Ghosts)
    BY DEF WellTrees, Trees
  <2>. QED  BY <2>1, ViewsAssumption DEF Nodes, Views
<1>. DEFINE lit == [v \in Nodes |-> IF v \in gone THEN {"solid"} ELSE u.flags[v]]
            put == [v \in Nodes |-> IF v \in gone THEN Box(0, 0, 0, 0) ELSE u.box[v]]
<1>2. d = [u EXCEPT !.temps = <<>>, !.flags = lit, !.box = put]
  BY <1>1 DEF DropTemps, WellTrees, Trees
<1>. HIDE DEF u, gone, d
<1>3. Box(0, 0, 0, 0) \in Boxes /\ {"solid"} \in SUBSET Flags
  BY DEF Box, Boxes, Flags
<1>4. u \in Trees
  BY <1>1 DEF WellTrees
<1>4a. lit \in [Nodes -> SUBSET Flags] /\ put \in [Nodes -> Boxes] /\ <<>> \in Seq(Ghosts)
  BY <1>3, <1>4 DEF Trees
<1>4b. /\ \A w \in {Screen} \cup Windows : put[w] = u.box[w]
       /\ lit[Screen] = u.flags[Screen]
  BY <1>1a
<1>. HIDE DEF lit, put
<1>5. d \in Trees /\ d.kids = u.kids /\ d.parent = u.parent /\ d.box = put /\ d.flags = lit
  BY <1>2, <1>4, <1>4a DEF Trees
<1>6. Shaped(d) /\ On(d) = On(u)
  BY <1>1, <1>5 DEF WellTrees, Shaped, On
<1>. QED  BY <1>1, <1>4b, <1>5, <1>6 DEF WellTrees, Placed, Backdrop, d

-----------------------------------------------------------------------------
(* The ways up from a view, and the walks down from the screen.            *)

\* The way up from a view: no way is longer than from a control to the screen.
LEMMA PathIs ==
  ASSUME NEW t \in WellTrees, NEW v \in Nodes
  PROVE  PathUp(t, v) = IF t.parent[v] = NoView THEN <<v>> ELSE <<v>> \o PathUp(t, t.parent[v])
<1>. DEFINE p(u) == t.parent[u]
            last(u) == <<u>>
            next(u) == IF p(u) = NoView THEN last(u) ELSE <<u>> \o last(p(u))
            third(u) == IF p(u) = NoView THEN last(u) ELSE <<u>> \o next(p(u))
            f == [u \in Nodes |-> third(u)]
            Good(g) == g = [u \in Nodes |-> IF p(u) = NoView THEN <<u>> ELSE <<u>> \o g[p(u)]]
            path == CHOOSE g : Good(g)
<1>0. t \in Trees /\ Shaped(t)
  BY DEF WellTrees
<1>1. ASSUME NEW u \in Nodes, p(u) # NoView
      PROVE  p(u) \in Nodes /\ (p(p(u)) # NoView => p(p(u)) = Screen /\ p(Screen) = NoView)
  <2>1. p(u) \in Nodes /\ p(Screen) = NoView
    BY <1>0, <1>1 DEF Trees, Shaped
  <2>2. CASE u \in Windows \cup Ghosts
    BY <1>0, <1>1, <2>1, <2>2 DEF Shaped
  <2>3. CASE u \in Controls
    <3>1. PICK w \in Windows : Held[w] = u
      BY <2>3, GuiAssumption
    <3>2. p(u) = w /\ (p(w) = NoView \/ p(w) = Screen)
      BY <1>0, <3>1 DEF Shaped
    <3>. QED  BY <2>1, <3>2
  <2>4. CASE u = Screen
    BY <1>1, <2>1, <2>4
  <2>. QED  BY <2>2, <2>3, <2>4 DEF Nodes, Views
<1>. HIDE DEF p, last
<1>2. \A u \in Nodes : p(u) # NoView => third(p(u)) = next(p(u))
  BY <1>1
<1>. HIDE DEF next
<1>3. Good(f)
  <2>1. \A u \in Nodes : f[u] = third(u) /\ (p(u) # NoView => f[p(u)] = third(p(u)))
    BY <1>1
  <2>2. \A u \in Nodes : third(u) = IF p(u) = NoView THEN <<u>> ELSE <<u>> \o f[p(u)]
    BY <1>2, <2>1 DEF last
  <2>. QED  BY <2>2, Zenon
<1>4. Good(path)
  <2>. HIDE DEF Good, f
  <2>. QED  BY <1>3
<1>. HIDE DEF path
<1>5. \A u \in Nodes : path[u] = IF p(u) = NoView THEN <<u>> ELSE <<u>> \o path[p(u)]
  BY <1>4, Zenon
<1>6. \A u : PathUp(t, u) = path[u]
  BY DEF PathUp, path, p
<1>. QED  BY <1>5, <1>6 DEF p

\* The windows and controls that can be seen.
Seen(t) == {Screen} \cup On(t) \cup {Held[w] : w \in On(t) \cap Windows}

LEMMA OnTypes ==
  ASSUME NEW t \in WellTrees
  PROVE  On(t) \subseteq Windows \cup Ghosts /\ Seen(t) \subseteq Nodes
<1>1. On(t) \subseteq Windows \cup Ghosts
  BY DEF WellTrees, Shaped, On, ToSet
<1>. QED  BY <1>1, GuiAssumption DEF Seen, Nodes, Views

LEMMA SameLists ==
  ASSUME NEW A, NEW s \in Seq(A), NEW t \in Seq(A), Len(s) = Len(t), \A i \in 1 .. Len(s) : s[i] = t[i]
  PROVE  s = t
OBVIOUS

LEMMA Tuples ==
  ASSUME NEW A, NEW a \in A, NEW b \in A, NEW c \in A
  PROVE  <<a>> \o <<b>> = <<a, b>> /\ <<a>> \o <<b, c>> = <<a, b, c>>
<1>1. <<a>> \o <<b>> = <<a, b>>
  <2>. DEFINE two == <<a>> \o <<b>>
              pair == <<a, b>>
  <2>1. two \in Seq(A) /\ Len(two) = 2 /\ two[1] = a /\ two[2] = b
    OBVIOUS
  <2>2. pair \in Seq(A) /\ Len(pair) = 2 /\ pair[1] = a /\ pair[2] = b
    OBVIOUS
  <2>. HIDE DEF two, pair
  <2>3. two = pair
    BY <2>1, <2>2, SameLists
  <2>. QED  BY <2>3 DEF two, pair
<1>2. <<a>> \o <<b, c>> = <<a, b, c>>
  <2>. DEFINE three == <<a>> \o <<b, c>>
              triple == <<a, b, c>>
  <2>1. three \in Seq(A) /\ Len(three) = 3 /\ three[1] = a /\ three[2] = b /\ three[3] = c
    OBVIOUS
  <2>2. triple \in Seq(A) /\ Len(triple) = 3 /\ triple[1] = a /\ triple[2] = b /\ triple[3] = c
    OBVIOUS
  <2>. HIDE DEF three, triple
  <2>3. three = triple
    BY <2>1, <2>2, SameLists
  <2>. QED  BY <2>3 DEF three, triple
<1>. QED  BY <1>1, <1>2

LEMMA Paths ==
  ASSUME NEW t \in WellTrees, NEW v \in Nodes
  PROVE  /\ PathUp(t, v) \in Seq(Nodes)
         /\ v = Screen => PathUp(t, v) = <<Screen>>
         /\ v \in Windows \cup Ghosts => PathUp(t, v) \in {<<v>>, <<v, Screen>>}
         /\ \A w \in Windows : v = Held[w] => PathUp(t, v) \in {<<v, w>>, <<v, w, Screen>>}
<1>0. t \in Trees /\ Shaped(t) /\ Screen \in Nodes /\ Screen # NoView /\ NoView \notin Nodes
  BY ViewsAssumption DEF WellTrees, Nodes, Views
<1>1. PathUp(t, Screen) = <<Screen>>
  BY <1>0, PathIs DEF Shaped
<1>2. \A u \in Windows \cup Ghosts : PathUp(t, u) \in {<<u>>, <<u, Screen>>}
  <2>1. ASSUME NEW u \in Windows \cup Ghosts
        PROVE  PathUp(t, u) \in {<<u>>, <<u, Screen>>}
    <3>1. u \in Nodes /\ (t.parent[u] = NoView \/ t.parent[u] = Screen)
      BY <1>0 DEF Shaped, Nodes, Views
    <3>2. PathUp(t, u) = <<u>> \/ PathUp(t, u) = <<u>> \o <<Screen>>
      BY <1>0, <1>1, <3>1, PathIs
    <3>. QED  BY <3>2
  <2>. QED  BY <2>1
<1>3. \A w \in Windows : PathUp(t, Held[w]) \in {<<Held[w], w>>, <<Held[w], w, Screen>>}
  <2>1. ASSUME NEW w \in Windows
        PROVE  PathUp(t, Held[w]) \in {<<Held[w], w>>, <<Held[w], w, Screen>>}
    <3>1. Held[w] \in Nodes /\ t.parent[Held[w]] = w /\ w # NoView /\ w \in Nodes
      BY <1>0, GuiAssumption DEF Shaped, Nodes, Views
    <3>2. PathUp(t, Held[w]) = <<Held[w]>> \o PathUp(t, w)
      BY <3>1, PathIs
    <3>3. PathUp(t, w) = <<w>> \/ PathUp(t, w) = <<w, Screen>>
      BY <1>2
    <3>4. <<Held[w]>> \o <<w>> = <<Held[w], w>> /\ <<Held[w]>> \o <<w, Screen>> = <<Held[w], w, Screen>>
      BY <1>0, <3>1, Tuples
    <3>. QED  BY <3>2, <3>3, <3>4
  <2>. QED  BY <2>1
<1>4. v \in Windows \cup Ghosts \/ v = Screen \/ \E w \in Windows : v = Held[w]
  BY GuiAssumption DEF Nodes, Views
<1>5. PathUp(t, v) \in Seq(Nodes)
  <2>0. \A a \in Nodes, b \in Nodes, c \in Nodes : <<a>> \in Seq(Nodes) /\ <<a, b>> \in Seq(Nodes) /\ <<a, b, c>> \in Seq(Nodes)
    OBVIOUS
  <2>1. CASE v = Screen
    BY <1>0, <1>1, <2>1
  <2>2. CASE v \in Windows \cup Ghosts
    BY <1>0, <1>2, <2>0, <2>2
  <2>3. ASSUME NEW w \in Windows, v = Held[w]
        PROVE  PathUp(t, v) \in Seq(Nodes)
    <3>1. w \in Nodes
      BY DEF Nodes, Views
    <3>. QED  BY <1>0, <1>3, <2>0, <2>3, <3>1
  <2>. QED  BY <1>4, <2>1, <2>2, <2>3
<1>. QED  BY <1>1, <1>2, <1>3, <1>5

\* Who is told: the window that the view is, or is in; a window that can be
\* seen if the view can be seen.
LEMMA Owners ==
  ASSUME NEW t \in WellTrees, NEW v \in Nodes
  PROVE  /\ FindOwner(t, v) \in Windows \cup {NoView}
         /\ v \in Seen(t) => FindOwner(t, v) \in On(t) \cup {NoView}
         /\ \A w \in Windows : FindOwner(t, v) = w <=> v \in {w, Held[w]}
<1>. DEFINE path == PathUp(t, v)
            S == {i \in DOMAIN path : path[i] \in Windows}
<1>0. FindOwner(t, v) = LET i == IF S = {} THEN Len(path) + 1 ELSE CHOOSE i \in S : \A j \in S : i <= j
                        IN  IF i > Len(path) THEN NoView ELSE path[i]
  BY DEF FindOwner, FirstIndex
<1>1. path \in Seq(Nodes) /\ DOMAIN path = 1 .. Len(path) /\ Len(path) \in Nat
  BY Paths
<1>2. /\ Screen \notin Windows /\ \A w \in Windows : Held[w] \notin Windows /\ Held[w] \notin Ghosts /\ Held[w] # Screen
      /\ Windows \cap Ghosts = {} /\ Screen \notin Ghosts /\ NoView \notin Windows
      /\ \A a \in Windows, b \in Windows : Held[a] = Held[b] => a = b
  BY GuiAssumption, ViewsAssumption DEF Nodes, Views
<1>3. S = {} => FindOwner(t, v) = NoView
  <2>1. Len(path) + 1 > Len(path)
    BY <1>1
  <2>. HIDE DEF path, S
  <2>. QED  BY <1>0, <2>1
<1>4. ASSUME NEW k, S = {k}
      PROVE  FindOwner(t, v) = path[k] /\ path[k] \in Windows
  <2>1. k \in DOMAIN path /\ path[k] \in Windows /\ k <= Len(path) /\ k \in Int
    BY <1>1, <1>4
  <2>2. (CHOOSE i \in S : \A j \in S : i <= j) = k
    BY <1>4, <2>1
  <2>. HIDE DEF path, S
  <2>. QED  BY <1>0, <1>1, <1>4, <2>1, <2>2
<1>5. CASE v = Screen
  <2>1. path = <<Screen>>
    BY <1>5, Paths
  <2>2. S = {}
    BY <1>2, <2>1
  <2>. QED  BY <1>2, <1>3, <1>5, <2>2
<1>6. CASE v \in Ghosts
  <2>1. path = <<v>> \/ path = <<v, Screen>>
    BY <1>6, Paths
  <2>2. S = {}
    BY <1>2, <1>6, <2>1
  <2>. QED  BY <1>2, <1>3, <1>6, <2>2
<1>7. CASE v \in Windows
  <2>1. path = <<v>> \/ path = <<v, Screen>>
    BY <1>7, Paths
  <2>2. S = {1} /\ path[1] = v
    BY <1>2, <1>7, <2>1
  <2>3. FindOwner(t, v) = v
    BY <1>4, <2>2
  <2>4. v \in Seen(t) => v \in On(t)
    BY <1>2, <1>7 DEF Seen
  <2>. QED  BY <1>2, <1>7, <2>3, <2>4
<1>8. ASSUME NEW w \in Windows, v = Held[w]
      PROVE  FindOwner(t, v) = w /\ (v \in Seen(t) => w \in On(t))
  <2>1. path = <<v, w>> \/ path = <<v, w, Screen>>
    BY <1>8, Paths
  <2>2. S = {2} /\ path[2] = w
    BY <1>2, <1>8, <2>1
  <2>3. FindOwner(t, v) = w
    BY <1>4, <2>2
  <2>4. v \in Seen(t) => w \in On(t)
    BY <1>2, <1>8, OnTypes DEF Seen
  <2>. QED  BY <2>3, <2>4
<1>9. v \in Windows \cup Ghosts \/ v = Screen \/ \E w \in Windows : v = Held[w]
  BY GuiAssumption DEF Nodes, Views
<1>. QED  BY <1>2, <1>5, <1>6, <1>7, <1>8, <1>9

LEMMA PlaceWalk ==
  ASSUME NEW t \in WellTrees, NEW v \in Nodes
  PROVE  Place(t, v) \in Int \X Int
<1>. DEFINE A == Int \X Int
            s == PathUp(t, v)
            n == Len(s)
            visit(q, u) == <<q[1] + t.box[u].x, q[2] + t.box[u].y>>
            step == [z \in (1 .. n) \X A |-> visit(z[2], s[z[1]])]
            Good(f) == f = [i \in 0 .. n |-> IF i = 0 THEN <<0, 0>> ELSE visit(f[i - 1], s[i])]
            walk == CHOOSE f : Good(f)
<1>1. n \in Nat /\ <<0, 0>> \in A /\ \A i \in 1 .. n : s[i] \in Nodes
  <2>1. s \in Seq(Nodes)
    BY Paths
  <2>. QED  BY <2>1
<1>2. \A i \in 1 .. n, q \in A : visit(q, s[i]) \in A
  <2>1. \A u \in Nodes : t.box[u].x \in Int /\ t.box[u].y \in Int
    BY DEF WellTrees, Trees, Boxes
  <2>2. ASSUME NEW i \in 1 .. n, NEW q \in A
        PROVE  visit(q, s[i]) \in A
    <3>1. s[i] \in Nodes
      BY <1>1
    <3>. HIDE DEF s
    <3>2. t.box[s[i]].x \in Int /\ t.box[s[i]].y \in Int
      BY <2>1, <3>1
    <3>3. q[1] \in Int /\ q[2] \in Int
      OBVIOUS
    <3>. QED  BY <3>2, <3>3, SMTT(30)
  <2>. QED  BY <2>2
<1>3. Place(t, v) = walk[n]
  BY DEF Place, Walk
<1>. HIDE DEF s, A, visit
<1>4. step \in Steps(n, A)
  BY <1>2 DEF Steps
<1>5. PICK f \in [0 .. n -> A] : IsWalk(f, n, <<0, 0>>, step)
  <2>. HIDE DEF n, step
  <2>. QED  BY <1>1, <1>4, WalkExists
<1>6. Good(f)
  <2>1. \A i \in 0 .. n : i # 0 => i \in 1 .. n /\ i - 1 \in 0 .. n
    BY <1>1
  <2>. HIDE DEF n
  <2>2. \A i \in 1 .. n : i - 1 \in 0 .. n => step[<<i, f[i - 1]>>] = visit(f[i - 1], s[i])
    OBVIOUS
  <2>. HIDE DEF step
  <2>. QED  BY <1>5, <2>1, <2>2 DEF IsWalk
<1>7. Good(walk)
  <2>. HIDE DEF Good
  <2>. QED  BY <1>6
<1>. HIDE DEF walk
<1>8. walk[0] = <<0, 0>> /\ \A i \in 1 .. n : walk[i] = visit(walk[i - 1], s[i])
  <2>1. /\ 0 \in 0 .. n
        /\ \A i \in 1 .. n : i \in 0 .. n /\ i # 0
    BY <1>1
  <2>2. \A i \in 0 .. n : walk[i] = IF i = 0 THEN <<0, 0>> ELSE visit(walk[i - 1], s[i])
    <3>. HIDE DEF n
    <3>. QED  BY <1>7, Zenon
  <2>. HIDE DEF n
  <2>. QED  BY <2>1, <2>2
<1>9. \A i \in 1 .. n : walk[i - 1] \in A => walk[i] \in A
  <2>. HIDE DEF n
  <2>. QED  BY <1>2, <1>8
<1>10. \A i \in 0 .. n : walk[i] \in A
  <2>. HIDE DEF n
  <2>. QED  BY <1>1, <1>8, <1>9, WalkStays
<1>11. n \in 0 .. n
  BY <1>1
<1>. QED  BY <1>3, <1>10, <1>11 DEF A

\* The calls of a walk over the tree: how a list of children is gone through
\* when W gives the calls of each.
Call(way, v) == [going |-> way, view |-> v]
Chained(s, W) == Walk(s, <<>>, LAMBDA calls, u : calls \o W[u])
Through(K, W, v) == <<Call("down", v)>> \o Chained(K[v], W) \o <<Call("up", v)>>

\* How far the calls have come after each child.
IsChain(walk, s, C, W) ==
  /\ walk \in [0 .. Len(s) -> Seq(C)]
  /\ Chained(s, W) = walk[Len(s)]
  /\ walk[0] = <<>>
  /\ \A i \in 1 .. Len(s) : walk[i] = walk[i - 1] \o W[s[i]]

LEMMA ChainWalk ==
  ASSUME NEW A, NEW s \in Seq(A), NEW C, NEW W, \A a \in A : W[a] \in Seq(C)
  PROVE  \E walk : IsChain(walk, s, C, W)
<1>. DEFINE B == Seq(C)
            n == Len(s)
            visit(calls, u) == calls \o W[u]
            step == [z \in (1 .. n) \X B |-> visit(z[2], s[z[1]])]
            Good(f) == f = [i \in 0 .. n |-> IF i = 0 THEN <<>> ELSE visit(f[i - 1], s[i])]
            walk == CHOOSE f : Good(f)
<1>1. n \in Nat /\ <<>> \in B /\ \A i \in 1 .. n : s[i] \in A
  OBVIOUS
<1>2. \A i \in 1 .. n, q \in B : visit(q, s[i]) \in B
  <2>1. \A a \in A, q \in B : visit(q, a) \in B
    OBVIOUS
  <2>. HIDE DEF visit, B
  <2>. QED  BY <1>1, <2>1
<1>3. Chained(s, W) = walk[n]
  BY DEF Chained, Walk
<1>. HIDE DEF B, visit
<1>4. step \in Steps(n, B)
  BY <1>2 DEF Steps
<1>5. PICK f \in [0 .. n -> B] : IsWalk(f, n, <<>>, step)
  <2>. HIDE DEF n, step
  <2>. QED  BY <1>1, <1>4, WalkExists
<1>6. Good(f)
  <2>1. \A i \in 0 .. n : i # 0 => i \in 1 .. n /\ i - 1 \in 0 .. n
    BY <1>1
  <2>. HIDE DEF n
  <2>2. \A i \in 1 .. n : i - 1 \in 0 .. n => step[<<i, f[i - 1]>>] = visit(f[i - 1], s[i])
    OBVIOUS
  <2>. HIDE DEF step
  <2>. QED  BY <1>5, <2>1, <2>2 DEF IsWalk
<1>7. Good(walk)
  <2>. HIDE DEF Good
  <2>. QED  BY <1>6
<1>. HIDE DEF walk
<1>8. walk[0] = <<>> /\ \A i \in 1 .. n : walk[i] = visit(walk[i - 1], s[i])
  <2>1. /\ 0 \in 0 .. n
        /\ \A i \in 1 .. n : i \in 0 .. n /\ i # 0
    BY <1>1
  <2>2. \A i \in 0 .. n : walk[i] = IF i = 0 THEN <<>> ELSE visit(walk[i - 1], s[i])
    <3>. HIDE DEF n
    <3>. QED  BY <1>7, Zenon
  <2>. HIDE DEF n
  <2>. QED  BY <2>1, <2>2
<1>9. \A i \in 1 .. n : walk[i - 1] \in B => walk[i] \in B
  <2>. HIDE DEF n
  <2>. QED  BY <1>2, <1>8
<1>10. \A i \in 0 .. n : walk[i] \in B
  <2>. HIDE DEF n
  <2>. QED  BY <1>1, <1>8, <1>9, WalkStays
<1>11. walk \in [0 .. n -> B]
  <2>1. walk = [i \in 0 .. n |-> walk[i]]
    <3>. DEFINE G(i) == IF i = 0 THEN <<>> ELSE visit(walk[i - 1], s[i])
    <3>1. walk = [i \in 0 .. n |-> G(i)]
      BY <1>7
    <3>. HIDE DEF G, n
    <3>. QED  BY <3>1
  <2>. HIDE DEF n
  <2>. QED  BY <1>10, <2>1
<1>12. \A i \in 1 .. n : walk[i] = walk[i - 1] \o W[s[i]]
  BY <1>8 DEF visit
<1>13. IsChain(walk, s, C, W)
  BY <1>3, <1>8, <1>11, <1>12 DEF B, IsChain
<1>. QED  BY <1>13

LEMMA ChainTyped ==
  ASSUME NEW A, NEW s \in Seq(A), NEW C, NEW W, \A a \in A : W[a] \in Seq(C)
  PROVE  Chained(s, W) \in Seq(C)
<1>1. PICK walk : IsChain(walk, s, C, W)
  BY ChainWalk
<1>2. Len(s) \in 0 .. Len(s)
  OBVIOUS
<1>. QED  BY <1>1, <1>2 DEF IsChain

LEMMA ChainSame ==
  ASSUME NEW A, NEW s \in Seq(A), NEW W, NEW X, \A a \in A : W[a] = X[a]
  PROVE  Chained(s, W) = Chained(s, X)
<1>. DEFINE n == Len(s)
            F(f) == [i \in 0 .. n |-> IF i = 0 THEN <<>> ELSE f[i - 1] \o W[s[i]]]
            G(f) == [i \in 0 .. n |-> IF i = 0 THEN <<>> ELSE f[i - 1] \o X[s[i]]]
<1>1. \A f : F(f) = G(f)
  <2>1. \A i \in 0 .. n : i # 0 => s[i] \in A
    OBVIOUS
  <2>. HIDE DEF n
  <2>. QED  BY <2>1
<1>2. Chained(s, W) = (CHOOSE f : f = F(f))[n] /\ Chained(s, X) = (CHOOSE f : f = G(f))[n]
  BY DEF Chained, Walk
<1>. HIDE DEF F, G, n
<1>3. (CHOOSE f : f = F(f)) = (CHOOSE f : f = G(f))
  <2>1. \A f : (f = F(f)) <=> (f = G(f))
    BY <1>1
  <2>. QED  BY <2>1
<1>. QED  BY <1>2, <1>3

LEMMA ThroughIs ==
  ASSUME NEW K, NEW v, NEW A, K[v] \in Seq(A), NEW W
  PROVE  /\ \A C : (\A a \in A : W[a] \in Seq(C)) /\ Call("down", v) \in C /\ Call("up", v) \in C
                     => Through(K, W, v) \in Seq(C)
         /\ \A X : (\A a \in A : W[a] = X[a]) => Through(K, W, v) = Through(K, X, v)
<1>1. ASSUME NEW C, \A a \in A : W[a] \in Seq(C), Call("down", v) \in C, Call("up", v) \in C
      PROVE  Through(K, W, v) \in Seq(C)
  <2>. DEFINE a == Call("down", v)
              b == Call("up", v)
              m == Chained(K[v], W)
  <2>1. m \in Seq(C)
    BY <1>1, ChainTyped
  <2>2. Through(K, W, v) = <<a>> \o m \o <<b>>
    BY DEF Through
  <2>. HIDE DEF a, b, m
  <2>3. a \in C /\ b \in C
    BY <1>1 DEF a, b
  <2>4. <<a>> \in Seq(C) /\ <<b>> \in Seq(C)
    BY <2>3
  <2>. QED  BY <2>1, <2>2, <2>4
<1>2. ASSUME NEW X, \A a \in A : W[a] = X[a]
      PROVE  Through(K, W, v) = Through(K, X, v)
  <2>1. Chained(K[v], W) = Chained(K[v], X)
    BY <1>2, ChainSame
  <2>. QED  BY <2>1 DEF Through
<1>. QED  BY <1>1, <1>2

\* The children of a tree, whichever way they are turned: views on the screen,
\* of which each window holds its child, and nothing below.
KidsOf(K, X) ==
  /\ X \subseteq Windows \cup Ghosts /\ K[Screen] \in Seq(X)
  /\ \A w \in Windows : K[w] \in Seq({Held[w]})
  /\ \A v \in Controls \cup Ghosts : K[v] = <<>>

Below(X) == {Screen} \cup X \cup {Held[w] : w \in X \cap Windows}
CallsOn(X) == [going : {"down", "up"}, view : Below(X)]

IsCalls(K, W) == W = [v \in Nodes |-> Through(K, W, v)]

LEMMA CallsExist ==
  ASSUME NEW K, NEW X, KidsOf(K, X)
  PROVE  \E W : IsCalls(K, W)
<1>. DEFINE W0 == [v \in Nodes |-> Through(K, <<>>, v)]
            W1 == [v \in Nodes |-> Through(K, W0, v)]
            W2 == [v \in Nodes |-> Through(K, W1, v)]
<1>1. /\ \A v \in Nodes : W0[v] = Through(K, <<>>, v) /\ W1[v] = Through(K, W0, v) /\ W2[v] = Through(K, W1, v)
      /\ W2 = [v \in Nodes |-> W2[v]]
  OBVIOUS
<1>. HIDE DEF W0, W1, W2
<1>2. ASSUME NEW v \in Controls \cup Ghosts, NEW U, NEW V
      PROVE  Through(K, U, v) = Through(K, V, v)
  <2>1. K[v] = <<>> /\ <<>> \in Seq({})
    BY DEF KidsOf
  <2>2. K[v] \in Seq({})
    BY <2>1
  <2>3. \A Y : (\A a \in {} : U[a] = Y[a]) => Through(K, U, v) = Through(K, Y, v)
    BY <2>2, ThroughIs
  <2>. QED  BY <2>3
<1>3. \A v \in Controls \cup Ghosts : v \in Nodes /\ W0[v] = W1[v] /\ W1[v] = W2[v]
  <2>1. \A v \in Controls \cup Ghosts : v \in Nodes
    BY DEF Nodes, Views
  <2>. QED  BY <1>1, <1>2, <2>1
<1>4. ASSUME NEW w \in Windows
      PROVE  w \in Nodes /\ Through(K, W0, w) = Through(K, W1, w) /\ Through(K, W1, w) = Through(K, W2, w)
  <2>1. K[w] \in Seq({Held[w]}) /\ Held[w] \in Controls /\ w \in Nodes
    BY GuiAssumption DEF KidsOf, Nodes, Views
  <2>2. \A a \in {Held[w]} : W0[a] = W1[a] /\ W1[a] = W2[a]
    BY <1>3, <2>1
  <2>. QED  BY <2>1, <2>2, ThroughIs
<1>5. \A u \in X : W1[u] = W2[u]
  <2>1. \A u \in Windows : W1[u] = W2[u]
    BY <1>1, <1>4
  <2>. QED  BY <1>3, <2>1 DEF KidsOf
<1>6. Through(K, W1, Screen) = Through(K, W2, Screen)
  <2>1. K[Screen] \in Seq(X)
    BY DEF KidsOf
  <2>. QED  BY <1>5, <2>1, ThroughIs
<1>7. \A v \in Nodes : W2[v] = Through(K, W2, v)
  <2>1. \A v \in Controls \cup Ghosts : W2[v] = Through(K, W2, v)
    BY <1>1, <1>2, <1>3
  <2>. QED  BY <1>1, <1>4, <1>6, <2>1 DEF Nodes, Views
<1>8. IsCalls(K, W2)
  BY <1>1, <1>7 DEF IsCalls
<1>. QED  BY <1>8

\* What the walk makes of each view it comes to.
IsWalked(K, X, W) ==
  /\ Calls(K) = W[Screen]
  /\ \A v \in Below(X) : W[v] = Through(K, W, v) /\ W[v] \in Seq(CallsOn(X))

LEMMA CallsAre ==
  ASSUME NEW K, NEW X, KidsOf(K, X)
  PROVE  \E W : IsWalked(K, X, W)
<1>. DEFINE W == CHOOSE V : IsCalls(K, V)
            C == CallsOn(X)
<1>1. Calls(K) = W[Screen]
  BY DEF Calls, IsCalls, Through, Chained, Call
<1>2. IsCalls(K, W)
  BY CallsExist
<1>. HIDE DEF W
<1>3. \A v \in Nodes : W[v] = Through(K, W, v)
  BY <1>2 DEF IsCalls
<1>4. \A v \in Below(X) : Call("down", v) \in C /\ Call("up", v) \in C
  BY DEF CallsOn, Call
<1>. HIDE DEF C
<1>5. ASSUME NEW v \in (Controls \cup Ghosts) \cap Below(X)
      PROVE  W[v] \in Seq(C)
  <2>0. K[v] = <<>> /\ v \in Nodes
    BY DEF KidsOf, Nodes, Views
  <2>1. K[v] \in Seq({}) /\ v \in Nodes /\ v \in Below(X)
    BY <2>0
  <2>. QED  BY <1>3, <1>4, <2>1, ThroughIs
<1>6. ASSUME NEW w \in Windows \cap X
      PROVE  W[w] \in Seq(C)
  <2>0. K[w] \in Seq({Held[w]})
    BY DEF KidsOf
  <2>1. Held[w] \in Controls /\ w \in Nodes /\ w \in Below(X) /\ Held[w] \in Below(X)
    BY GuiAssumption DEF Nodes, Views, Below
  <2>2. \A a \in {Held[w]} : W[a] \in Seq(C)
    BY <1>5, <2>1
  <2>3. Through(K, W, w) \in Seq(C)
    <3>1. Call("down", w) \in C /\ Call("up", w) \in C
      BY <1>4, <2>1
    <3>. DEFINE H == {Held[w]}
    <3>2. K[w] \in Seq(H) /\ \A a \in H : W[a] \in Seq(C)
      BY <2>0, <2>2
    <3>. HIDE DEF H
    <3>. QED  BY <3>1, <3>2, ThroughIs
  <2>. QED  BY <1>3, <2>1, <2>3
<1>7. \A u \in X : W[u] \in Seq(C)
  BY <1>5, <1>6 DEF KidsOf, Below
<1>8. W[Screen] \in Seq(C)
  <2>1. K[Screen] \in Seq(X) /\ Screen \in Nodes /\ Screen \in Below(X)
    BY DEF KidsOf, Nodes, Views, Below
  <2>. QED  BY <1>3, <1>4, <1>7, <2>1, ThroughIs
<1>9. \A v \in Below(X) : v \in Nodes /\ W[v] \in Seq(C)
  <2>1. Below(X) \subseteq Nodes
    BY GuiAssumption DEF Below, KidsOf, Nodes, Views
  <2>2. \A v \in Below(X) : v = Screen \/ v \in (Controls \cup Ghosts) \cap Below(X) \/ v \in Windows \cap X
    BY GuiAssumption DEF Below, KidsOf
  <2>. QED  BY <1>5, <1>6, <1>8, <2>1, <2>2
<1>10. IsWalked(K, X, W)
  BY <1>1, <1>3, <1>9 DEF C, IsWalked
<1>. QED  BY <1>10

LEMMA CallsTyped ==
  ASSUME NEW K, NEW X, KidsOf(K, X)
  PROVE  Calls(K) \in Seq(CallsOn(X))
<1>1. Screen \in Below(X)
  BY DEF Below
<1>. QED  BY <1>1, CallsAre DEF IsWalked

LEMMA KidsAre ==
  ASSUME NEW t \in WellTrees
  PROVE  KidsOf(t.kids, On(t)) /\ Below(On(t)) = Seen(t)
<1>1. On(t) \subseteq Windows \cup Ghosts
  BY OnTypes
<1>2. t.kids[Screen] \in Seq(On(t))
  <2>. DEFINE s == t.kids[Screen]
  <2>1. s \in Seq(Windows \cup Ghosts)
    BY DEF WellTrees, Shaped
  <2>. HIDE DEF s
  <2>2. s \in Seq(ToSet(s))
    BY <2>1 DEF ToSet
  <2>. QED  BY <2>2 DEF On, s
<1>3. /\ \A w \in Windows : t.kids[w] = <<Held[w]>>
      /\ \A v \in Controls \cup Ghosts : t.kids[v] = <<>>
  BY DEF WellTrees, Shaped
<1>4. \A w \in Windows : <<Held[w]>> \in Seq({Held[w]})
  OBVIOUS
<1>. QED  BY <1>1, <1>2, <1>3, <1>4 DEF KidsOf, Below, Seen

LEMMA TurnedIs ==
  ASSUME NEW A, NEW s \in Seq(A)
  PROVE  Reverse(s) \in Seq(A)
BY DEF Reverse

LEMMA KidsTurned ==
  ASSUME NEW t \in WellTrees
  PROVE  KidsOf([v \in Nodes |-> Reverse(t.kids[v])], On(t))
<1>. DEFINE K == [v \in Nodes |-> Reverse(t.kids[v])]
<1>1. KidsOf(t.kids, On(t))
  BY KidsAre
<1>2. \A v \in Nodes : K[v] = Reverse(t.kids[v])
  OBVIOUS
<1>. HIDE DEF K
<1>3. K[Screen] \in Seq(On(t))
  <2>1. Screen \in Nodes
    BY DEF Nodes, Views
  <2>. QED  BY <1>1, <1>2, <2>1, TurnedIs DEF KidsOf
<1>4. \A w \in Windows : K[w] \in Seq({Held[w]})
  <2>1. \A w \in Windows : w \in Nodes
    BY DEF Nodes, Views
  <2>. QED  BY <1>1, <1>2, <2>1, TurnedIs DEF KidsOf
<1>5. \A v \in Controls \cup Ghosts : K[v] = <<>>
  <2>1. \A v \in Controls \cup Ghosts : v \in Nodes
    BY DEF Nodes, Views
  <2>2. Reverse(<<>>) = <<>>
    BY DEF Reverse
  <2>. QED  BY <1>1, <1>2, <2>1, <2>2 DEF KidsOf
<1>6. KidsOf(K, On(t))
  BY <1>1, <1>3, <1>4, <1>5 DEF KidsOf
<1>. QED  BY <1>6 DEF K

\* The calls of both walks are of views that can be seen.
LEMMA TreeCalls ==
  ASSUME NEW t \in WellTrees
  PROVE  ForwardTree(t) \in Seq(CallsOn(On(t))) /\ BackwardTree(t) \in Seq(CallsOn(On(t)))
BY KidsAre, KidsTurned, CallsTyped DEF ForwardTree, BackwardTree

\* How the views that are visited grow in number.
Come(way, views, c) == IF c.going = way THEN Append(views, c.view) ELSE views
IsVisit(walk, s, way, V) ==
  /\ walk \in [0 .. Len(s) -> Seq(V)]
  /\ Visits(s, way) = walk[Len(s)]
  /\ walk[0] = <<>>
  /\ \A i \in 1 .. Len(s) : walk[i] = Come(way, walk[i - 1], s[i])

LEMMA VisitsWalk ==
  ASSUME NEW V, NEW s \in Seq([going : {"down", "up"}, view : V]), NEW way
  PROVE  \E walk : IsVisit(walk, s, way, V)
<1>. DEFINE B == Seq(V)
            C == [going : {"down", "up"}, view : V]
            n == Len(s)
            visit(views, c) == IF c.going = way THEN Append(views, c.view) ELSE views
            step == [z \in (1 .. n) \X B |-> visit(z[2], s[z[1]])]
            Good(f) == f = [i \in 0 .. n |-> IF i = 0 THEN <<>> ELSE visit(f[i - 1], s[i])]
            walk == CHOOSE f : Good(f)
<1>1. n \in Nat /\ <<>> \in B /\ \A i \in 1 .. n : s[i] \in C
  <2>1. s \in Seq(C)
    OBVIOUS
  <2>. HIDE DEF C
  <2>. QED  BY <2>1
<1>2. \A i \in 1 .. n, q \in B : visit(q, s[i]) \in B
  <2>1. \A a \in C, q \in B : visit(q, a) \in B
    OBVIOUS
  <2>. HIDE DEF visit, B, C
  <2>. QED  BY <1>1, <2>1
<1>3. Visits(s, way) = walk[n]
  BY DEF Visits, Walk
<1>. HIDE DEF B, visit
<1>4. step \in Steps(n, B)
  BY <1>2 DEF Steps
<1>5. PICK f \in [0 .. n -> B] : IsWalk(f, n, <<>>, step)
  <2>. HIDE DEF n, step
  <2>. QED  BY <1>1, <1>4, WalkExists
<1>6. Good(f)
  <2>1. \A i \in 0 .. n : i # 0 => i \in 1 .. n /\ i - 1 \in 0 .. n
    BY <1>1
  <2>. HIDE DEF n
  <2>2. \A i \in 1 .. n : i - 1 \in 0 .. n => step[<<i, f[i - 1]>>] = visit(f[i - 1], s[i])
    OBVIOUS
  <2>. HIDE DEF step
  <2>. QED  BY <1>5, <2>1, <2>2 DEF IsWalk
<1>7. Good(walk)
  <2>. HIDE DEF Good
  <2>. QED  BY <1>6
<1>. HIDE DEF walk
<1>8. walk[0] = <<>> /\ \A i \in 1 .. n : walk[i] = visit(walk[i - 1], s[i])
  <2>1. /\ 0 \in 0 .. n
        /\ \A i \in 1 .. n : i \in 0 .. n /\ i # 0
    BY <1>1
  <2>2. \A i \in 0 .. n : walk[i] = IF i = 0 THEN <<>> ELSE visit(walk[i - 1], s[i])
    <3>. HIDE DEF n
    <3>. QED  BY <1>7, Zenon
  <2>. HIDE DEF n
  <2>. QED  BY <2>1, <2>2
<1>9. \A i \in 1 .. n : walk[i - 1] \in B => walk[i] \in B
  <2>. HIDE DEF n
  <2>. QED  BY <1>2, <1>8
<1>10. \A i \in 0 .. n : walk[i] \in B
  <2>. HIDE DEF n
  <2>. QED  BY <1>1, <1>8, <1>9, WalkStays
<1>11. walk \in [0 .. n -> B]
  <2>1. walk = [i \in 0 .. n |-> walk[i]]
    <3>. DEFINE G(i) == IF i = 0 THEN <<>> ELSE visit(walk[i - 1], s[i])
    <3>1. walk = [i \in 0 .. n |-> G(i)]
      BY <1>7
    <3>. HIDE DEF G, n
    <3>. QED  BY <3>1
  <2>. HIDE DEF n
  <2>. QED  BY <1>10, <2>1
<1>12. \A i \in 1 .. n : walk[i] = Come(way, walk[i - 1], s[i])
  BY <1>8 DEF visit, Come
<1>13. IsVisit(walk, s, way, V)
  BY <1>3, <1>8, <1>11, <1>12 DEF B, IsVisit
<1>. QED  BY <1>13

LEMMA VisitsTyped ==
  ASSUME NEW V, NEW s \in Seq([going : {"down", "up"}, view : V]), NEW way
  PROVE  Visits(s, way) \in Seq(V)
<1>1. PICK walk : IsVisit(walk, s, way, V)
  BY VisitsWalk
<1>2. Len(s) \in 0 .. Len(s)
  OBVIOUS
<1>. QED  BY <1>1, <1>2 DEF IsVisit

\* What is found on the screen is a view that can be seen.
LEMMA FoundIsSeen ==
  ASSUME NEW t \in WellTrees
  PROVE  /\ FrontToBack(t) \in Seq(Seen(t))
         /\ \A v : OnScreen(t, v) => v \in Seen(t)
         /\ \A x, y : HitTree(t, x, y) \in Seen(t) \cup {NoView}
<1>1. FrontToBack(t) \in Seq(Seen(t))
  <2>1. ForwardTree(t) \in Seq([going : {"down", "up"}, view : Seen(t)])
    BY TreeCalls, KidsAre DEF CallsOn
  <2>. QED  BY <2>1, VisitsTyped DEF FrontToBack
<1>2. ASSUME NEW v, OnScreen(t, v)
      PROVE  v \in Seen(t)
  BY <1>1, <1>2 DEF OnScreen, Contains
<1>3. ASSUME NEW x, NEW y
      PROVE  HitTree(t, x, y) \in Seen(t) \cup {NoView}
  <2>. DEFINE order == FrontToBack(t)
              hit(v) == Holds(AbsRect(t, v), x, y) /\ Has(t, v, "solid")
              T == {i \in DOMAIN order : \A j \in DOMAIN PathUp(t, order[i]) : hit(PathUp(t, order[i])[j])}
              k == IF T = {} THEN Len(order) + 1 ELSE CHOOSE i \in T : \A j \in T : i <= j
  <2>1. HitTree(t, x, y) = IF k > Len(order) THEN NoView ELSE order[k]
    BY DEF HitTree, FirstIndex
  <2>2. T \in SUBSET (1 .. Len(order)) /\ Len(order) \in Nat
    BY <1>1
  <2>. HIDE DEF T, order
  <2>3. k \in 1 .. Len(order) + 1
    BY <2>2, FirstPlace
  <2>. HIDE DEF k
  <2>4. k > Len(order) \/ k \in 1 .. Len(order)
    BY <2>2, <2>3
  <2>5. \A i \in 1 .. Len(order) : order[i] \in Seen(t)
    BY <1>1 DEF order
  <2>. QED  BY <2>1, <2>4, <2>5
<1>. QED  BY <1>1, <1>2, <1>3

-----------------------------------------------------------------------------
(* A frame: what compositing leaves of the tree.                           *)

LEMMA ClipTyped ==
  ASSUME NEW s \in Seq(AllRects), NEW c \in AllRects
  PROVE  ClipRect(s, c) \in Seq(AllRects)
<1>1. CASE IsEmpty(c)
  BY <1>1 DEF ClipRect
<1>2. CASE ~IsEmpty(c)
  <2>1. PICK walk \in [0 .. Len(s) -> Seq(AllRects)] : ClipRect(s, c) = walk[Len(s)]
    BY <1>2, ClipWalk
  <2>2. Len(s) \in 0 .. Len(s)
    OBVIOUS
  <2>. QED  BY <2>1, <2>2
<1>. QED  BY <1>1, <1>2

\* What is seen of the cover of a view, level by level.
Levels(t, v, path, g) ==
  [i \in DOMAIN path |->
     IF i = 1 THEN Cover(t, v)
     ELSE LET b == t.box[path[i - 1]]
          IN  ClipRect(Translate(g[i - 1], b.x, b.y), Whole(t.box[path[i]]))]
IsSeen(t, v, path, g) == g = Levels(t, v, path, g)

LEMMA LevelsExist ==
  ASSUME NEW t \in WellTrees, NEW v \in Nodes
  PROVE  /\ \E g : IsSeen(t, v, PathUp(t, v), g)
         /\ \A g : IsSeen(t, v, PathUp(t, v), g) => g \in [DOMAIN PathUp(t, v) -> Seq(AllRects)]
<1>. DEFINE path == PathUp(t, v)
            n == Len(path)
            D == 1 .. n
            S == Seq(AllRects)
            down(i, s) == ClipRect(Translate(s, t.box[path[i - 1]].x, t.box[path[i - 1]].y), Whole(t.box[path[i]]))
            L(g) == [i \in D |-> IF i = 1 THEN Cover(t, v) ELSE down(i, g[i - 1])]
<1>1. path \in Seq(Nodes) /\ n \in Nat /\ DOMAIN path = D /\ n <= 3
  <2>1. path \in Seq(Nodes)
    BY Paths
  <2>2. Len(<<v>>) = 1 /\ \A a, b : Len(<<v, a>>) = 2 /\ Len(<<v, a, b>>) = 3
    OBVIOUS
  <2>3. v = Screen \/ v \in Windows \cup Ghosts \/ \E w \in Windows : v = Held[w]
    BY GuiAssumption DEF Nodes, Views
  <2>4. path = <<v>> \/ (\E a : path = <<v, a>>) \/ (\E a, b : path = <<v, a, b>>)
    BY <2>3, Paths
  <2>5. n \in {1, 2, 3}
    BY <2>2, <2>4
  <2>6. n \in Nat /\ n <= 3
    <3>. HIDE DEF n
    <3>. QED  BY <2>5
  <2>. HIDE DEF path
  <2>7. DOMAIN path = D
    BY <2>1
  <2>. QED  BY <2>1, <2>6, <2>7
<1>2. Cover(t, v) \in S
  BY BoxRects, One DEF Cover, WellTrees, Trees, Regions
<1>3. \A i \in D, s \in S : i # 1 => i - 1 \in D /\ down(i, s) \in S
  <2>1. ASSUME NEW i \in D, NEW s \in S, i # 1
        PROVE  i - 1 \in D /\ down(i, s) \in S
    <3>1. i - 1 \in D /\ path[i] \in Nodes /\ path[i - 1] \in Nodes
      BY <1>1, <2>1
    <3>2. \A u \in Nodes : t.box[u].x \in Int /\ t.box[u].y \in Int /\ Whole(t.box[u]) \in AllRects
      BY BoxRects DEF WellTrees, Trees, Boxes
    <3>3. Translate(s, t.box[path[i - 1]].x, t.box[path[i - 1]].y) \in S
      BY <3>1, <3>2, TranslateExact
    <3>. QED  BY <3>1, <3>2, <3>3, ClipTyped
  <2>. QED  BY <2>1
<1>4. \A g : Levels(t, v, path, g) = L(g)
  BY <1>1 DEF Levels
<1>. HIDE DEF path, S, down
<1>5. \A g : L(g) = [i \in D |-> L(g)[i]] /\ \A i \in D : L(g)[i] = IF i = 1 THEN Cover(t, v) ELSE down(i, g[i - 1])
  OBVIOUS
<1>6. \A g : g = L(g) => g \in [D -> S]
  <2>1. ASSUME NEW g, g = L(g)
        PROVE  g \in [D -> S]
    <3>1. g = [i \in D |-> g[i]] /\ \A i \in D : g[i] = IF i = 1 THEN Cover(t, v) ELSE down(i, g[i - 1])
      BY <1>5, <2>1, Zenon
    <3>. HIDE DEF L
    <3>2. 1 \in D => g[1] \in S
      BY <1>2, <3>1
    <3>3. 2 \in D => g[2] \in S
      <4>1. 2 \in D => 1 \in D
        BY <1>1
      <4>. HIDE DEF D
      <4>2. 2 \in D => g[2] = down(2, g[1])
        BY <3>1
      <4>. QED  BY <1>3, <3>2, <4>1, <4>2
    <3>4. 3 \in D => g[3] \in S
      <4>1. 3 \in D => 2 \in D
        BY <1>1
      <4>. HIDE DEF D
      <4>2. 3 \in D => g[3] = down(3, g[2])
        BY <3>1
      <4>. QED  BY <1>3, <3>3, <4>1, <4>2
    <3>5. D \subseteq {1, 2, 3}
      BY <1>1
    <3>6. \A i \in D : g[i] \in S
      BY <3>2, <3>3, <3>4, <3>5
    <3>. QED  BY <3>1, <3>6
  <2>. QED  BY <2>1
<1>. DEFINE G == L(L(L(<<>>)))
<1>7. G = L(G)
  <2>. DEFINE A == L(<<>>)
              B == L(A)
              C == L(B)
              E == L(C)
  <2>0. \A i \in D : (i = 1 \/ i = 2 \/ i = 3) /\ (i = 2 => 1 \in D) /\ (i = 3 => 1 \in D /\ 2 \in D)
    BY <1>1
  <2>1. /\ \A i \in D : A[i] = IF i = 1 THEN Cover(t, v) ELSE down(i, <<>>[i - 1])
        /\ \A i \in D : B[i] = IF i = 1 THEN Cover(t, v) ELSE down(i, A[i - 1])
        /\ \A i \in D : C[i] = IF i = 1 THEN Cover(t, v) ELSE down(i, B[i - 1])
        /\ \A i \in D : E[i] = IF i = 1 THEN Cover(t, v) ELSE down(i, C[i - 1])
        /\ C = [i \in D |-> C[i]] /\ E = [i \in D |-> E[i]]
    BY <1>5, Zenon
  <2>. HIDE DEF A, B, C, E, D, L
  <2>2. 1 \in D => A[1] = B[1] /\ B[1] = C[1] /\ C[1] = E[1]
    BY <2>1
  <2>3. 2 \in D => B[2] = C[2] /\ C[2] = E[2]
    BY <2>0, <2>1, <2>2
  <2>4. 3 \in D => C[3] = E[3]
    <3>1. 3 - 1 = 2 /\ 3 # 1
      OBVIOUS
    <3>2. 3 \in D => C[3] = down(3, B[2]) /\ E[3] = down(3, C[2])
      BY <2>1, <3>1
    <3>. QED  BY <2>0, <2>3, <3>2
  <2>5. \A i \in D : C[i] = E[i]
    BY <2>0, <2>2, <2>3, <2>4
  <2>6. C = E
    BY <2>1, <2>5
  <2>. QED  BY <2>6 DEF A, B, C, E
<1>. HIDE DEF G, L, D
<1>8. \E g : IsSeen(t, v, path, g)
  BY <1>4, <1>7 DEF IsSeen
<1>9. \A g : IsSeen(t, v, path, g) => g \in [DOMAIN path -> S]
  BY <1>1, <1>4, <1>6 DEF IsSeen
<1>. QED  BY <1>8, <1>9 DEF path, S

Uncovered(t, v, path, seen) ==
  Walk([i \in 1 .. Len(path) - 1 |-> i + 1], t.dirty,
       LAMBDA d, i : [d EXCEPT ![path[i]] = RemoveRegion(seen[i], @, 0, 0)])

LEMMA BelowWalk ==
  ASSUME NEW t \in WellTrees, NEW v \in Nodes, NEW path \in Seq(Nodes),
         NEW seen \in [DOMAIN path -> Seq(AllRects)]
  PROVE  Uncovered(t, v, path, seen) \in [Nodes -> Regions]
<1>. DEFINE B == [Nodes -> Regions]
            s == [i \in 1 .. Len(path) - 1 |-> i + 1]
            n == Len(s)
            start == t.dirty
            visit(d, i) == [d EXCEPT ![path[i]] = RemoveRegion(seen[i], @, 0, 0)]
            step == [z \in (1 .. n) \X B |-> visit(z[2], s[z[1]])]
            Good(f) == f = [i \in 0 .. n |-> IF i = 0 THEN start ELSE visit(f[i - 1], s[i])]
            walk == CHOOSE f : Good(f)
<1>1. n \in Nat /\ start \in B /\ \A i \in 1 .. n : s[i] \in DOMAIN path
  <2>1. t.dirty \in B
    BY DEF WellTrees, Trees
  <2>. DEFINE m == Len(path) - 1
  <2>1a. m \in Int /\ m + 1 \in Nat /\ DOMAIN path = 1 .. m + 1
    BY DEF m
  <2>2. CASE m \in Nat
    <3>. HIDE DEF m
    <3>1. [i \in 1 .. m |-> i + 1] \in Seq(Int) /\ Len([i \in 1 .. m |-> i + 1]) = m
      BY <2>2
    <3>2. \A i \in 1 .. m : [j \in 1 .. m |-> j + 1][i] = i + 1 /\ i + 1 \in 1 .. m + 1
      BY <2>2
    <3>. QED  BY <2>1, <2>1a, <2>2, <3>1, <3>2 DEF m
  <2>3. CASE m \notin Nat
    <3>. HIDE DEF m
    <3>1. m = -1
      BY <2>1a, <2>3
    <3>2. [i \in 1 .. m |-> i + 1] = <<>>
      BY <3>1
    <3>3. s = <<>>
      BY <3>2 DEF m
    <3>4. n = 0
      <4>1. Len(<<>>) = 0
        OBVIOUS
      <4>. HIDE DEF s
      <4>. QED  BY <3>3, <4>1
    <3>. HIDE DEF n, s, B
    <3>. QED  BY <2>1, <3>4
  <2>. QED  BY <2>2, <2>3
<1>2. \A i \in 1 .. n, q \in B : visit(q, s[i]) \in B
  <2>1. ASSUME NEW a \in DOMAIN path, NEW q \in B
        PROVE  visit(q, a) \in B
    <3>1. path[a] \in Nodes /\ seen[a] \in Seq(AllRects) /\ q[path[a]] \in Regions
      OBVIOUS
    <3>2. IsList(q[path[a]])
      BY <3>1 DEF IsList, Regions
    <3>3. IsList(RemoveRegion(seen[a], q[path[a]], 0, 0))
      BY <3>1, <3>2, RemoveRegionExact
    <3>4. RemoveRegion(seen[a], q[path[a]], 0, 0) \in Regions
      BY <3>3 DEF IsList, Regions
    <3>. QED  BY <3>1, <3>4
  <2>. HIDE DEF visit, B, s
  <2>. QED  BY <1>1, <2>1
<1>3. Uncovered(t, v, path, seen) = walk[n]
  BY DEF Uncovered, Walk
<1>. HIDE DEF B, visit, s, start
<1>4. step \in Steps(n, B)
  BY <1>2 DEF Steps
<1>5. PICK f \in [0 .. n -> B] : IsWalk(f, n, start, step)
  <2>. HIDE DEF n, step
  <2>. QED  BY <1>1, <1>4, WalkExists
<1>6. Good(f)
  <2>1. \A i \in 0 .. n : i # 0 => i \in 1 .. n /\ i - 1 \in 0 .. n
    BY <1>1
  <2>. HIDE DEF n
  <2>2. \A i \in 1 .. n : i - 1 \in 0 .. n => step[<<i, f[i - 1]>>] = visit(f[i - 1], s[i])
    OBVIOUS
  <2>. HIDE DEF step
  <2>. QED  BY <1>5, <2>1, <2>2 DEF IsWalk
<1>7. Good(walk)
  <2>. HIDE DEF Good
  <2>. QED  BY <1>6
<1>. HIDE DEF walk
<1>8. walk[0] = start /\ \A i \in 1 .. n : walk[i] = visit(walk[i - 1], s[i])
  <2>1. /\ 0 \in 0 .. n
        /\ \A i \in 1 .. n : i \in 0 .. n /\ i # 0
    BY <1>1
  <2>2. \A i \in 0 .. n : walk[i] = IF i = 0 THEN start ELSE visit(walk[i - 1], s[i])
    <3>. HIDE DEF n
    <3>. QED  BY <1>7, Zenon
  <2>. HIDE DEF n
  <2>. QED  BY <2>1, <2>2
<1>9. \A i \in 1 .. n : walk[i - 1] \in B => walk[i] \in B
  <2>. HIDE DEF n
  <2>. QED  BY <1>2, <1>8
<1>10. \A i \in 0 .. n : walk[i] \in B
  <2>. HIDE DEF n
  <2>. QED  BY <1>1, <1>8, <1>9, WalkStays
<1>11. n \in 0 .. n
  BY <1>1
<1>. QED  BY <1>3, <1>10, <1>11 DEF B

\* A tree in which only flags and dirty regions have changed.
Relit(t) == {u \in WellTrees : Same(t, u) /\ u.box = t.box /\ (Backdrop(t) => Backdrop(u))}

LEMMA Redirtied ==
  ASSUME NEW t \in WellTrees, NEW u \in Relit(t), NEW d \in [Nodes -> Regions], NEW f \in [Nodes -> SUBSET Flags],
         "solid" \in u.flags[Screen] => "solid" \in f[Screen]
  PROVE  [u EXCEPT !.dirty = d, !.flags = f] \in Relit(t)
<1>1. u \in Trees /\ u \in WellTrees
  BY DEF Relit, WellTrees
<1>2. [u EXCEPT !.dirty = d, !.flags = f] \in Trees /\ Same(u, [u EXCEPT !.dirty = d, !.flags = f])
  BY <1>1 DEF Trees, Same
<1>. HIDE DEF Relit
<1>3. Same(t, [u EXCEPT !.dirty = d, !.flags = f])
  BY <1>2, SameTwice DEF Relit
<1>4. /\ [u EXCEPT !.dirty = d, !.flags = f].box = t.box
      /\ Backdrop(t) => Backdrop([u EXCEPT !.dirty = d, !.flags = f])
  BY <1>1 DEF Relit, Backdrop, Trees
<1>. QED  BY <1>1, <1>2, <1>3, <1>4, SameShape DEF Relit

LEMMA HideBehindTree ==
  ASSUME NEW t \in WellTrees, NEW u \in Relit(t), NEW v \in Nodes
  PROVE  HideBehind(u, v) \in Relit(t)
<1>. DEFINE path == PathUp(u, v)
            seen == CHOOSE g : IsSeen(u, v, path, g)
<1>0. u \in WellTrees
  BY DEF Relit
<1>1. seen \in [DOMAIN path -> Seq(AllRects)] /\ path \in Seq(Nodes)
  <2>1. IsSeen(u, v, path, seen)
    BY <1>0, LevelsExist
  <2>. HIDE DEF seen
  <2>. QED  BY <1>0, <2>1, LevelsExist, Paths
<1>2. HideBehind(u, v) = [u EXCEPT !.dirty = Uncovered(u, v, path, seen)]
  BY <1>0 DEF HideBehind, Uncovered, IsSeen, Levels, WellTrees, Trees
<1>. HIDE DEF path, seen
<1>3. Uncovered(u, v, path, seen) \in [Nodes -> Regions]
  BY <1>0, <1>1, BelowWalk
<1>. DEFINE d == Uncovered(u, v, path, seen)
<1>. HIDE DEF d
<1>4. [u EXCEPT !.dirty = d] = [u EXCEPT !.dirty = d, !.flags = u.flags]
  BY <1>0 DEF WellTrees, Trees
<1>5. /\ u.flags \in [Nodes -> SUBSET Flags] /\ d \in [Nodes -> Regions]
      /\ "solid" \in u.flags[Screen] => "solid" \in u.flags[Screen]
  BY <1>0, <1>3 DEF WellTrees, Trees, d
<1>6. HideBehind(u, v) = [u EXCEPT !.dirty = d]
  BY <1>2 DEF d
<1>7. [u EXCEPT !.dirty = d, !.flags = u.flags] \in Relit(t)
  BY <1>5, Redirtied, Zenon
<1>. QED  BY <1>4, <1>6, <1>7

LEMMA RaiseTree ==
  ASSUME NEW t \in WellTrees, NEW u \in Relit(t), NEW v \in Nodes
  PROVE  Raise(u, v) \in Relit(t)
<1>. DEFINE p == IF u.parent[v] = NoView THEN v ELSE u.parent[v]
            b == u.box[v]
            own == ClipRect(u.dirty[v], Moved(Whole(u.box[p]), -b.x, -b.y))
            up == PasteRegion(own, u.dirty[p], b.x, b.y)
            d == IF p = v THEN [u.dirty EXCEPT ![v] = own] ELSE [u.dirty EXCEPT ![p] = up, ![v] = <<>>]
            e == [d EXCEPT ![p] = PasteRect(@, InParent(b))]
            f == [u.flags EXCEPT ![v] = @ \ {"dirty_all"}]
<1>0. u \in WellTrees /\ u \in Trees
  BY DEF Relit, WellTrees
<1>1. p \in Nodes /\ b \in Boxes /\ u.box[p] \in Boxes /\ u.dirty \in [Nodes -> Regions] /\ u.flags \in [Nodes -> SUBSET Flags]
  BY <1>0 DEF Trees
<1>2. Raise(u, v) = IF "dirty_all" \in u.flags[v] THEN [u EXCEPT !.dirty = e, !.flags = f]
                    ELSE [u EXCEPT !.dirty = d, !.flags = u.flags]
  <2>1. Raise(u, v) = IF ~Has(u, v, "dirty_all") THEN [u EXCEPT !.dirty = d]
                      ELSE [[u EXCEPT !.dirty = d] EXCEPT !.flags[v] = @ \ {"dirty_all"}, !.dirty[p] = PasteRect(@, InParent(b))]
    <3>. HIDE DEF own, up, b
    <3>1. [u EXCEPT !.dirty[v] = own] = [u EXCEPT !.dirty = [u.dirty EXCEPT ![v] = own]]
      BY <1>0 DEF Trees
    <3>2. [u EXCEPT !.dirty[p] = up, !.dirty[v] = <<>>] = [u EXCEPT !.dirty = [u.dirty EXCEPT ![p] = up, ![v] = <<>>]]
      <4>. HIDE DEF p
      <4>. QED  BY <1>0, <1>1 DEF Trees
    <3>3. /\ u.parent[v] = NoView => p = v
          /\ Raise(u, v) =
                LET given == IF p = v THEN [u EXCEPT !.dirty[v] = own]
                             ELSE [u EXCEPT !.dirty[p] = up, !.dirty[v] = <<>>]
                IN  IF ~Has(u, v, "dirty_all") THEN given
                    ELSE [given EXCEPT !.flags[v] = @ \ {"dirty_all"}, !.dirty[p] = PasteRect(@, InParent(b))]
      <4>1. Raise(u, v) =
                LET given == IF p = v THEN [u EXCEPT !.dirty[v] = own]
                             ELSE [u EXCEPT !.dirty[p] = PasteRegion(own, @, b.x, b.y), !.dirty[v] = <<>>]
                IN  IF ~Has(u, v, "dirty_all") THEN given
                    ELSE [given EXCEPT !.flags[v] = @ \ {"dirty_all"}, !.dirty[p] = PasteRect(@, InParent(b))]
        BY DEF Raise, own, b
      <4>. HIDE DEF p
      <4>2. [u EXCEPT !.dirty[p] = PasteRegion(own, @, b.x, b.y), !.dirty[v] = <<>>] = [u EXCEPT !.dirty[p] = up, !.dirty[v] = <<>>]
        BY DEF up
      <4>3. u.parent[v] = NoView => p = v
        BY DEF p
      <4>. QED  BY <4>1, <4>2, <4>3, ZenonT(60)
    <3>. HIDE DEF p
    <3>. QED  BY <3>1, <3>2, <3>3
  <2>. HIDE DEF d, p, b
  <2>2. [[u EXCEPT !.dirty = d] EXCEPT !.flags[v] = @ \ {"dirty_all"}, !.dirty[p] = PasteRect(@, InParent(b))]
           = [u EXCEPT !.dirty = e, !.flags = f]
    BY <1>0 DEF Trees
  <2>3. [u EXCEPT !.dirty = d] = [u EXCEPT !.dirty = d, !.flags = u.flags]
    BY <1>0 DEF Trees
  <2>. QED  BY <2>1, <2>2, <2>3 DEF Has
<1>3. own \in Regions /\ up \in Regions
  <2>1. b.x \in Int /\ b.y \in Int /\ -b.x \in Int /\ -b.y \in Int
    <3>. HIDE DEF b
    <3>. QED  BY <1>1 DEF Boxes
  <2>2. Whole(u.box[p]) \in AllRects
    BY <1>1, BoxRects
  <2>. HIDE DEF p
  <2>3. Moved(Whole(u.box[p]), -b.x, -b.y) \in AllRects
    <3>. HIDE DEF b
    <3>. QED  BY <2>1, <2>2 DEF Moved, Rect, AllRects
  <2>. HIDE DEF b
  <2>4. IsList(u.dirty[v]) /\ IsList(u.dirty[p])
    BY <1>1 DEF IsList, Regions
  <2>5. IsList(own)
    BY <2>3, <2>4, ClipRectExact
  <2>. HIDE DEF own
  <2>6. IsList(up)
    <3>1. own \in Seq(AllRects)
      BY <2>5 DEF IsList
    <3>. QED  BY <2>1, <2>4, <3>1, PasteRegionExact
  <2>. QED  BY <2>5, <2>6 DEF IsList, Regions
<1>4. d \in [Nodes -> Regions]
  <2>1. <<>> \in Regions
    BY None DEF Regions
  <2>. HIDE DEF own, up, p
  <2>. QED  BY <1>1, <1>3, <2>1
<1>5. e \in [Nodes -> Regions]
  <2>. HIDE DEF d, p, b
  <2>1. PasteRect(d[p], InParent(b)) \in Regions
    BY <1>1, <1>4, BoxRects, RegionSteps
  <2>. QED  BY <1>1, <1>4, <2>1
<1>6. f \in [Nodes -> SUBSET Flags] /\ ("solid" \in u.flags[Screen] => "solid" \in f[Screen])
  BY <1>1
<1>. HIDE DEF d, e, f
<1>7. [u EXCEPT !.dirty = e, !.flags = f] \in Relit(t)
  BY <1>5, <1>6, Redirtied, Zenon
<1>8. [u EXCEPT !.dirty = d, !.flags = u.flags] \in Relit(t)
  <2>1. u.flags \in [Nodes -> SUBSET Flags] /\ ("solid" \in u.flags[Screen] => "solid" \in u.flags[Screen])
    BY <1>1
  <2>. QED  BY <1>4, <2>1, Redirtied, Zenon
<1>. QED  BY <1>2, <1>7, <1>8

LEMMA GatherTree ==
  ASSUME NEW t \in WellTrees
  PROVE  Gather(t) \in Relit(t)
<1>. DEFINE A == Relit(t)
            s == BackwardTree(t)
            n == Len(s)
            visit(u, c) == IF c.going = "up" THEN Raise(u, c.view) ELSE HideBehind(u, c.view)
            step == [z \in (1 .. n) \X A |-> visit(z[2], s[z[1]])]
            Good(f) == f = [i \in 0 .. n |-> IF i = 0 THEN t ELSE visit(f[i - 1], s[i])]
            walk == CHOOSE f : Good(f)
<1>1. n \in Nat /\ t \in A /\ \A i \in 1 .. n : s[i].view \in Nodes
  <2>1. s \in Seq(CallsOn(On(t))) /\ Below(On(t)) \subseteq Nodes
    BY TreeCalls, KidsAre, OnTypes
  <2>2. t \in A
    BY DEF Relit, Same
  <2>. HIDE DEF s, A
  <2>3. \A i \in 1 .. n : s[i] \in CallsOn(On(t))
    BY <2>1
  <2>. QED  BY <2>1, <2>2, <2>3 DEF CallsOn
<1>2. \A i \in 1 .. n, u \in A : visit(u, s[i]) \in A
  <2>. HIDE DEF n, s
  <2>. QED  BY <1>1, HideBehindTree, RaiseTree
<1>3. Gather(t) = walk[n]
  BY DEF Gather, Walk
<1>. HIDE DEF A, s, visit
<1>4. step \in Steps(n, A)
  BY <1>2 DEF Steps
<1>5. PICK f \in [0 .. n -> A] : IsWalk(f, n, t, step)
  <2>. HIDE DEF n, step
  <2>. QED  BY <1>1, <1>4, WalkExists
<1>6. Good(f)
  <2>1. \A i \in 0 .. n : i # 0 => i \in 1 .. n /\ i - 1 \in 0 .. n
    BY <1>1
  <2>. HIDE DEF n
  <2>2. \A i \in 1 .. n : i - 1 \in 0 .. n => step[<<i, f[i - 1]>>] = visit(f[i - 1], s[i])
    OBVIOUS
  <2>. HIDE DEF step
  <2>. QED  BY <1>5, <2>1, <2>2 DEF IsWalk
<1>7. Good(walk)
  <2>. HIDE DEF Good
  <2>. QED  BY <1>6
<1>. HIDE DEF walk
<1>8. walk[0] = t /\ \A i \in 1 .. n : walk[i] = visit(walk[i - 1], s[i])
  <2>1. /\ 0 \in 0 .. n
        /\ \A i \in 1 .. n : i \in 0 .. n /\ i # 0
    BY <1>1
  <2>2. \A i \in 0 .. n : walk[i] = IF i = 0 THEN t ELSE visit(walk[i - 1], s[i])
    <3>. HIDE DEF n
    <3>. QED  BY <1>7, Zenon
  <2>. HIDE DEF n
  <2>. QED  BY <2>1, <2>2
<1>9. \A i \in 1 .. n : walk[i - 1] \in A => walk[i] \in A
  <2>. HIDE DEF n
  <2>. QED  BY <1>2, <1>8
<1>10. \A i \in 0 .. n : walk[i] \in A
  <2>. HIDE DEF n
  <2>. QED  BY <1>1, <1>8, <1>9, WalkStays
<1>11. n \in 0 .. n
  BY <1>1
<1>. QED  BY <1>3, <1>10, <1>11 DEF A

LEMMA CompositeTree ==
  ASSUME NEW t \in WellTrees, NEW shown
  PROVE  Composite(t, shown).tree \in Relit(t)
<1>. DEFINE u == Gather(t)
            d == [v \in Nodes |-> <<>>]
<1>1. u \in Relit(t)
  BY GatherTree
<1>2. Composite(t, shown).tree = [u EXCEPT !.dirty = d]
  BY DEF Composite, Freed
<1>. HIDE DEF u
<1>3. u \in Trees /\ [u EXCEPT !.dirty = d] = [u EXCEPT !.dirty = d, !.flags = u.flags]
  BY <1>1 DEF Relit, WellTrees, Trees
<1>4. /\ d \in [Nodes -> Regions] /\ u.flags \in [Nodes -> SUBSET Flags]
      /\ "solid" \in u.flags[Screen] => "solid" \in u.flags[Screen]
  BY <1>3, None DEF Regions, Trees
<1>. HIDE DEF d
<1>5. [u EXCEPT !.dirty = d, !.flags = u.flags] \in Relit(t)
  BY <1>1, <1>4, Redirtied, Zenon
<1>. QED  BY <1>2, <1>3, <1>5

\* What the end of a frame leaves of the tree.
LEMMA FrameTree ==
  ASSUME NEW t \in WellTrees, NEW shown, NEW u, u = t \/ u = Composite(t, shown).tree
  PROVE  /\ DropTemps([u EXCEPT !.gui = {}]) \in WellTrees
         /\ On(DropTemps([u EXCEPT !.gui = {}])) \subseteq On(t)
         /\ On(t) \ Ghosts \subseteq On(DropTemps([u EXCEPT !.gui = {}]))
         /\ Placed(t, DropTemps([u EXCEPT !.gui = {}]))
         /\ Backdrop(t) => Backdrop(DropTemps([u EXCEPT !.gui = {}]))
<1>1. u \in Relit(t)
  BY CompositeTree DEF Relit, Same
<1>. DEFINE w == [u EXCEPT !.gui = {}]
<1>2. w \in Trees /\ Same(u, w) /\ w.box = u.box /\ w.flags = u.flags
  BY <1>1 DEF Relit, WellTrees, Trees, Same
<1>. HIDE DEF w
<1>3. u \in WellTrees /\ Same(t, u) /\ u.box = t.box /\ (Backdrop(t) => Backdrop(u))
  BY <1>1 DEF Relit
<1>4. w \in WellTrees /\ On(w) = On(u) /\ On(u) = On(t)
  BY <1>2, <1>3, SameShape DEF WellTrees
<1>5. /\ DropTemps(w) \in WellTrees /\ On(DropTemps(w)) \subseteq On(w)
      /\ On(w) \ Ghosts \subseteq On(DropTemps(w)) /\ Placed(w, DropTemps(w))
      /\ Backdrop(w) => Backdrop(DropTemps(w))
  BY <1>4, DropTree
<1>6. Placed(t, DropTemps(w)) /\ (Backdrop(t) => Backdrop(DropTemps(w)))
  BY <1>2, <1>3, <1>5 DEF Placed, Backdrop
<1>. QED  BY <1>4, <1>5, <1>6 DEF w

LEMMA UnbornTree == Unborn \in WellTrees /\ On(Unborn) = {}
<1>1. /\ Box(0, 0, 0, 0) \in Boxes /\ {"solid"} \in SUBSET Flags /\ <<>> \in Regions /\ <<>> \in Seq(Ghosts)
      /\ <<>> \in Seq(Nodes) /\ <<>> \in Seq(Windows \cup Ghosts)
  BY None DEF Box, Boxes, Flags, Regions
<1>2. /\ \A w \in Windows : Held[w] \in Controls /\ Held[w] \in Nodes /\ <<Held[w]>> \in Seq(Nodes)
      /\ \A v \in Controls : (CHOOSE w \in Windows : Held[w] = v) \in Windows
      /\ \A w \in Windows : (CHOOSE x \in Windows : Held[x] = Held[w]) = w
  <2>1. \A w \in Windows : Held[w] \in Controls /\ Held[w] \in Nodes
    BY GuiAssumption DEF Nodes, Views
  <2>2. \A w \in Windows : <<Held[w]>> \in Seq(Nodes)
    BY <2>1
  <2>3. \A v \in Controls : (CHOOSE w \in Windows : Held[w] = v) \in Windows
    BY GuiAssumption
  <2>4. \A w \in Windows : (CHOOSE x \in Windows : Held[x] = Held[w]) = w
    BY GuiAssumption
  <2>. QED  BY <2>1, <2>2, <2>3, <2>4
<1>3. /\ Windows \subseteq Nodes /\ Screen \in Nodes /\ Controls \subseteq Nodes /\ Ghosts \subseteq Nodes
      /\ Screen \notin Windows /\ Screen \notin Controls
      /\ \A v \in Windows \cup Ghosts : v \notin Controls
      /\ \A v \in Controls \cup Ghosts : v \notin Windows
  BY ViewsAssumption DEF Nodes, Views
<1>. DEFINE k == [v \in Nodes |-> IF v \in Windows THEN <<Held[v]>> ELSE <<>>]
            p == [v \in Nodes |-> IF v \in Controls THEN CHOOSE w \in Windows : Held[w] = v ELSE NoView]
<1>4. k \in [Nodes -> Seq(Nodes)] /\ p \in [Nodes -> Nodes \cup {NoView}]
  BY <1>1, <1>2, <1>3
<1>5. /\ k[Screen] = <<>> /\ (\A w \in Windows : k[w] = <<Held[w]>> /\ p[Held[w]] = w)
      /\ (\A v \in Controls \cup Ghosts : k[v] = <<>>)
      /\ p[Screen] = NoView /\ \A v \in Windows \cup Ghosts : p[v] = NoView
  BY <1>2, <1>3
<1>6. Unborn.kids = k /\ Unborn.parent = p
  BY DEF Unborn
<1>. HIDE DEF k, p
<1>7. Unborn \in Trees
  <2>1. Unborn = [kids |-> k, parent |-> p, box |-> [v \in Nodes |-> Box(0, 0, 0, 0)],
                  flags |-> [v \in Nodes |-> {"solid"}],
                  dirty |-> [v \in Nodes |-> <<>>], opaque |-> [v \in Nodes |-> <<>>], gui |-> {}, temps |-> <<>>]
    BY DEF Unborn, k, p
  <2>. QED  BY <1>1, <1>4, <2>1 DEF Trees
<1>8. Shaped(Unborn)
  <2>1. DOMAIN Unborn.kids[Screen] = {}
    BY <1>5, <1>6
  <2>2. NoRepeats(Unborn.kids[Screen]) /\ \A i \in DOMAIN Unborn.kids[Screen] : Unborn.parent[Unborn.kids[Screen][i]] = Screen
    BY <2>1 DEF NoRepeats
  <2>. QED  BY <1>1, <1>5, <1>6, <2>2 DEF Shaped
<1>9. On(Unborn) = {}
  BY <1>5, <1>6 DEF On, ToSet
<1>. QED  BY <1>7, <1>8, <1>9 DEF WellTrees

-----------------------------------------------------------------------------
(* What is on the screen is found there, and nothing moves a window        *)
(* unasked.                                                                *)

\* The calls of a child are among those of the list.
LEMMA ChainHolds ==
  ASSUME NEW A, NEW s \in Seq(A), NEW C, NEW W, \A a \in A : W[a] \in Seq(C),
         NEW k \in 1 .. Len(s), NEW c \in ToSet(W[s[k]])
  PROVE  c \in ToSet(Chained(s, W))
<1>1. PICK walk : IsChain(walk, s, C, W)
  BY ChainWalk
<1>. DEFINE n == Len(s)
            S == {i \in 0 .. n : i >= k => c \in ToSet(walk[i])}
<1>2. /\ n \in Nat /\ k \in 1 .. n /\ walk \in [0 .. n -> Seq(C)] /\ Chained(s, W) = walk[n]
      /\ \A i \in 1 .. n : walk[i] = walk[i - 1] \o W[s[i]] /\ W[s[i]] \in Seq(C)
  <2>1. \A i \in 1 .. n : s[i] \in A
    OBVIOUS
  <2>2. \A i \in 1 .. n : W[s[i]] \in Seq(C)
    BY <2>1
  <2>3. n \in Nat
    OBVIOUS
  <2>. QED  BY <1>1, <2>2, <2>3 DEF IsChain
<1>. HIDE DEF n
<1>3. 0 \in S
  BY <1>2
<1>4. ASSUME NEW i \in 0 .. n - 1, i \in S
      PROVE  i + 1 \in S
  <2>1. i + 1 \in 1 .. n /\ i + 1 \in 0 .. n /\ (i + 1) - 1 = i /\ i \in 0 .. n
    BY <1>2
  <2>2. walk[i + 1] = walk[i] \o W[s[i + 1]] /\ walk[i] \in Seq(C) /\ W[s[i + 1]] \in Seq(C)
    BY <1>2, <2>1
  <2>3. \A e : e \in ToSet(walk[i]) \/ e \in ToSet(W[s[i + 1]]) => e \in ToSet(walk[i] \o W[s[i + 1]])
    <3>. DEFINE a == walk[i]
                b == W[s[i + 1]]
    <3>1. a \in Seq(C) /\ b \in Seq(C)
      BY <2>2
    <3>. HIDE DEF a, b
    <3>2. /\ Len(a \o b) = Len(a) + Len(b) /\ DOMAIN a = 1 .. Len(a) /\ DOMAIN b = 1 .. Len(b)
          /\ DOMAIN (a \o b) = 1 .. Len(a \o b) /\ Len(a) \in Nat /\ Len(b) \in Nat
          /\ \A j \in 1 .. Len(a) : (a \o b)[j] = a[j]
          /\ \A j \in 1 .. Len(b) : (a \o b)[Len(a) + j] = b[j]
      BY <3>1, JoinedIs
    <3>3. ASSUME NEW j \in DOMAIN a
          PROVE  j \in DOMAIN (a \o b) /\ (a \o b)[j] = a[j]
      BY <3>2
    <3>4. ASSUME NEW j \in DOMAIN b
          PROVE  Len(a) + j \in DOMAIN (a \o b) /\ (a \o b)[Len(a) + j] = b[j]
      BY <3>2
    <3>5. ASSUME NEW e \in ToSet(a) PROVE e \in ToSet(a \o b)
      BY <3>3 DEF ToSet
    <3>6. ASSUME NEW e \in ToSet(b) PROVE e \in ToSet(a \o b)
      BY <3>4 DEF ToSet
    <3>. QED  BY <3>5, <3>6 DEF a, b
  <2>4. CASE i + 1 = k
    BY <2>1, <2>2, <2>3, <2>4
  <2>5. CASE i + 1 # k
    <3>1. i + 1 >= k => i >= k
      <4>1. i \in Int /\ k \in Int
        BY <1>2
      <4>. QED  BY <2>5, <4>1
    <3>2. i + 1 >= k => c \in ToSet(walk[i])
      BY <1>4, <3>1
    <3>. QED  BY <2>1, <2>2, <2>3, <3>2
  <2>. QED  BY <2>4, <2>5
<1>5. \A i \in 0 .. n : i \in S
  <2>. HIDE DEF S
  <2>. QED  BY <1>2, <1>3, <1>4, UpTo
<1>. QED  BY <1>2, <1>5

\* The calls of a view begin and end with its own, and hold those of its children.
LEMMA ThroughHolds ==
  ASSUME NEW K, NEW v, NEW A, K[v] \in Seq(A), NEW W, NEW C, \A a \in A : W[a] \in Seq(C),
         Call("down", v) \in C, Call("up", v) \in C
  PROVE  /\ Call("up", v) \in ToSet(Through(K, W, v))
         /\ \A k \in 1 .. Len(K[v]) : ToSet(W[K[v][k]]) \subseteq ToSet(Through(K, W, v))
<1>. DEFINE a == Call("down", v)
            b == Call("up", v)
            m == Chained(K[v], W)
<1>1. m \in Seq(C) /\ a \in C /\ b \in C
  BY ChainTyped
<1>2. Through(K, W, v) = <<a>> \o m \o <<b>>
  BY DEF Through
<1>3. \A k \in 1 .. Len(K[v]) : ToSet(W[K[v][k]]) \subseteq ToSet(m)
  BY ChainHolds
<1>. HIDE DEF a, b, m
<1>4. /\ <<a>> \o m \o <<b>> \in Seq(C) /\ Len(<<a>> \o m \o <<b>>) = Len(m) + 2 /\ Len(m) \in Nat
      /\ \A j \in 1 .. Len(m) : (<<a>> \o m \o <<b>>)[j + 1] = m[j]
      /\ (<<a>> \o m \o <<b>>)[Len(m) + 2] = b
  BY <1>1
<1>. DEFINE s == <<a>> \o m \o <<b>>
<1>5. DOMAIN s = 1 .. Len(m) + 2 /\ DOMAIN m = 1 .. Len(m)
  BY <1>1, <1>4
<1>. HIDE DEF s
<1>6. b \in ToSet(s)
  BY <1>4, <1>5 DEF s, ToSet
<1>7. ASSUME NEW e \in ToSet(m)
      PROVE  e \in ToSet(s)
  <2>1. PICK j \in 1 .. Len(m) : e = m[j]
    BY <1>5 DEF ToSet
  <2>2. j + 1 \in DOMAIN s /\ s[j + 1] = e
    BY <1>4, <1>5, <2>1 DEF s
  <2>. QED  BY <2>2 DEF ToSet
<1>. QED  BY <1>2, <1>3, <1>6, <1>7 DEF s, b

LEMMA AppendHolds ==
  ASSUME NEW V, NEW a \in Seq(V), NEW e \in V
  PROVE  Contains(Append(a, e), e) /\ \A d : Contains(a, d) => Contains(Append(a, e), d)
<1>1. Len(Append(a, e)) = Len(a) + 1 /\ Append(a, e)[Len(a) + 1] = e /\ Len(a) \in Nat
  OBVIOUS
<1>2. \A j \in 1 .. Len(a) : Append(a, e)[j] = a[j] /\ j \in 1 .. Len(a) + 1
  OBVIOUS
<1>3. Len(a) + 1 \in 1 .. Len(a) + 1
  BY <1>1
<1>. QED  BY <1>1, <1>2, <1>3 DEF Contains

\* A call that goes that way is visited.
LEMMA VisitHolds ==
  ASSUME NEW V, NEW s \in Seq([going : {"down", "up"}, view : V]), NEW way,
         NEW k \in 1 .. Len(s), s[k].going = way
  PROVE  Contains(Visits(s, way), s[k].view)
<1>. DEFINE n == Len(s)
<1>1. PICK walk : IsVisit(walk, s, way, V)
  BY VisitsWalk
<1>. DEFINE S == {i \in 0 .. n : i >= k => Contains(walk[i], s[k].view)}
<1>2. /\ n \in Nat /\ k \in 1 .. n /\ walk \in [0 .. n -> Seq(V)] /\ Visits(s, way) = walk[n]
      /\ \A i \in 1 .. n : walk[i] = Come(way, walk[i - 1], s[i])
      /\ \A i \in 1 .. n : s[i].view \in V
  <2>1. \A i \in 1 .. n : s[i].view \in V
    <3>. DEFINE C == [going : {"down", "up"}, view : V]
    <3>1. s \in Seq(C) /\ \A c \in C : c.view \in V
      OBVIOUS
    <3>. HIDE DEF C
    <3>2. \A i \in 1 .. n : s[i] \in C
      BY <3>1
    <3>. QED  BY <3>1, <3>2
  <2>2. n \in Nat
    OBVIOUS
  <2>. QED  BY <1>1, <2>1, <2>2 DEF IsVisit
<1>. HIDE DEF n
<1>3. 0 \in S
  BY <1>2
<1>4. ASSUME NEW i \in 0 .. n - 1, i \in S
      PROVE  i + 1 \in S
  <2>1. i + 1 \in 1 .. n /\ i + 1 \in 0 .. n /\ (i + 1) - 1 = i /\ i \in 0 .. n
    BY <1>2
  <2>2. walk[i] \in Seq(V) /\ s[i + 1].view \in V
        /\ walk[i + 1] = IF s[i + 1].going = way THEN Append(walk[i], s[i + 1].view) ELSE walk[i]
    <3>1. walk[i + 1] = Come(way, walk[i], s[i + 1]) /\ walk[i] \in Seq(V) /\ s[i + 1].view \in V
      BY <1>2, <2>1
    <3>. QED  BY <3>1 DEF Come
  <2>4. CASE i + 1 = k
    <3>1. walk[i + 1] = Append(walk[i], s[k].view) /\ s[k].view \in V
      <4>1. s[i + 1] = s[k]
        BY <2>4
      <4>. QED  BY <2>2, <4>1
    <3>2. Contains(walk[i + 1], s[k].view)
      <4>1. Contains(Append(walk[i], s[k].view), s[k].view)
        BY <2>2, <3>1, AppendHolds
      <4>. QED  BY <3>1, <4>1
    <3>. QED  BY <2>1, <3>2
  <2>5. CASE i + 1 # k
    <3>1. i + 1 >= k => i >= k
      <4>1. i \in Int /\ k \in Int
        BY <1>2
      <4>. QED  BY <2>5, <4>1
    <3>2. i + 1 >= k => Contains(walk[i], s[k].view)
      BY <1>4, <3>1
    <3>3. i + 1 >= k => Contains(walk[i + 1], s[k].view)
      <4>1. \A d : Contains(walk[i], d) => Contains(Append(walk[i], s[i + 1].view), d)
        BY <2>2, AppendHolds
      <4>2. walk[i + 1] \in {walk[i], Append(walk[i], s[i + 1].view)}
        BY <2>2
      <4>. QED  BY <3>2, <4>1, <4>2
    <3>. QED  BY <2>1, <3>3
  <2>. QED  BY <2>4, <2>5
<1>5. \A i \in 0 .. n : i \in S
  <2>. HIDE DEF S
  <2>. QED  BY <1>2, <1>3, <1>4, UpTo
<1>. QED  BY <1>2, <1>5
\* Every window that is a child of the screen is found on it, with its child.
LEMMA ShownIsFound ==
  ASSUME NEW t \in WellTrees, NEW w \in Windows, w \in On(t)
  PROVE  OnScreen(t, w) /\ OnScreen(t, Held[w])
<1>. DEFINE K == t.kids
            X == On(t)
            C == CallsOn(X)
            up(v) == Call("up", v)
<1>1. KidsOf(K, X)
  BY KidsAre
<1>2. PICK W : IsWalked(K, X, W)
  BY <1>1, CallsAre
<1>3. Screen \in Below(X) /\ w \in Below(X) /\ Held[w] \in Below(X) /\ Held[w] \in Controls
  BY GuiAssumption DEF Below
<1>4. \A v \in Below(X) : Call("down", v) \in C /\ up(v) \in C
  BY DEF CallsOn, Call
<1>5. \A v \in Below(X) : W[v] = Through(K, W, v) /\ W[v] \in Seq(C)
  BY <1>2 DEF IsWalked
<1>6. ForwardTree(t) = W[Screen]
  BY <1>2 DEF IsWalked, ForwardTree
<1>7. K[w] = <<Held[w]>> /\ K[Held[w]] = <<>> /\ K[Screen] \in Seq(X)
  BY <1>1, <1>3 DEF WellTrees, Shaped, KidsOf
<1>8. \A u \in X : u \in Below(X)
  BY DEF Below
<1>9. PICK k \in 1 .. Len(K[Screen]) : K[Screen][k] = w
  <2>1. DOMAIN K[Screen] = 1 .. Len(K[Screen])
    BY <1>7
  <2>. QED  BY <2>1 DEF On, ToSet
<1>. HIDE DEF K, X, C, up
<1>10. up(Held[w]) \in ToSet(W[Held[w]])
  <2>. DEFINE E == {}
  <2>1. K[Held[w]] \in Seq(E) /\ \A a \in E : W[a] \in Seq(C)
    BY <1>7
  <2>. HIDE DEF E
  <2>2. up(Held[w]) \in ToSet(Through(K, W, Held[w]))
    BY <1>3, <1>4, <2>1, ThroughHolds DEF up
  <2>. QED  BY <1>3, <1>5, <2>2
<1>11. up(Held[w]) \in ToSet(W[w]) /\ up(w) \in ToSet(W[w])
  <2>. DEFINE E == {Held[w]}
  <2>1. K[w] \in Seq(E) /\ \A a \in E : W[a] \in Seq(C)
    BY <1>3, <1>5, <1>7
  <2>2. Len(K[w]) = 1 /\ K[w][1] = Held[w] /\ 1 \in 1 .. Len(K[w])
    BY <1>7
  <2>. HIDE DEF E
  <2>3. /\ up(w) \in ToSet(Through(K, W, w))
        /\ \A i \in 1 .. Len(K[w]) : ToSet(W[K[w][i]]) \subseteq ToSet(Through(K, W, w))
    BY <1>3, <1>4, <2>1, ThroughHolds DEF up
  <2>4. ToSet(W[Held[w]]) \subseteq ToSet(Through(K, W, w))
    BY <2>2, <2>3
  <2>. QED  BY <1>3, <1>5, <1>10, <2>3, <2>4
<1>12. up(Held[w]) \in ToSet(W[Screen]) /\ up(w) \in ToSet(W[Screen])
  <2>1. K[Screen] \in Seq(X) /\ \A a \in X : W[a] \in Seq(C)
    BY <1>5, <1>7, <1>8
  <2>2. \A i \in 1 .. Len(K[Screen]) : ToSet(W[K[Screen][i]]) \subseteq ToSet(Through(K, W, Screen))
    BY <1>3, <1>4, <2>1, ThroughHolds DEF up
  <2>3. ToSet(W[w]) \subseteq ToSet(W[Screen])
    BY <1>3, <1>5, <1>9, <2>2
  <2>. QED  BY <1>11, <2>3
<1>13. W[Screen] \in Seq([going : {"down", "up"}, view : Below(X)])
  BY <1>3, <1>5 DEF C, CallsOn
<1>14. ASSUME NEW v, up(v) \in ToSet(W[Screen])
       PROVE  OnScreen(t, v)
  <2>1. PICK i \in 1 .. Len(W[Screen]) : W[Screen][i] = up(v)
    <3>1. DOMAIN W[Screen] = 1 .. Len(W[Screen])
      BY <1>13
    <3>. QED  BY <1>14, <3>1 DEF ToSet
  <2>2. W[Screen][i].going = "up" /\ W[Screen][i].view = v
    BY <2>1 DEF up, Call
  <2>3. Contains(Visits(W[Screen], "up"), W[Screen][i].view)
    BY <1>13, <2>1, <2>2, VisitHolds
  <2>. QED  BY <1>6, <2>2, <2>3 DEF OnScreen, FrontToBack
<1>. QED  BY <1>12, <1>14

\* What has boxes, as a tree has.
LEMMA HasBoxes ==
  ASSUME NEW t \in Trees
  PROVE  "box" \in DOMAIN t
BY DEF Trees

\* Flags and regions can change without any box.
LEMMA BoxesStay ==
  ASSUME NEW t, "box" \in DOMAIN t, NEW v, NEW f, NEW m, NEW r, NEW dx, NEW dy
  PROVE  /\ SetFlags(t, v, f, m).box = t.box /\ "box" \in DOMAIN SetFlags(t, v, f, m)
         /\ DirtyAll(t, v).box = t.box /\ "box" \in DOMAIN DirtyAll(t, v)
         /\ Dirty(t, v).box = t.box /\ "box" \in DOMAIN Dirty(t, v)
         /\ TransDirty(t, v, dx, dy).box = t.box /\ "box" \in DOMAIN TransDirty(t, v, dx, dy)
         /\ AddOpaque(t, v, r).box = t.box /\ "box" \in DOMAIN AddOpaque(t, v, r)
         /\ SubOpaque(t, v, r).box = t.box
         /\ ClrOpaque(t, v).box = t.box /\ "box" \in DOMAIN ClrOpaque(t, v)
         /\ ControlLayout(t, v).box = t.box /\ "box" \in DOMAIN ControlLayout(t, v)
<1>1. ASSUME NEW g, NEW n
      PROVE  SetFlags(t, v, g, n).box = t.box /\ "box" \in DOMAIN SetFlags(t, v, g, n)
  BY DEF SetFlags
<1>2. AddDirty(t, v, Whole(t.box[v])).box = t.box /\ "box" \in DOMAIN AddDirty(t, v, Whole(t.box[v]))
  BY DEF AddDirty
<1>3. TransDirty(t, v, dx, dy).box = t.box /\ "box" \in DOMAIN TransDirty(t, v, dx, dy)
  BY DEF TransDirty
<1>4. /\ AddOpaque(t, v, r).box = t.box /\ "box" \in DOMAIN AddOpaque(t, v, r)
      /\ SubOpaque(t, v, r).box = t.box
      /\ ClrOpaque(t, v).box = t.box /\ "box" \in DOMAIN ClrOpaque(t, v)
  BY DEF AddOpaque, SubOpaque, ClrOpaque
<1>5. ControlLayout(t, v).box = t.box /\ "box" \in DOMAIN ControlLayout(t, v)
  BY <1>1 DEF ControlLayout
<1>. QED  BY <1>1, <1>2, <1>3, <1>4, <1>5 DEF DirtyAll, Dirty

\* So can the lists of children.
LEMMA ListsOnly ==
  ASSUME NEW t, "box" \in DOMAIN t, NEW p, NEW v, NEW i
  PROVE  /\ Sub(t, v).box = t.box /\ "box" \in DOMAIN Sub(t, v)
         /\ Insert(t, p, v, i).box = t.box /\ "box" \in DOMAIN Insert(t, p, v, i)
BY DEF Sub, Insert

LEMMA AddStays ==
  ASSUME NEW t, "box" \in DOMAIN t, NEW v
  PROVE  /\ AddFront(t, Screen, v).box = t.box /\ "box" \in DOMAIN AddFront(t, Screen, v)
         /\ AddBack(t, Screen, v).box = t.box /\ "box" \in DOMAIN AddBack(t, Screen, v)
<1>. DEFINE s == Sub(t, v)
            i == FirstIndex(s.kids[Screen], LAMBDA u : ~Has(s, u, "at_front"))
            j == FirstIndex(s.kids[Screen], LAMBDA u : Has(s, u, "at_back"))
<1>1. AddFront(t, Screen, v) = Insert(s, Screen, v, i) /\ AddBack(t, Screen, v) = Insert(s, Screen, v, j)
  BY DEF AddFront, AddBack
<1>2. s.box = t.box /\ "box" \in DOMAIN s
  BY ListsOnly
<1>. HIDE DEF s, i, j
<1>. QED  BY <1>1, <1>2, ListsOnly

\* A stand-in gets a box, a window keeps its own.
LEMMA GhostStays ==
  ASSUME NEW t \in Trees, NEW v, Spare(t)
  PROVE  Placed(t, Ghost(t, v)) /\ "box" \in DOMAIN Ghost(t, v)
<1>. DEFINE g == CHOOSE n \in Ghosts : t.parent[n] = NoView
            there == [t EXCEPT !.parent[g] = t.parent[v], !.box[g] = t.box[v],
                               !.kids[t.parent[v]][PlaceOf(t, v)] = g,
                               !.temps = Append(@, g)]
<1>1. g \in Ghosts
  BY DEF Spare
<1>2. Ghost(t, v) = SetFlags(there, g, {"dirty_all"}, {"dirty_all", "solid"})
  BY DEF Ghost
<1>. HIDE DEF g
<1>3. there.box = [t.box EXCEPT ![g] = t.box[v]] /\ "box" \in DOMAIN there
  BY DEF Trees
<1>4. \A w \in Windows : [t.box EXCEPT ![g] = t.box[v]][w] = t.box[w]
  BY <1>1, ViewsAssumption DEF Trees, Nodes, Views
<1>. HIDE DEF there
<1>5. Ghost(t, v).box = there.box /\ "box" \in DOMAIN Ghost(t, v)
  BY <1>2, <1>3, BoxesStay
<1>. QED  BY <1>3, <1>4, <1>5 DEF Placed

LEMMA HideStays ==
  ASSUME NEW t \in Trees, NEW v, Spare(t)
  PROVE  Placed(t, Sub(Hide(t, v), v))
<1>1. Placed(t, Hide(t, v)) /\ "box" \in DOMAIN Hide(t, v)
  BY GhostStays, HasBoxes DEF Hide, Placed
<1>. QED  BY <1>1, ListsOnly DEF Placed

LEMMA ToFrontStays ==
  ASSUME NEW t \in Trees, NEW v
  PROVE  Placed(t, ToFront(t, v))
<1>. DEFINE p == t.parent[v]
            me == PlaceOf(t, v)
            front == FirstIndex(t.kids[p], LAMBDA u : u = v \/ ~Has(t, u, "at_front"))
            u == [t EXCEPT !.kids[p] = InsertAt(RemoveAt(@, me), front, v)]
<1>1. ToFront(t, v) \in {t, DirtyAll(u, v)}
  BY DEF ToFront
<1>2. u.box = t.box /\ "box" \in DOMAIN u
  BY DEF Trees
<1>. HIDE DEF u
<1>. QED  BY <1>1, <1>2, BoxesStay DEF Placed

LEMMA ToBackStays ==
  ASSUME NEW t \in Trees, NEW v, Spare(t)
  PROVE  Placed(t, ToBack(t, v))
<1>. DEFINE p == t.parent[v]
            me == PlaceOf(t, v)
            back == FirstIndex(t.kids[p], LAMBDA u : PlaceOf(t, u) >= me /\ Has(t, u, "at_back"))
            g == Ghost(t, v)
<1>1. ToBack(t, v) \in {t, [g EXCEPT !.kids[p] = InsertAt(@, back, v)]}
  BY DEF ToBack
<1>2. Placed(t, g) /\ "box" \in DOMAIN g
  BY GhostStays
<1>. HIDE DEF g
<1>3. [g EXCEPT !.kids[p] = InsertAt(@, back, v)].box = g.box
  BY <1>2
<1>. QED  BY <1>1, <1>2, <1>3 DEF Placed

\* A window that is laid out moves nothing but what is inside it.
LEMMA LayoutStays ==
  ASSUME NEW t \in Trees, NEW w \in Windows, t.kids[w] = <<Held[w]>>
  PROVE  Placed(t, WindowLayout(t, w))
<1>. DEFINE edge == Border[w] + Shadow[w]
            b == t.box[w]
            inner == Box(edge, edge, b.w - 2 * edge, b.h - 2 * edge)
            moved == SetBounds(t, Held[w], inner)
            filled == ChangeControl(t, Held[w], inner)
            lit == SetFlags(filled, w, {"opaque"}, {"opaque"})
            clear == ClrOpaque(filled, w)
            core == InParent(Box(Shadow[w], Shadow[w], b.w - 2 * Shadow[w], b.h - 2 * Shadow[w]))
            mended == AddOpaque(clear, w, core)
<1>1. WindowLayout(t, w) \in {filled, lit, mended}
  BY DEF WindowLayout
<1>2. moved.box = [t.box EXCEPT ![Held[w]] = inner] /\ "box" \in DOMAIN moved
  BY DEF SetBounds, Trees
<1>3. Held[w] \in Controls /\ Controls \cap Windows = {}
  BY GuiAssumption, ViewsAssumption
<1>4. filled \in {moved, ControlLayout(moved, Held[w])}
  BY DEF ChangeControl
<1>. HIDE DEF inner, core, moved, filled
<1>5. filled.box = moved.box /\ "box" \in DOMAIN filled
  BY <1>2, <1>4, BoxesStay
<1>6. lit.box = filled.box /\ clear.box = filled.box /\ "box" \in DOMAIN clear
  BY <1>5, BoxesStay
<1>. HIDE DEF lit, clear
<1>7. mended.box = filled.box
  BY <1>6, BoxesStay
<1>. HIDE DEF mended
<1>8. \A u \in Windows : [t.box EXCEPT ![Held[w]] = inner][u] = t.box[u]
  BY <1>3 DEF Trees, Nodes, Views
<1>. QED  BY <1>1, <1>2, <1>5, <1>6, <1>7, <1>8, ZenonT(30) DEF Placed

\* A window goes where it is told, and no other window with it.
Moves(t, u, w, b) == u.box[w] = b /\ \A v \in Windows \ {w} : u.box[v] = t.box[v]

LEMMA ChangeMoves ==
  ASSUME NEW t \in Trees, NEW w \in Windows, t.kids[w] = <<Held[w]>>, NEW b \in Boxes
  PROVE  Moves(t, Change(t, w, b), w, b)
<1>. DEFINE u == SetBounds(t, w, b)
<1>0. w \in Nodes
  BY DEF Nodes, Views
<1>1. u \in Trees /\ Same(t, u)
  BY <1>0, SetBoundsTree
<1>2. Change(t, w, b) \in {u, WindowLayout(u, w)}
  BY DEF Change
<1>3. u.box = [t.box EXCEPT ![w] = b]
  BY DEF SetBounds, Trees
<1>4. Moves(t, u, w, b)
  <2>1. t.box \in [Nodes -> Boxes] /\ Windows \subseteq Nodes
    BY DEF Trees, Nodes, Views
  <2>. HIDE DEF u
  <2>. QED  BY <1>3, <2>1 DEF Moves
<1>. HIDE DEF u
<1>5. Placed(u, WindowLayout(u, w))
  <2>1. u.kids[w] = <<Held[w]>>
    BY <1>1 DEF Same
  <2>. QED  BY <1>1, <2>1, LayoutStays
<1>. QED  BY <1>2, <1>4, <1>5 DEF Moves, Placed

LEMMA ChangeDirtyMoves ==
  ASSUME NEW t \in Trees, NEW w \in Windows, t.kids[w] = <<Held[w]>>, NEW b \in Boxes
  PROVE  Moves(t, ChangeDirty(t, w, b), w, b)
<1>. DEFINE old == t.box[w]
            a == Dirty(t, w)
            c == Change(a, w, b)
            d == TransDirty(c, w, old.x - b.x, old.y - b.y)
            e == DirtyAll(d, w)
<1>1. w \in Nodes
  BY DEF Nodes, Views
<1>2. a \in Trees /\ Same(t, a) /\ a.box = t.box
  BY <1>1, DirtyTree, HasBoxes, BoxesStay
<1>3. ChangeDirty(t, w, b) = e
  BY DEF ChangeDirty
<1>. HIDE DEF a
<1>4. c \in Trees /\ Moves(a, c, w, b)
  <2>1. a.kids[w] = <<Held[w]>>
    BY <1>2 DEF Same
  <2>. QED  BY <1>2, <2>1, ChangeTree, ChangeMoves
<1>. HIDE DEF c, old
<1>5. d.box = c.box /\ "box" \in DOMAIN d
  BY <1>4, HasBoxes, BoxesStay
<1>. HIDE DEF d
<1>6. e.box = d.box
  BY <1>5, BoxesStay
<1>. HIDE DEF e
<1>. QED  BY <1>2, <1>3, <1>4, <1>5, <1>6 DEF Moves

-----------------------------------------------------------------------------
(* The invariant: the mail of a window that is not on the screen yet holds *)
(* nothing but the answer it waits for, and a window on the screen has an  *)
(* application that reads its mail.                                        *)

BoundsMail == [type : {"bounds"}, box : Boxes]
MouseMail == [type : {"mouse"}, view : Nodes, x : Int, y : Int, rx : Int, ry : Int, buttons : SUBSET Int]
Messages == MouseMail \cup BoundsMail \cup [type : {"exit", "action"}]
Requests == [evt : {"add_front", "add_back", "sub"}, view : Windows]
              \cup [evt : {"locate"}, view : Windows, w : Int, h : Int, pos : Positions]
Phases == {"waiting", "poll", "frame", "ended", "crashed"}
Lives == {"new", "asking", "opening", "open", "closing", "gone"}

MouseOK == /\ at \in [Nodes -> Int \X Int]
           /\ mouse \in [x : Int, y : Int, buttons : SUBSET Int, id : Nodes \cup {NoView}]
WidgetsOK == /\ grip \in [Windows -> [last : SUBSET Int, mode : SUBSET {"x", "y", "x1", "y1"}, x : Int, y : Int]]
             /\ drag \in [Titles -> Int \X Int]
             /\ state \in [Buttons -> {-1, 1}]
MailOK == /\ app \in [Windows -> Lives]
          /\ mail \in [Windows -> Seq(Messages)]
          /\ \A w \in Windows : app[w] \in {"new", "asking"} => mail[w] \in Seq(BoundsMail)
ShownAreOpen == \A w \in Windows : w \in On(tree) => app[w] \in {"open", "closing"}

IInv ==
  /\ tree \in WellTrees /\ MouseOK /\ WidgetsOK /\ MailOK /\ ShownAreOpen
  /\ box \in Seq(Requests) /\ phase \in Phases

LEMMA InitIInv == Init => IInv
<1>. SUFFICES ASSUME Init PROVE IInv
  OBVIOUS
<1>1. tree \in WellTrees /\ On(tree) = {}
  <2>. DEFINE a == SetBounds(Unborn, Screen, ScreenBox)
              b == ControlLayout(a, Screen)
  <2>1. Unborn \in Trees /\ Unborn \in WellTrees /\ On(Unborn) = {} /\ Screen \in Nodes /\ ScreenBox \in Boxes
    BY UnbornTree, GuiAssumption DEF WellTrees, Nodes, Views
  <2>2. a \in Trees /\ Same(Unborn, a)
    BY <2>1, SetBoundsTree
  <2>3. b \in Trees /\ Same(a, b)
    BY <2>1, <2>2, ControlLayoutTree
  <2>4. DirtyAll(b, Screen) \in Trees /\ Same(b, DirtyAll(b, Screen))
    BY <2>1, <2>3, DirtyAllTree
  <2>5. tree = DirtyAll(b, Screen)
    BY DEF Init
  <2>. HIDE DEF a, b
  <2>6. Same(Unborn, tree)
    BY <2>2, <2>3, <2>4, <2>5, SameTwice
  <2>. QED  BY <2>1, <2>4, <2>5, <2>6, SameShape
<1>2. MouseOK
  BY DEF Init, MouseOK
<1>3. WidgetsOK
  BY DEF Init, WidgetsOK
<1>4. MailOK
  BY DEF Init, MailOK, Lives
<1>5. ShownAreOpen
  BY <1>1 DEF ShownAreOpen
<1>6. box \in Seq(Requests) /\ phase \in Phases
  BY DEF Init, Phases
<1>. QED  BY <1>1, <1>2, <1>3, <1>4, <1>5, <1>6 DEF IInv

\* Mail to the owner of a view that can be seen.
LEMMA TellMail ==
  ASSUME IInv, NEW v \in Seen(tree), NEW msg \in Messages, Tell(v, msg), app' = app
  PROVE  MailOK'
<1>. DEFINE o == FindOwner(tree, v)
<1>1. o \in Windows \cup {NoView} /\ (o \in Windows => app[o] \in {"open", "closing"})
  <2>1. v \in Nodes /\ On(tree) \subseteq Windows \cup Ghosts
    BY OnTypes DEF IInv
  <2>2. o \in Windows \cup {NoView} /\ o \in On(tree) \cup {NoView}
    BY <2>1, Owners DEF IInv
  <2>3. NoView \notin Windows
    BY ViewsAssumption DEF Nodes, Views
  <2>. HIDE DEF o
  <2>. QED  BY <2>2, <2>3 DEF IInv, ShownAreOpen
<1>2. mail' = IF o = NoView THEN mail ELSE [mail EXCEPT ![o] = Append(@, msg)]
  BY DEF Tell
<1>. HIDE DEF o
<1>3. mail' \in [Windows -> Seq(Messages)]
  <2>1. mail \in [Windows -> Seq(Messages)]
    BY DEF IInv, MailOK
  <2>. HIDE DEF Messages
  <2>2. \A w \in Windows : Append(mail[w], msg) \in Seq(Messages)
    BY <2>1
  <2>. QED  BY <1>1, <1>2, <2>1, <2>2
<1>4. ASSUME NEW w \in Windows, app[w] \in {"new", "asking"}
      PROVE  mail'[w] \in Seq(BoundsMail)
  <2>1. w # o /\ mail[w] \in Seq(BoundsMail) /\ mail \in [Windows -> Seq(Messages)]
    BY <1>1, <1>4 DEF IInv, MailOK
  <2>2. mail'[w] = mail[w]
    BY <1>2, <2>1
  <2>. QED  BY <2>1, <2>2
<1>. QED  BY <1>3, <1>4 DEF IInv, MailOK

LEMMA MouseMessage ==
  ASSUME IInv, MouseOK', NEW v \in Nodes
  PROVE  Mouse("mouse", v) \in Messages
<1>. DEFINE m == Mouse("mouse", v)
<1>1. mouse'.x \in Int /\ mouse'.y \in Int /\ mouse'.buttons \in SUBSET Int /\ at[v][1] \in Int /\ at[v][2] \in Int
  BY DEF IInv, MouseOK
<1>2. mouse'.x - at[v][1] \in Int /\ mouse'.y - at[v][2] \in Int
  BY <1>1
<1>3. m = [type |-> "mouse", view |-> v, x |-> mouse'.x, y |-> mouse'.y,
           rx |-> mouse'.x - at[v][1], ry |-> mouse'.y - at[v][2], buttons |-> mouse'.buttons]
  BY DEF Mouse
<1>4. m \in MouseMail
  BY <1>1, <1>2, <1>3 DEF MouseMail
<1>. QED  BY <1>4 DEF Messages

LEMMA SeenNodes ==
  ASSUME IInv
  PROVE  /\ Seen(tree) \subseteq Nodes /\ NoView \notin Nodes
         /\ \A v : OnScreen(tree, v) => v \in Seen(tree)
         /\ \A p : HitAt(p) \in Seen(tree) \cup {NoView}
BY OnTypes, FoundIsSeen, ViewsAssumption DEF IInv, HitAt

LEMMA ButtonDownKeeps ==
  ASSUME IInv, NEW b \in {"left", "right"}, NEW p \in Points, ButtonDown(b, p)
  PROVE  IInv'
<1>1. /\ tree' = tree /\ box' = box /\ app' = app /\ at' = at /\ UNCHANGED widgetVars
      /\ \/ phase' = "crashed" /\ mouse' = mouse /\ mail' = mail
         \/ /\ HitAt(p) # NoView /\ phase' = "frame"
            /\ mouse' = [x |-> p[1], y |-> p[2], id |-> HitAt(p), buttons |-> mouse.buttons \cup Number(b)]
            /\ Tell(HitAt(p), Mouse("mouse", HitAt(p)))
  BY DEF ButtonDown, Other, Event, Crash
<1>2. MouseOK'
  <2>1. Number(b) \in SUBSET Int /\ p[1] \in Int /\ p[2] \in Int
    BY GuiAssumption DEF Number
  <2>2. HitAt(p) \in Nodes \cup {NoView}
    BY SeenNodes
  <2>. QED  BY <1>1, <2>1, <2>2 DEF IInv, MouseOK
<1>3. MailOK'
  <2>1. CASE mail' = mail
    BY <1>1, <2>1 DEF IInv, MailOK
  <2>2. CASE HitAt(p) # NoView /\ Tell(HitAt(p), Mouse("mouse", HitAt(p)))
    <3>1. HitAt(p) \in Seen(tree) /\ HitAt(p) \in Nodes
      BY <2>2, SeenNodes
    <3>. QED  BY <1>1, <1>2, <2>2, <3>1, MouseMessage, TellMail
  <2>. QED  BY <1>1, <2>1, <2>2
<1>4. WidgetsOK' /\ ShownAreOpen' /\ phase' \in Phases
  BY <1>1 DEF IInv, WidgetsOK, ShownAreOpen, widgetVars, Phases
<1>. QED  BY <1>1, <1>2, <1>3, <1>4 DEF IInv

LEMMA ButtonUpKeeps ==
  ASSUME IInv, NEW b \in {"left", "right"}, ButtonUp(b)
  PROVE  IInv'
<1>1. /\ tree' = tree /\ box' = box /\ app' = app /\ at' = at /\ UNCHANGED widgetVars /\ phase' = "frame"
      /\ mouse' = [mouse EXCEPT !.buttons = @ \ Number(b)]
      /\ \/ mail' = mail
         \/ OnScreen(tree, mouse.id) /\ Tell(mouse.id, Mouse("mouse", mouse.id))
  BY DEF ButtonUp, Event
<1>2. MouseOK'
  BY <1>1 DEF IInv, MouseOK
<1>3. MailOK'
  <2>1. CASE mail' = mail
    BY <1>1, <2>1 DEF IInv, MailOK
  <2>2. CASE OnScreen(tree, mouse.id) /\ Tell(mouse.id, Mouse("mouse", mouse.id))
    <3>1. mouse.id \in Seen(tree) /\ mouse.id \in Nodes
      BY <2>2, SeenNodes
    <3>. QED  BY <1>1, <1>2, <2>2, <3>1, MouseMessage, TellMail
  <2>. QED  BY <1>1, <2>1, <2>2
<1>4. WidgetsOK' /\ ShownAreOpen' /\ phase' \in Phases
  BY <1>1 DEF IInv, WidgetsOK, ShownAreOpen, widgetVars, Phases
<1>. QED  BY <1>1, <1>2, <1>3, <1>4 DEF IInv

LEMMA MotionKeeps ==
  ASSUME IInv, NEW p \in Points, Motion(p)
  PROVE  IInv'
<1>. DEFINE v == IF held = {} THEN HitAt(p) ELSE mouse.id
<1>1. /\ tree' = tree /\ box' = box /\ app' = app /\ at' = at /\ UNCHANGED widgetVars
      /\ \/ phase' = "crashed" /\ mouse' = mouse /\ mail' = mail
         \/ /\ phase' = "frame"
            /\ mouse' = [x |-> p[1], y |-> p[2], id |-> v, buttons |-> Mask(held)]
            /\ \/ mail' = mail
               \/ OnScreen(tree, v) /\ Tell(v, Mouse("mouse", v))
  BY DEF Motion, Event, Crash
<1>2. v \in Nodes \cup {NoView}
  BY SeenNodes DEF IInv, MouseOK
<1>. HIDE DEF v
<1>3. MouseOK'
  <2>1. Mask(held) \in SUBSET Int /\ p[1] \in Int /\ p[2] \in Int
    BY GuiAssumption DEF Mask
  <2>. QED  BY <1>1, <1>2, <2>1 DEF IInv, MouseOK
<1>4. MailOK'
  <2>1. CASE mail' = mail
    BY <1>1, <2>1 DEF IInv, MailOK
  <2>2. CASE OnScreen(tree, v) /\ Tell(v, Mouse("mouse", v))
    <3>1. v \in Seen(tree) /\ v \in Nodes
      BY <2>2, SeenNodes
    <3>. QED  BY <1>1, <1>3, <2>2, <3>1, MouseMessage, TellMail
  <2>. QED  BY <1>1, <2>1, <2>2
<1>5. WidgetsOK' /\ ShownAreOpen' /\ phase' \in Phases
  BY <1>1 DEF IInv, WidgetsOK, ShownAreOpen, widgetVars, Phases
<1>. QED  BY <1>1, <1>3, <1>4, <1>5 DEF IInv

LEMMA KeyOrWheelKeeps ==
  ASSUME IInv, KeyOrWheel
  PROVE  IInv'
<1>. DEFINE v == HitAt(<<mouse.x, mouse.y>>)
<1>1. /\ tree' = tree /\ box' = box /\ app' = app /\ at' = at /\ UNCHANGED widgetVars /\ mail' = mail
      /\ \/ phase' = "crashed" /\ mouse' = mouse
         \/ phase' = "frame" /\ mouse' = [mouse EXCEPT !.id = v]
  BY DEF KeyOrWheel, Other, Event, Crash
<1>2. v \in Nodes \cup {NoView}
  BY SeenNodes
<1>. HIDE DEF v
<1>3. MouseOK'
  BY <1>1, <1>2 DEF IInv, MouseOK
<1>4. WidgetsOK' /\ ShownAreOpen' /\ phase' \in Phases /\ MailOK'
  BY <1>1 DEF IInv, WidgetsOK, ShownAreOpen, widgetVars, Phases, MailOK
<1>. QED  BY <1>1, <1>3, <1>4 DEF IInv

\* A step that only touches the tree keeps the views where they are.
LEMMA TreeStep ==
  ASSUME IInv, tree' \in WellTrees, On(tree') \cap Windows \subseteq On(tree),
         UNCHANGED <<at, mouse, grip, drag, state, app, mail, box>>, phase' \in Phases
  PROVE  IInv'
BY DEF IInv, MouseOK, WidgetsOK, MailOK, ShownAreOpen

LEMMA SizeChangedKeeps ==
  ASSUME IInv, NEW s \in Sizes, SizeChanged(s)
  PROVE  IInv'
<1>. DEFINE b == Box(0, 0, s[1], s[2])
            t == SetBounds(tree, Screen, b)
            F == {"dirty_all", "screen"}
<1>1. b \in Boxes /\ F \in SUBSET Flags /\ Screen \in Nodes /\ tree \in Trees /\ tree \in WellTrees
  BY GuiAssumption DEF Box, Boxes, Flags, Nodes, Views, IInv, WellTrees
<1>2. tree' = SetFlags(t, Screen, F, F)
  BY DEF SizeChanged
<1>3. UNCHANGED <<at, mouse, grip, drag, state, app, mail, box>> /\ phase' \in Phases
  BY DEF SizeChanged, Event, widgetVars, Phases
<1>. HIDE DEF b, F
<1>4. t \in Trees /\ Same(tree, t)
  BY <1>1, SetBoundsTree
<1>. HIDE DEF t
<1>5. tree' \in Trees /\ Same(t, tree')
  BY <1>1, <1>2, <1>4, SetFlagsTree
<1>6. Same(tree, tree')
  BY <1>4, <1>5, SameTwice
<1>7. tree' \in WellTrees /\ On(tree') = On(tree)
  BY <1>1, <1>5, <1>6, SameShape
<1>. QED  BY <1>3, <1>7, TreeStep

LEMMA ShownKeeps ==
  ASSUME IInv, Shown
  PROVE  IInv'
<1>1. Screen \in Nodes /\ tree \in Trees /\ tree \in WellTrees
  BY DEF Nodes, Views, IInv, WellTrees
<1>2. tree' = DirtyAll(tree, Screen)
  BY DEF Shown
<1>3. UNCHANGED <<at, mouse, grip, drag, state, app, mail, box>> /\ phase' \in Phases
  BY DEF Shown, Other, Event, widgetVars, Phases
<1>4. tree' \in Trees /\ Same(tree, tree')
  BY <1>1, <1>2, DirtyAllTree
<1>5. tree' \in WellTrees /\ On(tree') = On(tree)
  BY <1>1, <1>4, SameShape
<1>. QED  BY <1>3, <1>5, TreeStep

LEMMA QuitKeeps ==
  ASSUME IInv, Quit
  PROVE  IInv'
<1>1. /\ UNCHANGED <<tree, at, mouse, grip, drag, state, app, box>> /\ phase' \in Phases
      /\ mail' = [w \in Windows |-> IF Among(tree, Screen, w) THEN Append(mail[w], [type |-> "exit"])
                                   ELSE mail[w]]
  BY DEF Quit, Other, Event, widgetVars, Phases
<1>2. \A w \in Windows : Among(tree, Screen, w) => w \in On(tree)
  BY DEF Among, On, ToSet
<1>3. [type |-> "exit"] \in Messages
  BY DEF Messages
<1>4. mail' \in [Windows -> Seq(Messages)]
  <2>1. mail \in [Windows -> Seq(Messages)]
    BY DEF IInv, MailOK
  <2>. HIDE DEF Messages
  <2>2. \A w \in Windows : Append(mail[w], [type |-> "exit"]) \in Seq(Messages)
    BY <1>3, <2>1
  <2>. QED  BY <1>1, <2>1, <2>2
<1>5. ASSUME NEW w \in Windows, app[w] \in {"new", "asking"}
      PROVE  mail'[w] \in Seq(BoundsMail)
  <2>1. ~Among(tree, Screen, w)
    BY <1>2, <1>5 DEF IInv, ShownAreOpen
  <2>2. mail'[w] = mail[w]
    BY <1>1, <2>1
  <2>. QED  BY <1>5, <2>2 DEF IInv, MailOK
<1>6. MailOK'
  BY <1>1, <1>4, <1>5 DEF IInv, MailOK
<1>. QED  BY <1>1, <1>6 DEF IInv, MouseOK, WidgetsOK, ShownAreOpen

\* What EndFrame leaves: t is the tree that is drawn, and u what compositing
\* makes of it.
Ended(t, shown, u) ==
  /\ t \in {DirtyAll(tree, Screen), tree}
  /\ u = t \/ u = Composite(t, shown).tree
  /\ tree' = DropTemps([u EXCEPT !.gui = {}])
  /\ at' = IF "dirty_all" \in t.gui
           THEN [v \in Nodes |-> IF OnScreen(t, v) /\ v \notin Ghosts THEN Place(t, v) ELSE at[v]]
           ELSE at

LEMMA EndFrameIs ==
  ASSUME EndFrame
  PROVE  \E t, blank, u : Ended(t, blank, u)
<1>1. PICK resized \in {"screen" \in tree.gui} :
        \E t \in {IF resized THEN DirtyAll(tree, Screen) ELSE tree} :
        \E blank \in {IF resized THEN [p \in Grid |-> <<>>] ELSE fb} :
        \E end \in {IF "dirty_all" \in t.gui THEN Composite(t, blank)
                    ELSE [tree |-> t, fb |-> blank, fresh |-> {}]} :
          /\ tree' = DropTemps([end.tree EXCEPT !.gui = {}])
          /\ at' = IF "dirty_all" \in t.gui
                   THEN [v \in Nodes |-> IF OnScreen(t, v) /\ v \notin Ghosts THEN Place(t, v) ELSE at[v]]
                   ELSE at
  BY DEF EndFrame
<1>2. PICK t \in {IF resized THEN DirtyAll(tree, Screen) ELSE tree} :
        \E blank \in {IF resized THEN [p \in Grid |-> <<>>] ELSE fb} :
        \E end \in {IF "dirty_all" \in t.gui THEN Composite(t, blank)
                    ELSE [tree |-> t, fb |-> blank, fresh |-> {}]} :
          /\ tree' = DropTemps([end.tree EXCEPT !.gui = {}])
          /\ at' = IF "dirty_all" \in t.gui
                   THEN [v \in Nodes |-> IF OnScreen(t, v) /\ v \notin Ghosts THEN Place(t, v) ELSE at[v]]
                   ELSE at
  BY <1>1, Zenon
<1>3. PICK blank \in {IF resized THEN [p \in Grid |-> <<>>] ELSE fb} :
        \E end \in {IF "dirty_all" \in t.gui THEN Composite(t, blank)
                    ELSE [tree |-> t, fb |-> blank, fresh |-> {}]} :
          /\ tree' = DropTemps([end.tree EXCEPT !.gui = {}])
          /\ at' = IF "dirty_all" \in t.gui
                   THEN [v \in Nodes |-> IF OnScreen(t, v) /\ v \notin Ghosts THEN Place(t, v) ELSE at[v]]
                   ELSE at
  BY <1>2, Zenon
<1>4. PICK end \in {IF "dirty_all" \in t.gui THEN Composite(t, blank)
                    ELSE [tree |-> t, fb |-> blank, fresh |-> {}]} :
          /\ tree' = DropTemps([end.tree EXCEPT !.gui = {}])
          /\ at' = IF "dirty_all" \in t.gui
                   THEN [v \in Nodes |-> IF OnScreen(t, v) /\ v \notin Ghosts THEN Place(t, v) ELSE at[v]]
                   ELSE at
  BY <1>3, Zenon
<1>5. t \in {DirtyAll(tree, Screen), tree}
  BY <1>2
<1>6. end.tree = t \/ end.tree = Composite(t, blank).tree
  BY <1>4
<1>7. Ended(t, blank, end.tree)
  BY <1>4, <1>5, <1>6 DEF Ended
<1>. QED  BY <1>7

LEMMA EndFrameKeeps ==
  ASSUME IInv, EndFrame
  PROVE  IInv'
<1>1. UNCHANGED <<mouse, box, app, mail, grip, drag, state>> /\ phase' \in Phases
  BY DEF EndFrame, widgetVars, Phases
<1>2. PICK t, blank, u : Ended(t, blank, u)
  BY EndFrameIs
<1>3. t \in WellTrees /\ On(t) = On(tree)
  <2>1. tree \in WellTrees /\ tree \in Trees /\ Screen \in Nodes
    BY DEF IInv, WellTrees, Nodes, Views
  <2>2. DirtyAll(tree, Screen) \in Trees /\ Same(tree, DirtyAll(tree, Screen))
    BY <2>1, DirtyAllTree
  <2>3. DirtyAll(tree, Screen) \in WellTrees /\ On(DirtyAll(tree, Screen)) = On(tree)
    BY <2>1, <2>2, SameShape
  <2>4. t = DirtyAll(tree, Screen) \/ t = tree
    BY <1>2 DEF Ended
  <2>. QED  BY <2>1, <2>3, <2>4
<1>4. tree' \in WellTrees /\ On(tree') \subseteq On(tree)
  <2>1. (u = t \/ u = Composite(t, blank).tree) /\ tree' = DropTemps([u EXCEPT !.gui = {}])
    BY <1>2 DEF Ended
  <2>. QED  BY <1>3, <2>1, FrameTree
<1>5. at' \in [Nodes -> Int \X Int]
  <2>1. at \in [Nodes -> Int \X Int]
    BY DEF IInv, MouseOK
  <2>2. \A v \in Nodes : Place(t, v) \in Int \X Int
    BY <1>3, PlaceWalk
  <2>. QED  BY <1>2, <2>1, <2>2 DEF Ended
<1>. QED  BY <1>1, <1>4, <1>5 DEF IInv, MouseOK, WidgetsOK, MailOK, ShownAreOpen

LEMMA ChangedTree ==
  ASSUME NEW t \in WellTrees, NEW w \in Windows, NEW b \in Boxes
  PROVE  /\ Change(t, w, b) \in WellTrees /\ On(Change(t, w, b)) = On(t)
         /\ ChangeDirty(t, w, b) \in WellTrees /\ On(ChangeDirty(t, w, b)) = On(t)
<1>1. t \in Trees /\ t.kids[w] = <<Held[w]>>
  BY DEF WellTrees, Shaped
<1>2. Change(t, w, b) \in Trees /\ Same(t, Change(t, w, b))
  BY <1>1, ChangeTree
<1>3. ChangeDirty(t, w, b) \in Trees /\ Same(t, ChangeDirty(t, w, b))
  BY <1>1, ChangeDirtyTree
<1>. QED  BY <1>2, <1>3, SameShape

\* A window is not on the screen yet, so that what is said of the windows on
\* the screen does not change with it.
LEMMA Asked ==
  ASSUME IInv, NEW w \in Windows, app[w] \in {"new", "asking"}, NEW life \in {"asking", "opening"},
         life = "asking" => mail'[w] = mail[w],
         mail' \in [Windows -> Seq(Messages)], \A v \in Windows \ {w} : mail'[v] = mail[v],
         app' = [app EXCEPT ![w] = life],
         tree' \in WellTrees, On(tree') = On(tree),
         box' \in Seq(Requests), UNCHANGED <<at, mouse, grip, drag, state, phase>>
  PROVE  IInv'
<1>1. MailOK'
  <2>1. app' \in [Windows -> Lives]
    BY DEF IInv, MailOK, Lives
  <2>2. ASSUME NEW v \in Windows, app'[v] \in {"new", "asking"}
        PROVE  mail'[v] \in Seq(BoundsMail)
    <3>1. CASE v = w
      <4>1. life = "asking"
        BY <2>2, <3>1 DEF IInv, MailOK
      <4>. QED  BY <3>1, <4>1 DEF IInv, MailOK
    <3>2. CASE v # w
      BY <2>2, <3>2 DEF IInv, MailOK
    <3>. QED  BY <3>1, <3>2
  <2>. QED  BY <2>1, <2>2 DEF MailOK
<1>2. ShownAreOpen'
  BY DEF IInv, MailOK, ShownAreOpen
<1>. QED  BY <1>1, <1>2 DEF IInv, MouseOK, WidgetsOK

LEMMA RequestAdded ==
  ASSUME IInv, NEW w \in Windows, NEW evt \in {"add_front", "add_back", "sub"}, Request(evt, w)
  PROVE  box' \in Seq(Requests)
<1>1. [evt |-> evt, view |-> w] \in Requests
  BY DEF Requests
<1>2. box \in Seq(Requests)
  BY DEF IInv
<1>. QED  BY <1>1, <1>2 DEF Request

LEMMA LaunchKeeps ==
  ASSUME IInv, Launch
  PROVE  IInv'
<1>1. Launcher \in Windows /\ LauncherBox \in Boxes
  BY GuiAssumption
<1>2. /\ app[Launcher] = "new" /\ app' = [app EXCEPT ![Launcher] = "opening"]
      /\ tree' = Change(tree, Launcher, LauncherBox) /\ Request("add_front", Launcher)
      /\ UNCHANGED <<at, mouse, grip, drag, state, phase, mail>>
  BY DEF Launch, App, widgetVars
<1>3. tree' \in WellTrees /\ On(tree') = On(tree)
  BY <1>1, <1>2, ChangedTree DEF IInv
<1>4. box' \in Seq(Requests)
  BY <1>1, <1>2, RequestAdded
<1>5. mail' \in [Windows -> Seq(Messages)] /\ \A v \in Windows \ {Launcher} : mail'[v] = mail[v]
  BY <1>2 DEF IInv, MailOK
<1>. QED  BY <1>1, <1>2, <1>3, <1>4, <1>5, Asked

LEMMA PrefIs ==
  ASSUME NEW w \in Windows
  PROVE  Pref(w).w \in Int /\ Pref(w).h \in Int /\ Edge(w) \in Int
<1>1. Edge(w) \in Int
  BY EdgeIs DEF Edge
<1>2. PrefSize[Held[w]] \in [w : Nat, h : Nat]
  BY GuiAssumption
<1>. HIDE DEF Edge
<1>3. Pref(w) = [w |-> PrefSize[Held[w]].w + 2 * Edge(w), h |-> PrefSize[Held[w]].h + 2 * Edge(w)]
  BY DEF Pref
<1>. QED  BY <1>1, <1>2, <1>3

LEMMA AskKeeps ==
  ASSUME IInv, NEW w \in Windows, Ask(w)
  PROVE  IInv'
<1>1. PICK pos \in Positions :
        box' = Append(box, [evt |-> "locate", view |-> w, w |-> Pref(w).w, h |-> Pref(w).h, pos |-> pos])
  BY DEF Ask
<1>2. /\ app[w] = "new" /\ app' = [app EXCEPT ![w] = "asking"]
      /\ UNCHANGED <<tree, at, mouse, grip, drag, state, phase, mail>>
  BY DEF Ask, App, widgetVars
<1>3. box' \in Seq(Requests)
  <2>. DEFINE m == [evt |-> "locate", view |-> w, w |-> Pref(w).w, h |-> Pref(w).h, pos |-> pos]
  <2>1. m \in Requests
    BY PrefIs DEF Requests
  <2>2. box' = Append(box, m) /\ box \in Seq(Requests)
    BY <1>1 DEF IInv
  <2>. HIDE DEF m
  <2>. QED  BY <2>1, <2>2
<1>4. /\ mail' \in [Windows -> Seq(Messages)] /\ mail'[w] = mail[w]
      /\ \A v \in Windows \ {w} : mail'[v] = mail[v]
  BY <1>2 DEF IInv, MailOK
<1>5. tree' \in WellTrees /\ On(tree') = On(tree)
  BY <1>2 DEF IInv
<1>. QED  BY <1>2, <1>3, <1>4, <1>5, Asked

LEMMA TailTyped ==
  ASSUME NEW S, NEW s \in Seq(S), s # <<>>
  PROVE  Head(s) \in S /\ Tail(s) \in Seq(S)
OBVIOUS

LEMMA Opens ==
  ASSUME IInv, NEW w \in Windows, Open(w)
  PROVE  \E b \in Boxes : tree' = Change(tree, w, b)
<1>1. app[w] = "asking" /\ mail[w] # <<>> /\ tree' = Change(tree, w, Head(mail[w]).box)
  BY DEF Open
<1>2. mail[w] \in Seq(BoundsMail)
  BY <1>1 DEF IInv, MailOK
<1>3. Head(mail[w]) \in BoundsMail
  BY <1>1, <1>2, TailTyped
<1>. QED  BY <1>1, <1>3 DEF BoundsMail

LEMMA OpenKeeps ==
  ASSUME IInv, NEW w \in Windows, Open(w)
  PROVE  IInv'
<1>1. PICK evt \in {"add_front", "add_back"} : Request(evt, w)
  BY DEF Open
<1>2. /\ app[w] = "asking" /\ mail[w] # <<>> /\ app' = [app EXCEPT ![w] = "opening"]
      /\ tree' = Change(tree, w, Head(mail[w]).box)
      /\ mail' = [mail EXCEPT ![w] = Tail(@)]
      /\ UNCHANGED <<at, mouse, grip, drag, state, phase>>
  BY DEF Open, App, widgetVars
<1>3. mail \in [Windows -> Seq(Messages)] /\ mail[w] \in Seq(BoundsMail)
  BY <1>2 DEF IInv, MailOK
<1>4. PICK b \in Boxes : tree' = Change(tree, w, b)
  BY Opens
<1>5. tree' \in WellTrees /\ On(tree') = On(tree)
  BY <1>4, ChangedTree DEF IInv
<1>6. mail' \in [Windows -> Seq(Messages)] /\ \A v \in Windows \ {w} : mail'[v] = mail[v]
  <2>1. Tail(mail[w]) \in Seq(Messages)
    BY <1>2, <1>3, TailTyped
  <2>. QED  BY <1>2, <1>3, <2>1
<1>7. box' \in Seq(Requests)
  BY <1>1, RequestAdded
<1>. QED  BY <1>2, <1>5, <1>6, <1>7, Asked

LEMMA CloseKeeps ==
  ASSUME IInv, NEW w \in Windows, Close(w)
  PROVE  IInv'
<1>1. /\ app[w] = "open" /\ app' = [app EXCEPT ![w] = "closing"]
      /\ mail' = [mail EXCEPT ![w] = <<>>] /\ Request("sub", w)
      /\ UNCHANGED <<tree, at, mouse, grip, drag, state, phase>>
  BY DEF Close, App, widgetVars
<1>2. MailOK'
  <2>1. <<>> \in Seq(Messages) /\ <<>> \in Seq(BoundsMail)
    OBVIOUS
  <2>. QED  BY <1>1, <2>1 DEF IInv, MailOK, Lives
<1>3. ShownAreOpen'
  BY <1>1 DEF IInv, MailOK, ShownAreOpen
<1>4. box' \in Seq(Requests)
  BY <1>1, RequestAdded
<1>. QED  BY <1>1, <1>2, <1>3, <1>4 DEF IInv, MouseOK, WidgetsOK

\* What an open application takes from its mail.
LEMMA TakenMail ==
  ASSUME IInv, NEW w \in Windows, app[w] = "open", app' = app, NEW s \in Seq(Messages),
         mail' = [mail EXCEPT ![w] = s]
  PROVE  MailOK'
BY DEF IInv, MailOK

LEMMA GestureIs ==
  ASSUME IInv, NEW w \in Windows, NEW v, NEW g, Gestures(w, v, g)
  PROVE  /\ app[w] = "open" /\ mail[w] # <<>> /\ UNCHANGED <<at, mouse, phase, app, box>>
         /\ Head(mail[w]) \in MouseMail /\ Head(mail[w]).view = v
         /\ Tail(mail[w]) \in Seq(Messages)
         /\ Take(w) => MailOK'
         /\ LastButtons(w, Head(mail[w])) \in SUBSET Int
<1>1. /\ app[w] = "open" /\ mail[w] # <<>> /\ UNCHANGED <<at, mouse, phase, app, box>>
      /\ Head(mail[w]).type = "mouse" /\ Head(mail[w]).view = v
  BY DEF Gestures, App
<1>2. mail[w] \in Seq(Messages)
  BY DEF IInv, MailOK
<1>3. Head(mail[w]) \in Messages /\ Tail(mail[w]) \in Seq(Messages)
  BY <1>1, <1>2, TailTyped
<1>4. Head(mail[w]) \in MouseMail
  BY <1>1, <1>3 DEF Messages, BoundsMail, MouseMail
<1>5. Take(w) => MailOK'
  BY <1>1, <1>3, TakenMail DEF Take
<1>6. LastButtons(w, Head(mail[w])) \in SUBSET Int
  <2>1. Head(mail[w]).buttons \in SUBSET Int /\ grip[w].last \in SUBSET Int
    BY <1>4 DEF MouseMail, IInv, WidgetsOK
  <2>. QED  BY <2>1 DEF LastButtons
<1>. QED  BY <1>1, <1>3, <1>4, <1>5, <1>6

LEMMA RememberOK ==
  ASSUME IInv, NEW w \in Windows, LastButtons(w, Head(mail[w])) \in SUBSET Int, Remember(w)
  PROVE  grip' \in [Windows -> [last : SUBSET Int, mode : SUBSET {"x", "y", "x1", "y1"}, x : Int, y : Int]]
<1>. DEFINE new == LastButtons(w, Head(mail[w]))
<1>1. grip' = [grip EXCEPT ![w].last = new] /\ new \in SUBSET Int
  BY DEF Remember
<1>2. grip \in [Windows -> [last : SUBSET Int, mode : SUBSET {"x", "y", "x1", "y1"}, x : Int, y : Int]]
  BY DEF IInv, WidgetsOK
<1>. HIDE DEF new
<1>3. [grip[w] EXCEPT !.last = new] \in [last : SUBSET Int, mode : SUBSET {"x", "y", "x1", "y1"}, x : Int, y : Int]
  BY <1>1, <1>2
<1>. QED  BY <1>1, <1>2, <1>3

\* A step of an open application: what it does to its window and its widgets.
LEMMA WidgetStep ==
  ASSUME IInv, NEW w \in Windows, NEW v, NEW g, Gestures(w, v, g), MailOK', WidgetsOK',
         tree' \in WellTrees, \A u \in Windows : u \in On(tree') => u \in On(tree) \/ u = w
  PROVE  IInv'
<1>1. app[w] = "open" /\ UNCHANGED <<at, mouse, phase, app, box>>
  BY GestureIs
<1>2. ShownAreOpen'
  BY <1>1 DEF IInv, ShownAreOpen
<1>. QED  BY <1>1, <1>2 DEF IInv, MouseOK

LEMMA TitleDownKeeps ==
  ASSUME IInv, NEW w \in Windows, NEW c \in Controls, TitleDown(w, c)
  PROVE  IInv'
<1>. DEFINE e == Head(mail[w])
<1>1. /\ Gestures(w, c, "down") /\ c \in Titles /\ Take(w) /\ Remember(w) /\ state' = state
      /\ drag' = [drag EXCEPT ![c] = <<tree.box[w].x - e.x, tree.box[w].y - e.y>>]
      /\ e.buttons # {0} => Spare(tree)
      /\ tree' = IF e.buttons = {0} THEN ToFront(tree, w) ELSE ToBack(tree, w)
  BY DEF TitleDown
<1>2. e \in MouseMail /\ MailOK' /\ LastButtons(w, Head(mail[w])) \in SUBSET Int
  BY <1>1, GestureIs
<1>3. tree.box[w].x \in Int /\ tree.box[w].y \in Int
  BY DEF IInv, WellTrees, Trees, Boxes, Nodes, Views
<1>4. WidgetsOK'
  <2>1. <<tree.box[w].x - e.x, tree.box[w].y - e.y>> \in Int \X Int
    <3>. HIDE DEF e
    <3>. QED  BY <1>2, <1>3 DEF MouseMail
  <2>2. grip' \in [Windows -> [last : SUBSET Int, mode : SUBSET {"x", "y", "x1", "y1"}, x : Int, y : Int]]
    BY <1>1, <1>2, RememberOK
  <2>3. drag \in [Titles -> Int \X Int] /\ state \in [Buttons -> {-1, 1}]
    BY DEF IInv, WidgetsOK
  <2>4. drag' \in [Titles -> Int \X Int]
    <3>. HIDE DEF e
    <3>. QED  BY <1>1, <2>1, <2>3
  <2>. QED  BY <1>1, <2>2, <2>3, <2>4 DEF WidgetsOK
<1>5. tree' \in WellTrees /\ On(tree') \subseteq On(tree) \cup Ghosts \cup {w}
  BY <1>1, ToFrontTree, ToBackTree DEF IInv
<1>6. \A u \in Windows : u \notin Ghosts
  BY ViewsAssumption
<1>. QED  BY <1>1, <1>2, <1>4, <1>5, <1>6, WidgetStep

LEMMA TitleMoves ==
  ASSUME IInv, NEW w \in Windows, NEW c \in Controls, TitleMove(w, c)
  PROVE  \E b \in Boxes : tree' = ChangeDirty(tree, w, b)
<1>. DEFINE e == Head(mail[w])
            x == e.x + drag[c][1]
            y == e.y + drag[c][2]
            b == [tree.box[w] EXCEPT !.x = x, !.y = y]
<1>1. Gestures(w, c, "move") /\ c \in Titles /\ tree' = ChangeDirty(tree, w, b)
  BY DEF TitleMove
<1>2. e \in MouseMail
  BY <1>1, GestureIs
<1>3. tree.box[w] \in Boxes /\ drag[c][1] \in Int /\ drag[c][2] \in Int
  BY <1>1 DEF IInv, WellTrees, Trees, Nodes, Views, WidgetsOK
<1>4. x \in Int /\ y \in Int
  BY <1>2, <1>3 DEF MouseMail
<1>. HIDE DEF x, y
<1>5. b \in Boxes
  BY <1>3, <1>4 DEF Boxes
<1>. QED  BY <1>1, <1>5

LEMMA TitleMoveKeeps ==
  ASSUME IInv, NEW w \in Windows, NEW c \in Controls, TitleMove(w, c)
  PROVE  IInv'
<1>1. Gestures(w, c, "move") /\ Take(w) /\ UNCHANGED <<grip, drag, state>>
  BY DEF TitleMove, widgetVars
<1>2. PICK b \in Boxes : tree' = ChangeDirty(tree, w, b)
  BY TitleMoves
<1>3. tree' \in WellTrees /\ On(tree') = On(tree)
  BY <1>2, ChangedTree DEF IInv
<1>4. WidgetsOK' /\ MailOK'
  BY <1>1, GestureIs DEF IInv, WidgetsOK
<1>. QED  BY <1>1, <1>3, <1>4, WidgetStep

LEMMA WindowDownKeeps ==
  ASSUME IInv, NEW w \in Windows, WindowDown(w)
  PROVE  IInv'
<1>. DEFINE e == Head(mail[w])
            b == tree.box[w]
            mode == {s \in {"x"} : e.rx < Edge(w)} \cup {s \in {"y"} : e.ry < Edge(w)}
                   \cup {s \in {"x1"} : e.rx >= b.w - Edge(w)}
                   \cup {s \in {"y1"} : e.ry >= b.h - Edge(w)}
            gx == IF "x1" \in mode THEN e.rx - b.w ELSE IF "x" \in mode THEN e.rx ELSE 0
            gy == IF "y1" \in mode THEN e.ry - b.h ELSE IF "y" \in mode THEN e.ry ELSE 0
<1>1. /\ Gestures(w, w, "down") /\ Take(w) /\ UNCHANGED <<tree, drag, state>>
      /\ grip' = [grip EXCEPT ![w] = [last |-> LastButtons(w, e), mode |-> mode, x |-> gx, y |-> gy]]
  <2>. DEFINE Mode(m) == {s \in {"x"} : m.rx < Edge(w)} \cup {s \in {"y"} : m.ry < Edge(w)}
                   \cup {s \in {"x1"} : m.rx >= b.w - Edge(w)}
                   \cup {s \in {"y1"} : m.ry >= b.h - Edge(w)}
              Grip(m) == [last |-> LastButtons(w, m), mode |-> Mode(m),
                          x |-> IF "x1" \in Mode(m) THEN m.rx - b.w ELSE IF "x" \in Mode(m) THEN m.rx ELSE 0,
                          y |-> IF "y1" \in Mode(m) THEN m.ry - b.h ELSE IF "y" \in Mode(m) THEN m.ry ELSE 0]
  <2>1. /\ Gestures(w, w, "down") /\ Take(w) /\ UNCHANGED <<tree, drag, state>>
        /\ \E m \in {Head(mail[w])} : grip' = [grip EXCEPT ![w] = Grip(m)]
    BY Zenon DEF WindowDown
  <2>2. grip' = [grip EXCEPT ![w] = Grip(e)]
    <3>. HIDE DEF Grip
    <3>. QED  BY <2>1
  <2>. QED  BY <2>1, <2>2, Zenon
<1>2. e \in MouseMail /\ MailOK' /\ LastButtons(w, e) \in SUBSET Int
  BY <1>1, GestureIs
<1>3. mode \in SUBSET {"x", "y", "x1", "y1"}
  OBVIOUS
<1>4. gx \in Int /\ gy \in Int
  <2>1. b.w \in Int /\ b.h \in Int
    BY DEF IInv, WellTrees, Trees, Boxes, Nodes, Views
  <2>2. e.rx \in Int /\ e.ry \in Int
    BY <1>2 DEF MouseMail
  <2>. HIDE DEF b, e, mode
  <2>. QED  BY <2>1, <2>2
<1>. HIDE DEF mode, gx, gy
<1>5. WidgetsOK'
  <2>. DEFINE last == LastButtons(w, e)
              new == [last |-> last, mode |-> mode, x |-> gx, y |-> gy]
  <2>1. new \in [last : SUBSET Int, mode : SUBSET {"x", "y", "x1", "y1"}, x : Int, y : Int]
    <3>. HIDE DEF last
    <3>1. last \in SUBSET Int
      BY <1>2 DEF last
    <3>. QED  BY <1>3, <1>4, <3>1
  <2>2. grip' = [grip EXCEPT ![w] = new]
    BY <1>1
  <2>. HIDE DEF new
  <2>. QED  BY <1>1, <2>1, <2>2 DEF IInv, WidgetsOK
<1>6. tree' \in WellTrees /\ On(tree') = On(tree)
  BY <1>1 DEF IInv
<1>. QED  BY <1>1, <1>2, <1>5, <1>6, WidgetStep

LEMMA WindowMoves ==
  ASSUME IInv, NEW w \in Windows, WindowMove(w)
  PROVE  \E b \in Boxes : tree' = ChangeDirty(tree, w, b)
<1>. DEFINE e == Head(mail[w])
            r == InParent(tree.box[w])
            g == grip[w]
            x == IF "x" \in g.mode THEN Lesser(e.x - g.x, r.x1 - Pref(w).w) ELSE r.x
            y == IF "y" \in g.mode THEN Lesser(e.y - g.y, r.y1 - Pref(w).h) ELSE r.y
            x1 == IF "x1" \in g.mode THEN Greater(e.x - g.x, x + Pref(w).w) ELSE r.x1
            y1 == IF "y1" \in g.mode THEN Greater(e.y - g.y, y + Pref(w).h) ELSE r.y1
            new == Box(x, y, x1 - x, y1 - y)
<1>1. Gestures(w, w, "move") /\ tree' = ChangeDirty(tree, w, new)
  BY DEF WindowMove
<1>2. e \in MouseMail
  BY <1>1, GestureIs
<1>3. e.x \in Int /\ e.y \in Int /\ g.x \in Int /\ g.y \in Int /\ r \in AllRects /\ Pref(w).w \in Int /\ Pref(w).h \in Int
  <2>1. tree.box[w] \in Boxes
    BY DEF IInv, WellTrees, Trees, Nodes, Views
  <2>2. e.x \in Int /\ e.y \in Int
    BY <1>2 DEF MouseMail
  <2>3. g.x \in Int /\ g.y \in Int
    BY DEF IInv, WidgetsOK
  <2>. QED  BY <2>1, <2>2, <2>3, BoxRects, PrefIs
<1>. HIDE DEF e, g, r
<1>4. x \in Int /\ y \in Int
  BY <1>3 DEF AllRects, Lesser
<1>. HIDE DEF x, y
<1>5. x1 \in Int /\ y1 \in Int
  BY <1>3, <1>4 DEF AllRects, Greater
<1>. HIDE DEF x1, y1
<1>6. new \in Boxes
  BY <1>4, <1>5 DEF Box, Boxes
<1>. HIDE DEF new
<1>. QED  BY <1>1, <1>6

LEMMA WindowMoveKeeps ==
  ASSUME IInv, NEW w \in Windows, WindowMove(w)
  PROVE  IInv'
<1>1. Gestures(w, w, "move") /\ Take(w) /\ UNCHANGED <<grip, drag, state>>
  BY DEF WindowMove, widgetVars
<1>2. PICK b \in Boxes : tree' = ChangeDirty(tree, w, b)
  BY WindowMoves
<1>3. tree' \in WellTrees /\ On(tree') = On(tree)
  BY <1>2, ChangedTree DEF IInv
<1>4. WidgetsOK' /\ MailOK'
  BY <1>1, GestureIs DEF IInv, WidgetsOK
<1>. QED  BY <1>1, <1>3, <1>4, WidgetStep

LEMMA PressedIs ==
  ASSUME IInv, NEW c \in Controls, c \in Buttons, NEW s \in {-1, 1}, Pressed(c, s)
  PROVE  /\ state' \in [Buttons -> {-1, 1}]
         /\ tree' \in WellTrees /\ On(tree') = On(tree)
<1>. DEFINE F == {"opaque"}
            t == SetFlags(tree, c, F, F)
<1>1. state' = [state EXCEPT ![c] = s] /\ tree' = DirtyAll(t, c)
  BY DEF Pressed
<1>2. F \in SUBSET Flags /\ c \in Nodes /\ tree \in Trees /\ tree \in WellTrees
  BY DEF Flags, Nodes, Views, IInv, WellTrees
<1>. HIDE DEF F
<1>3. t \in Trees /\ Same(tree, t)
  BY <1>2, SetFlagsTree
<1>. HIDE DEF t
<1>4. tree' \in Trees /\ Same(t, tree')
  BY <1>1, <1>2, <1>3, DirtyAllTree
<1>5. Same(tree, tree')
  BY <1>3, <1>4, SameTwice
<1>6. tree' \in WellTrees /\ On(tree') = On(tree)
  BY <1>2, <1>4, <1>5, SameShape
<1>. QED  BY <1>1, <1>6 DEF IInv, WidgetsOK

LEMMA ButtonPressKeeps ==
  ASSUME IInv, NEW w \in Windows, NEW c \in Controls, ButtonPress(w, c)
  PROVE  IInv'
<1>1. /\ Gestures(w, c, "down") /\ c \in Buttons /\ Take(w) /\ Remember(w) /\ Pressed(c, -1) /\ drag' = drag
  BY DEF ButtonPress
<1>2. MailOK' /\ LastButtons(w, Head(mail[w])) \in SUBSET Int
  BY <1>1, GestureIs
<1>3. tree' \in WellTrees /\ On(tree') = On(tree) /\ state' \in [Buttons -> {-1, 1}]
  BY <1>1, PressedIs
<1>4. WidgetsOK'
  BY <1>1, <1>2, <1>3, RememberOK DEF IInv, WidgetsOK
<1>. QED  BY <1>1, <1>2, <1>3, <1>4, WidgetStep

LEMMA ButtonReleaseKeeps ==
  ASSUME IInv, NEW w \in Windows, NEW c \in Controls, ButtonRelease(w, c)
  PROVE  IInv'
<1>1. /\ Gestures(w, c, "up") /\ c \in Buttons /\ Remember(w) /\ drag' = drag
      /\ \/ Take(w) /\ UNCHANGED <<tree, state>>
         \/ mail' = [mail EXCEPT ![w] = Append(Tail(@), [type |-> "action"])] /\ Pressed(c, 1)
  BY DEF ButtonRelease
<1>2. /\ LastButtons(w, Head(mail[w])) \in SUBSET Int /\ Tail(mail[w]) \in Seq(Messages)
      /\ app[w] = "open" /\ app' = app
  BY <1>1, GestureIs
<1>3. MailOK'
  <2>1. CASE Take(w)
    BY <1>1, <2>1, GestureIs
  <2>2. CASE mail' = [mail EXCEPT ![w] = Append(Tail(@), [type |-> "action"])]
    <3>. DEFINE s == Append(Tail(mail[w]), [type |-> "action"])
    <3>1. [type |-> "action"] \in Messages
      BY DEF Messages
    <3>2. s \in Seq(Messages)
      BY <1>2, <3>1
    <3>3. mail' = [mail EXCEPT ![w] = s]
      BY <2>2
    <3>. HIDE DEF s
    <3>. QED  BY <1>2, <3>2, <3>3, TakenMail
  <2>. QED  BY <1>1, <2>1, <2>2
<1>4. tree' \in WellTrees /\ On(tree') = On(tree) /\ state' \in [Buttons -> {-1, 1}]
  BY <1>1, PressedIs DEF IInv, WidgetsOK
<1>5. WidgetsOK'
  BY <1>1, <1>2, <1>4, RememberOK DEF IInv, WidgetsOK
<1>. QED  BY <1>1, <1>3, <1>4, <1>5, WidgetStep

LEMMA ButtonMoveKeeps ==
  ASSUME IInv, NEW w \in Windows, NEW c \in Controls, ButtonMove(w, c)
  PROVE  IInv'
<1>1. /\ Gestures(w, c, "move") /\ c \in Buttons /\ Take(w) /\ UNCHANGED <<grip, drag>>
      /\ \/ UNCHANGED <<tree, state>>
         \/ \E s \in {-1, 1} : Pressed(c, s)
  BY DEF ButtonMove
<1>2. MailOK'
  BY <1>1, GestureIs
<1>3. tree' \in WellTrees /\ On(tree') = On(tree) /\ state' \in [Buttons -> {-1, 1}]
  BY <1>1, PressedIs DEF IInv, WidgetsOK
<1>4. WidgetsOK'
  BY <1>1, <1>3 DEF IInv, WidgetsOK
<1>. QED  BY <1>1, <1>2, <1>3, <1>4, WidgetStep

LEMMA NoEffectKeeps ==
  ASSUME IInv, NEW w \in Windows, NEW v \in Views, NoEffect(w, v)
  PROVE  IInv'
<1>1. PICK g : Gestures(w, v, g)
  BY DEF NoEffect
<1>2. Take(w) /\ Remember(w) /\ UNCHANGED <<tree, drag, state>>
  BY DEF NoEffect
<1>3. MailOK' /\ LastButtons(w, Head(mail[w])) \in SUBSET Int
  BY <1>1, <1>2, GestureIs
<1>4. WidgetsOK'
  BY <1>2, <1>3, RememberOK DEF IInv, WidgetsOK
<1>5. tree' \in WellTrees /\ On(tree') = On(tree)
  BY <1>2 DEF IInv
<1>. QED  BY <1>1, <1>3, <1>4, <1>5, WidgetStep

LEMMA MendKeeps ==
  ASSUME IInv, NEW w \in Windows, NEW r \in Cuts, Mend(w, r)
  PROVE  IInv'
<1>1. /\ UNCHANGED <<at, mouse, grip, drag, state, app, mail, box, phase>>
      /\ \/ tree' = AddOpaque(tree, w, r)
         \/ tree' = SubOpaque(tree, w, r)
         \/ tree' = ClrOpaque(tree, w)
  BY DEF Mend, widgetVars
<1>2. r \in AllRects /\ w \in Nodes /\ tree \in Trees /\ tree \in WellTrees
  BY GuiAssumption DEF Nodes, Views, IInv, WellTrees
<1>3. tree' \in Trees /\ Same(tree, tree')
  BY <1>1, <1>2, OpaqueTrees
<1>4. tree' \in WellTrees /\ On(tree') = On(tree)
  BY <1>2, <1>3, SameShape
<1>5. phase' \in Phases
  BY <1>1 DEF IInv
<1>. QED  BY <1>1, <1>4, <1>5, TreeStep

\* What the four requests do.
AddStep(m) ==
  /\ \/ m.evt = "add_front" /\ tree' = DirtyAll(AddFront(tree, Screen, m.view), m.view)
     \/ m.evt = "add_back" /\ tree' = DirtyAll(AddBack(tree, Screen, m.view), m.view)
  /\ app' = [app EXCEPT ![m.view] = "open"] /\ mail' = mail
SubStep(m) ==
  /\ m.evt = "sub" /\ Spare(tree) /\ tree' = Sub(Hide(tree, m.view), m.view)
  /\ app' = [app EXCEPT ![m.view] = "gone"] /\ mail' = mail
LocateStep(m) ==
  /\ m.evt = "locate" /\ UNCHANGED <<tree, app>>
  /\ mail' = [mail EXCEPT ![m.view] = Append(@, [type |-> "bounds", box |-> Locate(m.w, m.h, m.pos)])]

LEMMA ServeIs ==
  ASSUME IInv, Serve
  PROVE  /\ Head(box) \in Requests /\ box' \in Seq(Requests) /\ phase' \in Phases
         /\ UNCHANGED <<at, mouse, grip, drag, state>>
         /\ AddStep(Head(box)) \/ SubStep(Head(box)) \/ LocateStep(Head(box))
<1>1. box \in Seq(Requests) /\ box # <<>> /\ box' = Tail(box)
  BY DEF Serve, IInv
<1>2. Head(box) \in Requests /\ box' \in Seq(Requests)
  BY <1>1, TailTyped
<1>3. phase' \in Phases /\ UNCHANGED <<at, mouse, grip, drag, state>>
  BY DEF Serve, Phases, widgetVars
<1>4. AddStep(Head(box)) \/ SubStep(Head(box)) \/ LocateStep(Head(box))
  <2>. DEFINE m == Head(box)
  <2>1. m.evt \in {"add_front", "add_back", "sub", "locate"}
    <3>. HIDE DEF m
    <3>1. m \in Requests
      BY <1>2 DEF m
    <3>. QED  BY <3>1 DEF Requests
  <2>2. CASE m.evt = "add_front"
    BY <2>2 DEF Serve, AddStep
  <2>3. CASE m.evt = "add_back"
    BY <2>3 DEF Serve, AddStep
  <2>4. CASE m.evt = "sub"
    BY <2>4 DEF Serve, SubStep
  <2>5. CASE m.evt = "locate"
    BY <2>5 DEF Serve, LocateStep
  <2>. QED  BY <2>1, <2>2, <2>3, <2>4, <2>5
<1>. QED  BY <1>2, <1>3, <1>4

LEMMA LocateBox ==
  ASSUME IInv, NEW w \in Int, NEW h \in Int, NEW pos
  PROVE  Locate(w, h, pos) \in Boxes
<1>. DEFINE sw == tree.box[Screen].w
            sh == tree.box[Screen].h
            x == CASE pos = "left" -> mouse.x
                   [] pos = "right" -> mouse.x - w + 1
                   [] OTHER -> mouse.x - w \div 2
            y == CASE pos = "top" -> mouse.y
                   [] pos = "bottom" -> mouse.y - h + 1
                   [] OTHER -> mouse.y - h \div 2
<1>1. sw \in Int /\ sh \in Int /\ mouse.x \in Int /\ mouse.y \in Int
  BY DEF IInv, WellTrees, Trees, Boxes, Nodes, Views, MouseOK
<1>2. Locate(w, h, pos) = Box(Greater(0, Lesser(x, sw - w)), Greater(0, Lesser(y, sh - h)),
                              Lesser(w, sw), Lesser(h, sh))
  BY DEF Locate
<1>3. w \div 2 \in Int /\ h \div 2 \in Int
  OBVIOUS
<1>. HIDE DEF sw, sh
<1>4. x \in Int /\ y \in Int
  <2>. DEFINE hw == w \div 2
              hh == h \div 2
  <2>1. hw \in Int /\ hh \in Int
    BY <1>3
  <2>. HIDE DEF hw, hh
  <2>2. mouse.x - w + 1 \in Int /\ mouse.y - h + 1 \in Int /\ mouse.x - hw \in Int /\ mouse.y - hh \in Int
    BY <1>1, <2>1
  <2>3. x \in {mouse.x, mouse.x - w + 1, mouse.x - hw}
    BY DEF hw
  <2>4. y \in {mouse.y, mouse.y - h + 1, mouse.y - hh}
    BY DEF hh
  <2>. HIDE DEF x, y
  <2>. QED  BY <1>1, <2>2, <2>3, <2>4
<1>. HIDE DEF x, y
<1>. QED  BY <1>1, <1>2, <1>4 DEF Box, Boxes, Greater, Lesser

LEMMA AddIs ==
  ASSUME IInv, NEW m \in Requests, AddStep(m)
  PROVE  tree' \in WellTrees /\ On(tree') = On(tree) \cup {m.view} /\ Placed(tree, tree')
<1>0. m.view \in Windows /\ m.view \in Nodes /\ tree \in WellTrees /\ tree \in Trees
  BY DEF Requests, IInv, Nodes, Views, WellTrees
<1>. DEFINE a == AddFront(tree, Screen, m.view)
            b == AddBack(tree, Screen, m.view)
<1>1. /\ a \in WellTrees /\ On(a) = On(tree) \cup {m.view}
      /\ b \in WellTrees /\ On(b) = On(tree) \cup {m.view}
  BY <1>0, AddTree
<1>2. tree' = DirtyAll(a, m.view) \/ tree' = DirtyAll(b, m.view)
  BY DEF AddStep
<1>3. a.box = tree.box /\ b.box = tree.box
  <2>1. "box" \in DOMAIN tree
    BY <1>0, HasBoxes
  <2>. QED  BY <2>1, AddStays
<1>. HIDE DEF a, b
<1>4. ASSUME NEW t \in WellTrees
      PROVE  /\ DirtyAll(t, m.view) \in WellTrees /\ On(DirtyAll(t, m.view)) = On(t)
             /\ DirtyAll(t, m.view).box = t.box
  <2>1. t \in Trees /\ "box" \in DOMAIN t
    BY HasBoxes DEF WellTrees
  <2>2. DirtyAll(t, m.view).box = t.box
    BY <2>1, BoxesStay
  <2>. QED  BY <1>0, <2>1, <2>2, DirtyAllTree, SameShape
<1>. QED  BY <1>1, <1>2, <1>3, <1>4 DEF Placed

LEMMA AddKeeps ==
  ASSUME IInv, NEW m \in Requests, AddStep(m), box' \in Seq(Requests), phase' \in Phases,
         UNCHANGED <<at, mouse, grip, drag, state>>
  PROVE  IInv'
<1>1. m.view \in Windows /\ m.view \in Nodes /\ tree \in WellTrees
  BY DEF Requests, IInv, Nodes, Views
<1>2. tree' \in WellTrees /\ On(tree') = On(tree) \cup {m.view}
  BY AddIs
<1>3. app' = [app EXCEPT ![m.view] = "open"] /\ mail' = mail
  BY DEF AddStep
<1>4. MailOK'
  BY <1>1, <1>3 DEF IInv, MailOK, Lives
<1>5. ShownAreOpen'
  BY <1>1, <1>2, <1>3 DEF IInv, MailOK, ShownAreOpen
<1>. QED  BY <1>2, <1>4, <1>5 DEF IInv, MouseOK, WidgetsOK

LEMMA SubKeeps ==
  ASSUME IInv, NEW m \in Requests, SubStep(m), box' \in Seq(Requests), phase' \in Phases,
         UNCHANGED <<at, mouse, grip, drag, state>>
  PROVE  IInv'
<1>0. m.evt = "sub" /\ Spare(tree) /\ tree' = Sub(Hide(tree, m.view), m.view)
      /\ app' = [app EXCEPT ![m.view] = "gone"] /\ mail' = mail
  BY DEF SubStep
<1>1. m.view \in Windows /\ tree \in WellTrees
  BY DEF Requests, IInv
<1>2. tree' \in WellTrees /\ On(tree') \subseteq (On(tree) \ {m.view}) \cup Ghosts
  BY <1>0, <1>1, HideTree
<1>3. MailOK'
  BY <1>0, <1>1 DEF IInv, MailOK, Lives
<1>4. ShownAreOpen'
  <2>1. \A w \in Windows : w \notin Ghosts
    BY ViewsAssumption
  <2>. QED  BY <1>0, <1>1, <1>2, <2>1 DEF IInv, MailOK, ShownAreOpen
<1>. QED  BY <1>2, <1>3, <1>4 DEF IInv, MouseOK, WidgetsOK

LEMMA LocateKeeps ==
  ASSUME IInv, NEW m \in Requests, LocateStep(m), box' \in Seq(Requests), phase' \in Phases,
         UNCHANGED <<at, mouse, grip, drag, state>>
  PROVE  IInv'
<1>. DEFINE b == Locate(m.w, m.h, m.pos)
            msg == [type |-> "bounds", box |-> b]
<1>0. m.evt = "locate" /\ UNCHANGED <<tree, app>> /\ mail' = [mail EXCEPT ![m.view] = Append(@, msg)]
  BY DEF LocateStep
<1>1. m.view \in Windows /\ m.w \in Int /\ m.h \in Int
  BY <1>0 DEF Requests
<1>2. msg \in BoundsMail /\ msg \in Messages
  <2>1. b \in Boxes
    BY <1>1, LocateBox
  <2>. HIDE DEF b
  <2>. QED  BY <2>1 DEF BoundsMail, Messages
<1>. HIDE DEF msg
<1>3. mail' \in [Windows -> Seq(Messages)]
  <2>1. mail \in [Windows -> Seq(Messages)]
    BY DEF IInv, MailOK
  <2>2. Append(mail[m.view], msg) \in Seq(Messages)
    <3>1. mail[m.view] \in Seq(Messages)
      BY <1>1, <2>1
    <3>. QED  BY <1>2, <3>1
  <2>. QED  BY <1>0, <2>1, <2>2
<1>4. ASSUME NEW v \in Windows, app[v] \in {"new", "asking"}
      PROVE  mail'[v] \in Seq(BoundsMail)
  <2>1. mail[v] \in Seq(BoundsMail) /\ mail \in [Windows -> Seq(Messages)]
    BY <1>4 DEF IInv, MailOK
  <2>2. Append(mail[v], msg) \in Seq(BoundsMail)
    BY <1>2, <2>1
  <2>3. mail'[v] = mail[v] \/ mail'[v] = Append(mail[v], msg)
    BY <1>0, <2>1
  <2>. QED  BY <2>1, <2>2, <2>3
<1>5. MailOK'
  BY <1>0, <1>3, <1>4 DEF IInv, MailOK
<1>. QED  BY <1>0, <1>5 DEF IInv, MouseOK, WidgetsOK, ShownAreOpen

LEMMA ServeKeeps ==
  ASSUME IInv, Serve
  PROVE  IInv'
BY ServeIs, AddKeeps, SubKeeps, LocateKeeps

LEMMA StutterKeeps ==
  ASSUME IInv, UNCHANGED vars
  PROVE  IInv'
BY DEF IInv, vars, MouseOK, WidgetsOK, MailOK, ShownAreOpen

LEMMA StepKeeps ==
  ASSUME IInv, Step
  PROVE  IInv'
<1>1. CASE Input
  BY <1>1, ButtonUpKeeps, ButtonDownKeeps, MotionKeeps, KeyOrWheelKeeps, ShownKeeps, QuitKeeps, SizeChangedKeeps DEF Input
<1>2. ASSUME NEW w \in Windows, Handle(w)
      PROVE  IInv'
  <2>1. ASSUME NEW c \in Controls,
               \/ TitleDown(w, c) \/ TitleMove(w, c)
               \/ ButtonPress(w, c) \/ ButtonRelease(w, c) \/ ButtonMove(w, c)
        PROVE  IInv'
    BY <2>1, TitleDownKeeps, TitleMoveKeeps, ButtonPressKeeps, ButtonReleaseKeeps, ButtonMoveKeeps
  <2>2. CASE Widgets(w)
    BY <2>1, <2>2, NoEffectKeeps, WindowDownKeeps, WindowMoveKeeps DEF Widgets
  <2>. QED  BY <1>2, <2>2, OpenKeeps, CloseKeeps DEF Handle
<1>3. ASSUME NEW w \in Windows \ {Launcher}, Ask(w)
      PROVE  IInv'
  BY <1>3, AskKeeps
<1>. QED  BY <1>1, <1>2, <1>3, ServeKeeps, EndFrameKeeps, LaunchKeeps DEF Step

LEMMA Invariant == Spec => []IInv
<1>1. IInv /\ [Next]_vars => IInv'
  BY StepKeeps, MendKeeps, StutterKeeps DEF Next
<1>. QED  BY InitIInv, <1>1, PTL DEF Spec

\* The invariant is what TypeOK says, and more.
LEMMA IInvTyped == IInv => TypeOK
<1>. SUFFICES ASSUME IInv PROVE TypeOK
  OBVIOUS
<1>1. tree \in Trees /\ Shaped(tree)
  BY DEF IInv, WellTrees
<1>2. \A v \in Nodes : IsRegion(tree.dirty[v]) /\ IsRegion(tree.opaque[v]) /\ tree.flags[v] \subseteq Flags
  BY <1>1 DEF Trees, Regions
<1>3. ASSUME NEW v \in Nodes, NEW i \in DOMAIN tree.kids[v]
      PROVE  /\ tree.parent[tree.kids[v][i]] = v
             /\ \A j \in DOMAIN tree.kids[v] : tree.kids[v][i] = tree.kids[v][j] => i = j
  <2>1. CASE v = Screen
    BY <1>1, <1>3, <2>1 DEF Shaped, NoRepeats
  <2>2. CASE v \in Windows
    <3>1. tree.kids[v] = <<Held[v]>> /\ tree.parent[Held[v]] = v
      BY <1>1, <2>2 DEF Shaped
    <3>. QED  BY <1>3, <3>1
  <2>3. CASE v \in Controls \cup Ghosts
    <3>1. tree.kids[v] = <<>>
      BY <1>1, <2>3 DEF Shaped
    <3>. QED  BY <1>3, <3>1
  <2>. QED  BY <2>1, <2>2, <2>3 DEF Nodes, Views
<1>4. tree.gui \subseteq {"dirty_all", "screen"}
  BY <1>1 DEF Trees
<1>5. phase \in {"waiting", "poll", "frame", "ended", "crashed"}
      /\ \A w \in Windows : app[w] \in {"new", "asking", "opening", "open", "closing", "gone"}
  BY DEF IInv, MailOK, Phases, Lives
<1>. QED  BY <1>2, <1>3, <1>4, <1>5 DEF TypeOK

\* The state stays well formed: no list of rectangles ever holds an empty one or
\* two that overlap, and children and m_parent agree (view.cpp, region.cpp).
THEOREM Typed == Spec => []TypeOK
BY Invariant, IInvTyped, PTL

\* What the runs check is part of what the GUI does: on one bench all of it, on
\* the other only what is made of a region.
THEOREM BenchIsGui == MCSpec => Spec
<1>1. MCInit => Init
  BY DEF MCInit
<1>2. [MCNext]_<<vars, bench>> => [Next]_vars
  <2>1. MCNext => Next
    BY MCGuiAssumption DEF MCNext, Next
  <2>. QED  BY <2>1
<1>. QED  BY <1>1, <1>2, PTL DEF MCSpec, Spec

\* TypeOK for what the runs check.
THEOREM BenchTyped == MCSpec => []TypeOK
BY BenchIsGui, Typed, PTL

\* Whatever lists a program makes of the region its window covers, the operations
\* on them compute sets of pixels (region.cpp).
THEOREM BenchExact == MCSpec => []RegionsExact
<1>1. IInv => RegionsExact
  <2>. SUFFICES ASSUME IInv, NEW c \in Cuts PROVE RegionOps(tree.opaque[tool], c)
    BY DEF RegionsExact
  <2>1. tree.opaque[tool] \in Regions
    BY MCGuiAssumption DEF IInv, WellTrees, Trees, Nodes, Views
  <2>2. IsList(tree.opaque[tool]) /\ c \in AllRects /\ ~IsEmpty(c)
    BY <2>1, GuiAssumption DEF IsList, Regions
  <2>. QED  BY <2>2, RegionOpsHold
<1>. QED  BY BenchIsGui, Invariant, <1>1, PTL

-----------------------------------------------------------------------------
(* Who has what mail: a window is shown before it listens to the mouse,    *)
(* and asks for one thing at a time.                                       *)

\* Mouse mail is for the window it is mailed to, or for the child of it.
Fits(s, w) == \A i \in DOMAIN s : s[i].type = "mouse" => s[i].view \in {w, Held[w]}
OnlyOf(s, type) == \A i \in DOMAIN s : s[i].type = type
Untouched(w) == grip[w].last = {} /\ \A c \in Buttons : c = Held[w] => state[c] = 1
Early == {"new", "asking", "opening"}

OpenAreShown == \A w \in Windows : app[w] \in {"open", "closing"} => w \in On(tree)
RequestsFit == \A i \in DOMAIN box :
  /\ box[i].evt \in {"add_front", "add_back"} => app[box[i].view] = "opening"
  /\ box[i].evt = "sub" => app[box[i].view] = "closing"
OneRequest == \A i \in DOMAIN box, j \in DOMAIN box :
  box[i].evt # "locate" /\ box[j].evt # "locate" /\ box[i].view = box[j].view => i = j
EarlyOnes == \A w \in Windows : app[w] \in Early => Untouched(w) /\ OnlyOf(mail[w], "bounds")
OwnMail == \A w \in Windows : Fits(mail[w], w)

KInv == IInv /\ OpenAreShown /\ RequestsFit /\ OneRequest /\ EarlyOnes /\ OwnMail

LEMMA FitsSteps ==
  ASSUME NEW A, NEW s \in Seq(A), NEW w
  PROVE  /\ Fits(<<>>, w)
         /\ Fits(s, w) /\ s # <<>> => Fits(Tail(s), w)
         /\ \A m \in A : Fits(s, w) /\ (m.type = "mouse" => m.view \in {w, Held[w]}) => Fits(Append(s, m), w)
<1>1. Fits(<<>>, w)
  BY DEF Fits
<1>2. ASSUME Fits(s, w), s # <<>>
      PROVE  Fits(Tail(s), w)
  <2>1. \A i \in DOMAIN Tail(s) : i + 1 \in DOMAIN s /\ Tail(s)[i] = s[i + 1]
    BY <1>2
  <2>. QED  BY <1>2, <2>1 DEF Fits
<1>3. ASSUME NEW m \in A, Fits(s, w), m.type = "mouse" => m.view \in {w, Held[w]}
      PROVE  Fits(Append(s, m), w)
  <2>1. \A i \in DOMAIN Append(s, m) : (i \in DOMAIN s /\ Append(s, m)[i] = s[i]) \/ Append(s, m)[i] = m
    OBVIOUS
  <2>. QED  BY <1>3, <2>1 DEF Fits
<1>. QED  BY <1>1, <1>2, <1>3

LEMMA OnlySteps ==
  ASSUME NEW A, NEW s \in Seq(A), NEW type
  PROVE  /\ OnlyOf(s, type) /\ s # <<>> => OnlyOf(Tail(s), type)
         /\ \A m \in A : OnlyOf(Append(s, m), type) <=> OnlyOf(s, type) /\ m.type = type
<1>1. ASSUME OnlyOf(s, type), s # <<>>
      PROVE  OnlyOf(Tail(s), type)
  <2>1. \A i \in DOMAIN Tail(s) : i + 1 \in DOMAIN s /\ Tail(s)[i] = s[i + 1]
    BY <1>1
  <2>. QED  BY <1>1, <2>1 DEF OnlyOf
<1>2. ASSUME NEW m \in A
      PROVE  OnlyOf(Append(s, m), type) <=> OnlyOf(s, type) /\ m.type = type
  <2>1. /\ \A i \in DOMAIN Append(s, m) : (i \in DOMAIN s /\ Append(s, m)[i] = s[i]) \/ Append(s, m)[i] = m
        /\ \A i \in DOMAIN s : i \in DOMAIN Append(s, m) /\ Append(s, m)[i] = s[i]
    OBVIOUS
  <2>2. \E i \in DOMAIN Append(s, m) : Append(s, m)[i] = m
    <3>1. Len(s) + 1 \in DOMAIN Append(s, m) /\ Append(s, m)[Len(s) + 1] = m
      OBVIOUS
    <3>. QED  BY <3>1
  <2>. QED  BY <2>1, <2>2 DEF OnlyOf
<1>. QED  BY <1>1, <1>2

\* A step that no window leaves the screen by, and that is not seen by those
\* that are not yet on it.
LEMMA KeptAlive ==
  ASSUME KInv, IInv', app' = app, box' = box, On(tree) \cap Windows \subseteq On(tree'), OwnMail',
         \A w \in Windows : app[w] \in Early =>
           /\ grip'[w] = grip[w] /\ mail'[w] = mail[w]
           /\ \A c \in Buttons : c = Held[w] => state'[c] = state[c]
  PROVE  KInv'
<1>1. OpenAreShown'
  BY DEF KInv, OpenAreShown
<1>2. RequestsFit' /\ OneRequest'
  BY DEF KInv, RequestsFit, OneRequest
<1>3. EarlyOnes'
  BY DEF KInv, EarlyOnes, Untouched, OnlyOf
<1>. QED  BY <1>1, <1>2, <1>3 DEF KInv

\* A request is added when the application takes the step it goes with.
LEMMA RequestFits ==
  ASSUME KInv, NEW w \in Windows, app[w] \in {"new", "asking", "open"}, NEW life, app' = [app EXCEPT ![w] = life],
         NEW r \in Requests, box' = Append(box, r), r.view = w,
         \/ r.evt = "locate"
         \/ r.evt \in {"add_front", "add_back"} /\ life = "opening"
         \/ r.evt = "sub" /\ life = "closing"
  PROVE  RequestsFit' /\ OneRequest'
<1>1. box \in Seq(Requests) /\ app \in [Windows -> Lives] /\ \A i \in DOMAIN box : box[i] \in Requests
  BY DEF KInv, IInv, MailOK
<1>2. \A q \in Requests : q.view \in Windows /\ q.evt \in {"add_front", "add_back", "sub", "locate"}
  BY DEF Requests
<1>. HIDE DEF Requests
<1>3. \A i \in DOMAIN box : box[i].evt # "locate" => box[i].view # w
  BY <1>1, <1>2 DEF KInv, RequestsFit
<1>4. \A i \in DOMAIN box' : (i \in DOMAIN box /\ box'[i] = box[i]) \/ (i = Len(box) + 1 /\ box'[i] = r)
  BY <1>1
<1>5. RequestsFit'
  <2>1. ASSUME NEW i \in DOMAIN box'
        PROVE  /\ box'[i].evt \in {"add_front", "add_back"} => app'[box'[i].view] = "opening"
               /\ box'[i].evt = "sub" => app'[box'[i].view] = "closing"
    <3>1. CASE i \in DOMAIN box /\ box'[i] = box[i]
      <4>1. box[i].evt # "locate" => box[i].view # w /\ app'[box[i].view] = app[box[i].view]
        BY <1>1, <1>2, <1>3, <3>1
      <4>. QED  BY <3>1, <4>1 DEF KInv, RequestsFit
    <3>2. CASE box'[i] = r
      BY <1>1, <3>2
    <3>. QED  BY <1>4, <3>1, <3>2
  <2>. QED  BY <2>1 DEF RequestsFit
<1>6. OneRequest'
  <2>1. ASSUME NEW i \in DOMAIN box', NEW j \in DOMAIN box',
               box'[i].evt # "locate", box'[j].evt # "locate", box'[i].view = box'[j].view
        PROVE  i = j
    <3>1. CASE i \in DOMAIN box /\ box'[i] = box[i]
      <4>1. j \in DOMAIN box /\ box'[j] = box[j]
        BY <1>3, <1>4, <2>1, <3>1
      <4>. QED  BY <2>1, <3>1, <4>1 DEF KInv, OneRequest
    <3>2. CASE i = Len(box) + 1 /\ box'[i] = r
      <4>1. j = Len(box) + 1
        BY <1>3, <1>4, <2>1, <3>2
      <4>. QED  BY <3>2, <4>1
    <3>. QED  BY <1>4, <3>1, <3>2
  <2>. QED  BY <2>1 DEF OneRequest
<1>. QED  BY <1>5, <1>6

LEMMA SeenOwner ==
  ASSUME NEW t \in WellTrees, NEW w \in Windows, NEW v \in Seen(t), v \in {w, Held[w]}
  PROVE  w \in On(t)
<1>1. On(t) \subseteq Windows \cup Ghosts
  BY OnTypes
<1>2. /\ \A u \in Windows : Held[u] \in Controls
      /\ \A u \in Windows : Held[u] = Held[w] => u = w
      /\ w # Screen /\ Held[w] # Screen /\ Held[w] \notin Windows /\ Held[w] \notin Ghosts
      /\ \A u \in Windows : Held[u] # w
  BY GuiAssumption, ViewsAssumption
<1>. QED  BY <1>1, <1>2 DEF Seen

\* The mail of the window that v is, or is in.
Heard(v) ==
  \A w \in Windows : mail'[w] = IF v \in {w, Held[w]} THEN Append(mail[w], Mouse("mouse", v)) ELSE mail[w]

LEMMA ToldIsHeard ==
  ASSUME KInv, NEW v \in Seen(tree), Tell(v, Mouse("mouse", v))
  PROVE  Heard(v)
<1>. DEFINE o == FindOwner(tree, v)
            msg == Mouse("mouse", v)
<1>1. tree \in WellTrees /\ mail \in [Windows -> Seq(Messages)] /\ v \in Nodes /\ NoView \notin Windows
  BY OnTypes, ViewsAssumption DEF KInv, IInv, MailOK, Nodes, Views
<1>2. o \in Windows \cup {NoView} /\ \A w \in Windows : o = w <=> v \in {w, Held[w]}
  BY <1>1, Owners
<1>3. mail' = IF o = NoView THEN mail ELSE [mail EXCEPT ![o] = Append(@, msg)]
  BY DEF Tell
<1>. HIDE DEF o, msg, Messages
<1>4. ASSUME NEW w \in Windows
      PROVE  mail'[w] = IF v \in {w, Held[w]} THEN Append(mail[w], msg) ELSE mail[w]
  BY <1>1, <1>2, <1>3
<1>. QED  BY <1>4 DEF Heard, msg

\* What the mouse does to the applications: nothing, or one of them hears of it.
Mousing(v) == \/ mail' = mail
              \/ v \in Seen(tree) /\ Heard(v) /\ Mouse("mouse", v) \in MouseMail

LEMMA HeardKeeps ==
  ASSUME KInv, IInv', NEW v, Mousing(v), UNCHANGED <<tree, app, box, grip, state>>
  PROVE  KInv'
<1>. DEFINE msg == Mouse("mouse", v)
<1>1. CASE mail' = mail
  <2>1. OwnMail'
    BY <1>1 DEF KInv, OwnMail
  <2>. QED  BY <1>1, <2>1, KeptAlive
<1>2. CASE v \in Seen(tree) /\ Heard(v) /\ msg \in MouseMail
  <2>1. msg.type = "mouse" /\ msg.view = v /\ msg \in Messages /\ mail \in [Windows -> Seq(Messages)]
    BY <1>2 DEF Mouse, Messages, KInv, IInv, MailOK
  <2>. HIDE DEF msg, Messages
  <2>2. \A w \in Windows : mail'[w] = IF v \in {w, Held[w]} THEN Append(mail[w], msg) ELSE mail[w]
    BY <1>2 DEF Heard, msg
  <2>3. OwnMail'
    <3>1. ASSUME NEW w \in Windows
          PROVE  Fits(mail'[w], w)
      <4>1. mail[w] \in Seq(Messages) /\ Fits(mail[w], w)
        BY <2>1 DEF KInv, OwnMail
      <4>. QED  BY <2>1, <2>2, <4>1, FitsSteps
    <3>. QED  BY <3>1 DEF OwnMail, Fits
  <2>4. \A w \in Windows : app[w] \in Early => v \notin {w, Held[w]}
    <3>1. \A w \in Windows : w \in On(tree) => app[w] \notin Early
      BY DEF KInv, IInv, ShownAreOpen, Early
    <3>. QED  BY <1>2, <3>1, SeenOwner DEF KInv, IInv
  <2>. QED  BY <2>2, <2>3, <2>4, KeptAlive
<1>. QED  BY <1>1, <1>2 DEF Mousing

LEMMA MouseMails ==
  ASSUME MouseOK, MouseOK', NEW v \in Nodes
  PROVE  /\ Mouse("mouse", v) \in MouseMail
         /\ Mouse("mouse", v).view = v /\ Mouse("mouse", v).type = "mouse"
         /\ Mouse("mouse", v).x = mouse'.x /\ Mouse("mouse", v).y = mouse'.y
         /\ Mouse("mouse", v).buttons = mouse'.buttons
<1>. DEFINE m == Mouse("mouse", v)
<1>1. mouse'.x \in Int /\ mouse'.y \in Int /\ mouse'.buttons \in SUBSET Int /\ at[v][1] \in Int /\ at[v][2] \in Int
  BY DEF MouseOK
<1>2. mouse'.x - at[v][1] \in Int /\ mouse'.y - at[v][2] \in Int
  BY <1>1
<1>3. m = [type |-> "mouse", view |-> v, x |-> mouse'.x, y |-> mouse'.y,
           rx |-> mouse'.x - at[v][1], ry |-> mouse'.y - at[v][2], buttons |-> mouse'.buttons]
  BY DEF Mouse
<1>4. m \in MouseMail
  BY <1>1, <1>2, <1>3 DEF MouseMail
<1>. QED  BY <1>3, <1>4

LEMMA ButtonDownIs ==
  ASSUME KInv, NEW b \in {"left", "right"}, NEW p \in Points, ButtonDown(b, p)
  PROVE  /\ UNCHANGED <<tree, app, box, at, grip, drag, state>>
         /\ held' = held \cup {b} /\ distracted' = (distracted \/ held # {})
         /\ \/ phase' = "crashed" /\ mail' = mail
            \/ /\ phase' = "frame" /\ HitAt(p) \in Seen(tree) /\ Heard(HitAt(p))
               /\ Mouse("mouse", HitAt(p)) \in MouseMail
               /\ mouse' = [x |-> p[1], y |-> p[2], id |-> HitAt(p), buttons |-> mouse.buttons \cup Number(b)]
<1>1. /\ UNCHANGED <<tree, app, box, at, grip, drag, state>>
      /\ held' = held \cup {b} /\ distracted' = (distracted \/ held # {})
      /\ \/ phase' = "crashed" /\ mail' = mail
         \/ /\ phase' = "frame" /\ HitAt(p) # NoView
            /\ mouse' = [x |-> p[1], y |-> p[2], id |-> HitAt(p), buttons |-> mouse.buttons \cup Number(b)]
            /\ Tell(HitAt(p), Mouse("mouse", HitAt(p)))
  BY DEF ButtonDown, Other, Event, Crash, widgetVars
<1>2. IInv /\ IInv'
  BY ButtonDownKeeps DEF KInv
<1>3. CASE /\ HitAt(p) # NoView
           /\ Tell(HitAt(p), Mouse("mouse", HitAt(p)))
  <2>1. HitAt(p) \in Seen(tree) /\ HitAt(p) \in Nodes
    BY <1>2, <1>3, SeenNodes
  <2>. QED  BY <1>1, <1>2, <1>3, <2>1, ToldIsHeard, MouseMails DEF IInv
<1>. QED  BY <1>1, <1>3

LEMMA ButtonUpIs ==
  ASSUME KInv, NEW b \in {"left", "right"}, ButtonUp(b)
  PROVE  /\ UNCHANGED <<tree, app, box, at, grip, drag, state>> /\ phase' = "frame"
         /\ b \in held /\ held' = held \ {b} /\ distracted' = (distracted \/ held' # {})
         /\ mouse' = [mouse EXCEPT !.buttons = @ \ Number(b)]
         /\ \/ mail' = mail /\ ~(mouse.id # NoView /\ OnScreen(tree, mouse.id))
            \/ /\ mouse.id \in Seen(tree) /\ Heard(mouse.id)
               /\ Mouse("mouse", mouse.id) \in MouseMail
<1>1. /\ UNCHANGED <<tree, app, box, at, grip, drag, state>> /\ phase' = "frame"
      /\ b \in held /\ held' = held \ {b} /\ distracted' = (distracted \/ held' # {})
      /\ mouse' = [mouse EXCEPT !.buttons = @ \ Number(b)]
      /\ \/ mail' = mail /\ ~(mouse.id # NoView /\ OnScreen(tree, mouse.id))
         \/ OnScreen(tree, mouse.id) /\ Tell(mouse.id, Mouse("mouse", mouse.id))
  BY DEF ButtonUp, Event, widgetVars
<1>2. IInv /\ IInv'
  BY ButtonUpKeeps DEF KInv
<1>3. CASE OnScreen(tree, mouse.id) /\ Tell(mouse.id, Mouse("mouse", mouse.id))
  <2>1. mouse.id \in Seen(tree) /\ mouse.id \in Nodes
    BY <1>2, <1>3, SeenNodes
  <2>. QED  BY <1>1, <1>2, <1>3, <2>1, ToldIsHeard, MouseMails DEF IInv
<1>. QED  BY <1>1, <1>3

LEMMA MotionIs ==
  ASSUME KInv, NEW p \in Points, Motion(p)
  PROVE  /\ UNCHANGED <<tree, app, box, at, grip, drag, state, held>>
         /\ distracted' = (distracted \/ "right" \in held)
         /\ \/ phase' = "crashed" /\ mail' = mail
            \/ \E v \in {IF held = {} THEN HitAt(p) ELSE mouse.id} :
                 /\ phase' = "frame" /\ mouse' = [x |-> p[1], y |-> p[2], id |-> v, buttons |-> Mask(held)]
                 /\ \/ mail' = mail /\ ~(v # NoView /\ OnScreen(tree, v))
                    \/ v \in Seen(tree) /\ Heard(v) /\ Mouse("mouse", v) \in MouseMail
<1>. DEFINE v == IF held = {} THEN HitAt(p) ELSE mouse.id
<1>1. /\ UNCHANGED <<tree, app, box, at, grip, drag, state, held>>
      /\ distracted' = (distracted \/ "right" \in held)
      /\ \/ phase' = "crashed" /\ mail' = mail
         \/ /\ phase' = "frame" /\ mouse' = [x |-> p[1], y |-> p[2], id |-> v, buttons |-> Mask(held)]
            /\ \/ mail' = mail /\ ~(v # NoView /\ OnScreen(tree, v))
               \/ OnScreen(tree, v) /\ Tell(v, Mouse("mouse", v))
  BY DEF Motion, Event, Crash, widgetVars
<1>2. IInv /\ IInv'
  BY MotionKeeps DEF KInv
<1>. HIDE DEF v
<1>3. CASE OnScreen(tree, v) /\ Tell(v, Mouse("mouse", v))
  <2>1. v \in Seen(tree) /\ v \in Nodes
    BY <1>2, <1>3, SeenNodes
  <2>2. v \in Seen(tree) /\ Heard(v) /\ Mouse("mouse", v) \in MouseMail
    BY <1>2, <1>3, <2>1, ToldIsHeard, MouseMails DEF IInv
  <2>. QED  BY <1>1, <2>2 DEF v
<1>. QED  BY <1>1, <1>3 DEF v

LEMMA KeyOrWheelIs ==
  ASSUME KeyOrWheel
  PROVE  /\ UNCHANGED <<tree, app, box, at, grip, drag, state, held, mail>>
         /\ distracted' = (distracted \/ held # {})
         /\ \/ phase' = "crashed"
            \/ \E v : mouse' = [mouse EXCEPT !.id = v]
BY DEF KeyOrWheel, Other, Event, Crash, widgetVars

LEMMA SizeChangedIs ==
  ASSUME IInv, NEW s \in Sizes, SizeChanged(s)
  PROVE  /\ On(tree') = On(tree) /\ Placed(tree, tree')
         /\ UNCHANGED <<app, box, at, grip, drag, state, mouse, mail, held, distracted>> /\ phase' = "frame"
<1>. DEFINE b == Box(0, 0, s[1], s[2])
            t == SetBounds(tree, Screen, b)
            F == {"dirty_all", "screen"}
<1>1. b \in Boxes /\ F \in SUBSET Flags /\ Screen \in Nodes /\ tree \in Trees /\ tree \in WellTrees
  BY GuiAssumption DEF Box, Boxes, Flags, Nodes, Views, IInv, WellTrees
<1>2. tree' = SetFlags(t, Screen, F, F)
  BY DEF SizeChanged
<1>3. UNCHANGED <<app, box, at, grip, drag, state, mouse, mail, held, distracted>> /\ phase' = "frame"
  BY DEF SizeChanged, Event, widgetVars
<1>4. Placed(tree, t)
  <2>1. t.box = [tree.box EXCEPT ![Screen] = b] /\ tree.box \in [Nodes -> Boxes]
    BY <1>1 DEF SetBounds, Trees
  <2>2. \A w \in Windows : w \in Nodes /\ w # Screen
    BY ViewsAssumption DEF Nodes, Views
  <2>. HIDE DEF t, b
  <2>. QED  BY <2>1, <2>2 DEF Placed
<1>. HIDE DEF b, F
<1>5. t \in Trees /\ Same(tree, t)
  BY <1>1, SetBoundsTree
<1>. HIDE DEF t
<1>6. tree' \in Trees /\ Same(t, tree') /\ tree'.box = t.box
  <2>1. SetFlags(t, Screen, F, F) \in Trees /\ Same(t, SetFlags(t, Screen, F, F))
    BY <1>1, <1>5, SetFlagsTree
  <2>2. "box" \in DOMAIN t
    BY <1>5, HasBoxes
  <2>3. SetFlags(t, Screen, F, F).box = t.box
    BY <2>2, BoxesStay
  <2>. QED  BY <1>2, <2>1, <2>3
<1>7. Same(tree, tree')
  BY <1>5, <1>6, SameTwice
<1>. QED  BY <1>1, <1>3, <1>4, <1>6, <1>7, SameShape DEF Placed

LEMMA ShownIs ==
  ASSUME IInv, Shown
  PROVE  /\ On(tree') = On(tree) /\ Placed(tree, tree')
         /\ UNCHANGED <<app, box, at, grip, drag, state, mouse, mail, held, distracted>> /\ phase' = "frame"
<1>1. Screen \in Nodes /\ tree \in Trees /\ tree \in WellTrees
  BY DEF Nodes, Views, IInv, WellTrees
<1>2. tree' = DirtyAll(tree, Screen)
  BY DEF Shown
<1>3. UNCHANGED <<app, box, at, grip, drag, state, mouse, mail, held, distracted>> /\ phase' = "frame"
  BY DEF Shown, Other, Event, widgetVars
<1>4. tree' \in Trees /\ Same(tree, tree') /\ tree'.box = tree.box
  BY <1>1, <1>2, DirtyAllTree, HasBoxes, BoxesStay
<1>. QED  BY <1>1, <1>3, <1>4, SameShape DEF Placed

LEMMA QuitIs ==
  ASSUME IInv, Quit
  PROVE  /\ UNCHANGED <<tree, app, box, at, grip, drag, state, mouse, held, distracted>> /\ phase' = "frame"
         /\ \A w \in Windows : mail'[w] = IF w \in On(tree) THEN Append(mail[w], [type |-> "exit"]) ELSE mail[w]
<1>1. \A w \in Windows : Among(tree, Screen, w) <=> w \in On(tree)
  BY DEF Among, On, ToSet
<1>. QED  BY <1>1 DEF Quit, Other, Event, widgetVars

\* The end of a frame moves no window and takes none away.
LEMMA FrameStays ==
  ASSUME IInv, EndFrame
  PROVE  /\ On(tree) \cap Windows \subseteq On(tree') /\ Placed(tree, tree') /\ phase' \in {"ended", "poll"}
         /\ UNCHANGED <<app, box, grip, drag, state, mouse, mail, held, distracted>>
<1>1. UNCHANGED <<app, box, grip, drag, state, mouse, mail, held, distracted>> /\ phase' \in {"ended", "poll"}
  BY DEF EndFrame, widgetVars, hostVars
<1>2. PICK t, blank, u : Ended(t, blank, u)
  BY EndFrameIs
<1>3. t \in WellTrees /\ On(t) = On(tree) /\ Placed(tree, t)
  <2>1. tree \in WellTrees /\ tree \in Trees /\ Screen \in Nodes
    BY DEF IInv, WellTrees, Nodes, Views
  <2>2. DirtyAll(tree, Screen) \in Trees /\ Same(tree, DirtyAll(tree, Screen))
    BY <2>1, DirtyAllTree
  <2>3. DirtyAll(tree, Screen) \in WellTrees /\ On(DirtyAll(tree, Screen)) = On(tree)
    BY <2>1, <2>2, SameShape
  <2>4. "box" \in DOMAIN tree
    BY <2>1, HasBoxes
  <2>5. DirtyAll(tree, Screen).box = tree.box
    BY <2>4, BoxesStay
  <2>6. t = DirtyAll(tree, Screen) \/ t = tree
    BY <1>2 DEF Ended
  <2>. QED  BY <2>1, <2>3, <2>5, <2>6 DEF Placed
<1>4. On(t) \ Ghosts \subseteq On(tree') /\ Placed(t, tree')
  <2>1. (u = t \/ u = Composite(t, blank).tree) /\ tree' = DropTemps([u EXCEPT !.gui = {}])
    BY <1>2 DEF Ended
  <2>. QED  BY <1>3, <2>1, FrameTree
<1>5. Windows \cap Ghosts = {}
  BY ViewsAssumption
<1>. QED  BY <1>1, <1>3, <1>4, <1>5 DEF Placed

\* Of the other windows an application touches nothing.
Alone(w) ==
  /\ UNCHANGED <<app, box, at, mouse, phase, held, distracted>>
  /\ On(tree) \cap Windows \subseteq On(tree')
  /\ \A u \in Windows \ {w} :
       /\ mail'[u] = mail[u] /\ grip'[u] = grip[u] /\ tree'.box[u] = tree.box[u]
       /\ \A c \in Buttons : c = Held[u] => state'[c] = state[c]
       /\ \A c \in Titles : c = Held[u] => drag'[c] = drag[c]

\* A message an open application is about to handle.
Reads(w, v, g) ==
  /\ app[w] = "open" /\ v \in {w, Held[w]}
  /\ mail[w] \in Seq(Messages) /\ mail[w] # <<>>
  /\ Head(mail[w]) \in MouseMail /\ Head(mail[w]).view = v /\ Gesture(w, Head(mail[w])) = g
  /\ Tail(mail[w]) \in Seq(Messages) /\ Fits(Tail(mail[w]), w)
  /\ UNCHANGED <<app, box, at, mouse, phase, held, distracted>>
  /\ tree \in WellTrees /\ tree \in Trees /\ tree.kids[w] = <<Held[w]>> /\ tree.box[w] \in Boxes

LEMMA ReadsIs ==
  ASSUME KInv, NEW w \in Windows, NEW v, NEW g, Gestures(w, v, g)
  PROVE  Reads(w, v, g)
<1>1. /\ app[w] = "open" /\ mail[w] # <<>>
      /\ Head(mail[w]) \in MouseMail /\ Head(mail[w]).view = v
      /\ Tail(mail[w]) \in Seq(Messages)
  BY GestureIs DEF KInv
<1>2. /\ Gesture(w, Head(mail[w])) = g /\ UNCHANGED <<app, box, at, mouse, phase, held, distracted>>
      /\ Head(mail[w]).type = "mouse"
  BY DEF Gestures, App, hostVars
<1>3. mail[w] \in Seq(Messages) /\ Fits(mail[w], w)
  BY DEF KInv, IInv, MailOK, OwnMail
<1>4. v \in {w, Held[w]}
  <2>1. 1 \in DOMAIN mail[w] /\ mail[w][1] = Head(mail[w])
    BY <1>1, <1>3
  <2>. QED  BY <1>1, <1>2, <1>3, <2>1 DEF Fits
<1>5. Fits(Tail(mail[w]), w)
  BY <1>1, <1>3, FitsSteps
<1>6. tree \in WellTrees /\ tree \in Trees /\ tree.kids[w] = <<Held[w]>> /\ tree.box[w] \in Boxes
  BY DEF KInv, IInv, WellTrees, Shaped, Trees, Nodes, Views
<1>. QED  BY <1>1, <1>2, <1>3, <1>4, <1>5, <1>6 DEF Reads

LEMMA TakeIs ==
  ASSUME KInv, NEW w \in Windows, Take(w)
  PROVE  mail'[w] = Tail(mail[w]) /\ \A u \in Windows \ {w} : mail'[u] = mail[u]
<1>1. mail \in [Windows -> Seq(Messages)] /\ mail' = [mail EXCEPT ![w] = Tail(mail[w])]
  BY DEF KInv, IInv, MailOK, Take
<1>. QED  BY <1>1

LEMMA RememberIs ==
  ASSUME KInv, NEW w \in Windows, Remember(w)
  PROVE  /\ grip'[w].last = LastButtons(w, Head(mail[w]))
         /\ \A u \in Windows \ {w} : grip'[u] = grip[u]
<1>1. grip \in [Windows -> [last : SUBSET Int, mode : SUBSET {"x", "y", "x1", "y1"}, x : Int, y : Int]]
  BY DEF KInv, IInv, WidgetsOK
<1>2. grip' = [grip EXCEPT ![w] = [grip[w] EXCEPT !.last = LastButtons(w, Head(mail[w]))]]
  BY DEF Remember
<1>3. grip'[w] = [grip[w] EXCEPT !.last = LastButtons(w, Head(mail[w]))]
  BY <1>1, <1>2
<1>4. "last" \in DOMAIN grip[w]
  BY <1>1
<1>. QED  BY <1>1, <1>2, <1>3, <1>4

\* A control is held by one window.
LEMMA HeldOnce ==
  ASSUME NEW w \in Windows, NEW u \in Windows \ {w}
  PROVE  Held[u] # Held[w] /\ Held[u] # w /\ Held[w] # w
BY GuiAssumption, ViewsAssumption

LEMMA TitleDownIs ==
  ASSUME KInv, NEW w \in Windows, NEW c \in Controls, TitleDown(w, c)
  PROVE  /\ Reads(w, c, "down") /\ Alone(w) /\ c = Held[w] /\ c \in Titles
         /\ mail'[w] = Tail(mail[w]) /\ grip'[w].last = Head(mail[w]).buttons
         /\ state' = state /\ tree'.box[w] = tree.box[w]
         /\ drag'[c] = <<tree.box[w].x - Head(mail[w]).x, tree.box[w].y - Head(mail[w]).y>>
<1>. DEFINE e == Head(mail[w])
<1>1. /\ Gestures(w, c, "down") /\ c \in Titles /\ Take(w) /\ Remember(w) /\ state' = state
      /\ drag' = [drag EXCEPT ![c] = <<tree.box[w].x - e.x, tree.box[w].y - e.y>>]
      /\ e.buttons # {0} => Spare(tree)
      /\ tree' = IF e.buttons = {0} THEN ToFront(tree, w) ELSE ToBack(tree, w)
  BY DEF TitleDown
<1>2. Reads(w, c, "down") /\ tree \in WellTrees /\ tree \in Trees
  BY <1>1, ReadsIs DEF Reads
<1>3. c = Held[w]
  BY <1>2, ViewsAssumption DEF Reads
<1>4. On(tree) \subseteq On(tree') /\ Placed(tree, tree')
  BY <1>1, <1>2, ToFrontTree, ToBackTree, ToFrontStays, ToBackStays
<1>5. grip'[w].last = e.buttons
  BY <1>1, <1>2, RememberIs DEF LastButtons, Reads
<1>6. \A u \in Windows \ {w} : \A d \in Titles : d = Held[u] => drag'[d] = drag[d]
  BY <1>1, <1>3, HeldOnce DEF KInv, IInv, WidgetsOK
<1>7. Alone(w)
  BY <1>1, <1>2, <1>4, <1>6, TakeIs, RememberIs DEF Alone, Reads, Placed
<1>8. drag'[c] = <<tree.box[w].x - e.x, tree.box[w].y - e.y>>
  BY <1>1 DEF KInv, IInv, WidgetsOK
<1>. QED  BY <1>1, <1>2, <1>3, <1>4, <1>5, <1>7, <1>8, TakeIs DEF Placed

LEMMA TitleMoveIs ==
  ASSUME KInv, NEW w \in Windows, NEW c \in Controls, TitleMove(w, c)
  PROVE  /\ Reads(w, c, "move") /\ Alone(w) /\ c = Held[w] /\ c \in Titles
         /\ mail'[w] = Tail(mail[w]) /\ UNCHANGED <<grip, drag, state>>
         /\ tree'.box[w].x = Head(mail[w]).x + drag[c][1]
         /\ tree'.box[w].y = Head(mail[w]).y + drag[c][2]
<1>. DEFINE e == Head(mail[w])
            x == e.x + drag[c][1]
            y == e.y + drag[c][2]
            old == tree.box[w]
            b == [old EXCEPT !.x = x, !.y = y]
<1>1. /\ Gestures(w, c, "move") /\ c \in Titles /\ Take(w) /\ UNCHANGED <<grip, drag, state>>
      /\ tree' = ChangeDirty(tree, w, b)
  BY DEF TitleMove, widgetVars
<1>2. Reads(w, c, "move")
  BY <1>1, ReadsIs
<1>3. c = Held[w]
  BY <1>2, ViewsAssumption DEF Reads
<1>4. b \in Boxes /\ b.x = x /\ b.y = y
  <2>1. old \in Boxes /\ e.x \in Int /\ e.y \in Int
    BY <1>2 DEF Reads, MouseMail
  <2>2. drag[c][1] \in Int /\ drag[c][2] \in Int
    BY <1>1 DEF KInv, IInv, WidgetsOK
  <2>3. x \in Int /\ y \in Int
    BY <2>1, <2>2
  <2>. HIDE DEF x, y, old
  <2>. QED  BY <2>1, <2>3 DEF Boxes
<1>. HIDE DEF b
<1>5. On(tree') = On(tree) /\ Moves(tree, tree', w, b)
  BY <1>1, <1>2, <1>4, ChangedTree, ChangeDirtyMoves DEF Reads
<1>6. Alone(w)
  BY <1>1, <1>2, <1>5, TakeIs DEF Alone, Reads, Moves
<1>. QED  BY <1>1, <1>2, <1>3, <1>4, <1>5, <1>6, TakeIs DEF Moves

LEMMA WindowDownIs ==
  ASSUME KInv, NEW w \in Windows, WindowDown(w)
  PROVE  /\ Reads(w, w, "down") /\ Alone(w)
         /\ mail'[w] = Tail(mail[w]) /\ grip'[w].last = Head(mail[w]).buttons
         /\ UNCHANGED <<tree, drag, state>>
<1>. DEFINE b == tree.box[w]
            Mode(m) == {s \in {"x"} : m.rx < Edge(w)} \cup {s \in {"y"} : m.ry < Edge(w)}
                         \cup {s \in {"x1"} : m.rx >= b.w - Edge(w)}
                         \cup {s \in {"y1"} : m.ry >= b.h - Edge(w)}
            Grip(m) == [last |-> LastButtons(w, m), mode |-> Mode(m),
                        x |-> IF "x1" \in Mode(m) THEN m.rx - b.w ELSE IF "x" \in Mode(m) THEN m.rx ELSE 0,
                        y |-> IF "y1" \in Mode(m) THEN m.ry - b.h ELSE IF "y" \in Mode(m) THEN m.ry ELSE 0]
<1>1. /\ Gestures(w, w, "down") /\ Take(w) /\ UNCHANGED <<tree, drag, state>>
      /\ \E m \in {Head(mail[w])} : grip' = [grip EXCEPT ![w] = Grip(m)]
  BY Zenon DEF WindowDown
<1>2. Grip(Head(mail[w])).last = LastButtons(w, Head(mail[w]))
  OBVIOUS
<1>. HIDE DEF Grip
<1>3. Reads(w, w, "down")
  BY <1>1, ReadsIs
<1>4. grip'[w].last = LastButtons(w, Head(mail[w])) /\ \A u \in Windows \ {w} : grip'[u] = grip[u]
  BY <1>1, <1>2 DEF KInv, IInv, WidgetsOK
<1>5. grip'[w].last = Head(mail[w]).buttons
  BY <1>3, <1>4 DEF LastButtons, Reads
<1>6. Alone(w)
  BY <1>1, <1>3, <1>4, TakeIs DEF Alone, Reads
<1>. QED  BY <1>1, <1>3, <1>5, <1>6, TakeIs

LEMMA WindowMoveIs ==
  ASSUME KInv, NEW w \in Windows, WindowMove(w)
  PROVE  /\ Reads(w, w, "move") /\ Alone(w)
         /\ mail'[w] = Tail(mail[w]) /\ UNCHANGED <<grip, drag, state>>
<1>1. Gestures(w, w, "move") /\ Take(w) /\ UNCHANGED <<grip, drag, state>>
  BY DEF WindowMove, widgetVars
<1>2. PICK b \in Boxes : tree' = ChangeDirty(tree, w, b)
  BY WindowMoves DEF KInv
<1>3. Reads(w, w, "move")
  BY <1>1, ReadsIs
<1>4. On(tree') = On(tree) /\ Moves(tree, tree', w, b)
  BY <1>2, <1>3, ChangedTree, ChangeDirtyMoves DEF Reads
<1>5. Alone(w)
  BY <1>1, <1>3, <1>4, TakeIs DEF Alone, Reads, Moves
<1>. QED  BY <1>1, <1>3, <1>5, TakeIs

\* A button is redrawn where it is.
LEMMA PressedAlone ==
  ASSUME KInv, NEW c \in Controls, c \in Buttons, NEW s \in {-1, 1}, Pressed(c, s)
  PROVE  /\ On(tree') = On(tree) /\ tree'.box = tree.box
         /\ state'[c] = s /\ \A d \in Buttons \ {c} : state'[d] = state[d]
<1>. DEFINE F == {"opaque"}
            t == SetFlags(tree, c, F, F)
<1>1. state' = [state EXCEPT ![c] = s] /\ tree' = DirtyAll(t, c)
  BY DEF Pressed
<1>2. On(tree') = On(tree) /\ state \in [Buttons -> {-1, 1}]
  BY PressedIs DEF KInv, IInv, WidgetsOK
<1>3. "box" \in DOMAIN tree
  BY HasBoxes DEF KInv, IInv, WellTrees
<1>. HIDE DEF F
<1>4. t.box = tree.box /\ "box" \in DOMAIN t
  BY <1>3, BoxesStay
<1>. HIDE DEF t
<1>5. DirtyAll(t, c).box = t.box
  BY <1>4, BoxesStay
<1>. QED  BY <1>1, <1>2, <1>4, <1>5

LEMMA ButtonPressIs ==
  ASSUME KInv, NEW w \in Windows, NEW c \in Controls, ButtonPress(w, c)
  PROVE  /\ Reads(w, c, "down") /\ Alone(w) /\ c = Held[w] /\ c \in Buttons
         /\ mail'[w] = Tail(mail[w]) /\ grip'[w].last = Head(mail[w]).buttons
         /\ drag' = drag /\ tree'.box[w] = tree.box[w] /\ state'[c] = -1
<1>1. /\ Gestures(w, c, "down") /\ c \in Buttons /\ Take(w) /\ Remember(w) /\ Pressed(c, -1) /\ drag' = drag
  BY DEF ButtonPress
<1>2. Reads(w, c, "down")
  BY <1>1, ReadsIs
<1>3. c = Held[w]
  BY <1>2, ViewsAssumption DEF Reads
<1>4. /\ On(tree') = On(tree) /\ tree'.box = tree.box
      /\ state'[c] = -1 /\ \A d \in Buttons \ {c} : state'[d] = state[d]
  BY <1>1, PressedAlone
<1>5. grip'[w].last = Head(mail[w]).buttons
  BY <1>1, <1>2, RememberIs DEF LastButtons, Reads
<1>6. Alone(w)
  BY <1>1, <1>2, <1>3, <1>4, TakeIs, RememberIs, HeldOnce DEF Alone, Reads
<1>. QED  BY <1>1, <1>2, <1>3, <1>4, <1>5, <1>6, TakeIs

LEMMA ButtonReleaseIs ==
  ASSUME KInv, NEW w \in Windows, NEW c \in Controls, ButtonRelease(w, c)
  PROVE  /\ Reads(w, c, "up") /\ Alone(w) /\ c = Held[w] /\ c \in Buttons
         /\ grip'[w].last = {} /\ drag' = drag /\ tree'.box[w] = tree.box[w] /\ state'[c] = 1
         /\ \/ mail'[w] = Tail(mail[w])
            \/ mail'[w] = Append(Tail(mail[w]), [type |-> "action"])
<1>1. /\ Gestures(w, c, "up") /\ c \in Buttons /\ Remember(w) /\ drag' = drag
      /\ \/ state[c] = 1 /\ Take(w) /\ UNCHANGED <<tree, state>>
         \/ mail' = [mail EXCEPT ![w] = Append(Tail(@), [type |-> "action"])] /\ Pressed(c, 1)
  BY DEF ButtonRelease
<1>2. Reads(w, c, "up")
  BY <1>1, ReadsIs
<1>3. c = Held[w]
  BY <1>2, ViewsAssumption DEF Reads
<1>4. /\ On(tree') = On(tree) /\ tree'.box = tree.box
      /\ state'[c] = 1 /\ \A d \in Buttons \ {c} : state'[d] = state[d]
  BY <1>1, PressedAlone
<1>5. grip'[w].last = {}
  BY <1>1, <1>2, RememberIs DEF LastButtons, Reads
<1>6. /\ mail'[w] = Tail(mail[w]) \/ mail'[w] = Append(Tail(mail[w]), [type |-> "action"])
      /\ \A u \in Windows \ {w} : mail'[u] = mail[u]
  <2>1. mail \in [Windows -> Seq(Messages)]
    BY DEF KInv, IInv, MailOK
  <2>. QED  BY <1>1, <2>1, TakeIs
<1>7. Alone(w)
  BY <1>1, <1>2, <1>3, <1>4, <1>6, RememberIs, HeldOnce DEF Alone, Reads
<1>. QED  BY <1>1, <1>2, <1>3, <1>4, <1>5, <1>6, <1>7

LEMMA ButtonMoveIs ==
  ASSUME KInv, NEW w \in Windows, NEW c \in Controls, ButtonMove(w, c)
  PROVE  /\ Reads(w, c, "move") /\ Alone(w) /\ c = Held[w] /\ c \in Buttons
         /\ mail'[w] = Tail(mail[w]) /\ UNCHANGED <<grip, drag>> /\ tree'.box[w] = tree.box[w]
<1>1. /\ Gestures(w, c, "move") /\ c \in Buttons /\ Take(w) /\ UNCHANGED <<grip, drag>>
      /\ \/ UNCHANGED <<tree, state>>
         \/ \E s \in {-1, 1} : Pressed(c, s)
  BY DEF ButtonMove
<1>2. Reads(w, c, "move")
  BY <1>1, ReadsIs
<1>3. c = Held[w]
  BY <1>2, ViewsAssumption DEF Reads
<1>4. On(tree') = On(tree) /\ tree'.box = tree.box /\ \A d \in Buttons \ {c} : state'[d] = state[d]
  BY <1>1, PressedAlone
<1>5. Alone(w)
  BY <1>1, <1>2, <1>3, <1>4, TakeIs, HeldOnce DEF Alone, Reads
<1>. QED  BY <1>1, <1>2, <1>3, <1>4, <1>5, TakeIs

LEMMA NoEffectIs ==
  ASSUME KInv, NEW w \in Windows, NEW v \in Views, NoEffect(w, v)
  PROVE  /\ Reads(w, v, "hover") \/ (Reads(w, v, "up") /\ v \notin Buttons)
         /\ Alone(w) /\ mail'[w] = Tail(mail[w]) /\ grip'[w].last = {}
         /\ UNCHANGED <<tree, drag, state>>
<1>1. /\ Gestures(w, v, "hover") \/ (Gestures(w, v, "up") /\ v \notin Buttons)
      /\ Take(w) /\ Remember(w) /\ UNCHANGED <<tree, drag, state>>
  BY DEF NoEffect
<1>2. Reads(w, v, "hover") \/ (Reads(w, v, "up") /\ v \notin Buttons)
  BY <1>1, ReadsIs
<1>3. grip'[w].last = {}
  BY <1>1, <1>2, RememberIs DEF LastButtons, Reads, Gesture
<1>4. Alone(w)
  BY <1>1, <1>2, TakeIs, RememberIs DEF Alone, Reads
<1>. QED  BY <1>1, <1>2, <1>3, <1>4, TakeIs

LEMMA AloneKeeps ==
  ASSUME KInv, IInv', NEW w \in Windows, app[w] = "open", Alone(w), Fits(mail'[w], w)
  PROVE  KInv'
<1>1. OwnMail'
  BY DEF Alone, KInv, OwnMail, Fits
<1>2. \A u \in Windows : app[u] \in Early => u # w
  BY DEF Early
<1>. QED  BY <1>1, <1>2, KeptAlive DEF Alone

\* What the read message leaves in the mail.
LEMMA LeftFits ==
  ASSUME NEW w \in Windows, NEW v, NEW g, Reads(w, v, g),
         mail'[w] \in {Tail(mail[w]), Append(Tail(mail[w]), [type |-> "action"])}
  PROVE  Fits(mail'[w], w)
<1>. DEFINE a == [type |-> "action"]
            s == Tail(mail[w])
<1>1. s \in Seq(Messages) /\ Fits(s, w)
  BY DEF Reads
<1>2. a \in Messages /\ a.type # "mouse"
  BY DEF Messages
<1>. HIDE DEF a, s, Messages
<1>3. Fits(Append(s, a), w)
  BY <1>1, <1>2, FitsSteps
<1>. QED  BY <1>1, <1>3 DEF a, s

LEMMA WidgetsKeep ==
  ASSUME KInv, IInv', NEW w \in Windows, Widgets(w)
  PROVE  KInv'
<1>. DEFINE Read(v) == /\ \E g : Reads(w, v, g)
                       /\ Alone(w) /\ mail'[w] \in {Tail(mail[w]), Append(Tail(mail[w]), [type |-> "action"])}
<1>1. ASSUME NEW v, Read(v)
      PROVE  KInv'
  <2>1. PICK g : Reads(w, v, g)
    BY <1>1
  <2>2. app[w] = "open"
    BY <2>1 DEF Reads
  <2>3. Fits(mail'[w], w)
    BY <1>1, <2>1, LeftFits
  <2>. QED  BY <1>1, <2>2, <2>3, AloneKeeps
<1>2. ASSUME NEW c \in Controls, TitleDown(w, c) \/ TitleMove(w, c)
      PROVE  \E v : Read(v)
  BY <1>2, TitleDownIs, TitleMoveIs
<1>3. ASSUME NEW c \in Controls, ButtonPress(w, c) \/ ButtonRelease(w, c) \/ ButtonMove(w, c)
      PROVE  \E v : Read(v)
  BY <1>3, ButtonPressIs, ButtonReleaseIs, ButtonMoveIs
<1>4. ASSUME NEW v \in Views, NoEffect(w, v)
      PROVE  \E u : Read(u)
  BY <1>4, NoEffectIs
<1>5. WindowDown(w) \/ WindowMove(w) => \E v : Read(v)
  BY WindowDownIs, WindowMoveIs
<1>6. \E v : Read(v)
  <2>. HIDE DEF Read
  <2>. QED  BY <1>2, <1>3, <1>4, <1>5 DEF Widgets
<1>. QED  BY <1>1, <1>6

LEMMA RequestKeeps ==
  ASSUME KInv, IInv', NEW w \in Windows, NEW life \in {"asking", "opening", "closing"},
         life = "closing" <=> app[w] = "open", app[w] \in {"new", "asking", "open"},
         app' = [app EXCEPT ![w] = life],
         NEW r \in Requests, box' = Append(box, r), r.view = w,
         \/ r.evt = "locate"
         \/ r.evt \in {"add_front", "add_back"} /\ life = "opening"
         \/ r.evt = "sub" /\ life = "closing",
         On(tree') = On(tree), UNCHANGED <<grip, state>>,
         \/ mail'[w] = mail[w] \/ mail'[w] = <<>>
         \/ mail[w] # <<>> /\ mail'[w] = Tail(mail[w]),
         \A u \in Windows \ {w} : mail'[u] = mail[u]
  PROVE  KInv'
<1>1. RequestsFit' /\ OneRequest'
  BY RequestFits
<1>2. app \in [Windows -> Lives] /\ mail[w] \in Seq(Messages)
  BY DEF KInv, IInv, MailOK
<1>3. OpenAreShown'
  BY <1>2 DEF KInv, OpenAreShown
<1>4. OwnMail'
  <2>1. Fits(mail[w], w)
    BY DEF KInv, OwnMail
  <2>2. Fits(mail'[w], w)
    BY <1>2, <2>1, FitsSteps
  <2>. QED  BY <2>2 DEF KInv, OwnMail, Fits
<1>5. EarlyOnes'
  <2>1. ASSUME NEW u \in Windows, app'[u] \in Early
        PROVE  app[u] \in Early /\ (OnlyOf(mail[u], "bounds") => OnlyOf(mail'[u], "bounds"))
    <3>1. app[u] \in Early
      BY <1>2, <2>1 DEF Early
    <3>2. CASE u # w
      BY <3>1, <3>2
    <3>3. CASE u = w
      <4>1. OnlyOf(<<>>, "bounds")
        BY DEF OnlyOf
      <4>. QED  BY <1>2, <3>1, <3>3, <4>1, OnlySteps
    <3>. QED  BY <3>2, <3>3
  <2>2. \A u \in Windows : Untouched(u) => Untouched(u)'
    BY DEF Untouched
  <2>3. ASSUME NEW u \in Windows, app'[u] \in Early
        PROVE  Untouched(u)' /\ OnlyOf(mail'[u], "bounds")
    BY <2>1, <2>2, <2>3 DEF KInv, EarlyOnes
  <2>. QED  BY <2>3 DEF EarlyOnes, OnlyOf
<1>. QED  BY <1>1, <1>3, <1>4, <1>5 DEF KInv

LEMMA LaunchAlive ==
  ASSUME KInv, Launch
  PROVE  KInv'
<1>. DEFINE r == [evt |-> "add_front", view |-> Launcher]
<1>1. IInv /\ IInv' /\ Launcher \in Windows /\ LauncherBox \in Boxes
  BY LaunchKeeps, GuiAssumption DEF KInv
<1>2. /\ app[Launcher] = "new" /\ app' = [app EXCEPT ![Launcher] = "opening"]
      /\ tree' = Change(tree, Launcher, LauncherBox) /\ box' = Append(box, r)
      /\ UNCHANGED <<grip, state, mail>>
  BY DEF Launch, App, widgetVars, Request
<1>3. On(tree') = On(tree)
  BY <1>1, <1>2, ChangedTree DEF IInv
<1>4. r \in Requests /\ r.view = Launcher /\ r.evt = "add_front"
  BY <1>1 DEF Requests
<1>. HIDE DEF r
<1>5. app[Launcher] \in {"new", "asking", "open"} /\ app[Launcher] # "open"
  BY <1>2
<1>. QED  BY <1>1, <1>2, <1>3, <1>4, <1>5, RequestKeeps

LEMMA AskAlive ==
  ASSUME KInv, NEW w \in Windows, Ask(w)
  PROVE  KInv'
<1>1. PICK pos \in Positions :
        box' = Append(box, [evt |-> "locate", view |-> w, w |-> Pref(w).w, h |-> Pref(w).h, pos |-> pos])
  BY DEF Ask
<1>. DEFINE r == [evt |-> "locate", view |-> w, w |-> Pref(w).w, h |-> Pref(w).h, pos |-> pos]
<1>2. /\ app[w] = "new" /\ app' = [app EXCEPT ![w] = "asking"]
      /\ UNCHANGED <<tree, grip, state, mail>>
  BY DEF Ask, App, widgetVars
<1>3. r \in Requests /\ r.view = w /\ r.evt = "locate" /\ box' = Append(box, r)
  BY <1>1, PrefIs DEF Requests
<1>. HIDE DEF r
<1>4. IInv'
  BY AskKeeps DEF KInv
<1>5. app[w] \in {"new", "asking", "open"} /\ app[w] # "open"
  BY <1>2
<1>. QED  BY <1>2, <1>3, <1>4, <1>5, RequestKeeps

LEMMA OpenAlive ==
  ASSUME KInv, NEW w \in Windows, Open(w)
  PROVE  KInv'
<1>1. PICK evt \in {"add_front", "add_back"} : box' = Append(box, [evt |-> evt, view |-> w])
  BY DEF Open, Request
<1>. DEFINE r == [evt |-> evt, view |-> w]
<1>2. /\ app[w] = "asking" /\ mail[w] # <<>> /\ app' = [app EXCEPT ![w] = "opening"]
      /\ tree' = Change(tree, w, Head(mail[w]).box)
      /\ mail' = [mail EXCEPT ![w] = Tail(mail[w])]
      /\ UNCHANGED <<grip, state>>
  BY DEF Open, App, widgetVars
<1>3. mail \in [Windows -> Seq(Messages)] /\ mail[w] \in Seq(BoundsMail) /\ tree \in WellTrees
  BY <1>2 DEF KInv, IInv, MailOK
<1>4. Head(mail[w]).box \in Boxes
  <2>1. Head(mail[w]) \in BoundsMail
    BY <1>2, <1>3, TailTyped
  <2>. QED  BY <2>1 DEF BoundsMail
<1>5. On(tree') = On(tree)
  BY <1>2, <1>3, <1>4, ChangedTree
<1>6. r \in Requests /\ r.view = w /\ r.evt \in {"add_front", "add_back"} /\ box' = Append(box, r)
  BY <1>1 DEF Requests
<1>. HIDE DEF r
<1>7. IInv'
  BY OpenKeeps DEF KInv
<1>8. mail'[w] = Tail(mail[w]) /\ \A u \in Windows \ {w} : mail'[u] = mail[u]
  BY <1>2, <1>3
<1>9. app[w] \in {"new", "asking", "open"} /\ app[w] # "open"
  BY <1>2
<1>. QED  BY <1>2, <1>5, <1>6, <1>7, <1>8, <1>9, RequestKeeps

LEMMA CloseAlive ==
  ASSUME KInv, NEW w \in Windows, Close(w)
  PROVE  KInv'
<1>. DEFINE r == [evt |-> "sub", view |-> w]
<1>1. /\ app[w] = "open" /\ app' = [app EXCEPT ![w] = "closing"]
      /\ mail' = [mail EXCEPT ![w] = <<>>] /\ box' = Append(box, r)
      /\ UNCHANGED <<tree, grip, state>>
  BY DEF Close, App, widgetVars, Request
<1>2. r \in Requests /\ r.view = w /\ r.evt = "sub"
  BY DEF Requests
<1>. HIDE DEF r
<1>3. mail'[w] = <<>> /\ \A u \in Windows \ {w} : mail'[u] = mail[u]
  BY <1>1 DEF KInv, IInv, MailOK
<1>4. IInv'
  BY CloseKeeps DEF KInv
<1>. QED  BY <1>1, <1>2, <1>3, <1>4, RequestKeeps

\* A request that is served is no longer there, and was the only one of its window.
LEMMA RequestGone ==
  ASSUME KInv, box # <<>>, box' = Tail(box), NEW life,
         IF Head(box).evt = "locate" THEN app' = app ELSE app' = [app EXCEPT ![Head(box).view] = life]
  PROVE  RequestsFit' /\ OneRequest'
<1>. DEFINE m == Head(box)
<1>1. box \in Seq(Requests) /\ app \in [Windows -> Lives]
  BY DEF KInv, IInv, MailOK
<1>2. /\ 1 \in DOMAIN box /\ box[1] = m /\ Len(box) \in Nat
      /\ \A i \in DOMAIN box' : i \in Nat /\ i + 1 \in DOMAIN box /\ i + 1 # 1 /\ box'[i] = box[i + 1]
      /\ \A i \in DOMAIN box : box[i] \in Requests
  <2>. HIDE DEF Requests
  <2>. QED  BY <1>1
<1>3. \A q \in Requests : q.view \in Windows /\ q.evt \in {"add_front", "add_back", "sub", "locate"}
  BY DEF Requests
<1>. HIDE DEF m, Requests
<1>4. ASSUME NEW i \in DOMAIN box', box'[i].evt # "locate"
      PROVE  app'[box'[i].view] = app[box'[i].view]
  <2>1. CASE m.evt = "locate"
    BY <2>1 DEF m
  <2>2. CASE m.evt # "locate"
    <3>1. box'[i].view # m.view /\ box'[i].view \in Windows
      BY <1>2, <1>3, <1>4, <2>2 DEF KInv, OneRequest
    <3>. QED  BY <1>1, <2>2, <3>1 DEF m
  <2>. QED  BY <2>1, <2>2
<1>5. RequestsFit'
  <2>1. ASSUME NEW i \in DOMAIN box'
        PROVE  /\ box'[i].evt \in {"add_front", "add_back"} => app'[box'[i].view] = "opening"
               /\ box'[i].evt = "sub" => app'[box'[i].view] = "closing"
    <3>1. /\ box[i + 1].evt \in {"add_front", "add_back"} => app[box[i + 1].view] = "opening"
          /\ box[i + 1].evt = "sub" => app[box[i + 1].view] = "closing"
      BY <1>2 DEF KInv, RequestsFit
    <3>2. box'[i] = box[i + 1]
      BY <1>2
    <3>. QED  BY <1>4, <3>1, <3>2
  <2>. QED  BY <2>1 DEF RequestsFit
<1>6. OneRequest'
  <2>1. ASSUME NEW i \in DOMAIN box', NEW j \in DOMAIN box',
               box'[i].evt # "locate", box'[j].evt # "locate", box'[i].view = box'[j].view
        PROVE  i = j
    <3>1. i + 1 = j + 1
      BY <1>2, <2>1 DEF KInv, OneRequest
    <3>. QED  BY <1>2, <3>1
  <2>. QED  BY <2>1 DEF OneRequest
<1>. QED  BY <1>5, <1>6

LEMMA AddAlive ==
  ASSUME KInv, Serve, AddStep(Head(box))
  PROVE  KInv' /\ app[Head(box).view] = "opening"
<1>. DEFINE m == Head(box)
<1>1. m \in Requests /\ UNCHANGED <<at, mouse, grip, drag, state>> /\ IInv /\ IInv'
  BY ServeIs, ServeKeeps DEF KInv
<1>2. box # <<>> /\ box' = Tail(box) /\ box \in Seq(Requests)
  BY DEF Serve, KInv, IInv
<1>3. m.evt \in {"add_front", "add_back"} /\ app' = [app EXCEPT ![m.view] = "open"] /\ mail' = mail
  BY DEF AddStep
<1>4. m.view \in Windows /\ app \in [Windows -> Lives]
  BY <1>1 DEF Requests, KInv, IInv, MailOK
<1>5. On(tree') = On(tree) \cup {m.view}
  BY <1>1, AddIs
<1>6. RequestsFit' /\ OneRequest'
  BY <1>2, <1>3, RequestGone
<1>7. app[m.view] = "opening"
  <2>1. 1 \in DOMAIN box /\ box[1] = m
    <3>. HIDE DEF Requests
    <3>. QED  BY <1>2
  <2>. QED  BY <1>3, <2>1 DEF KInv, RequestsFit
<1>8. OpenAreShown'
  BY <1>3, <1>4, <1>5 DEF KInv, OpenAreShown
<1>9. EarlyOnes'
  BY <1>1, <1>3, <1>4 DEF KInv, EarlyOnes, Untouched, OnlyOf, Early
<1>10. OwnMail'
  BY <1>3 DEF KInv, OwnMail
<1>. QED  BY <1>1, <1>6, <1>7, <1>8, <1>9, <1>10 DEF KInv

LEMMA SubIs ==
  ASSUME KInv, Serve, SubStep(Head(box))
  PROVE  /\ On(tree) \ {Head(box).view} \subseteq On(tree') /\ Placed(tree, tree')
         /\ app' = [app EXCEPT ![Head(box).view] = "gone"] /\ mail' = mail
<1>. DEFINE m == Head(box)
<1>1. m \in Requests /\ tree \in WellTrees /\ tree \in Trees
  BY ServeIs DEF KInv, IInv, WellTrees
<1>2. Spare(tree) /\ tree' = Sub(Hide(tree, m.view), m.view)
      /\ app' = [app EXCEPT ![m.view] = "gone"] /\ mail' = mail
  BY DEF SubStep
<1>3. m.view \in Windows
  BY <1>1 DEF Requests
<1>. QED  BY <1>1, <1>2, <1>3, HideTree, HideStays

LEMMA SubAlive ==
  ASSUME KInv, Serve, SubStep(Head(box))
  PROVE  KInv'
<1>. DEFINE m == Head(box)
<1>1. m \in Requests /\ UNCHANGED <<at, mouse, grip, drag, state>> /\ IInv'
  BY ServeIs, ServeKeeps DEF KInv
<1>2. box # <<>> /\ box' = Tail(box) /\ m.evt = "sub"
  BY DEF Serve, SubStep
<1>3. On(tree) \ {m.view} \subseteq On(tree') /\ app' = [app EXCEPT ![m.view] = "gone"] /\ mail' = mail
  BY SubIs
<1>4. m.view \in Windows /\ app \in [Windows -> Lives]
  BY <1>1 DEF Requests, KInv, IInv, MailOK
<1>5. RequestsFit' /\ OneRequest'
  BY <1>2, <1>3, RequestGone
<1>6. OpenAreShown'
  BY <1>3, <1>4 DEF KInv, OpenAreShown
<1>7. EarlyOnes'
  BY <1>1, <1>3, <1>4 DEF KInv, EarlyOnes, Untouched, OnlyOf, Early
<1>8. OwnMail'
  BY <1>3 DEF KInv, OwnMail
<1>. QED  BY <1>1, <1>5, <1>6, <1>7, <1>8 DEF KInv

LEMMA LocateIs ==
  ASSUME KInv, Serve, LocateStep(Head(box))
  PROVE  \E msg \in BoundsMail :
           /\ Head(box).view \in Windows /\ mail'[Head(box).view] = Append(mail[Head(box).view], msg)
           /\ \A u \in Windows \ {Head(box).view} : mail'[u] = mail[u]
<1>. DEFINE m == Head(box)
            b == Locate(m.w, m.h, m.pos)
            msg == [type |-> "bounds", box |-> b]
<1>1. m \in Requests /\ m.evt = "locate" /\ mail' = [mail EXCEPT ![m.view] = Append(@, msg)]
  BY ServeIs DEF LocateStep, KInv
<1>2. m.view \in Windows /\ m.w \in Int /\ m.h \in Int
  BY <1>1 DEF Requests
<1>3. msg \in BoundsMail
  <2>1. b \in Boxes
    BY <1>2, LocateBox DEF KInv
  <2>. HIDE DEF b
  <2>. QED  BY <2>1 DEF BoundsMail
<1>. HIDE DEF msg, m
<1>4. mail \in [Windows -> Seq(Messages)]
  BY DEF KInv, IInv, MailOK
<1>. QED  BY <1>1, <1>2, <1>3, <1>4 DEF m

LEMMA LocateAlive ==
  ASSUME KInv, Serve, LocateStep(Head(box))
  PROVE  KInv'
<1>. DEFINE m == Head(box)
<1>1. UNCHANGED <<at, mouse, grip, drag, state>> /\ IInv'
  BY ServeIs, ServeKeeps DEF KInv
<1>2. box # <<>> /\ box' = Tail(box) /\ m.evt = "locate" /\ UNCHANGED <<tree, app>>
  BY DEF Serve, LocateStep
<1>3. PICK msg \in BoundsMail :
        /\ m.view \in Windows /\ mail'[m.view] = Append(mail[m.view], msg)
        /\ \A u \in Windows \ {m.view} : mail'[u] = mail[u]
  BY LocateIs
<1>4. msg.type = "bounds" /\ msg \in Messages
  BY DEF BoundsMail, Messages
<1>5. mail \in [Windows -> Seq(Messages)]
  BY DEF KInv, IInv, MailOK
<1>. HIDE DEF m, Messages
<1>6. RequestsFit' /\ OneRequest'
  BY <1>2, RequestGone DEF m
<1>7. OpenAreShown'
  BY <1>2 DEF KInv, OpenAreShown
<1>8. \A u \in Windows : mail[u] \in Seq(Messages) /\ (mail'[u] = mail[u] \/ mail'[u] = Append(mail[u], msg))
  BY <1>3, <1>5
<1>9. EarlyOnes'
  <2>1. ASSUME NEW u \in Windows, app[u] \in Early
        PROVE  OnlyOf(mail'[u], "bounds")
    <3>1. OnlyOf(mail[u], "bounds")
      BY <2>1 DEF KInv, EarlyOnes
    <3>2. OnlyOf(Append(mail[u], msg), "bounds")
      BY <1>4, <1>8, <3>1, OnlySteps
    <3>. QED  BY <1>8, <3>1, <3>2
  <2>. QED  BY <1>1, <1>2, <2>1 DEF KInv, EarlyOnes, Untouched, OnlyOf
<1>10. OwnMail'
  <2>1. ASSUME NEW u \in Windows
        PROVE  Fits(mail'[u], u)
    <3>1. Fits(mail[u], u)
      BY DEF KInv, OwnMail
    <3>2. Fits(Append(mail[u], msg), u)
      BY <1>4, <1>8, <3>1, FitsSteps
    <3>. QED  BY <1>8, <3>1, <3>2
  <2>. QED  BY <2>1 DEF OwnMail, Fits
<1>. QED  BY <1>1, <1>6, <1>7, <1>9, <1>10 DEF KInv

LEMMA InputAlive ==
  ASSUME KInv, Input
  PROVE  KInv'
<1>1. ASSUME NEW b \in {"left", "right"}, ButtonUp(b)
      PROVE  KInv'
  BY <1>1, ButtonUpIs, ButtonUpKeeps, HeardKeeps DEF Mousing, KInv
<1>2. ASSUME NEW b \in {"left", "right"}, NEW p \in Points, ButtonDown(b, p)
      PROVE  KInv'
  BY <1>2, ButtonDownIs, ButtonDownKeeps, HeardKeeps DEF Mousing, KInv
<1>3. ASSUME NEW p \in Points, Motion(p)
      PROVE  KInv'
  BY <1>3, MotionIs, MotionKeeps, HeardKeeps DEF Mousing, KInv
<1>4. CASE KeyOrWheel
  <2>1. UNCHANGED <<tree, app, box, grip, state, mail>> /\ IInv'
    BY <1>4, KeyOrWheelIs, KeyOrWheelKeeps DEF KInv
  <2>. QED  BY <2>1, HeardKeeps DEF Mousing
<1>5. ASSUME Shown \/ \E s \in Sizes : SizeChanged(s)
      PROVE  KInv'
  <2>1. /\ On(tree') = On(tree) /\ UNCHANGED <<app, box, grip, state, mail>> /\ IInv'
    BY <1>5, ShownIs, SizeChangedIs, ShownKeeps, SizeChangedKeeps DEF KInv
  <2>2. OwnMail'
    BY <2>1 DEF KInv, OwnMail
  <2>. QED  BY <2>1, <2>2, KeptAlive
<1>6. CASE Quit
  <2>1. /\ UNCHANGED <<tree, app, box, grip, state>> /\ IInv'
        /\ \A w \in Windows : mail'[w] = IF w \in On(tree) THEN Append(mail[w], [type |-> "exit"]) ELSE mail[w]
    BY <1>6, QuitIs, QuitKeeps DEF KInv
  <2>. DEFINE msg == [type |-> "exit"]
  <2>2. msg \in Messages /\ msg.type # "mouse"
    BY DEF Messages
  <2>. HIDE DEF msg
  <2>3. OwnMail'
    <3>1. ASSUME NEW w \in Windows
          PROVE  Fits(mail'[w], w)
      <4>1. mail[w] \in Seq(Messages) /\ Fits(mail[w], w)
        BY DEF KInv, IInv, MailOK, OwnMail
      <4>2. Fits(Append(mail[w], msg), w)
        <5>. HIDE DEF Messages
        <5>. QED  BY <2>2, <4>1, FitsSteps
      <4>. QED  BY <2>1, <4>1, <4>2 DEF msg
    <3>. QED  BY <3>1 DEF OwnMail, Fits
  <2>4. \A w \in Windows : app[w] \in Early => w \notin On(tree)
    BY DEF KInv, IInv, ShownAreOpen, Early
  <2>. QED  BY <2>1, <2>3, <2>4, KeptAlive
<1>. QED  BY <1>1, <1>2, <1>3, <1>4, <1>5, <1>6 DEF Input

\* Cutting and mending what a window covers leaves it where it is.
LEMMA MendIs ==
  ASSUME IInv, NEW w \in Windows, NEW r \in Cuts, Mend(w, r)
  PROVE  On(tree') = On(tree) /\ tree'.box = tree.box
<1>1. \/ tree' = AddOpaque(tree, w, r)
      \/ tree' = SubOpaque(tree, w, r)
      \/ tree' = ClrOpaque(tree, w)
  BY DEF Mend
<1>2. r \in AllRects /\ w \in Nodes /\ tree \in Trees /\ tree \in WellTrees /\ "box" \in DOMAIN tree
  BY GuiAssumption, HasBoxes DEF Nodes, Views, IInv, WellTrees
<1>3. tree' \in Trees /\ Same(tree, tree')
  BY <1>1, <1>2, OpaqueTrees
<1>4. tree'.box = tree.box
  BY <1>1, <1>2, BoxesStay
<1>. QED  BY <1>2, <1>3, <1>4, SameShape

LEMMA KInvStep ==
  ASSUME KInv, [Next]_vars
  PROVE  KInv'
<1>1. CASE Serve
  BY <1>1, ServeIs, AddAlive, SubAlive, LocateAlive DEF KInv
<1>2. CASE EndFrame
  <2>1. /\ On(tree) \cap Windows \subseteq On(tree') /\ UNCHANGED <<app, box, grip, state, mail>> /\ IInv'
    BY <1>2, FrameStays, EndFrameKeeps DEF KInv
  <2>2. OwnMail'
    BY <2>1 DEF KInv, OwnMail
  <2>. QED  BY <2>1, <2>2, KeptAlive
<1>3. ASSUME NEW w \in Windows, Handle(w)
      PROVE  KInv'
  <2>1. CASE Widgets(w)
    <3>1. IInv'
      BY <1>3, StepKeeps DEF KInv, Step
    <3>. QED  BY <2>1, <3>1, WidgetsKeep
  <2>. QED  BY <1>3, <2>1, OpenAlive, CloseAlive DEF Handle
<1>4. ASSUME NEW w \in Windows, NEW r \in Cuts, Mend(w, r)
      PROVE  KInv'
  <2>1. UNCHANGED <<app, box, grip, state, mail>> /\ IInv'
    BY <1>4, MendKeeps DEF Mend, widgetVars, KInv
  <2>2. On(tree') = On(tree)
    BY <1>4, MendIs DEF KInv
  <2>3. OwnMail'
    BY <2>1 DEF KInv, OwnMail
  <2>. QED  BY <2>1, <2>2, <2>3, KeptAlive
<1>5. CASE UNCHANGED vars
  <2>1. IInv'
    BY <1>5, StutterKeeps DEF KInv
  <2>. QED  BY <1>5, <2>1 DEF vars, widgetVars, KInv, OpenAreShown,
                  RequestsFit, OneRequest, EarlyOnes, Untouched, OnlyOf, OwnMail, Fits
<1>. QED  BY <1>1, <1>2, <1>3, <1>4, <1>5, LaunchAlive, AskAlive, InputAlive DEF Next, Step

LEMMA KInvInit == Init => KInv
<1>. SUFFICES ASSUME Init PROVE KInv
  OBVIOUS
<1>1. IInv
  BY InitIInv
<1>2. OpenAreShown
  BY DEF Init, OpenAreShown
<1>3. RequestsFit /\ OneRequest
  BY DEF Init, RequestsFit, OneRequest
<1>4. EarlyOnes
  BY DEF Init, EarlyOnes, Untouched, OnlyOf
<1>5. OwnMail
  BY DEF Init, OwnMail, Fits
<1>. QED  BY <1>1, <1>2, <1>3, <1>4, <1>5 DEF KInv

-----------------------------------------------------------------------------
(* What a window that listens knows of the mouse. A button of the mouse is *)
(* down for one view, so that the mail of its window says all that it will *)
(* know.                                                                   *)

\* An open window all of whose mail is from the mouse: while a button of the
\* mouse is down the mail keeps to one view, and when it has all been read the
\* window knows what the mouse does.
Listens(w) == app[w] = "open" /\ OnlyOf(mail[w], "mouse")
Steady(s) == \A i \in 1 .. Len(s) - 1 : s[i].buttons # {} => s[i + 1].view = s[i].view
Newest(w) == mail[w] # <<>> /\ mail[w][Len(mail[w])].buttons # {} =>
  /\ held # {} /\ mouse.id = mail[w][Len(mail[w])].view
  /\ mouse.x = mail[w][Len(mail[w])].x /\ mouse.y = mail[w][Len(mail[w])].y
Gripped(w) == mail[w] = <<>> /\ grip[w].last # {} => held # {} /\ mouse.id \in {w, Held[w]}
Down(w) == \A c \in Buttons : c = Held[w] /\ state[c] = -1 =>
  /\ grip[w].last # {}
  /\ IF mail[w] = <<>> THEN mouse.id = c ELSE mail[w][1].view = c
Dragged(w) == \A c \in Titles : c = Held[w] /\ mail[w] = <<>> /\ grip[w].last # {} /\ mouse.id = c =>
  tree.box[w].x = mouse.x + drag[c][1] /\ tree.box[w].y = mouse.y + drag[c][2]
Attends(w) == Steady(mail[w]) /\ Newest(w) /\ Gripped(w) /\ Down(w) /\ Dragged(w)

OneButton == held \in {{}, {"left"}, {"right"}} /\ mouse.buttons \subseteq UNION {Number(b) : b \in held}
Attentive == OneButton /\ \A w \in Windows : Listens(w) => Attends(w)
Follows == ~distracted /\ phase # "crashed" => Attentive

LEMMA AttendsStays ==
  ASSUME NEW w \in Windows, Attends(w), UNCHANGED <<mouse, held>>,
         mail'[w] = mail[w], grip'[w] = grip[w], tree'.box[w] = tree.box[w],
         \A c \in Buttons : c = Held[w] => state'[c] = state[c],
         \A c \in Titles : c = Held[w] => drag'[c] = drag[c]
  PROVE  Attends(w)'
<1>1. Steady(mail[w])'
  BY DEF Attends, Steady
<1>2. Newest(w)'
  BY DEF Attends, Newest
<1>3. Gripped(w)'
  BY DEF Attends, Gripped
<1>4. Down(w)'
  BY DEF Attends, Down
<1>5. Dragged(w)'
  BY DEF Attends, Dragged
<1>. QED  BY <1>1, <1>2, <1>3, <1>4, <1>5 DEF Attends

LEMMA Ends ==
  ASSUME NEW A, NEW s \in Seq(A)
  PROVE  /\ \A m \in A : /\ Append(s, m) # <<>> /\ Append(s, m)[Len(Append(s, m))] = m
                         /\ Append(s, m)[1] = IF s = <<>> THEN m ELSE s[1]
         /\ s # <<>> => /\ Head(s) = s[1]
                        /\ Tail(s) = <<>> => s[Len(s)] = Head(s)
                        /\ Tail(s) # <<>> => Tail(s)[Len(Tail(s))] = s[Len(s)] /\ Tail(s)[1] = s[2] /\ Len(s) > 1
<1>1. ASSUME NEW m \in A
      PROVE  /\ Append(s, m) # <<>> /\ Append(s, m)[Len(Append(s, m))] = m
             /\ Append(s, m)[1] = IF s = <<>> THEN m ELSE s[1]
  <2>1. Len(Append(s, m)) = Len(s) + 1 /\ Append(s, m)[Len(s) + 1] = m /\ Len(s) \in Nat
    OBVIOUS
  <2>2. CASE s = <<>>
    BY <2>1, <2>2
  <2>3. CASE s # <<>>
    BY <2>1, <2>3
  <2>. QED  BY <2>2, <2>3
<1>2. ASSUME s # <<>>
      PROVE  /\ Head(s) = s[1]
             /\ Tail(s) = <<>> => s[Len(s)] = Head(s)
             /\ Tail(s) # <<>> => Tail(s)[Len(Tail(s))] = s[Len(s)] /\ Tail(s)[1] = s[2] /\ Len(s) > 1
  <2>1. Len(s) \in Nat /\ Len(s) > 0 /\ Len(Tail(s)) = Len(s) - 1
        /\ \A i \in 1 .. Len(s) - 1 : Tail(s)[i] = s[i + 1]
    BY <1>2
  <2>2. CASE Tail(s) = <<>>
    <3>1. Len(<<>>) = 0
      OBVIOUS
    <3>2. Len(s) = 1
      <4>1. Len(Tail(s)) = 0
        BY <2>2, <3>1
      <4>. HIDE <2>2
      <4>. QED  BY <2>1, <4>1
    <3>. QED  BY <1>2, <2>2, <3>2
  <2>3. CASE Tail(s) # <<>>
    <3>1. Len(Tail(s)) > 0
      BY <1>2, <2>3
    <3>2. Len(s) - 1 \in 1 .. Len(s) - 1 /\ 1 \in 1 .. Len(s) - 1 /\ (Len(s) - 1) + 1 = Len(s) /\ 1 + 1 = 2
      BY <2>1, <3>1
    <3>3. Tail(s)[Len(s) - 1] = s[Len(s)] /\ Tail(s)[1] = s[2]
      BY <2>1, <3>2
    <3>4. Head(s) = s[1] /\ Len(s) > 1
      BY <1>2, <2>1, <3>1
    <3>. QED  BY <2>1, <2>3, <3>3, <3>4
  <2>. QED  BY <2>2, <2>3
<1>. QED  BY <1>1, <1>2

LEMMA SteadySteps ==
  ASSUME NEW A, NEW s \in Seq(A)
  PROVE  /\ Steady(s) /\ s # <<>> => Steady(Tail(s))
         /\ \A m \in A : Steady(s) /\ (s # <<>> /\ s[Len(s)].buttons # {} => m.view = s[Len(s)].view)
                         => Steady(Append(s, m))
<1>1. ASSUME Steady(s), s # <<>>
      PROVE  Steady(Tail(s))
  <2>1. Len(s) \in Nat /\ Len(Tail(s)) = Len(s) - 1 /\ \A i \in 1 .. Len(s) - 1 : Tail(s)[i] = s[i + 1]
    BY <1>1
  <2>2. ASSUME NEW i \in 1 .. Len(Tail(s)) - 1, Tail(s)[i].buttons # {}
        PROVE  Tail(s)[i + 1].view = Tail(s)[i].view
    <3>1. i \in 1 .. Len(s) - 1 /\ i + 1 \in 1 .. Len(s) - 1
      BY <2>1, <2>2
    <3>2. Tail(s)[i] = s[i + 1] /\ Tail(s)[i + 1] = s[(i + 1) + 1]
      BY <2>1, <3>1
    <3>. QED  BY <1>1, <2>2, <3>1, <3>2 DEF Steady
  <2>. QED  BY <2>2 DEF Steady
<1>2. ASSUME NEW m \in A, Steady(s), s # <<>> /\ s[Len(s)].buttons # {} => m.view = s[Len(s)].view
      PROVE  Steady(Append(s, m))
  <2>. DEFINE r == Append(s, m)
  <2>1. Len(s) \in Nat /\ Len(r) = Len(s) + 1 /\ r[Len(s) + 1] = m /\ \A i \in 1 .. Len(s) : r[i] = s[i]
    OBVIOUS
  <2>. HIDE DEF r
  <2>2. ASSUME NEW i \in 1 .. Len(r) - 1, r[i].buttons # {}
        PROVE  r[i + 1].view = r[i].view
    <3>1. i \in 1 .. Len(s)
      BY <2>1, <2>2
    <3>2. CASE i = Len(s)
      <4>1. s # <<>>
        BY <3>1, <3>2
      <4>2. r[i] = s[Len(s)] /\ r[i + 1] = m
        BY <2>1, <3>1, <3>2
      <4>. QED  BY <1>2, <2>2, <4>1, <4>2
    <3>3. CASE i # Len(s)
      <4>1. i \in 1 .. Len(s) - 1 /\ i + 1 \in 1 .. Len(s)
        BY <2>1, <3>1, <3>3
      <4>2. r[i] = s[i] /\ r[i + 1] = s[i + 1]
        BY <2>1, <4>1, <3>1
      <4>. QED  BY <1>2, <2>2, <4>1, <4>2 DEF Steady
    <3>. QED  BY <3>2, <3>3
  <2>. QED  BY <2>2 DEF Steady, r
<1>. QED  BY <1>1, <1>2

\* The window hears what the mouse does.
LEMMA TellAttends ==
  ASSUME NEW w \in Windows, mail[w] \in Seq(Messages), Attends(w), NEW m \in Messages,
         mail'[w] = Append(mail[w], m), UNCHANGED <<grip, state>>,
         m.view = mouse'.id, m.x = mouse'.x, m.y = mouse'.y,
         m.buttons # {} => held' # {},
         held = {} \/ mouse.id = mouse'.id
  PROVE  Attends(w)'
<1>. DEFINE s == mail[w]
            r == Append(s, m)
<1>1. r # <<>> /\ r[Len(r)] = m /\ r[1] = IF s = <<>> THEN m ELSE s[1]
  BY Ends
<1>2. s # <<>> /\ s[Len(s)].buttons # {} => m.view = s[Len(s)].view
  BY DEF Attends, Newest
<1>3. Steady(r)
  BY <1>2, SteadySteps DEF Attends
<1>4. mail'[w] = r
  OBVIOUS
<1>5. Down(w)'
  <2>1. ASSUME NEW c \in Buttons, c = Held[w], state[c] = -1
        PROVE  grip[w].last # {} /\ r[1].view = c
    <3>1. CASE s = <<>>
      <4>1. grip[w].last # {} /\ mouse.id = c /\ held # {}
        BY <2>1, <3>1 DEF Attends, Down, Gripped
      <4>. QED  BY <1>1, <3>1, <4>1
    <3>2. CASE s # <<>>
      BY <1>1, <2>1, <3>2 DEF Attends, Down
    <3>. QED  BY <3>1, <3>2
  <2>. HIDE DEF r, s
  <2>. QED  BY <1>1, <1>4, <2>1 DEF Down
<1>. HIDE DEF r, s
<1>6. Newest(w)'
  BY <1>1, <1>4 DEF Newest
<1>7. Gripped(w)' /\ Dragged(w)'
  BY <1>1, <1>4 DEF Gripped, Dragged
<1>8. Steady(mail[w])'
  BY <1>3, <1>4 DEF Steady
<1>. QED  BY <1>5, <1>6, <1>7, <1>8 DEF Attends

\* The window does not hear of the mouse, which is not its own.
LEMMA DeafAttends ==
  ASSUME NEW w \in Windows, mail[w] \in Seq(Messages), Fits(mail[w], w), OnlyOf(mail[w], "mouse"), Attends(w),
         mail'[w] = mail[w], UNCHANGED <<grip, state>>,
         held = {} \/ mouse.id \notin {w, Held[w]}
  PROVE  Attends(w)'
<1>1. mail[w] # <<>> => mail[w][Len(mail[w])].view \in {w, Held[w]}
  <2>1. mail[w] # <<>> => Len(mail[w]) \in DOMAIN mail[w]
    OBVIOUS
  <2>. QED  BY <2>1 DEF Fits, OnlyOf
<1>2. mail[w] # <<>> => mail[w][Len(mail[w])].buttons = {}
  BY <1>1 DEF Attends, Newest
<1>3. mail[w] = <<>> => grip[w].last = {}
  BY DEF Attends, Gripped
<1>4. Steady(mail[w])' /\ Newest(w)' /\ Gripped(w)' /\ Dragged(w)'
  BY <1>2, <1>3 DEF Attends, Steady, Newest, Gripped, Dragged
<1>5. Down(w)'
  BY <1>3 DEF Attends, Down
<1>. QED  BY <1>4, <1>5 DEF Attends

\* What a message says of the ones that are left.
LEMMA ReadOn ==
  ASSUME NEW w \in Windows, NEW v, NEW g, Reads(w, v, g), Attends(w), mail'[w] = Tail(mail[w])
  PROVE  /\ Steady(mail[w])' /\ Newest(w)'
         /\ Head(mail[w]) = mail[w][1] /\ mail[w] # <<>>
         /\ Head(mail[w]).buttons # {} =>
              IF mail'[w] = <<>>
              THEN held # {} /\ mouse.id = v /\ mouse.x = Head(mail[w]).x /\ mouse.y = Head(mail[w]).y
              ELSE mail'[w][1].view = v
<1>. DEFINE s == mail[w]
            r == Tail(s)
            e == Head(s)
<1>1. s \in Seq(Messages) /\ s # <<>> /\ e.view = v /\ UNCHANGED <<mouse, held>> /\ mail'[w] = r
  BY DEF Reads
<1>2. /\ e = s[1] /\ (r = <<>> => s[Len(s)] = e)
      /\ r # <<>> => r[Len(r)] = s[Len(s)] /\ r[1] = s[2] /\ Len(s) > 1
  BY <1>1, Ends
<1>3. Steady(r)
  BY <1>1, SteadySteps DEF Attends
<1>4. r # <<>> /\ e.buttons # {} => r[1].view = v
  <2>1. r # <<>> => 1 \in 1 .. Len(s) - 1 /\ 1 + 1 = 2
    BY <1>1, <1>2
  <2>2. \A i \in 1 .. Len(s) - 1 : s[i].buttons # {} => s[i + 1].view = s[i].view
    BY DEF Attends, Steady
  <2>3. r # <<>> => (s[1].buttons # {} => s[2].view = s[1].view)
    <3>. HIDE DEF r, s
    <3>. QED  BY <2>1, <2>2
  <2>. HIDE DEF r, s, e
  <2>. QED  BY <1>1, <1>2, <2>3
<1>. HIDE DEF r, s, e
<1>5. s[Len(s)].buttons # {} =>
        /\ held # {} /\ mouse.id = s[Len(s)].view
        /\ mouse.x = s[Len(s)].x /\ mouse.y = s[Len(s)].y
  BY <1>1 DEF Attends, Newest, s
<1>6. Newest(w)'
  BY <1>1, <1>2, <1>5 DEF Newest
<1>7. r = <<>> /\ e.buttons # {} => held # {} /\ mouse.id = v /\ mouse.x = e.x /\ mouse.y = e.y
  BY <1>1, <1>2, <1>5
<1>8. Steady(mail[w])'
  BY <1>1, <1>3 DEF Steady
<1>. QED  BY <1>1, <1>2, <1>4, <1>6, <1>7, <1>8 DEF s, e

\* A window that has handled a message of the mouse still attends to it: its
\* button is down only if the message was for the button, and its title has
\* taken it to where the message says.
LEMMA ReadAttends ==
  ASSUME NEW w \in Windows, NEW v, NEW g, Reads(w, v, g), Attends(w), mail'[w] = Tail(mail[w]),
         \/ g = "down" /\ grip'[w].last = Head(mail[w]).buttons
         \/ g = "move" /\ grip'[w].last = grip[w].last
         \/ grip'[w].last = {},
         \A c \in Buttons : c = Held[w] /\ state'[c] = -1 => v = c /\ g \in {"down", "move"},
         \A c \in Titles : c = Held[w] /\ v = c /\ g \in {"down", "move"} =>
           /\ tree'.box[w].x = Head(mail[w]).x + drag'[c][1]
           /\ tree'.box[w].y = Head(mail[w]).y + drag'[c][2],
         grip'[w].last = {} => g \notin {"down", "move"}
  PROVE  Attends(w)'
<1>. DEFINE e == Head(mail[w])
<1>1. /\ v \in {w, Held[w]} /\ Gesture(w, e) = g /\ UNCHANGED <<mouse, held>>
  BY DEF Reads
<1>2. /\ g \in {"down", "move"} => e.buttons # {}
      /\ g = "move" => grip[w].last # {}
  BY <1>1 DEF Gesture
<1>3. /\ Steady(mail[w])' /\ Newest(w)'
      /\ e.buttons # {} =>
           IF mail'[w] = <<>> THEN held # {} /\ mouse.id = v /\ mouse.x = e.x /\ mouse.y = e.y
           ELSE mail'[w][1].view = v
  BY ReadOn
<1>4. grip'[w].last # {} => g \in {"down", "move"}
  OBVIOUS
<1>. HIDE DEF e
<1>5. Gripped(w)'
  BY <1>1, <1>2, <1>3, <1>4 DEF Gripped
<1>6. Down(w)'
  BY <1>1, <1>2, <1>3 DEF Down
<1>7. Dragged(w)'
  BY <1>1, <1>2, <1>3, <1>4 DEF Dragged, e
<1>. QED  BY <1>3, <1>5, <1>6, <1>7 DEF Attends

\* The message that was read was the first of a mail from the mouse.
LEMMA HeardBefore ==
  ASSUME KInv, Attentive, NEW w \in Windows, NEW v, NEW g, Reads(w, v, g), mail'[w] = Tail(mail[w]), Listens(w)'
  PROVE  Attends(w)
<1>. DEFINE s == mail[w]
<1>1. s \in Seq(Messages) /\ s # <<>> /\ Head(s) \in MouseMail /\ app[w] = "open" /\ OnlyOf(Tail(s), "mouse")
  BY DEF Reads, Listens, OnlyOf
<1>2. OnlyOf(s, "mouse")
  <2>1. ASSUME NEW i \in DOMAIN s
        PROVE  s[i].type = "mouse"
    <3>1. CASE i = 1
      BY <1>1, <3>1 DEF MouseMail
    <3>2. CASE i # 1
      <4>1. i - 1 \in DOMAIN Tail(s) /\ Tail(s)[i - 1] = s[i]
        BY <1>1, <2>1, <3>2, SMTT(30)
      <4>. QED  BY <1>1, <4>1 DEF OnlyOf
    <3>. QED  BY <3>1, <3>2
  <2>. QED  BY <2>1 DEF OnlyOf
<1>. QED  BY <1>1, <1>2 DEF Attentive, Listens

LEMMA AloneAttentive ==
  ASSUME KInv, Attentive, NEW w \in Windows, Alone(w), Listens(w)' => Attends(w)'
  PROVE  Attentive'
<1>1. OneButton'
  BY DEF Attentive, OneButton, Alone
<1>2. ASSUME NEW u \in Windows \ {w}, Listens(u)'
      PROVE  Attends(u)'
  <2>1. Listens(u)
    BY <1>2 DEF Alone, Listens, OnlyOf
  <2>2. Attends(u)
    BY <2>1 DEF Attentive
  <2>. QED  BY <2>2, AttendsStays DEF Alone
<1>. QED  BY <1>1, <1>2 DEF Attentive

\* A button that is up stays up, as long as its window has not been pressed.
LEMMA UpBefore ==
  ASSUME KInv, NEW w \in Windows, NEW v, NEW g, Reads(w, v, g), Attends(w), mail'[w] = Tail(mail[w])
  PROVE  \A c \in Buttons : c = Held[w] /\ state[c] = -1 => g \in {"up", "move"} /\ v = c
<1>1. Head(mail[w]) = mail[w][1] /\ mail[w] # <<>>
  BY ReadOn
<1>2. ASSUME NEW c \in Buttons, c = Held[w], state[c] = -1
      PROVE  g \in {"up", "move"} /\ v = c
  <2>1. grip[w].last # {} /\ mail[w][1].view = c
    BY <1>1, <1>2 DEF Attends, Down
  <2>. QED  BY <1>1, <2>1 DEF Reads, Gesture
<1>. QED  BY <1>2

LEMMA TitleDownFollows ==
  ASSUME KInv, Attentive, NEW w \in Windows, NEW c \in Controls, TitleDown(w, c)
  PROVE  Attentive'
<1>. DEFINE e == Head(mail[w])
<1>1. /\ Reads(w, c, "down") /\ Alone(w) /\ c = Held[w] /\ c \in Titles
      /\ mail'[w] = Tail(mail[w]) /\ grip'[w].last = e.buttons
      /\ state' = state /\ tree'.box[w] = tree.box[w]
      /\ drag'[c] = <<tree.box[w].x - e.x, tree.box[w].y - e.y>>
  BY TitleDownIs
<1>2. ASSUME Listens(w)'
      PROVE  Attends(w)'
  <2>1. Attends(w)
    BY <1>1, <1>2, HeardBefore
  <2>2. \A d \in Buttons : d = Held[w] => state'[d] # -1
    BY <1>1, <2>1, UpBefore
  <2>3. e.x \in Int /\ e.y \in Int /\ tree.box[w].x \in Int /\ tree.box[w].y \in Int
    BY <1>1 DEF Reads, MouseMail, Boxes
  <2>4. tree'.box[w].x = e.x + drag'[c][1] /\ tree'.box[w].y = e.y + drag'[c][2]
    <3>. HIDE DEF e
    <3>. QED  BY <1>1, <2>3
  <2>5. grip'[w].last # {}
    BY <1>1 DEF Reads, Gesture
  <2>. QED  BY <1>1, <2>1, <2>2, <2>4, <2>5, ReadAttends
<1>. QED  BY <1>1, <1>2, AloneAttentive

LEMMA TitleMoveFollows ==
  ASSUME KInv, Attentive, NEW w \in Windows, NEW c \in Controls, TitleMove(w, c)
  PROVE  Attentive'
<1>1. /\ Reads(w, c, "move") /\ Alone(w) /\ c = Held[w] /\ c \in Titles
      /\ mail'[w] = Tail(mail[w]) /\ UNCHANGED <<grip, drag, state>>
      /\ tree'.box[w].x = Head(mail[w]).x + drag[c][1]
      /\ tree'.box[w].y = Head(mail[w]).y + drag[c][2]
  BY TitleMoveIs
<1>2. ASSUME Listens(w)'
      PROVE  Attends(w)'
  <2>1. Attends(w)
    BY <1>1, <1>2, HeardBefore
  <2>2. \A d \in Buttons : d # Held[w]
    BY <1>1, GuiAssumption
  <2>3. grip'[w].last # {}
    BY <1>1 DEF Reads, Gesture
  <2>. QED  BY <1>1, <2>1, <2>2, <2>3, ReadAttends
<1>. QED  BY <1>1, <1>2, AloneAttentive

LEMMA WindowFollows ==
  ASSUME KInv, Attentive, NEW w \in Windows, WindowDown(w) \/ WindowMove(w)
  PROVE  Attentive'
<1>1. PICK g \in {"down", "move"} :
        /\ Reads(w, w, g) /\ Alone(w) /\ mail'[w] = Tail(mail[w]) /\ state' = state
        /\ \/ g = "down" /\ grip'[w].last = Head(mail[w]).buttons
           \/ g = "move" /\ grip'[w].last = grip[w].last
  BY WindowDownIs, WindowMoveIs
<1>2. ASSUME Listens(w)'
      PROVE  Attends(w)'
  <2>1. Attends(w)
    BY <1>1, <1>2, HeardBefore
  <2>2. w # Held[w]
    BY GuiAssumption, ViewsAssumption
  <2>3. \A d \in Buttons : d = Held[w] => state'[d] # -1
    BY <1>1, <2>1, <2>2, UpBefore
  <2>4. grip'[w].last # {}
    BY <1>1 DEF Reads, Gesture
  <2>. QED  BY <1>1, <2>1, <2>2, <2>3, <2>4, ReadAttends
<1>. QED  BY <1>1, <1>2, AloneAttentive

LEMMA ButtonFollows ==
  ASSUME KInv, Attentive, NEW w \in Windows, NEW c \in Controls, ButtonPress(w, c) \/ ButtonMove(w, c)
  PROVE  Attentive'
<1>1. PICK g \in {"down", "move"} :
        /\ Reads(w, c, g) /\ Alone(w) /\ c = Held[w] /\ c \in Buttons /\ mail'[w] = Tail(mail[w])
        /\ \/ g = "down" /\ grip'[w].last = Head(mail[w]).buttons
           \/ g = "move" /\ grip'[w].last = grip[w].last
  BY ButtonPressIs, ButtonMoveIs
<1>2. ASSUME Listens(w)'
      PROVE  Attends(w)'
  <2>1. Attends(w)
    BY <1>1, <1>2, HeardBefore
  <2>2. \A d \in Titles : d # Held[w]
    BY <1>1, GuiAssumption
  <2>3. grip'[w].last # {}
    BY <1>1 DEF Reads, Gesture
  <2>. QED  BY <1>1, <2>1, <2>2, <2>3, ReadAttends
<1>. QED  BY <1>1, <1>2, AloneAttentive

LEMMA ButtonReleaseFollows ==
  ASSUME KInv, Attentive, NEW w \in Windows, NEW c \in Controls, ButtonRelease(w, c)
  PROVE  Attentive'
<1>1. /\ Reads(w, c, "up") /\ Alone(w) /\ c = Held[w] /\ c \in Buttons
      /\ grip'[w].last = {} /\ state'[c] = 1
      /\ \/ mail'[w] = Tail(mail[w])
         \/ mail'[w] = Append(Tail(mail[w]), [type |-> "action"])
  BY ButtonReleaseIs
<1>2. ASSUME Listens(w)'
      PROVE  Attends(w)'
  <2>. DEFINE s == Tail(mail[w])
              a == [type |-> "action"]
  <2>1. mail'[w] = s
    <3>1. s \in Seq(Messages) /\ a \in Messages /\ a.type # "mouse"
      BY <1>1 DEF Reads, Messages
    <3>2. OnlyOf(mail'[w], "mouse")
      BY <1>2 DEF Listens, OnlyOf
    <3>. HIDE DEF s, a, Messages
    <3>3. ~OnlyOf(Append(s, a), "mouse")
      BY <3>1, OnlySteps
    <3>. QED  BY <1>1, <3>2, <3>3 DEF s, a
  <2>2. Attends(w)
    BY <1>1, <1>2, <2>1, HeardBefore
  <2>3. \A d \in Buttons : d = Held[w] => state'[d] # -1
    BY <1>1
  <2>. QED  BY <1>1, <2>1, <2>2, <2>3, ReadAttends
<1>. QED  BY <1>1, <1>2, AloneAttentive

LEMMA NoEffectFollows ==
  ASSUME KInv, Attentive, NEW w \in Windows, NEW v \in Views, NoEffect(w, v)
  PROVE  Attentive'
<1>1. PICK g \in {"hover", "up"} :
        /\ Reads(w, v, g) /\ (g = "up" => v \notin Buttons)
        /\ Alone(w) /\ mail'[w] = Tail(mail[w]) /\ grip'[w].last = {} /\ state' = state
  BY NoEffectIs
<1>2. ASSUME Listens(w)'
      PROVE  Attends(w)'
  <2>1. Attends(w)
    BY <1>1, <1>2, HeardBefore
  <2>2. \A d \in Buttons : d = Held[w] => state'[d] # -1
    BY <1>1, <2>1, UpBefore
  <2>. QED  BY <1>1, <2>1, <2>2, ReadAttends
<1>. QED  BY <1>1, <1>2, AloneAttentive

LEMMA NumberIs == Number("left") = {0} /\ Number("right") = {0, 1} /\ Mask({}) = {} /\ Mask({"left"}) = {0}
BY DEF Number, Mask

\* The mail of a window after the mouse told the view it is over.
LEMMA HeardAttends ==
  ASSUME KInv, NEW v \in Seen(tree), Heard(v), Mouse("mouse", v) \in MouseMail,
         UNCHANGED <<app, grip, state>>, mouse'.id = v, mouse'.buttons # {} => held' # {},
         held = {} \/ mouse.id = v,
         NEW w \in Windows, Attends(w), OnlyOf(mail[w], "mouse")
  PROVE  Attends(w)'
<1>. DEFINE m == Mouse("mouse", v)
<1>1. /\ m.view = mouse'.id /\ m.x = mouse'.x /\ m.y = mouse'.y /\ m.buttons = mouse'.buttons
      /\ m \in Messages
  BY DEF Mouse, Messages
<1>2. mail[w] \in Seq(Messages) /\ Fits(mail[w], w)
  BY DEF KInv, IInv, MailOK, OwnMail
<1>3. mail'[w] = IF v \in {w, Held[w]} THEN Append(mail[w], m) ELSE mail[w]
  BY DEF Heard
<1>. HIDE DEF m, Messages
<1>4. CASE v \in {w, Held[w]}
  BY <1>1, <1>2, <1>3, <1>4, TellAttends
<1>5. CASE v \notin {w, Held[w]}
  <2>1. held = {} \/ mouse.id \notin {w, Held[w]}
    BY <1>5
  <2>. QED  BY <1>2, <1>3, <1>5, <2>1, DeafAttends
<1>. QED  BY <1>4, <1>5

LEMMA HeardAttentive ==
  ASSUME KInv, Attentive, OneButton', NEW v \in Seen(tree), Heard(v), Mouse("mouse", v) \in MouseMail,
         UNCHANGED <<app, grip, state>>, mouse'.id = v, mouse'.buttons # {} => held' # {},
         held = {} \/ mouse.id = v
  PROVE  Attentive'
<1>1. ASSUME NEW w \in Windows, Listens(w)'
      PROVE  Attends(w)'
  <2>. DEFINE m == Mouse("mouse", v)
  <2>1. OnlyOf(mail[w], "mouse") /\ app[w] = "open"
    <3>1. m \in Messages
      BY DEF Messages
    <3>2. mail[w] \in Seq(Messages)
      BY DEF KInv, IInv, MailOK
    <3>3. mail'[w] = mail[w] \/ mail'[w] = Append(mail[w], m)
      BY DEF Heard
    <3>4. OnlyOf(mail'[w], "mouse") /\ app[w] = "open"
      BY <1>1 DEF Listens, OnlyOf
    <3>. HIDE DEF m, Messages
    <3>5. OnlyOf(Append(mail[w], m), "mouse") => OnlyOf(mail[w], "mouse")
      BY <3>1, <3>2, OnlySteps
    <3>. QED  BY <3>3, <3>4, <3>5
  <2>2. Attends(w)
    BY <2>1 DEF Attentive, Listens
  <2>. QED  BY <2>1, <2>2, HeardAttends
<1>. QED  BY <1>1 DEF Attentive

\* The mouse tells no window.
LEMMA DeafAttentive ==
  ASSUME KInv, Attentive, OneButton', UNCHANGED <<tree, app, mail, grip, state>>,
         held = {} \/ ~(mouse.id # NoView /\ OnScreen(tree, mouse.id))
  PROVE  Attentive'
<1>1. ASSUME NEW w \in Windows, Listens(w)'
      PROVE  Attends(w)'
  <2>1. OnlyOf(mail[w], "mouse") /\ app[w] = "open"
    BY <1>1 DEF Listens, OnlyOf
  <2>2. Attends(w)
    BY <2>1 DEF Attentive, Listens
  <2>3. mail[w] \in Seq(Messages) /\ Fits(mail[w], w)
    BY DEF KInv, IInv, MailOK, OwnMail
  <2>4. held = {} \/ mouse.id \notin {w, Held[w]}
    <3>1. w \in On(tree) /\ tree \in WellTrees
      BY <2>1 DEF KInv, IInv, OpenAreShown
    <3>2. OnScreen(tree, w) /\ OnScreen(tree, Held[w])
      BY <3>1, ShownIsFound
    <3>3. w # NoView /\ Held[w] # NoView
      BY GuiAssumption, ViewsAssumption DEF Nodes, Views
    <3>. QED  BY <3>2, <3>3
  <2>. QED  BY <2>1, <2>2, <2>3, <2>4, DeafAttends
<1>. QED  BY <1>1 DEF Attentive

LEMMA ButtonDownFollows ==
  ASSUME KInv, Attentive, NEW b \in {"left", "right"}, NEW p \in Points, ButtonDown(b, p),
         ~distracted', phase' # "crashed"
  PROVE  Attentive'
<1>1. /\ UNCHANGED <<app, grip, state>> /\ held' = {b} /\ held = {}
      /\ HitAt(p) \in Seen(tree) /\ Heard(HitAt(p)) /\ Mouse("mouse", HitAt(p)) \in MouseMail
      /\ mouse' = [x |-> p[1], y |-> p[2], id |-> HitAt(p), buttons |-> mouse.buttons \cup Number(b)]
  BY ButtonDownIs
<1>2. mouse'.id = HitAt(p) /\ mouse'.buttons = mouse.buttons \cup Number(b)
  BY <1>1
<1>3. mouse.buttons = {}
  BY <1>1 DEF Attentive, OneButton
<1>4. OneButton'
  BY <1>1, <1>2, <1>3 DEF OneButton
<1>. QED  BY <1>1, <1>2, <1>4, HeardAttentive

LEMMA ButtonUpFollows ==
  ASSUME KInv, Attentive, NEW b \in {"left", "right"}, ButtonUp(b), ~distracted'
  PROVE  Attentive'
<1>1. /\ UNCHANGED <<tree, app, grip, state>> /\ b \in held /\ held' = {} /\ held \ {b} = {}
      /\ mouse' = [mouse EXCEPT !.buttons = @ \ Number(b)]
      /\ \/ mail' = mail /\ ~(mouse.id # NoView /\ OnScreen(tree, mouse.id))
         \/ /\ mouse.id \in Seen(tree) /\ Heard(mouse.id)
            /\ Mouse("mouse", mouse.id) \in MouseMail
  BY ButtonUpIs
<1>2. mouse'.id = mouse.id /\ mouse'.buttons = mouse.buttons \ Number(b)
  BY <1>1 DEF KInv, IInv, MouseOK
<1>3. held = {b}
  BY <1>1
<1>4. mouse'.buttons = {}
  BY <1>2, <1>3 DEF Attentive, OneButton
<1>5. OneButton'
  BY <1>1, <1>4 DEF OneButton
<1>6. CASE mail' = mail /\ ~(mouse.id # NoView /\ OnScreen(tree, mouse.id))
  BY <1>1, <1>5, <1>6, DeafAttentive
<1>7. CASE mouse.id \in Seen(tree) /\ Heard(mouse.id) /\ Mouse("mouse", mouse.id) \in MouseMail
  BY <1>1, <1>2, <1>4, <1>5, <1>7, HeardAttentive
<1>. QED  BY <1>1, <1>6, <1>7

LEMMA MotionFollows ==
  ASSUME KInv, Attentive, NEW p \in Points, Motion(p), ~distracted', phase' # "crashed"
  PROVE  Attentive'
<1>1. /\ UNCHANGED <<tree, app, grip, state, held>> /\ "right" \notin held
      /\ \E v \in {IF held = {} THEN HitAt(p) ELSE mouse.id} :
           /\ mouse' = [x |-> p[1], y |-> p[2], id |-> v, buttons |-> Mask(held)]
           /\ \/ mail' = mail /\ ~(v # NoView /\ OnScreen(tree, v))
              \/ v \in Seen(tree) /\ Heard(v) /\ Mouse("mouse", v) \in MouseMail
  BY MotionIs
<1>2. PICK v \in {IF held = {} THEN HitAt(p) ELSE mouse.id} :
        /\ mouse' = [x |-> p[1], y |-> p[2], id |-> v, buttons |-> Mask(held)]
        /\ \/ mail' = mail /\ ~(v # NoView /\ OnScreen(tree, v))
           \/ v \in Seen(tree) /\ Heard(v) /\ Mouse("mouse", v) \in MouseMail
  BY <1>1
<1>3. mouse'.id = v /\ mouse'.buttons = Mask(held) /\ (held = {} \/ mouse.id = v)
  BY <1>2
<1>4. held \in {{}, {"left"}}
  BY <1>1 DEF Attentive, OneButton
<1>5. /\ OneButton' /\ (mouse'.buttons # {} => held' # {})
  <2>1. held' = held
    BY <1>1
  <2>2. CASE held = {}
    BY <1>3, <2>1, <2>2, NumberIs DEF OneButton
  <2>3. CASE held = {"left"}
    BY <1>3, <2>1, <2>3, NumberIs DEF OneButton
  <2>. QED  BY <1>4, <2>2, <2>3
<1>6. CASE mail' = mail /\ ~(v # NoView /\ OnScreen(tree, v))
  BY <1>1, <1>3, <1>5, <1>6, DeafAttentive
<1>7. CASE v \in Seen(tree) /\ Heard(v) /\ Mouse("mouse", v) \in MouseMail
  BY <1>1, <1>3, <1>5, <1>7, HeardAttentive
<1>. QED  BY <1>2, <1>6, <1>7

LEMMA KeyOrWheelFollows ==
  ASSUME KInv, Attentive, KeyOrWheel, ~distracted', phase' # "crashed"
  PROVE  Attentive'
<1>1. /\ UNCHANGED <<tree, app, grip, state, held, mail>> /\ held = {}
      /\ \/ phase' = "crashed"
         \/ \E v : mouse' = [mouse EXCEPT !.id = v]
  BY KeyOrWheelIs
<1>2. PICK v : mouse' = [mouse EXCEPT !.id = v]
  BY <1>1
<1>3. mouse'.buttons = mouse.buttons
  BY <1>2 DEF KInv, IInv, MouseOK
<1>4. OneButton'
  BY <1>1, <1>3 DEF Attentive, OneButton
<1>. QED  BY <1>1, <1>4, DeafAttentive

\* A step that neither the mouse nor a widget takes.
LEMMA QuietAttentive ==
  ASSUME Attentive, UNCHANGED <<mouse, held, grip, drag, state>>,
         \A w \in Windows : Listens(w)' =>
           \/ Listens(w) /\ mail'[w] = mail[w] /\ tree'.box[w] = tree.box[w]
           \/ mail'[w] = <<>> /\ Untouched(w)
  PROVE  Attentive'
<1>1. OneButton'
  BY DEF Attentive, OneButton
<1>2. ASSUME NEW w \in Windows, Listens(w)'
      PROVE  Attends(w)'
  <2>1. CASE Listens(w) /\ mail'[w] = mail[w] /\ tree'.box[w] = tree.box[w]
    <3>1. Attends(w)
      BY <2>1 DEF Attentive
    <3>. QED  BY <2>1, <3>1, AttendsStays
  <2>2. CASE mail'[w] = <<>> /\ Untouched(w)
    <3>1. Len(<<>>) = 0 /\ 1 .. 0 - 1 = {}
      OBVIOUS
    <3>2. Steady(mail[w])'
      BY <2>2, <3>1 DEF Steady
    <3>3. Newest(w)' /\ Gripped(w)' /\ Down(w)' /\ Dragged(w)'
      BY <2>2 DEF Newest, Gripped, Down, Dragged, Untouched
    <3>. QED  BY <3>2, <3>3 DEF Attends
  <2>. QED  BY <1>2, <2>1, <2>2
<1>. QED  BY <1>1, <1>2 DEF Attentive

LEMMA PlacedAttentive ==
  ASSUME Attentive, UNCHANGED <<mouse, held, grip, drag, state, app, mail>>, Placed(tree, tree')
  PROVE  Attentive'
BY QuietAttentive DEF Listens, Placed

LEMMA QuitFollows ==
  ASSUME KInv, Attentive, Quit
  PROVE  Attentive'
<1>. DEFINE msg == [type |-> "exit"]
<1>1. /\ UNCHANGED <<tree, app, box, at, grip, drag, state, mouse, held, distracted>>
      /\ \A w \in Windows : mail'[w] = IF w \in On(tree) THEN Append(mail[w], msg) ELSE mail[w]
  BY QuitIs DEF KInv
<1>2. msg \in Messages /\ msg.type # "mouse"
  BY DEF Messages
<1>. HIDE DEF msg, Messages
<1>3. ASSUME NEW w \in Windows, Listens(w)'
      PROVE  FALSE
  <2>1. app[w] = "open" /\ OnlyOf(mail'[w], "mouse")
    BY <1>1, <1>3 DEF Listens, OnlyOf
  <2>2. mail'[w] = Append(mail[w], msg) /\ mail[w] \in Seq(Messages)
    BY <1>1, <2>1 DEF KInv, IInv, MailOK, OpenAreShown
  <2>3. ~OnlyOf(Append(mail[w], msg), "mouse")
    BY <1>2, <2>2, OnlySteps
  <2>. QED  BY <2>1, <2>2, <2>3
<1>. QED  BY <1>1, <1>3, QuietAttentive

\* The application of one window asks for something, and no longer listens.
LEMMA RequestFollows ==
  ASSUME KInv, Attentive, NEW w \in Windows, NEW life \in {"asking", "opening", "closing"},
         app' = [app EXCEPT ![w] = life], UNCHANGED <<mouse, held, grip, drag, state>>,
         \A u \in Windows \ {w} : mail'[u] = mail[u] /\ tree'.box[u] = tree.box[u]
  PROVE  Attentive'
<1>1. app \in [Windows -> Lives]
  BY DEF KInv, IInv, MailOK
<1>2. ASSUME NEW u \in Windows, Listens(u)'
      PROVE  Listens(u) /\ mail'[u] = mail[u] /\ tree'.box[u] = tree.box[u]
  <2>1. u # w /\ app[u] = "open"
    BY <1>1, <1>2 DEF Listens
  <2>. QED  BY <1>2, <2>1 DEF Listens, OnlyOf
<1>. QED  BY <1>2, QuietAttentive

LEMMA LaunchFollows ==
  ASSUME KInv, Attentive, Launch
  PROVE  Attentive'
<1>1. /\ app' = [app EXCEPT ![Launcher] = "opening"] /\ UNCHANGED <<mouse, held, grip, drag, state, mail>>
      /\ tree' = Change(tree, Launcher, LauncherBox)
  BY DEF Launch, App, widgetVars, hostVars
<1>2. /\ Launcher \in Windows /\ LauncherBox \in Boxes /\ tree \in Trees
      /\ tree.kids[Launcher] = <<Held[Launcher]>>
  BY GuiAssumption DEF KInv, IInv, WellTrees, Shaped
<1>3. \A u \in Windows \ {Launcher} : tree'.box[u] = tree.box[u]
  BY <1>1, <1>2, ChangeMoves DEF Moves
<1>. QED  BY <1>1, <1>2, <1>3, RequestFollows

LEMMA AskFollows ==
  ASSUME KInv, Attentive, NEW w \in Windows, Ask(w)
  PROVE  Attentive'
<1>1. /\ app' = [app EXCEPT ![w] = "asking"] /\ UNCHANGED <<mouse, held, grip, drag, state, mail, tree>>
  BY DEF Ask, App, widgetVars, hostVars
<1>. QED  BY <1>1, RequestFollows

LEMMA OpenFollows ==
  ASSUME KInv, Attentive, NEW w \in Windows, Open(w)
  PROVE  Attentive'
<1>1. /\ app' = [app EXCEPT ![w] = "opening"] /\ UNCHANGED <<mouse, held, grip, drag, state>>
      /\ mail' = [mail EXCEPT ![w] = Tail(mail[w])] /\ mail[w] # <<>> /\ app[w] = "asking"
      /\ tree' = Change(tree, w, Head(mail[w]).box)
  BY DEF Open, App, widgetVars, hostVars
<1>2. /\ tree \in Trees /\ tree.kids[w] = <<Held[w]>>
      /\ mail \in [Windows -> Seq(Messages)] /\ mail[w] \in Seq(BoundsMail)
  BY <1>1 DEF KInv, IInv, WellTrees, Shaped, MailOK
<1>3. Head(mail[w]).box \in Boxes
  <2>1. Head(mail[w]) \in BoundsMail
    BY <1>1, <1>2, TailTyped
  <2>. QED  BY <2>1 DEF BoundsMail
<1>4. \A u \in Windows \ {w} : mail'[u] = mail[u] /\ tree'.box[u] = tree.box[u]
  BY <1>1, <1>2, <1>3, ChangeMoves, SMTT(30) DEF Moves
<1>. QED  BY <1>1, <1>4, RequestFollows

LEMMA CloseFollows ==
  ASSUME KInv, Attentive, NEW w \in Windows, Close(w)
  PROVE  Attentive'
<1>1. /\ app' = [app EXCEPT ![w] = "closing"] /\ UNCHANGED <<mouse, held, grip, drag, state, tree>>
      /\ mail' = [mail EXCEPT ![w] = <<>>]
  BY DEF Close, App, widgetVars, hostVars
<1>2. \A u \in Windows \ {w} : mail'[u] = mail[u]
  BY <1>1 DEF KInv, IInv, MailOK
<1>. QED  BY <1>1, <1>2, RequestFollows

LEMMA ServeFollows ==
  ASSUME KInv, Attentive, Serve
  PROVE  Attentive'
<1>. DEFINE m == Head(box)
<1>1. /\ m \in Requests /\ UNCHANGED <<mouse, held, grip, drag, state>>
      /\ AddStep(m) \/ SubStep(m) \/ LocateStep(m)
  BY ServeIs DEF KInv, Serve, hostVars
<1>2. m.view \in Windows /\ app \in [Windows -> Lives] /\ mail \in [Windows -> Seq(Messages)]
  BY <1>1 DEF Requests, KInv, IInv, MailOK
<1>. HIDE DEF m, Messages
<1>3. CASE AddStep(m)
  <2>1. app[m.view] = "opening" /\ Placed(tree, tree')
    BY <1>1, <1>3, AddAlive, AddIs DEF KInv, m
  <2>2. app' = [app EXCEPT ![m.view] = "open"] /\ mail' = mail
    BY <1>3 DEF AddStep
  <2>3. ASSUME NEW w \in Windows, Listens(w)'
        PROVE  \/ Listens(w) /\ mail'[w] = mail[w] /\ tree'.box[w] = tree.box[w]
               \/ mail'[w] = <<>> /\ Untouched(w)
    <3>1. CASE w = m.view
      <4>1. Untouched(w) /\ OnlyOf(mail[w], "bounds")
        BY <2>1, <3>1 DEF KInv, EarlyOnes, Early
      <4>2. OnlyOf(mail[w], "mouse")
        BY <2>2, <2>3 DEF Listens, OnlyOf
      <4>3. mail[w] # <<>> => 1 \in DOMAIN mail[w]
        BY <1>2
      <4>4. mail[w] = <<>>
        BY <4>1, <4>2, <4>3 DEF OnlyOf
      <4>. QED  BY <2>2, <4>1, <4>4
    <3>2. CASE w # m.view
      BY <1>2, <2>1, <2>2, <2>3, <3>2 DEF Listens, OnlyOf, Placed
    <3>. QED  BY <3>1, <3>2
  <2>. QED  BY <1>1, <2>3, QuietAttentive
<1>4. CASE SubStep(m)
  <2>1. Placed(tree, tree') /\ app' = [app EXCEPT ![m.view] = "gone"] /\ mail' = mail
    BY <1>4, SubIs DEF m
  <2>2. ASSUME NEW w \in Windows, Listens(w)'
        PROVE  Listens(w) /\ mail'[w] = mail[w] /\ tree'.box[w] = tree.box[w]
    <3>1. w # m.view
      BY <1>2, <2>1, <2>2 DEF Listens
    <3>. QED  BY <1>2, <2>1, <2>2, <3>1 DEF Listens, OnlyOf, Placed
  <2>. QED  BY <1>1, <2>2, QuietAttentive
<1>5. CASE LocateStep(m)
  <2>1. PICK msg \in BoundsMail :
          /\ mail'[m.view] = Append(mail[m.view], msg)
          /\ \A u \in Windows \ {m.view} : mail'[u] = mail[u]
    BY <1>5, LocateIs DEF m
  <2>2. msg \in Messages /\ msg.type # "mouse"
    BY DEF Messages, BoundsMail
  <2>3. UNCHANGED <<tree, app>>
    BY <1>5 DEF LocateStep
  <2>4. ASSUME NEW w \in Windows, Listens(w)'
        PROVE  Listens(w) /\ mail'[w] = mail[w] /\ tree'.box[w] = tree.box[w]
    <3>1. OnlyOf(mail'[w], "mouse")
      BY <2>4 DEF Listens, OnlyOf
    <3>2. ~OnlyOf(Append(mail[m.view], msg), "mouse")
      BY <1>2, <2>2, OnlySteps
    <3>3. w # m.view
      BY <2>1, <3>1, <3>2
    <3>4. mail'[w] = mail[w]
      BY <2>1, <3>3
    <3>. QED  BY <2>3, <2>4, <3>4 DEF Listens, OnlyOf
  <2>. QED  BY <1>1, <2>4, QuietAttentive
<1>. QED  BY <1>1, <1>3, <1>4, <1>5

\* What upset a release stays known, and a crash is the end of the service.
LEMMA InputStays ==
  ASSUME KInv, Input
  PROVE  (distracted => distracted') /\ phase # "crashed"
<1>1. phase # "crashed"
  BY DEF Input, ButtonUp, ButtonDown, Motion, KeyOrWheel, Shown, Quit, SizeChanged, Other, Event, InFrame
<1>2. ASSUME NEW b \in {"left", "right"}, ButtonUp(b) \/ \E p \in Points : ButtonDown(b, p)
      PROVE  distracted => distracted'
  BY <1>2, ButtonUpIs, ButtonDownIs
<1>3. ASSUME NEW p \in Points, Motion(p)
      PROVE  distracted => distracted'
  BY <1>3, MotionIs
<1>4. KeyOrWheel => (distracted => distracted')
  BY KeyOrWheelIs
<1>5. Shown \/ Quit \/ (\E s \in Sizes : SizeChanged(s)) => (distracted => distracted')
  BY Zenon DEF Shown, Quit, SizeChanged
<1>. QED  BY <1>1, <1>2, <1>3, <1>4, <1>5 DEF Input

LEMMA HandleStays ==
  ASSUME NEW w \in Windows, Handle(w)
  PROVE  UNCHANGED <<distracted, phase>>
BY Zenon DEF Handle, Open, Close, Widgets, TitleDown, TitleMove, WindowDown, WindowMove, ButtonPress, ButtonRelease,
       ButtonMove, NoEffect, Gestures, App, hostVars

LEMMA StepStays ==
  ASSUME KInv, [Next]_vars
  PROVE  (distracted => distracted') /\ (phase = "crashed" => phase' = "crashed")
<1>1. CASE Serve
  <2>1. phase # "crashed" /\ UNCHANGED hostVars
    BY <1>1 DEF Serve
  <2>. QED  BY <2>1 DEF hostVars
<1>2. CASE EndFrame
  <2>1. phase # "crashed" /\ UNCHANGED hostVars
    BY <1>2 DEF EndFrame, InFrame
  <2>. QED  BY <2>1 DEF hostVars
<1>3. Launch \/ (\E w \in Windows : Ask(w)) => UNCHANGED <<distracted, phase>>
  BY DEF Launch, Ask, App, hostVars
<1>4. (\E w \in Windows, r \in Cuts : Mend(w, r)) \/ UNCHANGED vars => UNCHANGED <<distracted, phase>>
  BY DEF Mend, vars
<1>. QED  BY <1>1, <1>2, <1>3, <1>4, InputStays, HandleStays DEF Next, Step

LEMMA InputFollows ==
  ASSUME KInv, Attentive, Input, ~distracted', phase' # "crashed"
  PROVE  Attentive'
<1>1. ASSUME Shown \/ \E s \in Sizes : SizeChanged(s)
      PROVE  Attentive'
  <2>1. /\ Placed(tree, tree')
        /\ UNCHANGED <<app, grip, drag, state, mouse, mail, held>>
    BY <1>1, ShownIs, SizeChangedIs DEF KInv
  <2>. QED  BY <2>1, PlacedAttentive
<1>2. ASSUME NEW b \in {"left", "right"}, ButtonUp(b) \/ \E p \in Points : ButtonDown(b, p)
      PROVE  Attentive'
  BY <1>2, ButtonUpFollows, ButtonDownFollows
<1>3. ASSUME NEW p \in Points, Motion(p)
      PROVE  Attentive'
  BY <1>3, MotionFollows
<1>4. KeyOrWheel \/ Quit => Attentive'
  BY KeyOrWheelFollows, QuitFollows
<1>. QED  BY <1>1, <1>2, <1>3, <1>4 DEF Input

LEMMA HandleFollows ==
  ASSUME KInv, Attentive, NEW w \in Windows, Handle(w)
  PROVE  Attentive'
<1>1. ASSUME NEW c \in Controls, TitleDown(w, c) \/ TitleMove(w, c)
      PROVE  Attentive'
  BY <1>1, TitleDownFollows, TitleMoveFollows
<1>2. ASSUME NEW c \in Controls, ButtonPress(w, c) \/ ButtonRelease(w, c) \/ ButtonMove(w, c)
      PROVE  Attentive'
  BY <1>2, ButtonFollows, ButtonReleaseFollows
<1>3. ASSUME NEW v \in Views, NoEffect(w, v)
      PROVE  Attentive'
  BY <1>3, NoEffectFollows
<1>4. WindowDown(w) \/ WindowMove(w) => Attentive'
  BY WindowFollows
<1>5. Open(w) \/ Close(w) => Attentive'
  BY OpenFollows, CloseFollows
<1>. QED  BY <1>1, <1>2, <1>3, <1>4, <1>5 DEF Handle, Widgets

LEMMA FollowsStep ==
  ASSUME KInv, Follows, [Next]_vars
  PROVE  Follows'
<1>. SUFFICES ASSUME ~distracted', phase' # "crashed"
              PROVE  Attentive'
  BY DEF Follows
<1>1. Attentive
  BY StepStays DEF Follows
<1>2. CASE EndFrame
  <2>1. /\ Placed(tree, tree')
        /\ UNCHANGED <<app, grip, drag, state, mouse, mail, held>>
    BY <1>2, FrameStays DEF KInv
  <2>. QED  BY <1>1, <2>1, PlacedAttentive
<1>3. ASSUME NEW w \in Windows, NEW r \in Cuts, Mend(w, r)
      PROVE  Attentive'
  <2>1. tree'.box = tree.box
    BY <1>3, MendIs DEF KInv
  <2>2. UNCHANGED <<app, grip, drag, state, mouse, mail, held>>
    BY <1>3 DEF Mend, widgetVars
  <2>. QED  BY <1>1, <2>1, <2>2, PlacedAttentive DEF Placed
<1>4. CASE UNCHANGED vars
  <2>1. UNCHANGED <<tree, app, grip, drag, state, mouse, mail, held>>
    BY <1>4 DEF vars, widgetVars
  <2>. QED  BY <1>1, <2>1, PlacedAttentive DEF Placed
<1>. QED  BY <1>1, <1>2, <1>3, <1>4, ServeFollows, InputFollows, HandleFollows, LaunchFollows, AskFollows
          DEF Next, Step

LEMMA FollowsInit == Init => Follows
BY DEF Init, Follows, Attentive, OneButton, Listens

\* With all mail read the window knows.
LEMMA ReadAll ==
  ASSUME Follows, Settled, ~distracted, NEW w \in Windows, app[w] = "open"
  PROVE  Attends(w) /\ mail[w] = <<>>
<1>1. Attentive /\ mail[w] = <<>>
  BY DEF Follows, Settled
<1>2. Listens(w)
  BY <1>1 DEF Listens, OnlyOf
<1>. QED  BY <1>1, <1>2 DEF Attentive

LEMMA LetsGo == KInv /\ Follows => NothingStuck
<1>. SUFFICES ASSUME KInv, Follows, Settled, held = {}, ~distracted
              PROVE  /\ \A w \in Windows : app[w] = "open" => grip[w].last = {}
                     /\ \A c \in Buttons : app[tree.parent[c]] = "open" => state[c] = 1
  BY DEF NothingStuck
<1>1. ASSUME NEW w \in Windows, app[w] = "open"
      PROVE  grip[w].last = {}
  BY <1>1, ReadAll DEF Attends, Gripped
<1>2. ASSUME NEW c \in Buttons, app[tree.parent[c]] = "open"
      PROVE  state[c] = 1
  <2>1. PICK w \in Windows : Held[w] = c
    BY GuiAssumption
  <2>2. tree.parent[c] = w
    BY <2>1 DEF KInv, IInv, WellTrees, Shaped
  <2>3. state[c] # -1
    BY <1>1, <1>2, <2>1, <2>2, ReadAll DEF Attends, Down
  <2>4. state \in [Buttons -> {-1, 1}]
    BY DEF KInv, IInv, WidgetsOK
  <2>. QED  BY <2>3, <2>4
<1>. QED  BY <1>1, <1>2

LEMMA KeepsDistance == Follows => DragFollows
<1>. SUFFICES ASSUME Follows, NEW w \in Windows, NEW c \in Titles \cap {Held[w]},
                     Settled, ~distracted, mouse.id = c, app[w] = "open", grip[w].last # {}
              PROVE  <<tree.box[w].x, tree.box[w].y>> = <<mouse.x + drag[c][1], mouse.y + drag[c][2]>>
  BY DEF DragFollows
<1>1. tree.box[w].x = mouse.x + drag[c][1] /\ tree.box[w].y = mouse.y + drag[c][2]
  BY ReadAll DEF Attends, Dragged
<1>. QED  BY <1>1

LEMMA Followed == Spec => [](KInv /\ Follows)
<1>1. Init => KInv /\ Follows
  BY KInvInit, FollowsInit
<1>2. KInv /\ Follows /\ [Next]_vars => (KInv /\ Follows)'
  BY KInvStep, FollowsStep
<1>. QED  BY <1>1, <1>2, PTL DEF Spec

\* When every button of the mouse is up and all mail is read, no window and no
\* button takes itself to be held, for any windows, screen and input; unless
\* the release was upset (gui_service.cpp mouse_button_up, window.cpp event).
THEOREM NothingHeldUp == Spec => []NothingStuck
BY LetsGo, Followed, PTL

\* While a title is held its window keeps its distance from the mouse, for any
\* windows, screen and input (title.cpp).
THEOREM DragsFollow == Spec => []DragFollows
BY KeepsDistance, Followed, PTL

\* NothingStuck and DragFollows (Gui.tla) for what the runs check.
THEOREM BenchFollows == MCSpec => [](NothingStuck /\ DragFollows)
BY BenchIsGui, NothingHeldUp, DragsFollow, PTL

-----------------------------------------------------------------------------
(* Input that misses: the screen stays at its place behind all views, so   *)
(* that only what misses the screen misses every view.                     *)

LEMMA FlagsBack ==
  ASSUME NEW t \in Trees, Backdrop(t), NEW v \in Nodes, NEW f, NEW m, "solid" \notin m
  PROVE  Backdrop(SetFlags(t, v, f, m))
<1>1. /\ SetFlags(t, v, f, m).box = t.box
      /\ SetFlags(t, v, f, m).flags = [t.flags EXCEPT ![v] = (@ \ m) \cup f \cup (@ \cap {"dirty_all"})]
  BY DEF SetFlags, Trees
<1>2. t.flags \in [Nodes -> SUBSET Flags] /\ Screen \in Nodes
  BY DEF Trees, Nodes, Views
<1>. DEFINE u == SetFlags(t, v, f, m)
<1>. HIDE DEF u
<1>3. "solid" \in u.flags[Screen]
  BY <1>1, <1>2 DEF Backdrop, u
<1>. QED  BY <1>1, <1>3 DEF Backdrop, u

\* What a method does to regions alone leaves the screen where it is.
LEMMA BackdropStays ==
  ASSUME NEW t \in Trees, Backdrop(t), NEW v \in Nodes, NEW r, NEW dx, NEW dy
  PROVE  /\ Backdrop(DirtyAll(t, v)) /\ Backdrop(ControlLayout(t, v))
         /\ Backdrop(SetFlags(t, v, {"opaque"}, {"opaque"}))
         /\ Backdrop(Dirty(t, v)) /\ Backdrop(TransDirty(t, v, dx, dy))
         /\ Backdrop(AddOpaque(t, v, r)) /\ Backdrop(SubOpaque(t, v, r)) /\ Backdrop(ClrOpaque(t, v))
<1>1. Backdrop(SetFlags(t, v, {"opaque"}, {"opaque"})) /\ Backdrop(DirtyAll(t, v))
  BY FlagsBack DEF DirtyAll
<1>2. Backdrop(ControlLayout(t, v))
  BY <1>1 DEF ControlLayout
<1>3. AddDirty(t, v, Whole(t.box[v])).box = t.box /\ AddDirty(t, v, Whole(t.box[v])).flags = t.flags
  BY DEF AddDirty, Trees
<1>4. TransDirty(t, v, dx, dy).box = t.box /\ TransDirty(t, v, dx, dy).flags = t.flags
  BY DEF TransDirty, Trees
<1>5. /\ AddOpaque(t, v, r).box = t.box /\ AddOpaque(t, v, r).flags = t.flags
      /\ SubOpaque(t, v, r).box = t.box /\ SubOpaque(t, v, r).flags = t.flags
      /\ ClrOpaque(t, v).box = t.box /\ ClrOpaque(t, v).flags = t.flags
  BY DEF AddOpaque, SubOpaque, ClrOpaque, Trees
<1>. QED  BY <1>1, <1>2, <1>3, <1>4, <1>5 DEF Backdrop, Dirty

\* No other view that changes its bounds moves it.
LEMMA BoundsBack ==
  ASSUME NEW t \in Trees, Backdrop(t), NEW v \in Windows \cup Controls, NEW b
  PROVE  Backdrop(SetBounds(t, v, b))
<1>1. SetBounds(t, v, b).box = [t.box EXCEPT ![v] = b] /\ SetBounds(t, v, b).flags = t.flags
  BY DEF SetBounds, Trees
<1>2. [t.box EXCEPT ![v] = b][Screen] = t.box[Screen]
  BY ViewsAssumption DEF Trees, Nodes, Views
<1>. QED  BY <1>1, <1>2 DEF Backdrop

LEMMA LayoutBack ==
  ASSUME NEW t \in Trees, Backdrop(t), NEW w \in Windows, t.kids[w] = <<Held[w]>>
  PROVE  Backdrop(WindowLayout(t, w))
<1>. DEFINE edge == Border[w] + Shadow[w]
            b == t.box[w]
            inner == Box(edge, edge, b.w - 2 * edge, b.h - 2 * edge)
            moved == SetBounds(t, Held[w], inner)
            filled == ChangeControl(t, Held[w], inner)
            lit == SetFlags(filled, w, {"opaque"}, {"opaque"})
            clear == ClrOpaque(filled, w)
            core == InParent(Box(Shadow[w], Shadow[w], b.w - 2 * Shadow[w], b.h - 2 * Shadow[w]))
            mended == AddOpaque(clear, w, core)
<1>1. w \in Nodes /\ Held[w] \in Nodes /\ Held[w] \in Controls /\ b \in Boxes /\ b.w \in Int /\ b.h \in Int
  BY GuiAssumption DEF Nodes, Views, Trees, Boxes
<1>2. inner \in Boxes
  BY <1>1, EdgeIs DEF Boxes, Box
<1>3. WindowLayout(t, w) \in {filled, lit, mended}
  BY DEF WindowLayout
<1>4. filled \in {moved, ControlLayout(moved, Held[w])}
  BY DEF ChangeControl
<1>. HIDE DEF inner, core
<1>5. moved \in Trees /\ Backdrop(moved)
  BY <1>1, <1>2, SetBoundsTree, BoundsBack
<1>6. filled \in Trees
  BY <1>1, <1>2, ChangeControlTree
<1>. HIDE DEF moved, filled
<1>7. Backdrop(filled)
  BY <1>1, <1>4, <1>5, BackdropStays
<1>8. clear \in Trees
  BY <1>1, <1>6, OpaqueTrees
<1>9. Backdrop(lit) /\ Backdrop(clear)
  BY <1>1, <1>6, <1>7, BackdropStays
<1>. HIDE DEF lit, clear
<1>10. Backdrop(mended)
  BY <1>1, <1>8, <1>9, BackdropStays
<1>. QED  BY <1>3, <1>7, <1>9, <1>10

LEMMA ChangeBack ==
  ASSUME NEW t \in Trees, Backdrop(t), NEW w \in Windows, t.kids[w] = <<Held[w]>>, NEW b \in Boxes
  PROVE  Backdrop(Change(t, w, b))
<1>. DEFINE u == SetBounds(t, w, b)
<1>1. u \in Trees /\ Same(t, u)
  BY SetBoundsTree DEF Nodes, Views
<1>2. Backdrop(u)
  BY BoundsBack
<1>3. Change(t, w, b) \in {u, WindowLayout(u, w)}
  BY DEF Change
<1>. HIDE DEF u
<1>4. Backdrop(WindowLayout(u, w))
  <2>1. u.kids[w] = <<Held[w]>>
    BY <1>1 DEF Same
  <2>. QED  BY <1>1, <1>2, <2>1, LayoutBack
<1>. QED  BY <1>2, <1>3, <1>4

LEMMA ChangeDirtyBack ==
  ASSUME NEW t \in Trees, Backdrop(t), NEW w \in Windows, t.kids[w] = <<Held[w]>>, NEW b \in Boxes
  PROVE  Backdrop(ChangeDirty(t, w, b))
<1>. DEFINE old == t.box[w]
            a == Dirty(t, w)
            c == Change(a, w, b)
            d == TransDirty(c, w, old.x - b.x, old.y - b.y)
<1>1. w \in Nodes /\ old.x - b.x \in Int /\ old.y - b.y \in Int
  BY DEF Nodes, Views, Trees, Boxes
<1>2. ChangeDirty(t, w, b) = DirtyAll(d, w)
  BY DEF ChangeDirty
<1>. HIDE DEF old
<1>3. a \in Trees /\ Same(t, a) /\ Backdrop(a)
  BY <1>1, DirtyTree, BackdropStays
<1>. HIDE DEF a
<1>4. c \in Trees /\ Backdrop(c)
  <2>1. a.kids[w] = <<Held[w]>>
    BY <1>3 DEF Same
  <2>. QED  BY <1>3, <2>1, ChangeTree, ChangeBack
<1>. HIDE DEF c
<1>5. d \in Trees /\ Backdrop(d)
  BY <1>1, <1>4, TransDirtyTree, BackdropStays
<1>. HIDE DEF d
<1>. QED  BY <1>1, <1>2, <1>5, BackdropStays

\* Nor does a change of the order of the views.
LEMMA ListsBack ==
  ASSUME NEW t, "box" \in DOMAIN t, "flags" \in DOMAIN t, Backdrop(t), NEW p, NEW v, NEW i
  PROVE  Backdrop(Sub(t, v)) /\ Backdrop(Insert(t, p, v, i))
BY DEF Sub, Insert, Backdrop

LEMMA AddBackdrop ==
  ASSUME NEW t \in Trees, Backdrop(t), NEW v
  PROVE  Backdrop(AddFront(t, Screen, v)) /\ Backdrop(AddBack(t, Screen, v))
<1>. DEFINE s == Sub(t, v)
            i == FirstIndex(s.kids[Screen], LAMBDA u : ~Has(s, u, "at_front"))
            j == FirstIndex(s.kids[Screen], LAMBDA u : Has(s, u, "at_back"))
<1>1. AddFront(t, Screen, v) = Insert(s, Screen, v, i) /\ AddBack(t, Screen, v) = Insert(s, Screen, v, j)
  BY DEF AddFront, AddBack
<1>2. "box" \in DOMAIN t /\ "flags" \in DOMAIN t
  BY DEF Trees
<1>3. "box" \in DOMAIN s /\ "flags" \in DOMAIN s
  BY <1>2 DEF Sub
<1>4. Backdrop(s)
  BY <1>2, ListsBack
<1>. HIDE DEF s, i, j
<1>5. Backdrop(Insert(s, Screen, v, i)) /\ Backdrop(Insert(s, Screen, v, j))
  BY <1>3, <1>4, ListsBack
<1>. QED  BY <1>1, <1>5

LEMMA GhostBack ==
  ASSUME NEW t \in Trees, Backdrop(t), NEW v, Spare(t)
  PROVE  Backdrop(Ghost(t, v)) /\ {"box", "flags"} \subseteq DOMAIN Ghost(t, v)
<1>. DEFINE g == CHOOSE n \in Ghosts : t.parent[n] = NoView
            there == [t EXCEPT !.parent[g] = t.parent[v], !.box[g] = t.box[v],
                               !.kids[t.parent[v]][PlaceOf(t, v)] = g,
                               !.temps = Append(@, g)]
<1>1. g \in Ghosts
  BY DEF Spare
<1>2. Ghost(t, v) = SetFlags(there, g, {"dirty_all"}, {"dirty_all", "solid"})
  BY DEF Ghost
<1>. HIDE DEF g
<1>3. /\ there.box = [t.box EXCEPT ![g] = t.box[v]] /\ there.flags = t.flags
      /\ {"box", "flags"} \subseteq DOMAIN there
  BY DEF Trees
<1>4. g # Screen /\ Screen \in Nodes /\ t.box \in [Nodes -> Boxes] /\ t.flags \in [Nodes -> SUBSET Flags]
  BY <1>1, ViewsAssumption DEF Trees, Nodes, Views
<1>. HIDE DEF there
<1>5. /\ Ghost(t, v).box = there.box /\ {"box", "flags"} \subseteq DOMAIN Ghost(t, v)
      /\ \E f : Ghost(t, v).flags = [there.flags EXCEPT ![g] = f]
  BY <1>2, <1>3 DEF SetFlags
<1>. QED  BY <1>3, <1>4, <1>5 DEF Backdrop

LEMMA OrderBack ==
  ASSUME NEW t \in Trees, Backdrop(t), NEW v \in Nodes
  PROVE  /\ Spare(t) => Backdrop(Sub(Hide(t, v), v)) /\ Backdrop(ToBack(t, v))
         /\ Backdrop(ToFront(t, v))
<1>0. "box" \in DOMAIN t /\ "flags" \in DOMAIN t
  BY DEF Trees
<1>1. ASSUME Spare(t)
      PROVE  Backdrop(Sub(Hide(t, v), v))
  <2>1. Backdrop(Hide(t, v)) /\ {"box", "flags"} \subseteq DOMAIN Hide(t, v)
    BY <1>0, <1>1, GhostBack DEF Hide
  <2>. QED  BY <2>1, ListsBack
<1>2. ASSUME Spare(t)
      PROVE  Backdrop(ToBack(t, v))
  <2>. DEFINE p == t.parent[v]
              me == PlaceOf(t, v)
              back == FirstIndex(t.kids[p], LAMBDA u : PlaceOf(t, u) >= me /\ Has(t, u, "at_back"))
              g == Ghost(t, v)
  <2>1. ToBack(t, v) \in {t, [g EXCEPT !.kids[p] = InsertAt(@, back, v)]}
    BY DEF ToBack
  <2>2. Backdrop(g) /\ {"box", "flags"} \subseteq DOMAIN g
    BY <1>2, GhostBack
  <2>. HIDE DEF g, back, p
  <2>3. /\ [g EXCEPT !.kids[p] = InsertAt(@, back, v)].box = g.box
        /\ [g EXCEPT !.kids[p] = InsertAt(@, back, v)].flags = g.flags
    BY <2>2
  <2>. QED  BY <2>1, <2>2, <2>3 DEF Backdrop
<1>3. Backdrop(ToFront(t, v))
  <2>. DEFINE p == t.parent[v]
              me == PlaceOf(t, v)
              front == FirstIndex(t.kids[p], LAMBDA u : u = v \/ ~Has(t, u, "at_front"))
              k == [t.kids EXCEPT ![p] = InsertAt(RemoveAt(@, me), front, v)]
              u == [t EXCEPT !.kids[p] = InsertAt(RemoveAt(@, me), front, v)]
  <2>1. ToFront(t, v) \in {t, DirtyAll(u, v)}
    BY DEF ToFront
  <2>. HIDE DEF front, me, p
  <2>2. u.box = t.box /\ u.flags = t.flags /\ {"box", "flags"} \subseteq DOMAIN u
    BY <1>0
  <2>. HIDE DEF u
  <2>3. DirtyAll(u, v).box = t.box /\ "solid" \in DirtyAll(u, v).flags[Screen]
    <3>1. /\ DirtyAll(u, v).box = t.box
          /\ DirtyAll(u, v).flags = [t.flags EXCEPT ![v] = (@ \ {"dirty_all"}) \cup {"dirty_all"} \cup (@ \cap {"dirty_all"})]
      BY <2>2 DEF DirtyAll, SetFlags
    <3>2. t.flags \in [Nodes -> SUBSET Flags] /\ Screen \in Nodes /\ "solid" \in t.flags[Screen]
      BY DEF Trees, Nodes, Views, Backdrop
    <3>. QED  BY <3>1, <3>2
  <2>. QED  BY <2>1, <2>3 DEF Backdrop
<1>. QED  BY <1>1, <1>2, <1>3

LEMMA ServeBack ==
  ASSUME IInv, Backdrop(tree), Serve
  PROVE  Backdrop(tree')
<1>1. tree \in Trees /\ tree \in WellTrees
  BY DEF IInv, WellTrees
<1>2. Head(box) \in Requests /\ (AddStep(Head(box)) \/ SubStep(Head(box)) \/ LocateStep(Head(box)))
  BY ServeIs
<1>3. PICK m \in Requests : AddStep(m) \/ SubStep(m) \/ LocateStep(m)
  BY <1>2
<1>4. m.view \in Windows /\ m.view \in Nodes
  BY DEF Requests, Nodes, Views
<1>5. CASE AddStep(m)
  <2>. DEFINE a == AddFront(tree, Screen, m.view)
              b == AddBack(tree, Screen, m.view)
  <2>1. a \in WellTrees /\ b \in WellTrees
    BY <1>1, <1>4, AddTree
  <2>2. Backdrop(a) /\ Backdrop(b)
    BY <1>1, AddBackdrop
  <2>3. tree' = DirtyAll(a, m.view) \/ tree' = DirtyAll(b, m.view)
    BY <1>5 DEF AddStep
  <2>. HIDE DEF a, b
  <2>4. a \in Trees /\ b \in Trees
    BY <2>1 DEF WellTrees
  <2>5. Backdrop(DirtyAll(a, m.view)) /\ Backdrop(DirtyAll(b, m.view))
    BY <1>4, <2>2, <2>4, BackdropStays
  <2>. QED  BY <2>3, <2>5
<1>6. CASE SubStep(m)
  <2>1. Spare(tree) /\ tree' = Sub(Hide(tree, m.view), m.view)
    BY <1>6 DEF SubStep
  <2>. QED  BY <1>1, <1>4, <2>1, OrderBack
<1>7. CASE LocateStep(m)
  BY <1>7 DEF LocateStep
<1>. QED  BY <1>3, <1>5, <1>6, <1>7

LEMMA EndFrameBack ==
  ASSUME IInv, Backdrop(tree), EndFrame
  PROVE  Backdrop(tree')
<1>1. PICK t, blank, u : Ended(t, blank, u)
  BY EndFrameIs
<1>2. tree \in WellTrees /\ tree \in Trees /\ Screen \in Nodes
  BY DEF IInv, WellTrees, Nodes, Views
<1>3. t = DirtyAll(tree, Screen) \/ t = tree
  BY <1>1 DEF Ended
<1>4. DirtyAll(tree, Screen) \in WellTrees /\ Backdrop(DirtyAll(tree, Screen))
  <2>1. DirtyAll(tree, Screen) \in Trees /\ Same(tree, DirtyAll(tree, Screen))
    BY <1>2, DirtyAllTree
  <2>. QED  BY <1>2, <2>1, SameShape, BackdropStays
<1>5. t \in WellTrees /\ Backdrop(t)
  BY <1>2, <1>3, <1>4
<1>6. (u = t \/ u = Composite(t, blank).tree) /\ tree' = DropTemps([u EXCEPT !.gui = {}])
  BY <1>1 DEF Ended
<1>. QED  BY <1>5, <1>6, FrameTree

LEMMA InputBack ==
  ASSUME IInv, Backdrop(tree), Input
  PROVE  Backdrop(tree')
<1>1. tree \in Trees /\ Screen \in Nodes
  BY DEF IInv, WellTrees, Nodes, Views
<1>2. Shown => Backdrop(tree')
  BY <1>1, BackdropStays DEF Shown
<1>3. ASSUME NEW s \in Sizes, SizeChanged(s)
      PROVE  Backdrop(tree')
  <2>. DEFINE b == Box(0, 0, s[1], s[2])
              t == SetBounds(tree, Screen, b)
              F == {"dirty_all", "screen"}
  <2>1. tree' = SetFlags(t, Screen, F, F)
    BY <1>3 DEF SizeChanged
  <2>2. b \in Boxes /\ b.x = 0 /\ b.y = 0
    BY GuiAssumption DEF Box, Boxes
  <2>. HIDE DEF b
  <2>3. t \in Trees
    BY <1>1, <2>2, SetBoundsTree
  <2>4. Backdrop(t)
    <3>1. t.box = [tree.box EXCEPT ![Screen] = b] /\ t.flags = tree.flags
      BY <1>1 DEF SetBounds, Trees
    <3>. HIDE DEF t
    <3>. QED  BY <1>1, <2>2, <3>1 DEF Backdrop, Trees
  <2>. HIDE DEF t
  <2>. QED  BY <1>1, <2>1, <2>3, <2>4, FlagsBack
<1>4. ASSUME NEW b \in {"left", "right"}, ButtonUp(b) \/ \E p \in Points : ButtonDown(b, p)
      PROVE  tree' = tree
  BY <1>4 DEF ButtonUp, ButtonDown
<1>5. (\E p \in Points : Motion(p)) \/ KeyOrWheel \/ Quit => tree' = tree
  BY DEF Motion, KeyOrWheel, Quit
<1>. QED  BY <1>2, <1>3, <1>4, <1>5 DEF Input

LEMMA HandleBack ==
  ASSUME IInv, Backdrop(tree), NEW w \in Windows, Handle(w)
  PROVE  Backdrop(tree')
<1>1. tree \in Trees /\ tree.kids[w] = <<Held[w]>> /\ w \in Nodes
  BY DEF IInv, WellTrees, Shaped, Nodes, Views
<1>2. ASSUME NEW c \in Controls, NEW s, Pressed(c, s)
      PROVE  Backdrop(tree')
  <2>. DEFINE F == {"opaque"}
              t == SetFlags(tree, c, F, F)
  <2>1. tree' = DirtyAll(t, c) /\ F \in SUBSET Flags /\ c \in Nodes
    BY <1>2 DEF Pressed, Flags, Nodes, Views
  <2>2. t \in Trees /\ Backdrop(t)
    BY <1>1, <2>1, SetFlagsTree, BackdropStays
  <2>. HIDE DEF t
  <2>. QED  BY <2>1, <2>2, BackdropStays
<1>3. ASSUME NEW c \in Controls, TitleDown(w, c)
      PROVE  Backdrop(tree')
  <2>1. tree' = ToFront(tree, w) \/ (tree' = ToBack(tree, w) /\ Spare(tree))
    BY <1>3 DEF TitleDown
  <2>. QED  BY <1>1, <2>1, OrderBack
<1>4. ASSUME NEW c \in Controls, TitleMove(w, c)
      PROVE  Backdrop(tree')
  BY <1>1, <1>4, TitleMoves, ChangeDirtyBack
<1>5. ASSUME NEW c \in Controls, ButtonPress(w, c) \/ ButtonRelease(w, c) \/ ButtonMove(w, c)
      PROVE  Backdrop(tree')
  <2>1. tree' = tree \/ \E s : Pressed(c, s)
    BY <1>5 DEF ButtonPress, ButtonRelease, ButtonMove
  <2>. QED  BY <1>2, <2>1
<1>6. WindowMove(w) => Backdrop(tree')
  BY <1>1, WindowMoves, ChangeDirtyBack
<1>7. WindowDown(w) \/ Close(w) \/ (\E v \in Views : NoEffect(w, v)) => tree' = tree
  BY Zenon DEF WindowDown, Close, NoEffect
<1>8. Open(w) => Backdrop(tree')
  BY <1>1, Opens, ChangeBack
<1>. QED  BY <1>3, <1>4, <1>5, <1>6, <1>7, <1>8 DEF Handle, Widgets

LEMMA BackdropStep ==
  ASSUME IInv, Backdrop(tree), [Next]_vars
  PROVE  Backdrop(tree')
<1>1. tree \in Trees /\ tree \in WellTrees
  BY DEF IInv, WellTrees
<1>2. Launch => Backdrop(tree')
  <2>1. Launcher \in Windows /\ LauncherBox \in Boxes /\ tree.kids[Launcher] = <<Held[Launcher]>>
    BY <1>1, GuiAssumption DEF WellTrees, Shaped
  <2>. QED  BY <1>1, <2>1, ChangeBack DEF Launch
<1>3. (\E w \in Windows : Ask(w)) => tree' = tree
  BY DEF Ask
<1>4. ASSUME NEW w \in Windows, NEW r \in Cuts, Mend(w, r)
      PROVE  Backdrop(tree')
  BY <1>1, <1>4, BackdropStays DEF Mend, Nodes, Views
<1>5. UNCHANGED vars => tree' = tree
  BY DEF vars
<1>. QED  BY <1>2, <1>3, <1>4, <1>5, ServeBack, EndFrameBack, InputBack, HandleBack DEF Next, Step

LEMMA BackdropInit == Init => Backdrop(tree)
<1>. SUFFICES ASSUME Init PROVE Backdrop(tree)
  OBVIOUS
<1>. DEFINE a == SetBounds(Unborn, Screen, ScreenBox)
            b == ControlLayout(a, Screen)
<1>1. Unborn \in Trees /\ Screen \in Nodes /\ ScreenBox \in Boxes
  BY UnbornTree, GuiAssumption DEF WellTrees, Nodes, Views
<1>2. a \in Trees
  BY <1>1, SetBoundsTree
<1>3. Backdrop(a)
  <2>1. a.box = [Unborn.box EXCEPT ![Screen] = ScreenBox] /\ a.flags = Unborn.flags
    BY <1>1 DEF SetBounds, Trees
  <2>2. Unborn.flags[Screen] = {"solid"}
    BY <1>1 DEF Unborn
  <2>. HIDE DEF a
  <2>. QED  BY <1>1, <2>1, <2>2, GuiAssumption DEF Backdrop, Trees
<1>. HIDE DEF a
<1>4. b \in Trees /\ Backdrop(b)
  BY <1>1, <1>2, <1>3, ControlLayoutTree, BackdropStays
<1>5. tree = DirtyAll(b, Screen)
  BY DEF Init, a
<1>. HIDE DEF b
<1>. QED  BY <1>1, <1>4, <1>5, BackdropStays

\* The screen is among what is asked for a hit.
LEMMA ScreenIsFound ==
  ASSUME NEW t \in WellTrees
  PROVE  OnScreen(t, Screen)
<1>. DEFINE K == t.kids
            X == On(t)
            C == CallsOn(X)
            up == Call("up", Screen)
<1>1. KidsOf(K, X)
  BY KidsAre
<1>2. PICK W : IsWalked(K, X, W)
  BY <1>1, CallsAre
<1>3. Screen \in Below(X) /\ Call("down", Screen) \in C /\ up \in C
  BY DEF Below, CallsOn, Call
<1>4. /\ W[Screen] = Through(K, W, Screen) /\ \A u \in Below(X) : W[u] \in Seq(C)
      /\ ForwardTree(t) = W[Screen]
  BY <1>2, <1>3 DEF IsWalked, ForwardTree
<1>5. K[Screen] \in Seq(X) /\ \A u \in X : W[u] \in Seq(C)
  BY <1>1, <1>4 DEF KidsOf, Below
<1>. HIDE DEF K, X, C
<1>6. up \in ToSet(W[Screen])
  BY <1>3, <1>4, <1>5, ThroughHolds
<1>7. W[Screen] \in Seq([going : {"down", "up"}, view : Below(X)])
  BY <1>3, <1>4 DEF C, CallsOn
<1>8. PICK i \in 1 .. Len(W[Screen]) : W[Screen][i] = up
  <2>1. DOMAIN W[Screen] = 1 .. Len(W[Screen])
    BY <1>7
  <2>. QED  BY <1>6, <2>1 DEF ToSet
<1>9. W[Screen][i].going = "up" /\ W[Screen][i].view = Screen
  BY <1>8 DEF Call
<1>10. Contains(Visits(W[Screen], "up"), W[Screen][i].view)
  BY <1>7, <1>8, <1>9, VisitHolds
<1>. QED  BY <1>4, <1>9, <1>10 DEF OnScreen, FrontToBack

LEMMA ScreenPlace ==
  ASSUME NEW t \in WellTrees, Backdrop(t)
  PROVE  AbsRect(t, Screen) = Whole(t.box[Screen])
<1>. DEFINE visit(q, u) == <<q[1] + t.box[u].x, q[2] + t.box[u].y>>
            Good(f) == f = [i \in 0 .. 1 |-> IF i = 0 THEN <<0, 0>> ELSE visit(f[i - 1], <<Screen>>[i])]
            walk == CHOOSE f : Good(f)
<1>1. PathUp(t, Screen) = <<Screen>> /\ t.box[Screen].x = 0 /\ t.box[Screen].y = 0 /\ t.box[Screen] \in Boxes
  BY Paths DEF Backdrop, Nodes, Views, WellTrees, Trees
<1>2. Place(t, Screen) = walk[1]
  BY <1>1 DEF Place, Walk
<1>3. Good([i \in 0 .. 1 |-> <<0, 0>>])
  <2>. DEFINE f == [i \in 0 .. 1 |-> <<0, 0>>]
  <2>1. \A i \in 0 .. 1 : i # 0 => i = 1
    OBVIOUS
  <2>2. visit(f[0], <<Screen>>[1]) = <<0, 0>>
    BY <1>1
  <2>. QED  BY <2>1, <2>2
<1>4. Good(walk)
  <2>. HIDE DEF Good
  <2>. QED  BY <1>3
<1>. HIDE DEF walk
<1>5. walk[0] = <<0, 0>> /\ walk[1] = visit(walk[0], <<Screen>>[1])
  BY <1>4
<1>6. Place(t, Screen) = <<0, 0>>
  BY <1>1, <1>2, <1>5
<1>. QED  BY <1>1, <1>6 DEF AbsRect, Moved, Whole, Rect, Boxes

\* Whoever points at the screen hits a view.
LEMMA ScreenIsHit ==
  ASSUME NEW t \in WellTrees, Backdrop(t), NEW x, NEW y, Holds(Whole(t.box[Screen]), x, y)
  PROVE  HitTree(t, x, y) # NoView
<1>. DEFINE order == FrontToBack(t)
            hit(v) == Holds(AbsRect(t, v), x, y) /\ Has(t, v, "solid")
            T == {i \in DOMAIN order : \A j \in DOMAIN PathUp(t, order[i]) : hit(PathUp(t, order[i])[j])}
            k == IF T = {} THEN Len(order) + 1 ELSE CHOOSE i \in T : \A j \in T : i <= j
<1>1. HitTree(t, x, y) = IF k > Len(order) THEN NoView ELSE order[k]
  BY DEF HitTree, FirstIndex
<1>2. order \in Seq(Seen(t)) /\ Seen(t) \subseteq Nodes
  BY FoundIsSeen, OnTypes DEF Seen, Nodes, Views
<1>3. PICK i \in 1 .. Len(order) : order[i] = Screen
  BY ScreenIsFound DEF OnScreen, Contains
<1>4. PathUp(t, Screen) = <<Screen>> /\ hit(Screen)
  BY Paths, ScreenPlace DEF Nodes, Views, Has, Backdrop
<1>5. T \in SUBSET (1 .. Len(order)) /\ Len(order) \in Nat
  BY <1>2
<1>. HIDE DEF hit, order
<1>6. i \in T
  <2>1. DOMAIN order = 1 .. Len(order)
    BY <1>2
  <2>2. \A j \in DOMAIN PathUp(t, order[i]) : hit(PathUp(t, order[i])[j])
    BY <1>3, <1>4
  <2>. QED  BY <1>3, <2>1, <2>2
<1>. HIDE DEF T
<1>7. k \in T
  BY <1>5, <1>6, ChosenLeast
<1>. HIDE DEF k
<1>8. k \in 1 .. Len(order)
  BY <1>5, <1>7
<1>9. order[k] \in Nodes
  BY <1>2, <1>8
<1>. QED  BY <1>1, <1>5, <1>8, <1>9, ViewsAssumption

LEMMA OnlyOutside ==
  ASSUME IInv, Backdrop(tree), [Next]_vars
  PROVE  MissesOutside
<1>. SUFFICES ASSUME phase' = "crashed", phase # "crashed"
              PROVE  other' # other /\ held' = held /\ ~OnHost(<<mouse.x, mouse.y>>)
  BY DEF MissesOutside
<1>1. tree \in WellTrees
  BY DEF IInv
<1>2. ASSUME NEW p \in Int \X Int, OnHost(p)
      PROVE  HitAt(p) # NoView
  BY <1>1, <1>2, ScreenIsHit DEF OnHost, HitAt
<1>3. ASSUME NEW b, NEW p \in Points, ButtonDown(b, p)
      PROVE  FALSE
  <2>1. OnHost(p) /\ (HitAt(p) = NoView \/ phase' = "frame")
    BY <1>3 DEF ButtonDown
  <2>. QED  BY <1>2, <2>1, GuiAssumption
<1>4. ASSUME NEW p \in Points, Motion(p)
      PROVE  FALSE
  <2>1. (held = {} => OnHost(p)) /\ ((held = {} /\ HitAt(p) = NoView) \/ phase' = "frame")
    BY <1>4 DEF Motion
  <2>. QED  BY <1>2, <2>1, GuiAssumption
<1>5. CASE KeyOrWheel
  <2>1. ~other /\ other' = TRUE /\ held' = held /\ (HitAt(<<mouse.x, mouse.y>>) = NoView \/ phase' = "frame")
    BY <1>5 DEF KeyOrWheel, Other
  <2>2. <<mouse.x, mouse.y>> \in Int \X Int
    BY DEF IInv, MouseOK
  <2>. QED  BY <1>2, <2>1, <2>2
<1>6. ~Shown /\ ~Quit /\ (\A b : ~ButtonUp(b)) /\ \A s : ~SizeChanged(s)
  BY DEF Shown, Quit, ButtonUp, SizeChanged
<1>7. \A w \in Windows : ~Handle(w)
  BY HandleStays
<1>8. ~Serve /\ ~EndFrame /\ ~Launch /\ (\A w : ~Ask(w)) /\ (\A w, r : ~Mend(w, r)) /\ ~UNCHANGED vars
  BY DEF Serve, EndFrame, Launch, Ask, Mend, App, vars
<1>. QED  BY <1>3, <1>4, <1>5, <1>6, <1>7, <1>8 DEF Next, Step, Input

\* No input misses all views but a key or the wheel, while the mouse is off the
\* screen, for any windows, screen and input: what is pressed or pointed at is
\* inside the host window, and the screen fills it (gui_service.cpp set_mouse_id).
THEOREM NoOtherMiss == Spec => [][MissesOutside]_vars
<1>1. IInv /\ Backdrop(tree) /\ [Next]_vars => (IInv /\ Backdrop(tree))' /\ [MissesOutside]_vars
  <2>1. IInv /\ [Next]_vars => IInv'
    BY StepKeeps, MendKeeps, StutterKeeps DEF Next
  <2>. QED  BY <2>1, BackdropStep, OnlyOutside
<1>. QED  BY InitIInv, BackdropInit, <1>1, PTL DEF Spec
=============================================================================
