--------------------------- MODULE WindowConstraints ---------------------------
(***************************************************************************)
(* The constraints a window may carry (compositor/kiosk-monitor-           *)
(* constraint.c, kiosk-area-constraint.c, kiosk-lock-move-constraint.c and *)
(* kiosk-lock-resize-constraint.c): what mutter asks them to make of the   *)
(* rectangle a window is about to get. The flags say what is being done to *)
(* the window: moving it, resizing it, or both.                            *)
(***************************************************************************)
EXTENDS Integers

CONSTANT Nowhere         \* no area, or that of a monitor that is not there

Rect == [x : Int, y : Int, width : Nat, height : Nat]

ASSUME NowhereIsNoRect == Nowhere \notin Rect

Lower(a, b) == IF a <= b THEN a ELSE b
Upper(a, b) == IF a <= b THEN b ELSE a

IsEmpty(r) == r.width = 0 \/ r.height = 0

\* External: mtk_rectangle_contains_rect and mtk_rectangle_intersect. Rectangles
\* without anything in common leave the second, without extent.
Contains(area, r) ==
  /\ r.x >= area.x /\ r.x + r.width <= area.x + area.width
  /\ r.y >= area.y /\ r.y + r.height <= area.y + area.height

Overlap(a, b) ==
  /\ Upper(a.x, b.x) < Lower(a.x + a.width, b.x + b.width)
  /\ Upper(a.y, b.y) < Lower(a.y + a.height, b.y + b.height)

Intersect(a, b) ==
  LET x == Upper(a.x, b.x)
      y == Upper(a.y, b.y)
  IN  IF Overlap(a, b)
      THEN [x |-> x, y |-> y, width  |-> Lower(a.x + a.width, b.x + b.width) - x,
                              height |-> Lower(a.y + a.height, b.y + b.height) - y]
      ELSE [b EXCEPT !.width = 0, !.height = 0]

Clamp(v, least, most) == IF v > most THEN most ELSE IF v < least THEN least ELSE v

\* As large as it is, as near as possible to where it was to be.
MovedInto(r, area) ==
  [r EXCEPT !.x = Clamp(r.x, area.x, area.x + Upper(0, area.width - r.width)),
            !.y = Clamp(r.y, area.y, area.y + Upper(0, area.height - r.height))]

\* Mutated: a resize that is also a move counts as a move.
ConstrainToRectangleMoving(r, area, flags) ==
  IF Contains(area, r) THEN r
  ELSE IF "move" \in flags THEN MovedInto(r, area)
  ELSE Intersect(area, r)

ConstrainToRectangle(r, area, flags) ==
  LET moved == IF "move" \in flags THEN MovedInto(r, area) ELSE r
  IN  IF Contains(area, r) THEN r
      ELSE IF flags = {"move"} THEN moved
      ELSE Intersect(area, moved)

\* A monitor or an area that is not there constrains nothing.
MonitorConstraint(r, home, flags) ==
  IF home = Nowhere THEN r ELSE ConstrainToRectangle(r, home, flags)

\* get_constraint_area: an area of a monitor is relative to it, and clipped.
OnMonitor(area, home) ==
  IF area = Nowhere \/ home = Nowhere THEN Nowhere
  ELSE Intersect(home, [area EXCEPT !.x = @ + home.x, !.y = @ + home.y])

AreaConstraint(r, area, flags) ==
  IF area = Nowhere \/ IsEmpty(area) THEN r ELSE ConstrainToRectangle(r, area, flags)

\* A resize that moves an edge at the top or the left is taken back on that axis.
HeldBack(r, current) ==
  [x      |-> current.x,
   y      |-> current.y,
   width  |-> IF r.x # current.x THEN current.width ELSE r.width,
   height |-> IF r.y # current.y THEN current.height ELSE r.height]

LockMoveConstraint(r, current, flags) ==
  IF "resize" \in flags THEN HeldBack(r, current)
  ELSE IF "move" \in flags THEN [r EXCEPT !.x = current.x, !.y = current.y]
  ELSE r

\* Only the size: the edge that was dragged stays where it was dragged to.
LockResizeConstraint(r, current, flags) ==
  IF "resize" \in flags
  THEN [r EXCEPT !.width = current.width, !.height = current.height]
  ELSE r

\* The constraints of a window, in the order in which they are given to it.
Locks == [monitor  : BOOLEAN,
          relative : Rect \cup {Nowhere},
          absolute : Rect \cup {Nowhere},
          move     : BOOLEAN,
          resize   : BOOLEAN]

Constrained(r, locks, current, home, flags) ==
  LET r1 == IF locks.monitor THEN MonitorConstraint(r, home, flags) ELSE r
      r2 == AreaConstraint(r1, OnMonitor(locks.relative, home), flags)
      r3 == AreaConstraint(r2, locks.absolute, flags)
      r4 == IF locks.move THEN LockMoveConstraint(r3, current, flags) ELSE r3
  IN  IF locks.resize THEN LockResizeConstraint(r4, current, flags) ELSE r4
=============================================================================
