--------------------------- MODULE WindowConfigProofs ---------------------------
(***************************************************************************)
(* What holds of the configuration of windows for any windows, layouts of  *)
(* the monitors, configurations and drags, and however much happens. The   *)
(* tables, the struts and the windows hidden each need the others: a strut *)
(* stays right when a window is created only because the tables do not     *)
(* know the window, and a monitor that changes hides the right windows     *)
(* only because the tables name the constraints. That locks hold is, with  *)
(* the types, a matter of the constraints alone.                           *)
(***************************************************************************)
EXTENDS WindowConfig, WellFoundedInduction, TLAPS

-----------------------------------------------------------------------------
(* Rectangles.                                                             *)

LEMMA Intersections ==
  ASSUME NEW a \in Rect, NEW b \in Rect
  PROVE  /\ Intersect(a, b) \in Rect
         /\ Overlap(a, b) => /\ ~IsEmpty(Intersect(a, b))
                             /\ Contains(a, Intersect(a, b)) /\ Contains(b, Intersect(a, b))
<1>1. /\ a.x \in Int /\ a.y \in Int /\ a.width \in Nat /\ a.height \in Nat
      /\ b.x \in Int /\ b.y \in Int /\ b.width \in Nat /\ b.height \in Nat
  BY DEF Rect
<1>2. CASE ~Overlap(a, b)
  BY <1>2 DEF Intersect, Rect
<1>3. CASE Overlap(a, b)
  <2> DEFINE x == Upper(a.x, b.x)
             y == Upper(a.y, b.y)
             w == Lower(a.x + a.width, b.x + b.width) - x
             h == Lower(a.y + a.height, b.y + b.height) - y
  <2>1. Intersect(a, b) = [x |-> x, y |-> y, width |-> w, height |-> h]
    BY <1>3 DEF Intersect
  <2>2. /\ x \in Int /\ w \in Nat /\ w > 0
        /\ x >= a.x /\ x + w <= a.x + a.width /\ x >= b.x /\ x + w <= b.x + b.width
    BY <1>1, <1>3 DEF Overlap, Upper, Lower
  <2>3. /\ y \in Int /\ h \in Nat /\ h > 0
        /\ y >= a.y /\ y + h <= a.y + a.height /\ y >= b.y /\ y + h <= b.y + b.height
    BY <1>1, <1>3 DEF Overlap, Upper, Lower
  <2> HIDE DEF x, y, w, h
  <2> QED BY <2>1, <2>2, <2>3 DEF Rect, Contains, IsEmpty
<1> QED BY <1>2, <1>3

\* Something of c that b has too is in any area around c.
LEMMA IntersectionsMeet ==
  ASSUME NEW a \in Rect, NEW b \in Rect, NEW c \in Rect, Contains(a, c), Overlap(c, b)
  PROVE  Overlap(a, b) /\ Overlap(c, Intersect(a, b))
<1>1. /\ a.x \in Int /\ a.y \in Int /\ a.width \in Nat /\ a.height \in Nat
      /\ b.x \in Int /\ b.y \in Int /\ b.width \in Nat /\ b.height \in Nat
      /\ c.x \in Int /\ c.y \in Int /\ c.width \in Nat /\ c.height \in Nat
  BY DEF Rect
<1>2. Overlap(a, b)
  BY <1>1 DEF Overlap, Contains, Upper, Lower
<1>3. /\ Intersect(a, b).x = Upper(a.x, b.x) /\ Intersect(a, b).y = Upper(a.y, b.y)
      /\ Intersect(a, b).x + Intersect(a, b).width = Lower(a.x + a.width, b.x + b.width)
      /\ Intersect(a, b).y + Intersect(a, b).height = Lower(a.y + a.height, b.y + b.height)
  BY <1>1, <1>2 DEF Intersect, Upper, Lower
<1> DEFINE i == Intersect(a, b)
<1>4. i.x = Upper(a.x, b.x) /\ i.x + i.width = Lower(a.x + a.width, b.x + b.width)
      /\ i.y = Upper(a.y, b.y) /\ i.y + i.height = Lower(a.y + a.height, b.y + b.height)
  BY <1>3
<1>5. i \in Rect
  BY Intersections
<1> HIDE DEF i
<1>6. i.x \in Int /\ i.y \in Int /\ i.width \in Nat /\ i.height \in Nat
  BY <1>5 DEF Rect
<1>7. Upper(c.x, i.x) < Lower(c.x + c.width, i.x + i.width)
  BY <1>1, <1>4, <1>6 DEF Overlap, Contains, Upper, Lower
<1>8. Upper(c.y, i.y) < Lower(c.y + c.height, i.y + i.height)
  BY <1>1, <1>4, <1>6 DEF Overlap, Contains, Upper, Lower
<1>9. Overlap(c, i)
  BY <1>7, <1>8 DEF Overlap
<1> QED BY <1>2, <1>9 DEF i

LEMMA Clamps ==
  ASSUME NEW v \in Int, NEW a \in Int, NEW w \in Nat, NEW s \in Nat
  PROVE  LET most == a + Upper(0, w - s)
         IN  /\ Clamp(v, a, most) \in Int
             /\ Clamp(v, a, most) >= a /\ Clamp(v, a, most) <= most
             /\ s <= w => Clamp(v, a, most) + s <= a + w
             /\ s > 0 /\ w > 0 => Clamp(v, a, most) < a + w
  BY DEF Clamp, Upper

LEMMA MovedRectangles ==
  ASSUME NEW r \in Rect, NEW area \in Rect
  PROVE  LET m == MovedInto(r, area)
         IN  /\ m \in Rect /\ m.width = r.width /\ m.height = r.height
             /\ r.width <= area.width /\ r.height <= area.height => Contains(area, m)
             /\ ~IsEmpty(r) /\ ~IsEmpty(area) => Overlap(area, m)
<1> DEFINE x == Clamp(r.x, area.x, area.x + Upper(0, area.width - r.width))
           y == Clamp(r.y, area.y, area.y + Upper(0, area.height - r.height))
           m == MovedInto(r, area)
<1>1. /\ r.x \in Int /\ r.y \in Int /\ r.width \in Nat /\ r.height \in Nat
      /\ area.x \in Int /\ area.y \in Int /\ area.width \in Nat /\ area.height \in Nat
  BY DEF Rect
<1>2. /\ x \in Int /\ x >= area.x
      /\ r.width <= area.width => x + r.width <= area.x + area.width
      /\ r.width > 0 /\ area.width > 0 => x < area.x + area.width
  BY <1>1, Clamps
<1>3. /\ y \in Int /\ y >= area.y
      /\ r.height <= area.height => y + r.height <= area.y + area.height
      /\ r.height > 0 /\ area.height > 0 => y < area.y + area.height
  BY <1>1, Clamps
<1>4. m = [r EXCEPT !.x = x, !.y = y]
  BY DEF MovedInto
<1> HIDE DEF x, y, m
<1>5. m = [x |-> x, y |-> y, width |-> r.width, height |-> r.height]
  BY <1>4 DEF Rect
<1>6. m \in Rect /\ m.x = x /\ m.y = y /\ m.width = r.width /\ m.height = r.height
  BY <1>1, <1>2, <1>3, <1>5 DEF Rect
<1>7. r.width <= area.width /\ r.height <= area.height => Contains(area, m)
  BY <1>1, <1>2, <1>3, <1>6 DEF Contains
<1>8. ~IsEmpty(r) /\ ~IsEmpty(area) => Overlap(area, m)
  BY <1>1, <1>2, <1>3, <1>6 DEF Overlap, IsEmpty, Upper, Lower
<1> QED BY <1>6, <1>7, <1>8 DEF m

-----------------------------------------------------------------------------
(* Constraints.                                                            *)

Flags == {{"move"}, {"resize"}, {"move", "resize"}}

\* When a window is only moved, the constraints keep its size.
SameSize(flags, r, c) == flags = {"move"} => r.width = c.width /\ r.height = c.height

\* What a person asks for, and what is left of it after any of the constraints, of a
\* window at c.
Asks(r, flags, c) ==
  /\ ~IsEmpty(r)
  /\ flags = {"move"} => r.width = c.width /\ r.height = c.height
  /\ flags = {"resize"} => Overlap(c, r)

LEMMA ConstrainedTypes ==
  ASSUME NEW r \in Rect, NEW area \in Rect, NEW flags \in Flags,
         NEW u, u = ConstrainToRectangle(r, area, flags)
  PROVE  u \in Rect /\ SameSize(flags, u, r)
<1> DEFINE moved == IF "move" \in flags THEN MovedInto(r, area) ELSE r
<1>1. u = IF Contains(area, r) THEN r
          ELSE IF flags = {"move"} THEN moved ELSE Intersect(area, moved)
  BY DEF ConstrainToRectangle
<1>2. moved \in Rect /\ moved.width = r.width /\ moved.height = r.height
  BY MovedRectangles
<1> HIDE DEF moved
<1>3. Intersect(area, moved) \in Rect
  BY <1>2, Intersections
<1>4. u \in Rect
  BY <1>1, <1>2, <1>3
<1>5. ASSUME flags = {"move"} PROVE u.width = r.width /\ u.height = r.height
  BY <1>1, <1>2, <1>5
<1> QED BY <1>4, <1>5 DEF SameSize

LEMMA ConstrainedInto ==
  ASSUME NEW r \in Rect, NEW area \in Rect, NEW c \in Rect, NEW flags \in Flags,
         ~IsEmpty(area), ~IsEmpty(c), Contains(area, c), Asks(r, flags, c)
  PROVE  LET u == ConstrainToRectangle(r, area, flags)
         IN  Asks(u, flags, c) /\ Contains(area, u)
<1> DEFINE u == ConstrainToRectangle(r, area, flags)
<1>1. CASE Contains(area, r)
  <2>1. u = r
    BY <1>1 DEF ConstrainToRectangle
  <2> HIDE DEF u
  <2>2. Asks(u, flags, c) /\ Contains(area, u)
    BY <1>1, <2>1
  <2> QED BY <2>2 DEF u
<1>2. CASE ~Contains(area, r) /\ flags = {"move"}
  <2> DEFINE m == MovedInto(r, area)
  <2>1. u = m
    BY <1>2 DEF ConstrainToRectangle
  <2>2. r.width = c.width /\ r.height = c.height /\ ~IsEmpty(r)
    BY <1>2 DEF Asks
  <2>3. c.width <= area.width /\ c.height <= area.height
    BY DEF Contains, Rect
  <2>4. m.width = r.width /\ m.height = r.height /\ Contains(area, m)
    BY <2>2, <2>3, MovedRectangles
  <2> HIDE DEF m, u
  <2>5. Asks(u, flags, c) /\ Contains(area, u)
    BY <1>2, <2>1, <2>2, <2>4 DEF Asks, IsEmpty
  <2> QED BY <2>5 DEF u
<1>3. CASE ~Contains(area, r) /\ flags = {"resize"}
  <2> DEFINE i == Intersect(area, r)
  <2>1. u = i
    BY <1>3 DEF ConstrainToRectangle
  <2>2. Overlap(c, r)
    BY <1>3 DEF Asks
  <2>3. Overlap(area, r) /\ Overlap(c, i)
    BY <2>2, IntersectionsMeet
  <2>4. ~IsEmpty(i) /\ Contains(area, i)
    BY <2>3, Intersections
  <2> HIDE DEF i, u
  <2>5. Asks(u, flags, c) /\ Contains(area, u)
    BY <1>3, <2>1, <2>3, <2>4 DEF Asks
  <2> QED BY <2>5 DEF u
<1>4. CASE ~Contains(area, r) /\ flags = {"move", "resize"}
  <2> DEFINE m == MovedInto(r, area)
             i == Intersect(area, m)
  <2>1. u = i
    BY <1>4 DEF ConstrainToRectangle
  <2>2. ~IsEmpty(r)
    BY DEF Asks
  <2>3. m \in Rect /\ Overlap(area, m)
    BY <2>2, MovedRectangles
  <2> HIDE DEF m
  <2>4. ~IsEmpty(i) /\ Contains(area, i)
    BY <2>3, Intersections
  <2> HIDE DEF i, u
  <2>5. Asks(u, flags, c) /\ Contains(area, u)
    BY <1>4, <2>1, <2>4 DEF Asks
  <2> QED BY <2>5 DEF u
<1> QED BY <1>1, <1>2, <1>3, <1>4 DEF Flags

\* An area that may not be there, and that may not bind.
Around(area, c) == Binds(area) => Contains(area, c)

LEMMA AreaConstraintTypes ==
  ASSUME NEW r \in Rect, NEW area \in Rect \cup {Nowhere}, NEW flags \in Flags,
         NEW u, u = AreaConstraint(r, area, flags)
  PROVE  u \in Rect /\ SameSize(flags, u, r) /\ (~Binds(area) => u = r)
<1>1. CASE ~Binds(area)
  <2>1. u = r
    BY <1>1 DEF AreaConstraint, Binds
  <2> QED BY <1>1, <2>1 DEF SameSize
<1>2. CASE Binds(area)
  <2>1. area \in Rect /\ ~IsEmpty(area) /\ u = ConstrainToRectangle(r, area, flags)
    BY <1>2 DEF AreaConstraint, Binds
  <2>2. u \in Rect /\ SameSize(flags, u, r)
    BY <2>1, ConstrainedTypes
  <2> QED BY <1>2, <2>2
<1> QED BY <1>1, <1>2

LEMMA AreaConstraintInto ==
  ASSUME NEW r \in Rect, NEW area \in Rect \cup {Nowhere}, NEW flags \in Flags,
         NEW u, u = AreaConstraint(r, area, flags),
         NEW c \in Rect, ~IsEmpty(c), Around(area, c), Asks(r, flags, c)
  PROVE  Asks(u, flags, c) /\ Around(area, u)
<1>1. CASE ~Binds(area)
  <2>1. u = r
    BY <1>1 DEF AreaConstraint, Binds
  <2> QED BY <1>1, <2>1 DEF Around
<1>2. CASE Binds(area)
  <2>1. area \in Rect /\ ~IsEmpty(area) /\ u = ConstrainToRectangle(r, area, flags)
    BY <1>2 DEF AreaConstraint, Binds
  <2>2. Contains(area, c)
    BY <1>2 DEF Around
  <2> QED BY <2>1, <2>2, ConstrainedInto DEF Around
<1> QED BY <1>1, <1>2

\* A monitor is never empty, so that the constraint to it is that to an area.
LEMMA MonitorConstraintIsArea ==
  ASSUME NEW r \in Rect, NEW home \in Rect \cup {Nowhere}, NEW flags \in Flags,
         home # Nowhere => ~IsEmpty(home)
  PROVE  MonitorConstraint(r, home, flags) = AreaConstraint(r, home, flags)
  BY DEF MonitorConstraint, AreaConstraint

LEMMA OwnAreas ==
  ASSUME NEW area \in Rect \cup {Nowhere}, NEW home \in Rect \cup {Nowhere}
  PROVE  OnMonitor(area, home) \in Rect \cup {Nowhere}
<1>1. CASE area = Nowhere \/ home = Nowhere
  BY <1>1 DEF OnMonitor
<1>2. CASE ~(area = Nowhere \/ home = Nowhere)
  <2> DEFINE placed == [area EXCEPT !.x = @ + home.x, !.y = @ + home.y]
  <2>1. placed \in Rect
    <3> DEFINE x == area.x + home.x
               y == area.y + home.y
    <3>1. area \in Rect /\ x \in Int /\ y \in Int
      BY <1>2 DEF Rect
    <3>2. placed = [area EXCEPT !.x = x, !.y = y]
      OBVIOUS
    <3> HIDE DEF placed, x, y
    <3>3. placed = [x |-> x, y |-> y, width |-> area.width, height |-> area.height]
      BY <3>1, <3>2 DEF Rect
    <3> QED BY <3>1, <3>3 DEF Rect
  <2>2. OnMonitor(area, home) = Intersect(home, placed)
    BY <1>2 DEF OnMonitor
  <2> HIDE DEF placed
  <2> QED BY <1>2, <2>1, <2>2, Intersections
<1> QED BY <1>1, <1>2

\* The two locks, of a window at c, when r is what the areas leave.
LEMMA LocksKeep ==
  ASSUME NEW r \in Rect, NEW c \in Rect, NEW flags \in Flags,
         NEW move \in BOOLEAN, NEW resize \in BOOLEAN,
         SameSize(flags, r, c),
         NEW held, held = IF move THEN LockMoveConstraint(r, c, flags) ELSE r,
         NEW u, u = IF resize THEN LockResizeConstraint(held, c, flags) ELSE held
  PROVE  /\ u \in Rect
         /\ move => u.x = c.x /\ u.y = c.y
         /\ resize => u.width = c.width /\ u.height = c.height
         /\ (resize => move)
            => \A area \in Rect : Contains(area, r) /\ Contains(area, c) => Contains(area, u)
<1> USE DEF SameSize
<1>1. /\ held \in Rect
      /\ move => held.x = c.x /\ held.y = c.y
      /\ ~move => held = r
      /\ flags = {"move"} => held.width = c.width /\ held.height = c.height
      /\ held.width = r.width \/ held.width = c.width
      /\ held.height = r.height \/ held.height = c.height
      /\ move /\ held.width # c.width => r.x = c.x
      /\ move /\ held.height # c.height => r.y = c.y
  <2>1. CASE ~move
    BY <2>1
  <2>2. CASE move /\ "resize" \in flags
    <3>1. held = HeldBack(r, c)
      BY <2>2 DEF LockMoveConstraint
    <3> QED BY <2>2, <3>1 DEF HeldBack, Rect
  <2>3. CASE move /\ "resize" \notin flags
    <3>1. flags = {"move"}
      BY <2>3 DEF Flags
    <3>2. held = [r EXCEPT !.x = c.x, !.y = c.y]
      BY <2>3, <3>1 DEF LockMoveConstraint
    <3>3. held = [x |-> c.x, y |-> c.y, width |-> r.width, height |-> r.height]
      BY <3>2 DEF Rect
    <3> QED BY <2>3, <3>1, <3>3 DEF Rect
  <2> QED BY <2>1, <2>2, <2>3
<1>2. /\ u \in Rect /\ u.x = held.x /\ u.y = held.y
      /\ resize => u.width = c.width /\ u.height = c.height
      /\ ~resize => u = held
  <2>1. CASE ~resize
    BY <1>1, <2>1
  <2>2. CASE resize /\ "resize" \in flags
    <3>1. u = [held EXCEPT !.width = c.width, !.height = c.height]
      BY <2>2 DEF LockResizeConstraint
    <3>2. u = [x |-> held.x, y |-> held.y, width |-> c.width, height |-> c.height]
      BY <1>1, <3>1 DEF Rect
    <3> QED BY <1>1, <2>2, <3>2 DEF Rect
  <2>3. CASE resize /\ "resize" \notin flags
    <3>1. flags = {"move"} /\ u = held
      BY <2>3 DEF Flags, LockResizeConstraint
    <3> QED BY <1>1, <2>3, <3>1
  <2> QED BY <2>1, <2>2, <2>3
<1>3. ASSUME NEW area \in Rect, Contains(area, r), Contains(area, c), resize => move
      PROVE  Contains(area, u)
  <2>1. CASE ~move
    BY <1>1, <1>2, <1>3, <2>1
  <2>2. CASE move
    <3>1. u.x = c.x /\ u.y = c.y
      BY <1>1, <1>2, <2>2
    <3>2. u.width = c.width \/ (u.width = r.width /\ r.x = c.x)
      BY <1>1, <1>2, <2>2
    <3>3. u.height = c.height \/ (u.height = r.height /\ r.y = c.y)
      BY <1>1, <1>2, <2>2
    <3> QED BY <1>3, <3>1, <3>2, <3>3 DEF Contains
  <2> QED BY <2>1, <2>2
<1> QED BY <1>1, <1>2, <1>3

\* All of them, of a window at c.
LEMMA ConstrainedKeeps ==
  ASSUME NEW r \in Rect, NEW c \in Rect, NEW flags \in Flags, NEW set \in Locks,
         NEW home \in Rect \cup {Nowhere}, home # Nowhere => ~IsEmpty(home),
         SameSize(flags, r, c)
  PROVE  LET u     == Constrained(r, set, c, home, flags)
             own   == IF set.monitor THEN home ELSE Nowhere
             local == OnMonitor(set.relative, home)
             last  == IF Binds(set.absolute) THEN set.absolute
                      ELSE IF Binds(local) THEN local ELSE own
         IN  /\ u \in Rect
             /\ set.move => u.x = c.x /\ u.y = c.y
             /\ set.resize => u.width = c.width /\ u.height = c.height
             /\ /\ Asks(r, flags, c) /\ ~IsEmpty(c) /\ (set.resize => set.move)
                /\ Around(own, c) /\ Around(local, c) /\ Around(set.absolute, c)
                /\ Binds(last)
                => Contains(last, u)
<1> DEFINE own   == IF set.monitor THEN home ELSE Nowhere
           local == OnMonitor(set.relative, home)
           last  == IF Binds(set.absolute) THEN set.absolute
                    ELSE IF Binds(local) THEN local ELSE own
           r1 == IF set.monitor THEN MonitorConstraint(r, home, flags) ELSE r
           r2 == AreaConstraint(r1, local, flags)
           r3 == AreaConstraint(r2, set.absolute, flags)
           u  == Constrained(r, set, c, home, flags)
<1>1. /\ set.monitor \in BOOLEAN /\ set.move \in BOOLEAN /\ set.resize \in BOOLEAN
      /\ set.relative \in Rect \cup {Nowhere} /\ set.absolute \in Rect \cup {Nowhere}
  BY DEF Locks
<1>2. own \in Rect \cup {Nowhere} /\ local \in Rect \cup {Nowhere}
  BY <1>1, OwnAreas
<1> DEFINE Premises == /\ Asks(r, flags, c) /\ ~IsEmpty(c) /\ (set.resize => set.move)
                       /\ Around(own, c) /\ Around(local, c) /\ Around(set.absolute, c)
<1> HIDE DEF last
<1>3. r1 = AreaConstraint(r, own, flags)
  <2>1. CASE set.monitor
    BY <2>1, MonitorConstraintIsArea
  <2>2. CASE ~set.monitor
    BY <2>2 DEF AreaConstraint
  <2> QED BY <2>1, <2>2
<1> DEFINE held == IF set.move THEN LockMoveConstraint(r3, c, flags) ELSE r3
           v    == IF set.resize THEN LockResizeConstraint(held, c, flags) ELSE held
<1>4. u = v
  BY DEF Constrained
<1> HIDE DEF u
<1>13. r2 = AreaConstraint(r1, local, flags) /\ r3 = AreaConstraint(r2, set.absolute, flags)
  OBVIOUS
<1> HIDE DEF r1, r2, r3, own, local
<1>5. r1 \in Rect /\ SameSize(flags, r1, r)
  BY <1>2, <1>3, AreaConstraintTypes
<1>6. r2 \in Rect /\ SameSize(flags, r2, r1) /\ (~Binds(local) => r2 = r1)
  BY <1>2, <1>5, <1>13, AreaConstraintTypes
<1>7. r3 \in Rect /\ SameSize(flags, r3, r2) /\ (~Binds(set.absolute) => r3 = r2)
  <2> DEFINE absolute == set.absolute
  <2>1. absolute \in Rect \cup {Nowhere} /\ r3 = AreaConstraint(r2, absolute, flags)
    BY <1>1, <1>13
  <2> HIDE DEF absolute
  <2>2. r3 \in Rect /\ SameSize(flags, r3, r2) /\ (~Binds(absolute) => r3 = r2)
    BY <1>6, <2>1, AreaConstraintTypes
  <2> QED BY <2>2 DEF absolute
<1>8. ASSUME Premises, Binds(last)
      PROVE  last \in Rect /\ Contains(last, r3) /\ Contains(last, c)
  <2>1. Asks(r1, flags, c) /\ Around(own, r1)
    BY <1>2, <1>3, <1>8, AreaConstraintInto
  <2>2. Asks(r2, flags, c) /\ Around(local, r2)
    BY <1>2, <1>5, <1>8, <1>13, <2>1, AreaConstraintInto
  <2>3. Around(set.absolute, r3)
    BY <1>1, <1>6, <1>8, <1>13, <2>2, AreaConstraintInto
  <2> QED BY <1>1, <1>2, <1>6, <1>7, <1>8, <2>1, <2>2, <2>3 DEF Around, Binds, last
<1>9. SameSize(flags, r3, c)
  BY <1>5, <1>6, <1>7 DEF SameSize
<1>14. u = IF set.resize THEN LockResizeConstraint(held, c, flags) ELSE held
  BY <1>4
<1>15. held = IF set.move THEN LockMoveConstraint(r3, c, flags) ELSE r3
  OBVIOUS
<1> HIDE DEF v, held
<1>10. /\ u \in Rect
       /\ set.move => u.x = c.x /\ u.y = c.y
       /\ set.resize => u.width = c.width /\ u.height = c.height
       /\ (set.resize => set.move)
          => \A area \in Rect : Contains(area, r3) /\ Contains(area, c) => Contains(area, u)
  <2> DEFINE move   == set.move
             resize == set.resize
  <2>1. /\ move \in BOOLEAN /\ resize \in BOOLEAN
        /\ held = IF move THEN LockMoveConstraint(r3, c, flags) ELSE r3
        /\ u = IF resize THEN LockResizeConstraint(held, c, flags) ELSE held
    BY <1>1, <1>14, <1>15
  <2> HIDE DEF move, resize
  <2>2. /\ u \in Rect
        /\ move => u.x = c.x /\ u.y = c.y
        /\ resize => u.width = c.width /\ u.height = c.height
        /\ (resize => move)
           => \A area \in Rect : Contains(area, r3) /\ Contains(area, c) => Contains(area, u)
    BY <1>7, <1>9, <2>1, LocksKeep
  <2> QED BY <2>2 DEF move, resize
<1>11. ASSUME Premises, Binds(last) PROVE Contains(last, u)
  BY <1>8, <1>10, <1>11
<1> QED BY <1>10, <1>11 DEF u, last, local, own

\* What a person asks for has to do with where the window is.
LEMMA DragsAsk ==
  ASSUME NEW c \in Rect, NEW r \in Dragged(c)
  PROVE  /\ r \in Rect /\ r.width = c.width /\ r.height = c.height
         /\ ~IsEmpty(c) => Asks(r, {"move"}, c)
<1>1. PICK dx \in Drags, dy \in Drags :
        r = [x |-> c.x + dx, y |-> c.y + dy, width |-> c.width, height |-> c.height]
  BY DEF Dragged
<1>2. Reach \in Int
  BY ConfigurationOfWindows
<1>3. c.x + dx \in Int /\ c.y + dy \in Int
  BY <1>2 DEF Rect, Drags
<1> QED BY <1>1, <1>3 DEF Rect, Asks, IsEmpty

LEMMA SpansMeet ==
  ASSUME NEW start \in Int, NEW length \in Nat, NEW span \in Spans(start, length)
  PROVE  /\ span[1] \in Int /\ span[2] \in Nat /\ span[2] > 0
         /\ length > 0 => Upper(start, span[1]) < Lower(start + length, span[1] + span[2])
<1>1. Reach \in Int
  BY ConfigurationOfWindows
<1>2. PICK d \in Drags : span = <<start, length + d>> \/ span = <<start + d, length - d>>
  BY DEF Spans
<1>3. d \in Int /\ span[2] > 0
  BY <1>1, <1>2 DEF Drags, Spans
<1> QED BY <1>2, <1>3 DEF Upper, Lower

LEMMA ResizesAsk ==
  ASSUME NEW c \in Rect, NEW r \in Resized(c), NEW flags \in {{"resize"}, {"move", "resize"}}
  PROVE  r \in Rect /\ (~IsEmpty(c) => Asks(r, flags, c))
<1>1. PICK h \in Spans(c.x, c.width), v \in Spans(c.y, c.height) :
        r = [x |-> h[1], y |-> v[1], width |-> h[2], height |-> v[2]]
  BY DEF Resized
<1>2. c.x \in Int /\ c.y \in Int /\ c.width \in Nat /\ c.height \in Nat
  BY DEF Rect
<1>3. /\ h[1] \in Int /\ h[2] \in Nat /\ h[2] > 0
      /\ c.width > 0 => Upper(c.x, h[1]) < Lower(c.x + c.width, h[1] + h[2])
  BY <1>2, SpansMeet
<1>4. /\ v[1] \in Int /\ v[2] \in Nat /\ v[2] > 0
      /\ c.height > 0 => Upper(c.y, v[1]) < Lower(c.y + c.height, v[1] + v[2])
  BY <1>2, SpansMeet
<1>5. r \in Rect /\ ~IsEmpty(r)
  BY <1>1, <1>3, <1>4 DEF Rect, IsEmpty
<1>6. ~IsEmpty(c) => Overlap(c, r)
  BY <1>1, <1>2, <1>3, <1>4 DEF Overlap, IsEmpty
<1> QED BY <1>5, <1>6 DEF Asks

-----------------------------------------------------------------------------
(* What is read from the file.                                             *)

Read == config \in Configs \cup {<<>>}

LEMMA LeastOnes == \A T \in SUBSET Nat : T # {} => \E x \in T : \A y \in T : x <= y
<1> DEFINE R == OpToRel(<, Nat)
<1>1. \A x, y \in Nat : y < x => <<y, x>> \in R
  BY DEF OpToRel
<1>2. IsWellFoundedOn(R, Nat)
  BY NatLessThanWellFounded
<1> HIDE DEF R
<1>3. ASSUME NEW T \in SUBSET Nat, T # {} PROVE \E x \in T : \A y \in T : x <= y
  <2>1. PICK x \in T : \A y \in T : ~ (<<y, x>> \in R)
    BY <1>2, <1>3, WFMin
  <2>2. ASSUME NEW y \in T PROVE x <= y
    <3>1. x \in Nat /\ y \in Nat /\ ~(y < x)
      BY <1>1, <2>1
    <3> QED BY <3>1
  <2> QED BY <2>2
<1> QED BY <1>3

LEMMA FinalOnes ==
  ASSUME NEW n \in Nat, NEW S \in SUBSET (1..n), S # {}
  PROVE  Final(S) \in S
<1> DEFINE T == {n - i : i \in S}
<1>1. ASSUME NEW i \in S PROVE n - i \in Nat
  OBVIOUS
<1>2. T \in SUBSET Nat /\ T # {}
  BY <1>1
<1>3. PICK x \in T : \A y \in T : x <= y
  <2> HIDE DEF T
  <2> QED BY <1>2, LeastOnes
<1>4. PICK i \in S : x = n - i
  OBVIOUS
<1>5. \A j \in S : n - i <= n - j
  BY <1>3, <1>4
<1>6. ASSUME NEW j \in S PROVE j <= i
  <2>1. n - i <= n - j /\ i \in Int /\ j \in Int
    BY <1>5
  <2> QED BY <2>1
<1> QED BY <1>6 DEF Final

\* What is taken from the file stands there, and is of the type of the key.
Typed(key, value) ==
  /\ key \in {"set-x", "set-y"} => value \in Int
  /\ key \in {"set-width", "set-height"} => value \in Nat
  /\ key \in {"lock-on-area", "lock-on-monitor-area"} => value \in Rect
  /\ key = "set-fullscreen" => value \in BOOLEAN
  /\ key = "set-window-type" => value \in Types

LEMMA Sections ==
  ASSUME Read, NEW w, NEW t, NEW key,
         NEW S \in SUBSET Asked(w, t, key), S # {},
         config[Final(S)].set[key] # Invalid
  PROVE  Typed(key, config[Final(S)].set[key])
<1>1. config \in Configs
  <2>1. S \subseteq DOMAIN config
    BY DEF Asked
  <2> QED BY <2>1 DEF Read
<1>2. Len(config) \in Nat /\ DOMAIN config = 1..Len(config)
  BY <1>1, ConfigsAreTyped
<1>3. Final(S) \in S
  BY <1>2, FinalOnes DEF Asked
<1>4. Final(S) \in DOMAIN config /\ key \in DOMAIN config[Final(S)].set
  BY <1>3 DEF Asked
<1> QED BY <1>1, <1>4, ConfigsAreTyped DEF Typed

LEMMA AppliedTyped ==
  ASSUME Read, NEW w, NEW t, NEW key, NEW default
  PROVE  Applied(w, t, key, default) = default \/ Typed(key, Applied(w, t, key, default))
<1> DEFINE valid == {i \in Asked(w, t, key) : config[i].set[key] # Invalid}
<1>1. CASE valid = {}
  BY <1>1 DEF Applied
<1>2. CASE valid # {}
  <2>1. Applied(w, t, key, default) = config[Final(valid)].set[key]
    BY <1>2 DEF Applied
  <2>2. valid \subseteq DOMAIN config
    BY DEF Asked
  <2>3. config \in Configs
    BY <1>2, <2>2 DEF Read
  <2>4. Len(config) \in Nat /\ DOMAIN config = 1..Len(config)
    BY <2>3, ConfigsAreTyped
  <2>5. Final(valid) \in valid
    <3> HIDE DEF valid
    <3> QED BY <1>2, <2>2, <2>4, FinalOnes
  <2>6. config[Final(valid)].set[key] # Invalid /\ valid \in SUBSET Asked(w, t, key)
    BY <2>5
  <2> HIDE DEF valid
  <2> QED BY <1>2, <2>1, <2>6, Sections
<1> QED BY <1>1, <1>2

LEMMA ValuesTyped ==
  ASSUME Read, NEW w, NEW t, NEW key, NEW default
  PROVE  ValueFor(w, t, key, default) = default \/ Typed(key, ValueFor(w, t, key, default))
<1>1. CASE Asked(w, t, key) = {} \/ Says(w, t, key) = Invalid
  BY <1>1 DEF ValueFor
<1>2. CASE ~(Asked(w, t, key) = {} \/ Says(w, t, key) = Invalid)
  <2>1. ValueFor(w, t, key, default) = config[Final(Asked(w, t, key))].set[key]
    BY <1>2 DEF ValueFor, Says
  <2>2. /\ Asked(w, t, key) # {} /\ Asked(w, t, key) \in SUBSET Asked(w, t, key)
        /\ config[Final(Asked(w, t, key))].set[key] # Invalid
    BY <1>2 DEF Says
  <2>3. Typed(key, config[Final(Asked(w, t, key))].set[key])
    BY <2>2, Sections
  <2> QED BY <2>1, <2>3
<1> QED BY <1>1, <1>2

LEMMA WantedLocksTyped ==
  ASSUME Read, NEW w, NEW t
  PROVE  WantedLocks(w, t) \in Locks
<1>1. /\ BooleanFor(w, t, "lock-on-monitor", FALSE) \in BOOLEAN
      /\ BooleanFor(w, t, "lock-move", FALSE) \in BOOLEAN
      /\ BooleanFor(w, t, "lock-resize", FALSE) \in BOOLEAN
  BY DEF BooleanFor
<1>2. /\ ValueFor(w, t, "lock-on-monitor-area", Nowhere) \in Rect \cup {Nowhere}
      /\ ValueFor(w, t, "lock-on-area", Nowhere) \in Rect \cup {Nowhere}
  BY ValuesTyped DEF Typed
<1> QED BY <1>1, <1>2 DEF WantedLocks, Locks

LEMMA InitialRectTyped ==
  ASSUME Read, NEW w, frame[w] \in Rect
  PROVE  InitialRect(w) \in Rect
<1>1. /\ frame[w].x \in Int /\ frame[w].y \in Int
      /\ frame[w].width \in Nat /\ frame[w].height \in Nat
  BY DEF Rect
<1>2. Applied(w, type[w], "set-x", frame[w].x) \in Int
  BY <1>1, AppliedTyped DEF Typed
<1>3. Applied(w, type[w], "set-y", frame[w].y) \in Int
  BY <1>1, AppliedTyped DEF Typed
<1>4. Applied(w, type[w], "set-width", frame[w].width) \in Nat
  BY <1>1, AppliedTyped DEF Typed
<1>5. Applied(w, type[w], "set-height", frame[w].height) \in Nat
  BY <1>1, AppliedTyped DEF Typed
<1> QED BY <1>2, <1>3, <1>4, <1>5 DEF InitialRect, Rect

LEMMA FullscreenTyped ==
  ASSUME Read, NEW w
  PROVE  InitialFullscreen(w) \in BOOLEAN
<1> DEFINE wants == WantsWindowFullscreen(w)
<1>1. wants \in BOOLEAN
  BY DEF WantsWindowFullscreen
<1>2. InitialFullscreen(w) = Applied(w, type[w], "set-fullscreen", wants)
  BY DEF InitialFullscreen
<1> HIDE DEF wants
<1> QED BY <1>1, <1>2, AppliedTyped DEF Typed

LEMMA WantedTypeTyped ==
  ASSUME Read, NEW w, type[w] \in Types
  PROVE  WantedType(w) \in Types
  BY ValuesTyped DEF WantedType, Typed

-----------------------------------------------------------------------------
(* Monitors and struts.                                                    *)

LEMMA HomesTyped ==
  ASSUME NEW monitors \in Layouts, NEW w
  PROVE  /\ HomeIn(w, monitors) \in Rect \cup {Nowhere}
         /\ HomeIn(w, monitors) # Nowhere => ~IsEmpty(HomeIn(w, monitors))
  BY ConfigurationOfWindows DEF HomeIn

LEMMA MovedToTyped ==
  ASSUME layout \in Layouts, NEW r \in Rect, NEW to \in Rect
  PROVE  MovedTo(r, to) \in Rect
<1> DEFINE from == {g \in {layout[c] : c \in DOMAIN layout} : Overlap(g, r)}
           old  == IF from = {} THEN to ELSE CHOOSE g \in from : TRUE
           x    == r.x + to.x - old.x
           y    == r.y + to.y - old.y
<1>1. from \subseteq Rect
  BY ConfigurationOfWindows
<1>2. old \in Rect
  <2> HIDE DEF from
  <2> QED BY <1>1
<1>3. MovedTo(r, to) = [r EXCEPT !.x = x, !.y = y]
  BY DEF MovedTo
<1> HIDE DEF from, old
<1>4. x \in Int /\ y \in Int
  BY <1>2 DEF Rect
<1> HIDE DEF x, y
<1>5. MovedTo(r, to) = [x |-> x, y |-> y, width |-> r.width, height |-> r.height]
  BY <1>3 DEF Rect
<1> QED BY <1>4, <1>5 DEF Rect

LEMMA FilledTyped ==
  ASSUME layout \in Layouts, NEW w
  PROVE  Filled(w) \subseteq Rect
<1>1. \A c \in DOMAIN layout : layout[c] \in Rect
  BY ConfigurationOfWindows
<1>2. Home(w) # Nowhere => Home(w) \in Rect
  BY HomesTyped DEF Home
<1> QED BY <1>1, <1>2 DEF Filled

\* Only the frames of windows with a strut matter.
LEMMA StrutsOfTheirOwn ==
  ASSUME NEW sides, NEW monitors, NEW f, NEW g, \A w \in DOMAIN sides : f[w] = g[w]
  PROVE  StrutsOf(sides, f, monitors) = StrutsOf(sides, g, monitors)
<1> DEFINE P(h) == {q \in (DOMAIN sides) \X (DOMAIN monitors) :
                      /\ Overlap(h[q[1]], monitors[q[2]])
                      /\ ~StrutIsTooLarge(sides[q[1]], Intersect(h[q[1]], monitors[q[2]]),
                                          monitors[q[2]])}
           S(h) == {[side |-> sides[p[1]], rect |-> Intersect(h[p[1]], monitors[p[2]])] : p \in P(h)}
<1>1. P(f) = P(g)
  OBVIOUS
<1>2. \A p \in P(f) : f[p[1]] = g[p[1]]
  OBVIOUS
<1> HIDE DEF P
<1>3. S(f) = S(g)
  BY <1>1, <1>2
<1> QED BY <1>3 DEF StrutsOf, P

-----------------------------------------------------------------------------
(* The invariant.                                                          *)

\* Of the windows there are the tables name the constraints. Of two areas they know the
\* second only.
TablesAgree ==
  /\ initial \cup DOMAIN output \cup lockedMonitors \cup DOMAIN lockedAreas
       \cup lockedMoves \cup lockedResizes \cup DOMAIN strutSides \subseteq Live
  /\ \A w \in Live :
       /\ w \in lockedMonitors <=> locks[w].monitor
       /\ w \in lockedMoves <=> locks[w].move
       /\ w \in lockedResizes <=> locks[w].resize
       /\ w \in DOMAIN lockedAreas <=> {locks[w].relative, locks[w].absolute} # {Nowhere}
       /\ w \in DOMAIN lockedAreas =>
            lockedAreas[w] = IF locks[w].absolute # Nowhere THEN "absolute" ELSE "relative"
       /\ w \in DOMAIN strutSides => phase[w] = "mapped"

\* What the code hides: the lock may be one to an area of the screen as well.
LockedAway(w) ==
  /\ locks[w].monitor \/ {locks[w].relative, locks[w].absolute} # {Nowhere}
  /\ w \in DOMAIN output /\ Home(w) = Nowhere

HiddenAreAway == \A w \in hidden : LockedAway(w)

Kept == TypeOK /\ TablesAgree /\ StrutsCurrent /\ HiddenAreAway

LEMMA LoadTyped ==
  ASSUME NEW before \in Configs \cup {<<>>}
  PROVE  Load(before) \in Configs \cup {<<>>}
  BY DEF Load

LEMMA InitKept == Init => Kept
<1> SUFFICES ASSUME Init PROVE Kept
  OBVIOUS
<1>1. Live = {}
  BY DEF Init, Live
<1>2. config \in Configs \cup {<<>>}
  BY LoadTyped DEF Init
<1>3. NoLocks \in Locks
  BY DEF NoLocks, Locks
<1>4. watched \in BOOLEAN /\ events \in 0..MaxEvents
  BY ConfigurationOfWindows DEF Init
<1>5. TypeOK
  BY <1>1, <1>2, <1>3, <1>4, ConfigurationOfWindows DEF Init, TypeOK
<1>6. DOMAIN strutSides = {} /\ DOMAIN output = {} /\ DOMAIN lockedAreas = {}
  BY DEF Init
<1>7. TablesAgree
  BY <1>1, <1>6 DEF Init, TablesAgree
<1>8. StrutsCurrent
  BY <1>6 DEF Init, StrutsCurrent, StrutsOf
<1> QED BY <1>5, <1>7, <1>8 DEF Kept, HiddenAreAway, Init

\* Nothing of the windows and monitors changes.
LEMMA FilesKept ==
  ASSUME Kept, UNCHANGED <<layout, mutterVars, tableVars, struts>>,
         disk' \in Configs \cup {Unreadable}, unread' \in BOOLEAN, watched' = watched,
         config' \in Configs \cup {<<>>}, events' \in 0..MaxEvents
  PROVE  Kept'
<1> USE DEF mutterVars, tableVars
<1>1. TypeOK'
  BY DEF Kept, TypeOK, Live
<1>2. TablesAgree'
  <2>1. Live' = Live
    BY DEF Live
  <2> QED BY <2>1 DEF Kept, TablesAgree
<1>3. StrutsCurrent'
  BY DEF Kept, StrutsCurrent
<1>4. HiddenAreAway'
  BY DEF Kept, HiddenAreAway, LockedAway, Home, HomeIn
<1> QED BY <1>1, <1>2, <1>3, <1>4 DEF Kept

\* The struts follow a window that changes its place.
LEMMA StrutsFollow ==
  ASSUME StrutsCurrent, NEW w \in Windows, frame \in [Windows -> Rect \cup {Nowhere}],
         DOMAIN strutSides \subseteq Windows,
         NEW r, frame' = [frame EXCEPT ![w] = r],
         OnWindowStrutsChanged(w, frame'), UNCHANGED <<strutSides, layout>>
  PROVE  StrutsCurrent'
<1>1. CASE w \in DOMAIN strutSides
  BY <1>1 DEF OnWindowStrutsChanged, StrutsCurrent
<1>2. CASE w \notin DOMAIN strutSides
  <2>1. struts' = StrutsOf(strutSides, frame, layout)
    BY <1>2 DEF OnWindowStrutsChanged, StrutsCurrent
  <2>2. \A v \in DOMAIN strutSides : frame[v] = frame'[v]
    BY <1>2
  <2>3. StrutsOf(strutSides, frame, layout) = StrutsOf(strutSides, frame', layout)
    BY <2>2, StrutsOfTheirOwn
  <2> QED BY <2>1, <2>3 DEF StrutsCurrent
<1> QED BY <1>1, <1>2

LEMMA LivesAreWindows ==
  ASSUME Kept
  PROVE  Live \subseteq Windows /\ DOMAIN strutSides \subseteq Live /\ Read
         /\ \A w \in Live : frame[w] \in Rect
  BY DEF Kept, TypeOK, TablesAgree, Live, Read

\* A window that only moves, or is only resized.
LEMMA PlacedKept ==
  ASSUME Kept, NEW w \in Live, NEW r \in Rect, frame' = [frame EXCEPT ![w] = r],
         OnWindowStrutsChanged(w, frame'), events' \in 0..MaxEvents,
         UNCHANGED <<fileVars, layout, phase, type, fullscreen, above, hidden, locks, tableVars>>
  PROVE  Kept'
<1> USE DEF fileVars, tableVars
<1>1. Live' = Live
  BY DEF Live
<1>2. TypeOK'
  <2>1. frame' \in [Windows -> Rect \cup {Nowhere}] /\ \A v \in Live' : frame'[v] # Nowhere
    <3>1. frame \in [Windows -> Rect \cup {Nowhere}] /\ \A v \in Live : frame[v] # Nowhere
      BY DEF Kept, TypeOK
    <3>2. w \in Windows /\ Live \subseteq Windows /\ r # Nowhere
      BY NowhereIsNoRect, LivesAreWindows
    <3> HIDE DEF Live
    <3>3. \A v \in Live : frame'[v] # Nowhere
      BY <3>1, <3>2
    <3> QED BY <1>1, <3>1, <3>2, <3>3
  <2> QED BY <1>1, <2>1 DEF Kept, TypeOK
<1>3. TablesAgree'
  BY <1>1 DEF Kept, TablesAgree
<1>4. StrutsCurrent'
  <2>1. DOMAIN strutSides \subseteq Windows /\ w \in Windows
    BY LivesAreWindows
  <2> QED BY <2>1, StrutsFollow DEF Kept, TypeOK
<1>5. HiddenAreAway'
  BY DEF Kept, HiddenAreAway, LockedAway, Home, HomeIn
<1> QED BY <1>2, <1>3, <1>4, <1>5 DEF Kept

LEMMA MovedKept ==
  ASSUME Kept, NEW w \in Windows, NEW r \in Places, Moved(w, r), events' \in 0..MaxEvents
  PROVE  Kept'
<1>1. r \in Rect /\ w \in Live
  BY ConfigurationOfWindows DEF Moved
<1> QED BY <1>1, PlacedKept DEF Moved

\* The constraints make a rectangle of what a person asks for.
LEMMA ChangesKept ==
  ASSUME Kept, NEW w \in Windows, NEW r \in Rect, NEW flags \in Flags,
         SameSize(flags, r, frame[w]), UserChanges(w, r, flags), events' \in 0..MaxEvents
  PROVE  Kept'
<1> DEFINE u == Constrained(r, locks[w], frame[w], Home(w), flags)
<1>1. w \in Live /\ frame[w] \in Rect
  BY LivesAreWindows DEF UserChanges, Live
<1>2. locks[w] \in Locks /\ layout \in Layouts
  BY DEF Kept, TypeOK
<1>3. Home(w) \in Rect \cup {Nowhere} /\ (Home(w) # Nowhere => ~IsEmpty(Home(w)))
  BY <1>2, HomesTyped DEF Home
<1>4. u \in Rect
  BY <1>1, <1>2, <1>3, ConstrainedKeeps
<1>5. frame' = [frame EXCEPT ![w] = u]
  BY DEF UserChanges
<1> HIDE DEF u
<1> QED BY <1>1, <1>4, <1>5, PlacedKept DEF UserChanges

LEMMA UserKept ==
  ASSUME Kept, NEW w \in Windows, UserMoves(w) \/ UserResizes(w), events' \in 0..MaxEvents
  PROVE  Kept'
<1>1. phase[w] = "mapped"
  BY DEF UserMoves, UserResizes
<1>2. frame[w] \in Rect
  BY <1>1, LivesAreWindows DEF Live
<1>3. CASE UserMoves(w)
  <2>1. PICK r \in Dragged(frame[w]) : UserChanges(w, r, {"move"})
    BY <1>3 DEF UserMoves
  <2>2. r \in Rect /\ SameSize({"move"}, r, frame[w]) /\ {"move"} \in Flags
    BY <1>2, DragsAsk DEF SameSize, Flags
  <2> QED BY <2>1, <2>2, ChangesKept
<1>4. CASE UserResizes(w)
  <2>1. PICK r \in Resized(frame[w]), flags \in {{"resize"}, {"move", "resize"}} :
          UserChanges(w, r, flags)
    BY <1>4 DEF UserResizes
  <2>2. r \in Rect /\ SameSize(flags, r, frame[w]) /\ flags \in Flags
    BY <1>2, ResizesAsk DEF SameSize, Flags
  <2> QED BY <2>1, <2>2, ChangesKept
<1> QED BY <1>3, <1>4

\* The files, as they are read.
LEMMA ReadingKept ==
  ASSUME Kept, events' \in 0..MaxEvents,
         \/ \E new \in Configs \cup {Unreadable} : FileChanges(new)
         \/ FileGoes
         \/ OnFileChanged
  PROVE  Kept'
<1>1. /\ config \in Configs \cup {<<>>} /\ disk \in Configs \cup {Unreadable}
      /\ unread \in BOOLEAN /\ watched \in BOOLEAN
  BY DEF Kept, TypeOK
<1>2. Load(config) \in Configs \cup {<<>>}
  BY <1>1, LoadTyped
<1>3. /\ UNCHANGED <<layout, mutterVars, tableVars, struts>>
      /\ disk' \in Configs \cup {Unreadable} /\ unread' \in BOOLEAN /\ watched' = watched
      /\ config' \in Configs \cup {<<>>}
  BY <1>1, <1>2 DEF FileChanges, FileGoes, OnFileChanged
<1> QED BY <1>3, FilesKept

LEMMA CreatedKept ==
  ASSUME Kept, NEW w \in Windows, NEW r \in Places, OnWindowCreated(w, r), UNCHANGED events
  PROVE  Kept'
<1> DEFINE wanted == WantedLocks(w, InitialType[w])
<1> USE DEF fileVars
<1>1. r \in Rect /\ r # Nowhere /\ wanted \in Locks
  BY ConfigurationOfWindows, NowhereIsNoRect, WantedLocksTyped, LivesAreWindows
<1>2. w \notin Live /\ Live' = Live \cup {w} /\ phase[w] = "new" /\ phase'[w] = "created"
      /\ \A v \in Windows \ {w} : phase'[v] = phase[v]
  BY DEF Kept, TypeOK, OnWindowCreated, Live
<1>3. locks' = [locks EXCEPT ![w] = wanted] /\ frame' = [frame EXCEPT ![w] = r]
  BY DEF OnWindowCreated
<1>4. /\ \A v \in Windows \ {w} : locks'[v] = locks[v] /\ frame'[v] = frame[v]
      /\ locks'[w] = wanted /\ frame'[w] = r
      /\ locks' \in [Windows -> Locks] /\ frame' \in [Windows -> Rect \cup {Nowhere}]
  BY <1>1, <1>3 DEF Kept, TypeOK
<1>5. w \notin initial \cup DOMAIN output \cup lockedMonitors \cup DOMAIN lockedAreas
        \cup lockedMoves \cup lockedResizes \cup DOMAIN strutSides \cup hidden
  BY <1>2 DEF Kept, TypeOK, TablesAgree
<1>6. /\ lockedMonitors' = lockedMonitors \cup {v \in {w} : wanted.monitor}
      /\ lockedAreas' = IF wanted.absolute # Nowhere THEN With(lockedAreas, w, "absolute")
                        ELSE IF wanted.relative # Nowhere THEN With(lockedAreas, w, "relative")
                        ELSE lockedAreas
      /\ lockedMoves' = lockedMoves \cup {v \in {w} : wanted.move}
      /\ lockedResizes' = lockedResizes \cup {v \in {w} : wanted.resize}
      /\ initial' = initial \cup {w}
      /\ DOMAIN output' \subseteq DOMAIN output \cup {w}
      /\ \A v \in DOMAIN output \ {w} : v \in DOMAIN output' /\ output'[v] = output[v]
  BY DEF OnWindowCreated, With
<1>7. UNCHANGED <<fileVars, layout, type, fullscreen, above, hidden, strutSides, struts>>
  BY DEF OnWindowCreated
<1> HIDE DEF wanted
<1>8. TypeOK'
  <2>1. phase' \in [Windows -> {"new", "created", "mapped", "gone"}]
    BY DEF Kept, TypeOK, OnWindowCreated
  <2>2. \A v \in Live' : frame'[v] # Nowhere
    BY <1>1, <1>2, <1>4, LivesAreWindows DEF Kept, TypeOK
  <2>3. hidden' \subseteq Live'
    BY <1>2, <1>7 DEF Kept, TypeOK
  <2> HIDE DEF Live
  <2> QED BY <1>4, <1>7, <2>1, <2>2, <2>3 DEF Kept, TypeOK
<1>9. TablesAgree'
  <2>1. DOMAIN lockedAreas' = DOMAIN lockedAreas
          \cup {v \in {w} : {wanted.relative, wanted.absolute} # {Nowhere}}
    BY <1>6 DEF With
  <2>2. Live \subseteq Windows
    BY LivesAreWindows
  <2>3. (initial \cup DOMAIN output \cup lockedMonitors \cup DOMAIN lockedAreas
          \cup lockedMoves \cup lockedResizes \cup DOMAIN strutSides)' \subseteq Live'
    BY <1>2, <1>6, <1>7, <2>1 DEF Kept, TablesAgree
  <2>4. ASSUME NEW v \in Live'
        PROVE  /\ v \in lockedMonitors' <=> locks'[v].monitor
               /\ v \in lockedMoves' <=> locks'[v].move
               /\ v \in lockedResizes' <=> locks'[v].resize
               /\ v \in DOMAIN lockedAreas' <=> {locks'[v].relative, locks'[v].absolute} # {Nowhere}
               /\ v \in DOMAIN lockedAreas' =>
                    lockedAreas'[v] = IF locks'[v].absolute # Nowhere THEN "absolute" ELSE "relative"
               /\ v \in DOMAIN strutSides' => phase'[v] = "mapped"
    <3>1. CASE v = w
      <4>1. v \notin DOMAIN strutSides'
        BY <1>5, <1>7, <3>1
      <4>2. w \in DOMAIN lockedAreas' =>
              lockedAreas'[w] = IF wanted.absolute # Nowhere THEN "absolute" ELSE "relative"
        BY <1>5, <1>6 DEF With
      <4> QED BY <1>4, <1>5, <1>6, <2>1, <3>1, <4>1, <4>2
    <3>2. CASE v # w
      <4>1. v \in Live /\ v \in Windows /\ locks'[v] = locks[v] /\ phase'[v] = phase[v]
        BY <1>2, <1>4, <2>2, <3>2
      <4> HIDE DEF Live
      <4>2. v \in DOMAIN lockedAreas' => v \in DOMAIN lockedAreas /\ lockedAreas'[v] = lockedAreas[v]
        BY <1>6, <3>2 DEF With
      <4>3. /\ v \in lockedMonitors' <=> v \in lockedMonitors
            /\ v \in lockedMoves' <=> v \in lockedMoves
            /\ v \in lockedResizes' <=> v \in lockedResizes
            /\ v \in DOMAIN lockedAreas' <=> v \in DOMAIN lockedAreas
            /\ strutSides' = strutSides
        BY <1>6, <1>7, <2>1, <3>2
      <4> QED BY <4>1, <4>2, <4>3 DEF Kept, TablesAgree
    <3> QED BY <3>1, <3>2
  <2> QED BY <2>3, <2>4 DEF TablesAgree
<1>10. StrutsCurrent'
  <2>1. \A v \in DOMAIN strutSides : frame[v] = frame'[v]
    BY <1>4, <1>5, LivesAreWindows
  <2>2. StrutsOf(strutSides, frame, layout) = StrutsOf(strutSides, frame', layout)
    BY <2>1, StrutsOfTheirOwn
  <2> QED BY <1>7, <2>2 DEF Kept, StrutsCurrent
<1>11. HiddenAreAway'
  <2> SUFFICES ASSUME NEW v \in hidden PROVE LockedAway(v)'
    BY <1>7 DEF HiddenAreAway
  <2>1. v # w /\ v \in Windows
    BY <1>5, LivesAreWindows DEF Kept, TypeOK
  <2>2. LockedAway(v)
    BY DEF Kept, HiddenAreAway
  <2> QED BY <1>4, <1>6, <1>7, <2>1, <2>2 DEF LockedAway, Home, HomeIn
<1> QED BY <1>8, <1>9, <1>10, <1>11 DEF Kept

\* Nothing of the tables but the struts and the windows that wait to be configured.
LEMMA LocksUnchanged ==
  ASSUME Kept, NEW w \in Live,
         initial' \subseteq initial,
         UNCHANGED <<locks, output, lockedMonitors, lockedAreas, lockedMoves, lockedResizes>>,
         Live' = Live, DOMAIN strutSides' \subseteq DOMAIN strutSides \cup {w},
         \A v \in DOMAIN strutSides' : phase'[v] = "mapped"
  PROVE  TablesAgree'
  BY DEF Kept, TablesAgree

LEMMA ConfiguredKept ==
  ASSUME Kept, NEW w \in Windows, OnWindowConfigure(w), UNCHANGED events
  PROVE  Kept'
<1> USE DEF fileVars
<1> DEFINE full == InitialFullscreen(w)
<1>1. w \in Live /\ Live \subseteq Windows /\ Live' = Live
  BY LivesAreWindows DEF OnWindowConfigure, Live
<1>2. PICK r \in IF full THEN Filled(w) ELSE {InitialRect(w)} :
        frame' = [frame EXCEPT ![w] = r]
  BY DEF OnWindowConfigure
<1>3. full \in BOOLEAN /\ layout \in Layouts
  BY FullscreenTyped, LivesAreWindows DEF Kept, TypeOK
<1>4. r \in Rect /\ r # Nowhere
  BY <1>1, <1>2, <1>3, FilledTyped, InitialRectTyped, LivesAreWindows, NowhereIsNoRect
<1>5. frame' \in [Windows -> Rect \cup {Nowhere}] /\ \A v \in Live' : frame'[v] # Nowhere
  BY <1>1, <1>2, <1>4 DEF Kept, TypeOK
<1>6. fullscreen' = [fullscreen EXCEPT ![w] = full]
  BY DEF OnWindowConfigure
<1> HIDE DEF full, Live
<1>7. fullscreen' \in [Windows -> BOOLEAN]
  BY <1>3, <1>6 DEF Kept, TypeOK
<1>8. /\ UNCHANGED <<fileVars, layout, phase, type, above, hidden, locks, output>>
      /\ UNCHANGED <<lockedMonitors, lockedAreas, lockedMoves, lockedResizes, strutSides>>
      /\ initial' \subseteq initial
      /\ OnWindowStrutsChanged(w, frame')
  BY DEF OnWindowConfigure
<1>9. TypeOK'
  BY <1>1, <1>5, <1>7, <1>8 DEF Kept, TypeOK
<1>10. TablesAgree'
  <2>1. DOMAIN strutSides' \subseteq DOMAIN strutSides \cup {w}
    BY <1>8
  <2>2. \A v \in DOMAIN strutSides' : phase'[v] = "mapped"
    BY <1>8 DEF Kept, TablesAgree
  <2> QED BY <1>1, <1>8, <2>1, <2>2, LocksUnchanged
<1>11. StrutsCurrent'
  <2>1. DOMAIN strutSides \subseteq Windows
    BY LivesAreWindows
  <2> QED BY <1>2, <1>8, <2>1, StrutsFollow DEF Kept, TypeOK
<1>12. HiddenAreAway'
  BY <1>8 DEF Kept, HiddenAreAway, LockedAway, Home, HomeIn
<1> QED BY <1>9, <1>10, <1>11, <1>12 DEF Kept

LEMMA MappedKept ==
  ASSUME Kept, NEW w \in Windows, MapWindow(w), UNCHANGED events
  PROVE  Kept'
<1> USE DEF fileVars
<1> DEFINE full == Ensured(w)
<1>1. phase[w] = "created" /\ phase' = [phase EXCEPT ![w] = "mapped"] /\ ApplyInitialConfig(w)
  BY DEF MapWindow
<1>2. w \in Live /\ Live \subseteq Windows /\ Live' = Live /\ phase'[w] = "mapped"
      /\ phase' \in [Windows -> {"new", "created", "mapped", "gone"}]
      /\ \A v \in Windows \ {w} : phase'[v] = phase[v]
  BY <1>1 DEF Kept, TypeOK, Live
<1>3. PICK r \in EnsuredPlaces(w) :
        /\ above' = [above EXCEPT ![w] = @ \/ (~full /\ WantsWindowAbove(w, r))]
        /\ frame' = [frame EXCEPT ![w] = IF Home(w) = Nowhere \/ full THEN r
                                         ELSE MovedTo(r, Home(w))]
  BY <1>1 DEF ApplyInitialConfig
<1>4. layout \in Layouts /\ Read /\ frame[w] \in Rect
  BY <1>2, LivesAreWindows DEF Kept, TypeOK
<1>5. full \in BOOLEAN
  <2>1. full = ((IF w \in initial THEN InitialFullscreen(w) ELSE fullscreen[w])
                /\ (fullscreen[w] \/ CanMakeFullscreen(w)))
    BY DEF Ensured
  <2> HIDE DEF full
  <2> QED BY <2>1
<1>6. r \in Rect
  BY <1>4, FilledTyped, InitialRectTyped DEF EnsuredPlaces
<1>7. Home(w) \in Rect \cup {Nowhere}
  BY <1>4, HomesTyped DEF Home
<1> DEFINE place == IF Home(w) = Nowhere \/ full THEN r ELSE MovedTo(r, Home(w))
<1>8. place \in Rect /\ place # Nowhere /\ frame' = [frame EXCEPT ![w] = place]
  BY <1>3, <1>4, <1>6, <1>7, MovedToTyped, NowhereIsNoRect
<1>9. fullscreen' = [fullscreen EXCEPT ![w] = full]
  BY <1>1 DEF ApplyInitialConfig
<1>10. type' = [type EXCEPT ![w] = WantedType(w)] /\ WantedType(w) \in Types
  BY <1>1, <1>4, WantedTypeTyped DEF ApplyInitialConfig, Kept, TypeOK
<1> HIDE DEF full, place, Live
<1>11. /\ UNCHANGED <<fileVars, layout, locks, output>>
       /\ UNCHANGED <<lockedMonitors, lockedAreas, lockedMoves, lockedResizes>>
       /\ initial' \subseteq initial /\ hidden' \subseteq hidden
       /\ SetupWindowStruts(w, type'[w], frame')
  BY <1>1 DEF ApplyInitialConfig
<1>12. w \notin DOMAIN strutSides
  BY <1>1, <1>2 DEF Kept, TablesAgree
<1>13. TypeOK'
  <2>1. frame' \in [Windows -> Rect \cup {Nowhere}] /\ \A v \in Live' : frame'[v] # Nowhere
    BY <1>2, <1>8 DEF Kept, TypeOK
  <2>2. above' \in [Windows -> BOOLEAN]
    <3> DEFINE b == above[w] \/ (~full /\ WantsWindowAbove(w, r))
    <3>1. above' = [above EXCEPT ![w] = b] /\ b \in BOOLEAN
      BY <1>3
    <3> HIDE DEF b
    <3> QED BY <3>1 DEF Kept, TypeOK
  <2>3. fullscreen' \in [Windows -> BOOLEAN]
    BY <1>5, <1>9 DEF Kept, TypeOK
  <2>4. type' \in [Windows -> Types]
    BY <1>10 DEF Kept, TypeOK
  <2> QED BY <1>2, <1>11, <2>1, <2>2, <2>3, <2>4 DEF Kept, TypeOK
<1>14. TablesAgree' /\ StrutsCurrent'
  <2>1. CASE UNCHANGED <<strutSides, struts>>
    <3>1. \A v \in DOMAIN strutSides : phase'[v] = "mapped"
      BY <1>2 DEF Kept, TablesAgree
    <3>2. TablesAgree'
      BY <1>2, <1>11, <2>1, <3>1, LocksUnchanged
    <3>3. \A v \in DOMAIN strutSides : frame[v] = frame'[v]
      BY <1>8, <1>12, LivesAreWindows DEF Kept, TypeOK
    <3>4. StrutsOf(strutSides, frame, layout) = StrutsOf(strutSides, frame', layout)
      BY <3>3, StrutsOfTheirOwn
    <3> QED BY <1>11, <2>1, <3>2, <3>4 DEF Kept, StrutsCurrent
  <2>2. CASE ~UNCHANGED <<strutSides, struts>>
    <3>1. PICK side : /\ strutSides' = With(strutSides, w, side)
                      /\ struts' = StrutsOf(strutSides', frame', layout)
      BY <1>11, <2>2 DEF SetupWindowStruts
    <3>2. DOMAIN strutSides' = DOMAIN strutSides \cup {w}
      BY <3>1 DEF With
    <3>3. \A v \in DOMAIN strutSides' : phase'[v] = "mapped"
      BY <1>2, <3>2 DEF Kept, TablesAgree
    <3>4. TablesAgree'
      BY <1>2, <1>11, <3>2, <3>3, LocksUnchanged
    <3> QED BY <1>11, <3>1, <3>4 DEF StrutsCurrent
  <2> QED BY <2>1, <2>2
<1>15. HiddenAreAway'
  BY <1>11 DEF Kept, HiddenAreAway, LockedAway, Home, HomeIn
<1> QED BY <1>13, <1>14, <1>15 DEF Kept

LEMMA UnmanagedKept ==
  ASSUME Kept, NEW w \in Windows, OnWindowUnmanaged(w), UNCHANGED events
  PROVE  Kept'
<1> USE DEF fileVars
<1> DEFINE left == LocksLeft(w)
<1>1. Live' = Live \ {w} /\ Live \subseteq Windows
      /\ phase' \in [Windows -> {"new", "created", "mapped", "gone"}]
      /\ \A v \in Windows \ {w} : phase'[v] = phase[v]
  BY DEF Kept, TypeOK, OnWindowUnmanaged, Live
<1>2. locks' = [locks EXCEPT ![w] = left] /\ frame' = [frame EXCEPT ![w] = Nowhere]
  BY DEF OnWindowUnmanaged
<1>3. left \in Locks
  BY DEF Kept, TypeOK, Locks, LocksLeft
<1> HIDE DEF left
<1>4. /\ locks' \in [Windows -> Locks] /\ frame' \in [Windows -> Rect \cup {Nowhere}]
      /\ \A v \in Windows \ {w} : locks'[v] = locks[v] /\ frame'[v] = frame[v]
  BY <1>2, <1>3 DEF Kept, TypeOK
<1>5. /\ initial' = initial \ {w}
      /\ output' = Without(output, w) /\ lockedAreas' = Without(lockedAreas, w)
      /\ lockedMonitors' = lockedMonitors \ {w} /\ lockedMoves' = lockedMoves \ {w}
      /\ lockedResizes' = lockedResizes \ {w} /\ hidden' = hidden \ {w}
      /\ StrutsWithout(w)
      /\ UNCHANGED <<fileVars, layout, type, fullscreen, above>>
  BY DEF OnWindowUnmanaged
<1> HIDE DEF Live
<1>6. /\ DOMAIN output' = DOMAIN output \ {w}
      /\ \A v \in DOMAIN output' : output'[v] = output[v]
      /\ DOMAIN lockedAreas' = DOMAIN lockedAreas \ {w}
      /\ \A v \in DOMAIN lockedAreas' : lockedAreas'[v] = lockedAreas[v]
  BY <1>5 DEF Without
<1>7. /\ DOMAIN strutSides' = DOMAIN strutSides \ {w}
      /\ struts' = StrutsOf(strutSides', frame, layout)
  <2>1. CASE w \in DOMAIN strutSides
    BY <1>5, <2>1 DEF StrutsWithout, Without
  <2>2. CASE w \notin DOMAIN strutSides
    BY <1>5, <2>2 DEF StrutsWithout, Kept, StrutsCurrent
  <2> QED BY <2>1, <2>2
<1>8. TypeOK'
  <2>1. \A v \in Live' : frame'[v] # Nowhere
    BY <1>1, <1>4 DEF Kept, TypeOK
  <2>2. hidden' \subseteq Live'
    BY <1>1, <1>5 DEF Kept, TypeOK
  <2> QED BY <1>1, <1>4, <1>5, <2>1, <2>2 DEF Kept, TypeOK
<1>9. TablesAgree'
  <2>1. (initial \cup DOMAIN output \cup lockedMonitors \cup DOMAIN lockedAreas
          \cup lockedMoves \cup lockedResizes \cup DOMAIN strutSides)' \subseteq Live'
    BY <1>1, <1>5, <1>6, <1>7 DEF Kept, TablesAgree
  <2>2. ASSUME NEW v \in Live'
        PROVE  /\ v \in lockedMonitors' <=> locks'[v].monitor
               /\ v \in lockedMoves' <=> locks'[v].move
               /\ v \in lockedResizes' <=> locks'[v].resize
               /\ v \in DOMAIN lockedAreas' <=> {locks'[v].relative, locks'[v].absolute} # {Nowhere}
               /\ v \in DOMAIN lockedAreas' =>
                    lockedAreas'[v] = IF locks'[v].absolute # Nowhere THEN "absolute" ELSE "relative"
               /\ v \in DOMAIN strutSides' => phase'[v] = "mapped"
    <3>1. v \in Live /\ v # w /\ v \in Windows
      BY <1>1
    <3>2. locks'[v] = locks[v] /\ phase'[v] = phase[v]
      BY <1>1, <1>4, <3>1
    <3>3. /\ v \in lockedMonitors' <=> v \in lockedMonitors
          /\ v \in lockedMoves' <=> v \in lockedMoves
          /\ v \in lockedResizes' <=> v \in lockedResizes
          /\ v \in DOMAIN lockedAreas' <=> v \in DOMAIN lockedAreas
          /\ v \in DOMAIN lockedAreas' => lockedAreas'[v] = lockedAreas[v]
          /\ v \in DOMAIN strutSides' <=> v \in DOMAIN strutSides
      BY <1>5, <1>6, <1>7, <3>1
    <3> QED BY <3>1, <3>2, <3>3 DEF Kept, TablesAgree
  <2> QED BY <2>1, <2>2 DEF TablesAgree
<1>10. StrutsCurrent'
  <2>1. \A v \in DOMAIN strutSides' : frame[v] = frame'[v]
    BY <1>4, <1>7, LivesAreWindows
  <2>2. StrutsOf(strutSides', frame, layout) = StrutsOf(strutSides', frame', layout)
    BY <2>1, StrutsOfTheirOwn
  <2> QED BY <1>5, <1>7, <2>2 DEF StrutsCurrent
<1>11. HiddenAreAway'
  <2> SUFFICES ASSUME NEW v \in hidden' PROVE LockedAway(v)'
    BY DEF HiddenAreAway
  <2>1. v \in hidden /\ v # w /\ v \in Windows
    BY <1>1, <1>5 DEF Kept, TypeOK
  <2>2. LockedAway(v)
    BY <2>1 DEF Kept, HiddenAreAway
  <2> QED BY <1>4, <1>5, <1>6, <2>1, <2>2 DEF LockedAway, Home, HomeIn
<1> QED BY <1>8, <1>9, <1>10, <1>11 DEF Kept

LEMMA MonitorsKept ==
  ASSUME Kept, NEW monitors \in Layouts, OnMonitorsChanged(monitors), events' \in 0..MaxEvents
  PROVE  Kept'
<1> USE DEF fileVars, tableVars
<1> DEFINE HasOutput(w) == IsLocked(w) /\ w \in DOMAIN output
           Found(w)     == HasOutput(w) /\ HomeIn(w, monitors) # Nowhere
           place(w)     == IF ~Found(w) THEN frame[w]
                           ELSE IF fullscreen[w] THEN HomeIn(w, monitors)
                           ELSE MovedTo(frame[w], HomeIn(w, monitors))
<1>1. /\ layout' = monitors
      /\ frame' = [w \in Windows |-> place(w)]
      /\ hidden' = (hidden \ {w \in Windows : Found(w)})
                   \cup {w \in Windows : HasOutput(w) /\ ~Found(w)}
      /\ struts' = StrutsOf(strutSides, frame', monitors)
      /\ UNCHANGED <<fileVars, phase, type, fullscreen, above, locks, tableVars>>
  BY DEF OnMonitorsChanged
<1>2. Live' = Live /\ Live \subseteq Windows
  BY <1>1, LivesAreWindows DEF Live
<1> HIDE DEF Live
<1>3. ASSUME NEW w \in Windows, HasOutput(w)
      PROVE  /\ w \in Live
             /\ locks[w].monitor \/ {locks[w].relative, locks[w].absolute} # {Nowhere}
  <2>1. w \in Live
    BY <1>3 DEF Kept, TablesAgree
  <2> QED BY <1>3, <2>1 DEF Kept, TablesAgree, IsLocked
<1>4. ASSUME NEW w \in Windows
      PROVE  /\ place(w) \in Rect \cup {Nowhere}
             /\ w \in Live => place(w) # Nowhere
  <2>1. CASE ~Found(w)
    BY <2>1 DEF Kept, TypeOK
  <2>2. CASE Found(w)
    <3>1. w \in Live /\ frame[w] \in Rect
      BY <1>3, <2>2, LivesAreWindows
    <3>2. HomeIn(w, monitors) \in Rect
      BY <2>2, HomesTyped
    <3>3. MovedTo(frame[w], HomeIn(w, monitors)) \in Rect
      BY <3>1, <3>2, MovedToTyped DEF Kept, TypeOK
    <3> QED BY <2>2, <3>2, <3>3, NowhereIsNoRect
  <2> QED BY <2>1, <2>2
<1> HIDE DEF place
<1>5. TypeOK'
  <2>1. frame' \in [Windows -> Rect \cup {Nowhere}] /\ \A w \in Live' : frame'[w] # Nowhere
    BY <1>1, <1>2, <1>4
  <2>2. hidden' \subseteq Live'
    BY <1>1, <1>2, <1>3 DEF Kept, TypeOK
  <2> QED BY <1>1, <1>2, <2>1, <2>2 DEF Kept, TypeOK
<1>6. TablesAgree'
  BY <1>1, <1>2 DEF Kept, TablesAgree
<1>7. StrutsCurrent'
  BY <1>1 DEF StrutsCurrent
<1>8. HiddenAreAway'
  <2> SUFFICES ASSUME NEW w \in hidden' PROVE LockedAway(w)'
    BY DEF HiddenAreAway
  <2>1. CASE w \in Windows /\ HasOutput(w) /\ ~Found(w)
    BY <1>1, <1>3, <2>1 DEF LockedAway, Home, HomeIn
  <2>2. CASE w \in hidden /\ ~Found(w) /\ w \in Windows
    <3>1. LockedAway(w) /\ w \in Live
      BY <2>2 DEF Kept, HiddenAreAway, TypeOK
    <3>2. HasOutput(w)
      BY <3>1 DEF LockedAway, Kept, TablesAgree, IsLocked
    <3> QED BY <2>1, <2>2, <3>2
  <2>3. hidden \subseteq Windows
    BY <1>2 DEF Kept, TypeOK
  <2> QED BY <1>1, <2>1, <2>2, <2>3
<1> QED BY <1>5, <1>6, <1>7, <1>8 DEF Kept

LEMMA NextKept == Kept /\ [Next]_vars => Kept'
<1> SUFFICES ASSUME Kept, [Next]_vars PROVE Kept'
  OBVIOUS
<1>1. CASE Outside
  <2>1. events' \in 0..MaxEvents
    BY <1>1, ConfigurationOfWindows DEF Outside, Kept, TypeOK
  <2>2. CASE (\E new \in Configs \cup {Unreadable} : FileChanges(new)) \/ FileGoes
    BY <2>1, <2>2, ReadingKept
  <2>3. CASE \E monitors \in Layouts : OnMonitorsChanged(monitors)
    BY <2>1, <2>3, MonitorsKept
  <2>4. CASE \E w \in Windows : \E r \in Places : Moved(w, r)
    BY <2>1, <2>4, MovedKept
  <2>5. CASE \E w \in Windows : UserMoves(w) \/ UserResizes(w)
    BY <2>1, <2>5, UserKept
  <2> QED BY <1>1, <2>2, <2>3, <2>4, <2>5 DEF Outside
<1>2. CASE Inside
  <2>1. UNCHANGED events /\ events' \in 0..MaxEvents
    BY <1>2 DEF Inside, Kept, TypeOK
  <2>2. CASE OnFileChanged
    BY <2>1, <2>2, ReadingKept
  <2>3. CASE \E w \in Windows : \E r \in Places : OnWindowCreated(w, r)
    BY <2>1, <2>3, CreatedKept
  <2>4. CASE \E w \in Windows : OnWindowConfigure(w)
    BY <2>1, <2>4, ConfiguredKept
  <2>5. CASE \E w \in Windows : MapWindow(w)
    BY <2>1, <2>5, MappedKept
  <2>6. CASE \E w \in Windows : OnWindowUnmanaged(w)
    BY <2>1, <2>6, UnmanagedKept
  <2> QED BY <1>2, <2>2, <2>3, <2>4, <2>5, <2>6 DEF Inside
<1>3. CASE UNCHANGED vars
  <2>1. UNCHANGED <<layout, mutterVars, tableVars, struts, disk, unread, watched, config, events>>
    BY <1>3 DEF vars, fileVars
  <2> QED BY <2>1, FilesKept DEF Kept, TypeOK
<1> QED BY <1>1, <1>2, <1>3 DEF Next

-----------------------------------------------------------------------------
(* The theorems.                                                           *)

\* The invariant the others follow from, of kiosk-window-config.c as a whole.
THEOREM WindowsInvariant == Spec => []Kept
<1> QED BY InitKept, NextKept, PTL DEF Spec

\* Every variable keeps its type: rectangles stay rectangles whatever the file, the
\* constraints and the monitors make of them, and only windows that are there are hidden.
THEOREM TypeCorrect == Spec => []TypeOK
<1>1. Kept => TypeOK
  BY DEF Kept
<1> QED BY <1>1, WindowsInvariant, PTL

\* What the tables know of a window that goes is all there is on it, but for an area.
LEMMA UnmanagedFree ==
  ASSUME Kept, NEW w \in Live, OnWindowUnmanaged(w), ~LockedToBothAreas(w)
  PROVE  locks'[w] = NoLocks
<1>1. w \in Windows /\ locks[w] \in Locks
  BY LivesAreWindows DEF Kept, TypeOK
<1>2. locks'[w] = LocksLeft(w)
  BY <1>1 DEF OnWindowUnmanaged, Kept, TypeOK
<1>3. /\ w \in lockedMonitors <=> locks[w].monitor
      /\ w \in lockedMoves <=> locks[w].move
      /\ w \in lockedResizes <=> locks[w].resize
      /\ w \in DOMAIN lockedAreas <=> {locks[w].relative, locks[w].absolute} # {Nowhere}
      /\ w \in DOMAIN lockedAreas =>
           lockedAreas[w] = IF locks[w].absolute # Nowhere THEN "absolute" ELSE "relative"
  BY DEF Kept, TablesAgree
<1>4. LocksLeft(w).relative = Nowhere /\ LocksLeft(w).absolute = Nowhere
  BY <1>3 DEF LocksLeft, LockedToBothAreas
<1>5. /\ LocksLeft(w).monitor = FALSE /\ LocksLeft(w).move = FALSE
      /\ LocksLeft(w).resize = FALSE
  BY <1>3 DEF LocksLeft
<1>6. LocksLeft(w) = [monitor |-> LocksLeft(w).monitor, relative |-> LocksLeft(w).relative,
                      absolute |-> LocksLeft(w).absolute, move |-> LocksLeft(w).move,
                      resize |-> LocksLeft(w).resize]
  BY DEF LocksLeft
<1> QED BY <1>2, <1>4, <1>5, <1>6 DEF NoLocks

\* A window goes in one way.
LEMMA GoneByUnmanaging ==
  ASSUME Kept, Next, NEW w \in Live, w \notin Live'
  PROVE  OnWindowUnmanaged(w)
<1> USE DEF mutterVars
<1>1. w \in Windows /\ phase \in [Windows -> {"new", "created", "mapped", "gone"}]
  BY LivesAreWindows DEF Kept, TypeOK
<1>2. phase'[w] # phase[w]
  BY <1>1 DEF Live
<1>3. ASSUME NEW v \in Windows, NEW r \in Places, OnWindowCreated(v, r) PROVE FALSE
  BY <1>1, <1>3 DEF OnWindowCreated, Live
<1>4. ASSUME NEW v \in Windows, MapWindow(v) PROVE FALSE
  BY <1>1, <1>4 DEF MapWindow, Live
<1>5. ASSUME NEW v \in Windows, OnWindowUnmanaged(v) PROVE v = w
  BY <1>1, <1>2, <1>5 DEF OnWindowUnmanaged
<1>6. \/ UNCHANGED phase
      \/ \E v \in Windows, r \in Places : OnWindowCreated(v, r)
      \/ \E v \in Windows : MapWindow(v) \/ OnWindowUnmanaged(v)
  BY DEF Next, Outside, Inside, FileChanges, FileGoes, OnFileChanged, Moved, OnWindowConfigure,
         UserMoves, UserResizes, UserChanges, OnMonitorsChanged
<1> QED BY <1>2, <1>3, <1>4, <1>5, <1>6

\* No table mentions a window that has gone, and a window that goes keeps none of its
\* constraints but the first of two areas (on_window_created, on_window_unmanaged).
THEOREM ConstraintsAlwaysGo == Spec => ConstraintsGo
<1> DEFINE Mentioned == initial \cup DOMAIN output \cup lockedMonitors \cup DOMAIN lockedAreas
                          \cup lockedMoves \cup lockedResizes \cup DOMAIN strutSides \subseteq Live
           Freed == \A w \in Live \ Live' : ~LockedToBothAreas(w) => locks'[w] = NoLocks
<1>1. Kept => Mentioned
  BY DEF Kept, TablesAgree
<1>2. Kept /\ [Next]_vars => [Freed]_vars
  <2> SUFFICES ASSUME Kept, Next PROVE Freed
    OBVIOUS
  <2> QED BY GoneByUnmanaging, UnmanagedFree
<1> QED BY <1>1, <1>2, WindowsInvariant, PTL DEF Spec, ConstraintsGo

\* The struts are those of the docks there are, where they are.
THEOREM StrutsAlwaysCurrent == Spec => []StrutsCurrent
<1>1. Kept => StrutsCurrent
  BY DEF Kept
<1> QED BY <1>1, WindowsInvariant, PTL

LEMMA LocksKeepIt ==
  ASSUME Kept, NEW w \in Live, UserMoves(w) \/ UserResizes(w)
  PROVE  StaysLocked(w)
<1>1. /\ frame[w] \in Rect /\ locks[w] \in Locks /\ w \in Windows /\ layout \in Layouts
      /\ frame \in [Windows -> Rect \cup {Nowhere}]
  BY LivesAreWindows DEF Kept, TypeOK
<1>2. PICK r \in Rect, flags \in Flags :
        /\ UserChanges(w, r, flags) /\ SameSize(flags, r, frame[w])
        /\ ~IsEmpty(frame[w]) => Asks(r, flags, frame[w])
  <2>1. CASE UserMoves(w)
    <3>1. PICK r \in Dragged(frame[w]) : UserChanges(w, r, {"move"})
      BY <2>1 DEF UserMoves
    <3>2. /\ r \in Rect /\ SameSize({"move"}, r, frame[w]) /\ {"move"} \in Flags
          /\ ~IsEmpty(frame[w]) => Asks(r, {"move"}, frame[w])
      BY <1>1, DragsAsk DEF SameSize, Flags
    <3> QED BY <3>1, <3>2
  <2>2. CASE UserResizes(w)
    <3>1. PICK r \in Resized(frame[w]), flags \in {{"resize"}, {"move", "resize"}} :
            UserChanges(w, r, flags)
      BY <2>2 DEF UserResizes
    <3>2. r \in Rect /\ (~IsEmpty(frame[w]) => Asks(r, flags, frame[w]))
      BY <1>1, ResizesAsk
    <3>3. SameSize(flags, r, frame[w]) /\ flags \in Flags
      BY DEF SameSize, Flags
    <3> QED BY <3>1, <3>2, <3>3
  <2> QED BY <2>1, <2>2
<1> DEFINE c    == frame[w]
           set  == locks[w]
           home == Home(w)
           u    == Constrained(r, set, c, home, flags)
<1>3. frame'[w] = u
  BY <1>1, <1>2 DEF UserChanges
<1>4. home \in Rect \cup {Nowhere} /\ (home # Nowhere => ~IsEmpty(home))
  BY <1>1, HomesTyped DEF Home
<1>5. /\ set.move => u.x = c.x /\ u.y = c.y
      /\ set.resize => u.width = c.width /\ u.height = c.height
      /\ /\ Asks(r, flags, c) /\ ~IsEmpty(c) /\ (set.resize => set.move)
         /\ Around(OwnMonitor(w), c) /\ Around(OwnArea(w), c) /\ Around(set.absolute, c)
         /\ Binds(LastBound(w))
         => Contains(LastBound(w), u)
  <2> HIDE DEF c, set, home
  <2>1. c \in Rect /\ set \in Locks /\ SameSize(flags, r, c)
    BY <1>1, <1>2 DEF c, set
  <2>2. /\ OwnMonitor(w) = IF set.monitor THEN home ELSE Nowhere
        /\ OwnArea(w) = OnMonitor(set.relative, home)
        /\ LastBound(w) = IF Binds(set.absolute) THEN set.absolute
                          ELSE IF Binds(OwnArea(w)) THEN OwnArea(w) ELSE OwnMonitor(w)
    BY DEF OwnMonitor, OwnArea, LastBound, set, home
  <2> QED BY <1>4, <2>1, <2>2, ConstrainedKeeps
<1>6. IsInside(w) => /\ Asks(r, flags, c) /\ ~IsEmpty(c) /\ Around(OwnMonitor(w), c)
                     /\ Around(OwnArea(w), c) /\ Around(set.absolute, c)
  BY <1>2 DEF IsInside, Around
<1> HIDE DEF u
<1> QED BY <1>3, <1>5, <1>6 DEF StaysLocked

\* Whatever a person does with a mouse, the locks of the window hold.
THEOREM LocksAlwaysHold == Spec => LocksHold
<1>1. Kept => \A w \in Live : StaysLocked(w) \/ ~(UserMoves(w) \/ UserResizes(w))
  BY LocksKeepIt
<1>2. Kept /\ [Next]_vars
        => [\A w \in Live \cap Live' : StaysLocked(w) \/ ~(UserMoves(w) \/ UserResizes(w))]_vars
  BY <1>1
<1> QED BY <1>2, WindowsInvariant, PTL DEF Spec, LocksHold

\* Of a window that is there before and after a step.
HiddenStep(w) ==
  /\ w \in hidden' => LockedAway(w)'
  /\ LockedAway(w)' /\ (~LockedAway(w) \/ w \in hidden) => w \in hidden'

LEMMA HiddenUnchanged ==
  ASSUME Kept, Kept', NEW w \in Live,
         UNCHANGED locks, UNCHANGED layout, w \in DOMAIN output' <=> w \in DOMAIN output,
         w \in DOMAIN output => output'[w] = output[w],
         w \in hidden /\ w \notin hidden' => Home(w) # Nowhere
  PROVE  HiddenStep(w)
<1>1. LockedAway(w)' <=> LockedAway(w)
  BY DEF LockedAway, Home, HomeIn
<1>2. w \in hidden => w \in hidden' \/ ~LockedAway(w)
  BY DEF LockedAway
<1>3. w \in hidden' => LockedAway(w)'
  BY DEF Kept, HiddenAreAway
<1> QED BY <1>1, <1>2, <1>3 DEF HiddenStep

LEMMA HiddenSteps ==
  ASSUME Kept, Kept', Next, NEW w \in Live, w \in Live'
  PROVE  HiddenStep(w)
<1> USE DEF fileVars, mutterVars, tableVars
<1>1. CASE UNCHANGED <<locks, layout, output, hidden>>
  BY <1>1, HiddenUnchanged
<1>2. ASSUME NEW v \in Windows, NEW r \in Places, OnWindowCreated(v, r) PROVE HiddenStep(w)
  <2>1. v # w /\ UNCHANGED <<layout, hidden>>
    BY <1>2 DEF OnWindowCreated, Live
  <2>2. locks'[w] = locks[w]
    BY <1>2, <2>1 DEF OnWindowCreated, Kept, TypeOK, Live
  <2>3. /\ w \in DOMAIN output' <=> w \in DOMAIN output
        /\ w \in DOMAIN output => output'[w] = output[w]
    BY <1>2, <2>1 DEF OnWindowCreated, With
  <2>4. LockedAway(w)' <=> LockedAway(w)
    BY <2>1, <2>2, <2>3 DEF LockedAway, Home, HomeIn
  <2> QED BY <2>1, <2>4 DEF HiddenStep, Kept, HiddenAreAway
<1>3. ASSUME NEW v \in Windows, MapWindow(v) PROVE HiddenStep(w)
  <2>1. UNCHANGED <<locks, layout, output>>
    BY <1>3 DEF MapWindow, ApplyInitialConfig
  <2>2. w \in hidden /\ w \notin hidden' => Home(w) # Nowhere
    BY <1>3 DEF MapWindow, ApplyInitialConfig
  <2> QED BY <2>1, <2>2, HiddenUnchanged
<1>4. ASSUME NEW v \in Windows, OnWindowUnmanaged(v) PROVE HiddenStep(w)
  <2>1. v # w /\ UNCHANGED layout /\ hidden' = hidden \ {v} /\ output' = Without(output, v)
    BY <1>4 DEF OnWindowUnmanaged, Kept, TypeOK, Live
  <2>2. locks'[w] = locks[w]
    BY <1>4, <2>1 DEF OnWindowUnmanaged, Kept, TypeOK, Live
  <2>3. /\ w \in DOMAIN output' <=> w \in DOMAIN output
        /\ w \in DOMAIN output => output'[w] = output[w]
    BY <2>1 DEF Without
  <2>4. LockedAway(w)' <=> LockedAway(w)
    BY <2>1, <2>2, <2>3 DEF LockedAway, Home, HomeIn
  <2> QED BY <2>1, <2>4 DEF HiddenStep, Kept, HiddenAreAway
<1>5. ASSUME NEW monitors \in Layouts, OnMonitorsChanged(monitors) PROVE HiddenStep(w)
  <2>1. w \in hidden' => LockedAway(w)'
    BY DEF Kept, HiddenAreAway
  <2>2. ASSUME LockedAway(w)' PROVE w \in hidden'
    <3>1. UNCHANGED <<locks, tableVars>> /\ layout' = monitors
      BY <1>5 DEF OnMonitorsChanged
    <3>2. IsLocked(w) /\ w \in DOMAIN output /\ HomeIn(w, monitors) = Nowhere
      BY <2>2, <3>1 DEF LockedAway, Home, HomeIn, Kept, TablesAgree, IsLocked
    <3>3. w \in Windows
      BY LivesAreWindows
    <3> QED BY <1>5, <3>2, <3>3 DEF OnMonitorsChanged
  <2> QED BY <2>1, <2>2 DEF HiddenStep
<1>6. \/ UNCHANGED <<locks, layout, output, hidden>>
      \/ \E v \in Windows, r \in Places : OnWindowCreated(v, r)
      \/ \E v \in Windows : MapWindow(v) \/ OnWindowUnmanaged(v)
      \/ \E monitors \in Layouts : OnMonitorsChanged(monitors)
  BY DEF Next, Outside, Inside, FileChanges, FileGoes, OnFileChanged, Moved, OnWindowConfigure,
         UserMoves, UserResizes, UserChanges
<1> QED BY <1>1, <1>2, <1>3, <1>4, <1>5, <1>6

\* A window that is there before and after a step has the locks it was created with.
LEMMA LocksStay ==
  ASSUME Kept, Next, NEW w \in Live, w \in Live'
  PROVE  locks'[w] = locks[w]
<1> USE DEF mutterVars
<1>1. ASSUME NEW v \in Windows, NEW r \in Places, OnWindowCreated(v, r) PROVE locks'[w] = locks[w]
  BY <1>1 DEF OnWindowCreated, Kept, TypeOK, Live
<1>2. ASSUME NEW v \in Windows, OnWindowUnmanaged(v) PROVE locks'[w] = locks[w]
  BY <1>2 DEF OnWindowUnmanaged, Kept, TypeOK, Live
<1>3. \/ UNCHANGED locks
      \/ \E v \in Windows, r \in Places : OnWindowCreated(v, r)
      \/ \E v \in Windows : OnWindowUnmanaged(v)
  BY DEF Next, Outside, Inside, FileChanges, FileGoes, OnFileChanged, Moved, OnWindowConfigure,
         UserMoves, UserResizes, UserChanges, OnMonitorsChanged, MapWindow, ApplyInitialConfig
<1> QED BY <1>1, <1>2, <1>3

\* Of all windows but those with lock-on-area alone, the ones that are hidden are the ones
\* whose monitor is away, from the first change of the monitors that finds it away
\* (update_window_on_monitor).
THEOREM HiddenWhileAwayHolds == Spec => HiddenWhileAway
<1> DEFINE Step(w) == ~LockedOnAreaOnly(w) =>
             /\ w \in hidden' => IsAway(w)'
             /\ IsAway(w)' /\ (~IsAway(w) \/ w \in hidden) => w \in hidden'
<1>1. ASSUME Kept, Kept', Next, NEW w \in Live, w \in Live', ~LockedOnAreaOnly(w)
      PROVE  Step(w)
  <2>1. HiddenStep(w) /\ locks'[w] = locks[w]
    BY <1>1, HiddenSteps, LocksStay
  <2>2. LockedOnMonitor(w) <=> locks[w].monitor \/ {locks[w].relative, locks[w].absolute} # {Nowhere}
    BY <1>1 DEF LockedOnAreaOnly, LockedOnMonitor
  <2>3. IsAway(w) <=> LockedAway(w)
    BY <2>2 DEF IsAway, LockedAway
  <2>4. LockedOnMonitor(w)'
          <=> locks'[w].monitor \/ {locks'[w].relative, locks'[w].absolute} # {Nowhere}
    BY <2>1, <2>2 DEF LockedOnMonitor
  <2>5. IsAway(w)' <=> LockedAway(w)'
    BY <2>4 DEF IsAway, LockedAway
  <2> QED BY <2>1, <2>3, <2>5 DEF HiddenStep
<1>2. Kept /\ Kept' /\ [Next]_vars => [\A w \in Live \cap Live' : Step(w)]_vars
  BY <1>1
<1> QED BY <1>2, WindowsInvariant, PTL DEF Spec, HiddenWhileAway
================================================================================
