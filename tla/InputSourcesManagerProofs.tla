---------------------- MODULE InputSourcesManagerProofs ----------------------
(***************************************************************************)
(* What the methods of a group, the loops that fill a list of groups and   *)
(* the operations of the manager do and preserve, for every set of layouts *)
(* and engines, every limit on the layouts of a group and every state of   *)
(* the lock and of IBus. A manager is sound when its groups are well       *)
(* formed and its selection is one of them.                                *)
(*                                                                         *)
(* The loops are recursive functions on 0..n. Their values are typed in    *)
(* three moves: a set that has 0 and is closed under successor is 0..n     *)
(* (Induction), such a function exists (it is extended one argument at a   *)
(* time), and its values stay in the type.                                 *)
(***************************************************************************)
EXTENDS InputSourcesManager, WellFoundedInduction, TLAPS

\* The groups that can be in a list.
WellFormedGroups == {g \in Group : WellFormedGroup(g)}

-----------------------------------------------------------------------------
(* Natural numbers.                                                        *)

\* Every non-empty set of naturals has a least element.
LEMMA LeastExists ==
  ASSUME NEW T, T \subseteq Nat, T # {}
  PROVE  \E x \in T : \A y \in T : x <= y
<1> DEFINE R == OpToRel(<, Nat)
<1>1. IsWellFoundedOn(R, Nat)
  BY NatLessThanWellFounded
<1>2. \A x, y \in Nat : <<x, y>> \in R <=> x < y
  BY DEF OpToRel
<1> HIDE DEF R
<1>3. PICK x \in T : \A y \in T : <<y, x>> \notin R
  BY <1>1, WFMin
<1>4. ASSUME NEW y \in T PROVE x <= y
  <2>1. ~ (y < x)
    BY <1>2, <1>3
  <2> QED BY <2>1
<1> QED BY <1>4

\* A set of naturals up to n that has 0 and is closed under successor has
\* them all.
LEMMA Induction ==
  ASSUME NEW n \in Nat, NEW T \in SUBSET (0..n), 0 \in T,
         \A i \in 0..(n - 1) : i \in T => i + 1 \in T
  PROVE  T = 0..n
<1>1. SUFFICES ASSUME (0..n) \ T # {} PROVE FALSE
  OBVIOUS
<1> DEFINE U == (0..n) \ T
<1>2. U \subseteq Nat /\ U # {}
  BY <1>1
<1>3. PICK x \in U : \A y \in U : x <= y
  <2> HIDE DEF U
  <2> QED BY <1>2, LeastExists
<1>4. x # 0 /\ x \in 1..n
  OBVIOUS
<1>5. x - 1 \in 0..(n - 1) /\ x - 1 \in T
  BY <1>3, <1>4
<1>6. (x - 1) + 1 \in T
  BY <1>5
<1> QED BY <1>6, <1>4

-----------------------------------------------------------------------------
(* The methods of a group.                                                 *)

LEMMA EmptyListIsWellFormed == <<>> \in Seq(WellFormedGroups)
  OBVIOUS

\* IBus naming the layout of an engine keeps its group well formed.
LEMMA EnsureLayoutWellFormed ==
  ASSUME NEW g \in WellFormedGroups, NEW known \in SUBSET Engines
  PROVE  EnsureLayout(g, known) \in WellFormedGroups
<1> USE GroupAssumption DEF WellFormedGroups, WellFormedGroup, Group
<1>1. CASE g.engine = NoEngine \/ Len(g.layouts) = 1
  BY <1>1 DEF EnsureLayout
<1>2. CASE ~ (g.engine = NoEngine \/ Len(g.layouts) = 1)
  <2>1. g.engine \in Engines /\ g.layouts = <<>> /\ g.index = 0
    <3>1. g.engine \in Engines /\ g.index \in Nat
      BY <1>2
    <3>2. g.layouts = <<>> \/ g.layouts = <<EngineLayout[g.engine]>>
      BY <1>2
    <3>3. Len(<<EngineLayout[g.engine]>>) = 1 /\ Len(<< >>) = 0
      OBVIOUS
    <3>4. g.layouts = <<>>
      BY <1>2, <3>2, <3>3
    <3> QED BY <3>1, <3>3, <3>4
  <2>2. CASE g.engine \in known
    <3>1. EnsureLayout(g, known) = [g EXCEPT !.layouts = <<EngineLayout[g.engine]>>]
      BY <1>2, <2>2 DEF EnsureLayout
    <3>2. EngineLayout[g.engine] \in Layouts
      BY <2>1
    <3> DEFINE h == [g EXCEPT !.layouts = <<EngineLayout[g.engine]>>]
    <3>3. /\ h.engine = g.engine /\ h.index = 0
          /\ h.layouts = <<EngineLayout[g.engine]>>
      BY <2>1
    <3>4. h \in Group
      <4>1. \A l \in Layouts : <<l>> \in Seq(Layouts)
        OBVIOUS
      <4>2. <<EngineLayout[g.engine]>> \in Seq(Layouts)
        BY <3>2, <4>1
      <4> QED BY <2>1, <4>2
    <3>5. WellFormedGroup(h)
      BY <2>1, <3>3, <3>4
    <3> QED BY <3>1, <3>4, <3>5
  <2>3. CASE g.engine \notin known
    <3>1. EnsureLayout(g, known) = [g EXCEPT !.layouts = <<>>]
      BY <1>2, <2>3 DEF EnsureLayout
    <3> QED BY <3>1, <2>1
  <2> QED BY <2>2, <2>3
<1> QED BY <1>1, <1>2

\* Selecting another of a group's layouts keeps it well formed.
LEMMA IndexWellFormed ==
  ASSUME NEW g \in WellFormedGroups, NEW k \in Nat, k < Len(g.layouts)
  PROVE  [g EXCEPT !.index = k] \in WellFormedGroups
  BY DEF WellFormedGroups, WellFormedGroup, Group

\* Which layout of a group is selected does not show in its sources.
LEMMA SwitchesShow ==
  ASSUME NEW g \in WellFormedGroups, NEW l
  PROVE  /\ SourcesOfGroup(SwitchToFirst(g)) = SourcesOfGroup(g)
         /\ SourcesOfGroup(SwitchToLast(g)) = SourcesOfGroup(g)
         /\ SourcesOfGroup(SwitchToNext(g)) = SourcesOfGroup(g)
         /\ SourcesOfGroup(SwitchToPrevious(g)) = SourcesOfGroup(g)
         /\ SourcesOfGroup(SwitchToLayout(g, l)) = SourcesOfGroup(g)
<1>1. ASSUME NEW k PROVE SourcesOfGroup([g EXCEPT !.index = k]) = SourcesOfGroup(g)
  BY DEF SourcesOfGroup, WellFormedGroups, Group
<1>2. SourcesOfGroup(SwitchToFirst(g)) = SourcesOfGroup(g)
  <2>1. PICK k : SwitchToFirst(g) = [g EXCEPT !.index = k]
    BY DEF SwitchToFirst
  <2> QED BY <1>1, <2>1, Zenon
<1>3. SourcesOfGroup(SwitchToLast(g)) = SourcesOfGroup(g)
  <2>1. PICK k : SwitchToLast(g) = [g EXCEPT !.index = k]
    BY DEF SwitchToLast
  <2> QED BY <1>1, <2>1, Zenon
<1>4. /\ SourcesOfGroup(SwitchToNext(g)) = SourcesOfGroup(g)
      /\ SourcesOfGroup(SwitchToPrevious(g)) = SourcesOfGroup(g)
  BY <1>1 DEF SwitchToNext, SwitchToPrevious
<1>5. SourcesOfGroup(SwitchToLayout(g, l)) = SourcesOfGroup(g)
  BY <1>1 DEF SwitchToLayout
<1> QED BY <1>2, <1>3, <1>4, <1>5

LEMMA SwitchesWellFormed ==
  ASSUME NEW g \in WellFormedGroups
  PROVE  /\ SwitchToFirst(g) \in WellFormedGroups
         /\ SwitchToLast(g) \in WellFormedGroups
         /\ HasNext(g) => SwitchToNext(g) \in WellFormedGroups
         /\ HasPrevious(g) => SwitchToPrevious(g) \in WellFormedGroups
<1> USE DEF WellFormedGroups, WellFormedGroup, Group
<1>0. g.layouts \in Seq(Layouts) /\ g.index \in Nat /\ Len(g.layouts) \in Nat
  OBVIOUS
<1>1. SwitchToFirst(g) \in WellFormedGroups
  BY <1>0 DEF SwitchToFirst
<1>2. SwitchToLast(g) \in WellFormedGroups
  <2>1. CASE g.layouts = <<>>
    BY <2>1 DEF SwitchToLast
  <2>2. CASE g.layouts # <<>>
    <3>1. Len(g.layouts) - 1 \in Nat /\ Len(g.layouts) - 1 < Len(g.layouts)
      BY <2>2, <1>0
    <3>2. SwitchToLast(g) = [g EXCEPT !.index = Len(g.layouts) - 1]
      BY <2>2 DEF SwitchToLast
    <3> QED BY <3>1, <3>2, IndexWellFormed
  <2> QED BY <2>1, <2>2
<1>3. HasNext(g) => SwitchToNext(g) \in WellFormedGroups
  BY <1>0, IndexWellFormed DEF HasNext, SwitchToNext
<1>4. HasPrevious(g) => SwitchToPrevious(g) \in WellFormedGroups
  <2>1. SUFFICES ASSUME HasPrevious(g) PROVE SwitchToPrevious(g) \in WellFormedGroups
    OBVIOUS
  <2>2. g.index - 1 \in Nat /\ g.index - 1 < Len(g.layouts)
    BY <2>1, <1>0 DEF HasPrevious
  <2> QED BY <2>2, IndexWellFormed DEF SwitchToPrevious
<1> QED BY <1>1, <1>2, <1>3, <1>4

\* A layout that a group holds is found in it and then selected.
LEMMA SwitchToLayoutWellFormed ==
  ASSUME NEW g \in WellFormedGroups, NEW l, HoldsLayout(g, l)
  PROVE  /\ SwitchToLayout(g, l) \in WellFormedGroups
         /\ SelectedLayout(SwitchToLayout(g, l)) = l
<1>1. CASE SelectedLayout(g) = l
  BY <1>1 DEF SwitchToLayout
<1>2. CASE SelectedLayout(g) # l
  <2> DEFINE at == {k \in 0..(Len(g.layouts) - 1) : g.layouts[k + 1] = l}
  <2>1. g.layouts \in Seq(Layouts) /\ Len(g.layouts) \in Nat
    BY DEF WellFormedGroups, Group
  <2>2. PICK j \in DOMAIN g.layouts : g.layouts[j] = l
    BY DEF HoldsLayout
  <2>3. j - 1 \in at
    BY <2>1, <2>2
  <2>4. at \subseteq Nat /\ at # {}
    BY <2>1, <2>3
  <2>5. PICK k \in at : \A y \in at : k <= y
    <3> HIDE DEF at
    <3> QED BY <2>4, LeastExists
  <2>6. /\ k \in 0..(Len(g.layouts) - 1)
        /\ g.layouts[k + 1] = l
        /\ \A i \in 0..(k - 1) : g.layouts[i + 1] # l
    BY <2>1, <2>5
  <2> DEFINE first == CHOOSE f \in 0..(Len(g.layouts) - 1) :
                        /\ g.layouts[f + 1] = l
                        /\ \A i \in 0..(f - 1) : g.layouts[i + 1] # l
  <2>7. first \in 0..(Len(g.layouts) - 1) /\ g.layouts[first + 1] = l
    BY <2>6
  <2>8. SwitchToLayout(g, l) = [g EXCEPT !.index = first]
    BY <1>2 DEF SwitchToLayout
  <2> HIDE DEF first
  <2> DEFINE h == [g EXCEPT !.index = first]
  <2>9. h \in WellFormedGroups
    BY <2>1, <2>7, IndexWellFormed
  <2>10. h.index = first /\ h.layouts = g.layouts /\ first < Len(g.layouts)
    BY <2>1, <2>7 DEF WellFormedGroups, Group
  <2> HIDE DEF h
  <2>11. SelectedLayout(h) = l
    BY <2>7, <2>10 DEF SelectedLayout
  <2> QED BY <2>8, <2>9, <2>11 DEF h
<1> QED BY <1>1, <1>2

-----------------------------------------------------------------------------
(* Lists of groups.                                                        *)

\* A group with one layout is well formed.
LEMMA OneLayoutWellFormed ==
  ASSUME NEW l \in Layouts
  PROVE  AddLayout(NewGroup, l) \in WellFormedGroups
<1> DEFINE g == AddLayout(NewGroup, l)
<1>1. g = [engine |-> NoEngine, layouts |-> <<l>>, index |-> 0]
  BY DEF AddLayout, NewGroup
<1>2. <<l>> \in Seq(Layouts) /\ Len(<<l>>) = 1
  OBVIOUS
<1>3. 1 \in 1..MaxLayouts
  BY GroupAssumption
<1> HIDE DEF g
<1>4. g.engine = NoEngine /\ g.index = 0 /\ g.layouts = <<l>>
  BY <1>1
<1>5. g \in Group
  BY <1>1, <1>2 DEF Group
<1>6. Len(g.layouts) \in 1..MaxLayouts
  BY <1>2, <1>3, <1>4
<1>7. WellFormedGroup(g)
  BY <1>4, <1>5, <1>6 DEF WellFormedGroup
<1> QED BY <1>5, <1>7 DEF g, WellFormedGroups

LEMMA AddLayoutWellFormed ==
  ASSUME NEW g \in WellFormedGroups, NEW l \in Layouts, Accepts(g)
  PROVE  AddLayout(g, l) \in WellFormedGroups
<1>1. /\ g.engine = NoEngine /\ g.index \in Nat /\ g.layouts \in Seq(Layouts)
      /\ g.index < Len(g.layouts) \/ g.index = 0
      /\ Len(g.layouts) \in 1..MaxLayouts /\ Len(g.layouts) < MaxLayouts
  BY DEF Accepts, WellFormedGroups, WellFormedGroup, Group
<1> DEFINE h == AddLayout(g, l)
<1>2. h = [g EXCEPT !.layouts = Append(g.layouts, l)]
  BY DEF AddLayout
<1>3. Append(g.layouts, l) \in Seq(Layouts) /\ Len(Append(g.layouts, l)) = Len(g.layouts) + 1
  BY <1>1
<1>4. h.engine = NoEngine /\ h.index = g.index /\ h.layouts = Append(g.layouts, l)
  BY <1>1, <1>2 DEF WellFormedGroups, Group
<1>5. h \in Group
  BY <1>2, <1>3 DEF WellFormedGroups, Group
<1>6. Len(g.layouts) + 1 \in 1..MaxLayouts
  BY <1>1, GroupAssumption
<1>7. h.index < Len(h.layouts) \/ h.index = 0
  BY <1>1, <1>3, <1>4
<1>8. Len(h.layouts) \in 1..MaxLayouts
  BY <1>3, <1>4, <1>6
<1> HIDE DEF h
<1>9. WellFormedGroup(h)
  BY <1>4, <1>5, <1>7, <1>8 DEF WellFormedGroup
<1> QED BY <1>5, <1>9 DEF h, WellFormedGroups

LEMMA AddSourceWellFormed ==
  ASSUME NEW gs \in Seq(WellFormedGroups), NEW s \in Source
  PROVE  AddSource(gs, s) \in Seq(WellFormedGroups)
<1>1. CASE s.type = "xkb"
  <2>1. s.id \in Layouts
    BY <1>1 DEF Source
  <2>2. AddSource(gs, s) = AddLayoutSource(gs, s.id)
    BY <1>1 DEF AddSource
  <2>3. AddLayout(NewGroup, s.id) \in WellFormedGroups
    BY <2>1, OneLayoutWellFormed
  <2>4. CASE s.id \notin KnownLayouts
    BY <2>2, <2>4 DEF AddLayoutSource
  <2>5. CASE s.id \in KnownLayouts /\ gs # <<>> /\ Accepts(gs[Len(gs)])
    <3>1. Len(gs) \in DOMAIN gs /\ gs[Len(gs)] \in WellFormedGroups
      BY <2>5
    <3>2. AddLayout(gs[Len(gs)], s.id) \in WellFormedGroups
      BY <3>1, <2>1, <2>5, AddLayoutWellFormed
    <3>3. AddSource(gs, s) = [gs EXCEPT ![Len(gs)] = AddLayout(gs[Len(gs)], s.id)]
      BY <2>2, <2>5 DEF AddLayoutSource
    <3> QED BY <3>1, <3>2, <3>3
  <2>6. CASE s.id \in KnownLayouts /\ ~ (gs # <<>> /\ Accepts(gs[Len(gs)]))
    <3>1. AddSource(gs, s) = Append(gs, AddLayout(NewGroup, s.id))
      BY <2>2, <2>6 DEF AddLayoutSource
    <3> QED BY <3>1, <2>3
  <2> QED BY <2>4, <2>5, <2>6
<1>2. CASE s.type # "xkb"
  <2>1. s.id \in Engines
    BY <1>2 DEF Source
  <2> DEFINE g == SetInputEngine(NewGroup, s.id)
  <2>2. g.engine = s.id /\ g.layouts = <<>> /\ g.index = 0
    BY DEF SetInputEngine, NewGroup
  <2>3. <<>> \in Seq(Layouts) /\ s.id # NoEngine
    BY <2>1, GroupAssumption
  <2>4. g \in WellFormedGroups
    <3>1. g \in Group
      BY <2>1, <2>3, GroupAssumption DEF SetInputEngine, NewGroup, Group
    <3> HIDE DEF g
    <3>2. WellFormedGroup(g)
      BY <2>2, <2>3, <3>1 DEF WellFormedGroup
    <3> QED BY <3>1, <3>2 DEF WellFormedGroups
  <2>5. AddSource(gs, s) = Append(gs, SetInputEngine(NewGroup, s.id))
    BY <1>2 DEF AddSource, AddEngineSource
  <2> QED BY <2>4, <2>5
<1> QED BY <1>1, <1>2

\* A function that is defined by recursion on 0..n from the groups of the
\* sources before.
IsAfter(f, c, n) ==
  f = [k \in 0..n |-> IF k = 0 THEN <<>> ELSE AddSource(f[k - 1], c[k])]

LEMMA AfterExists ==
  ASSUME NEW c \in Seq(Source), NEW n \in 0..Len(c)
  PROVE  \E f \in [0..n -> Seq(WellFormedGroups)] : IsAfter(f, c, n)
<1> DEFINE T == {k \in 0..n : \E f \in [0..k -> Seq(WellFormedGroups)] : IsAfter(f, c, k)}
<1>1. n \in Nat /\ T \in SUBSET (0..n)
  OBVIOUS
<1>2. 0 \in T
  <2>1. [i \in 0..0 |-> <<>>] \in [0..0 -> Seq(WellFormedGroups)]
    BY EmptyListIsWellFormed
  <2>2. IsAfter([i \in 0..0 |-> <<>>], c, 0)
    BY DEF IsAfter
  <2>3. \E f \in [0..0 -> Seq(WellFormedGroups)] : IsAfter(f, c, 0)
    BY <2>1, <2>2
  <2>4. 0 \in 0..n
    BY <1>1
  <2> QED BY <2>3, <2>4
<1>3. ASSUME NEW k \in 0..(n - 1), k \in T PROVE k + 1 \in T
  <2>1. PICK f \in [0..k -> Seq(WellFormedGroups)] : IsAfter(f, c, k)
    BY <1>3
  <2>2. /\ k \in Nat /\ k + 1 \in 0..n /\ c[k + 1] \in Source
        /\ f[k] \in Seq(WellFormedGroups)
    BY <1>1, <2>1
  <2> DEFINE h == [i \in 0..(k + 1) |-> IF i = k + 1 THEN AddSource(f[k], c[k + 1]) ELSE f[i]]
  <2>3. AddSource(f[k], c[k + 1]) \in Seq(WellFormedGroups)
    BY <2>2, AddSourceWellFormed
  <2>4. h \in [0..(k + 1) -> Seq(WellFormedGroups)]
    BY <2>2, <2>3
  <2>5. ASSUME NEW i \in 0..(k + 1)
        PROVE  h[i] = IF i = 0 THEN <<>> ELSE AddSource(h[i - 1], c[i])
    <3>1. CASE i = k + 1
      BY <2>2, <3>1
    <3>2. CASE i \in 0..k
      <4>1. f[i] = IF i = 0 THEN <<>> ELSE AddSource(f[i - 1], c[i])
        BY <2>1, <3>2 DEF IsAfter
      <4>2. i # 0 => h[i - 1] = f[i - 1]
        BY <2>2, <3>2
      <4> QED BY <2>2, <3>2, <4>1, <4>2
    <3> QED BY <2>2, <3>1, <3>2
  <2>6. IsAfter(h, c, k + 1)
    BY <2>5 DEF IsAfter
  <2> HIDE DEF h
  <2> QED BY <2>2, <2>4, <2>6
<1>4. T = 0..n
  <2> HIDE DEF T
  <2> QED BY <1>1, <1>2, <1>3, Induction
<1> QED BY <1>1, <1>4

\* Whatever is configured, the groups it is packed into are well formed.
THEOREM GroupsOfWellFormed ==
  ASSUME NEW c \in Seq(Source)
  PROVE  GroupsOf(c) \in Seq(WellFormedGroups)
<1> DEFINE n == Len(c)
<1>1. n \in Nat /\ n \in 0..Len(c)
  OBVIOUS
<1> DEFINE after == CHOOSE f : IsAfter(f, c, n)
<1>2. IsAfter(after, c, n)
  <2>1. \E f : IsAfter(f, c, n)
    BY <1>1, AfterExists
  <2> QED BY <2>1
<1>3. GroupsOf(c) = after[n]
  BY DEF GroupsOf, IsAfter
<1> HIDE DEF after
<1> DEFINE T == {k \in 0..n : after[k] \in Seq(WellFormedGroups)}
<1>4. 0 \in T
  <2>1. 0 \in 0..n /\ after[0] = <<>>
    BY <1>1, <1>2 DEF IsAfter
  <2> QED BY <2>1, EmptyListIsWellFormed
<1>5. ASSUME NEW k \in 0..(n - 1), k \in T PROVE k + 1 \in T
  <2>1. k + 1 \in 0..n /\ k + 1 # 0 /\ (k + 1) - 1 = k /\ c[k + 1] \in Source
    BY <1>1
  <2>2. after[k + 1] = AddSource(after[k], c[k + 1])
    BY <1>2, <2>1 DEF IsAfter
  <2> QED BY <1>5, <2>1, <2>2, AddSourceWellFormed
<1>6. T = 0..n
  <2>1. T \in SUBSET (0..n)
    OBVIOUS
  <2> HIDE DEF T
  <2> QED BY <1>1, <1>4, <1>5, <2>1, Induction
<1> QED BY <1>1, <1>3, <1>6

-----------------------------------------------------------------------------
(* What the D-Bus service lists.                                           *)

LEMMA SourcesOfGroupTyped ==
  ASSUME NEW g \in WellFormedGroups
  PROVE  SourcesOfGroup(g) \in Seq(Source)
<1>1. g.engine \in Engines \cup {NoEngine} /\ g.layouts \in Seq(Layouts)
  BY DEF WellFormedGroups, Group
<1>2. CASE g.engine # NoEngine
  <2>1. Ibus(g.engine) \in Source
    BY <1>1, <1>2 DEF Ibus, Source
  <2>2. \A s \in Source : <<s>> \in Seq(Source)
    OBVIOUS
  <2> QED BY <1>2, <2>1, <2>2 DEF SourcesOfGroup
<1>3. CASE g.engine = NoEngine
  <2>1. \A k \in DOMAIN g.layouts : Xkb(g.layouts[k]) \in Source
    BY <1>1 DEF Xkb, Source
  <2>2. DOMAIN g.layouts = 1..Len(g.layouts) /\ Len(g.layouts) \in Nat
    BY <1>1
  <2> DEFINE listed == [k \in DOMAIN g.layouts |-> Xkb(g.layouts[k])]
  <2>3. listed \in [1..Len(g.layouts) -> Source]
    BY <2>1, <2>2
  <2>4. SourcesOfGroup(g) = listed
    BY <1>3 DEF SourcesOfGroup
  <2> HIDE DEF listed
  <2> QED BY <2>2, <2>3, <2>4
<1> QED BY <1>2, <1>3

Joined(q, g) == q \o SourcesOfGroup(g)

\* A function that is defined by recursion on 0..n from the sources of the
\* groups before.
IsUpTo(f, gs, n) ==
  f = [k \in 0..n |-> IF k = 0 THEN <<>> ELSE Joined(f[k - 1], gs[k])]

LEMMA UpToExists ==
  ASSUME NEW gs \in Seq(WellFormedGroups), NEW n \in 0..Len(gs)
  PROVE  \E f \in [0..n -> Seq(Source)] : IsUpTo(f, gs, n)
<1> DEFINE T == {k \in 0..n : \E f \in [0..k -> Seq(Source)] : IsUpTo(f, gs, k)}
<1>1. n \in Nat /\ T \in SUBSET (0..n)
  OBVIOUS
<1>2. 0 \in T
  <2>1. [i \in 0..0 |-> <<>>] \in [0..0 -> Seq(Source)]
    OBVIOUS
  <2>2. IsUpTo([i \in 0..0 |-> <<>>], gs, 0)
    BY DEF IsUpTo
  <2>3. \E f \in [0..0 -> Seq(Source)] : IsUpTo(f, gs, 0)
    BY <2>1, <2>2
  <2>4. 0 \in 0..n
    BY <1>1
  <2> QED BY <2>3, <2>4
<1>3. ASSUME NEW k \in 0..(n - 1), k \in T PROVE k + 1 \in T
  <2>1. PICK f \in [0..k -> Seq(Source)] : IsUpTo(f, gs, k)
    BY <1>3
  <2>2. k \in Nat /\ k + 1 \in 0..n /\ gs[k + 1] \in WellFormedGroups /\ f[k] \in Seq(Source)
    BY <1>1, <2>1
  <2> DEFINE h == [i \in 0..(k + 1) |-> IF i = k + 1 THEN Joined(f[k], gs[k + 1])
                                        ELSE f[i]]
  <2>3. Joined(f[k], gs[k + 1]) \in Seq(Source)
    <3>1. SourcesOfGroup(gs[k + 1]) \in Seq(Source)
      BY <2>2, SourcesOfGroupTyped
    <3> QED BY <2>2, <3>1 DEF Joined
  <2>4. h \in [0..(k + 1) -> Seq(Source)]
    BY <2>2, <2>3
  <2>5. ASSUME NEW i \in 0..(k + 1)
        PROVE  h[i] = IF i = 0 THEN <<>> ELSE Joined(h[i - 1], gs[i])
    <3>1. CASE i = k + 1
      BY <2>2, <3>1
    <3>2. CASE i \in 0..k
      <4>1. f[i] = IF i = 0 THEN <<>> ELSE Joined(f[i - 1], gs[i])
        BY <2>1, <3>2 DEF IsUpTo
      <4>2. i # 0 => h[i - 1] = f[i - 1]
        BY <2>2, <3>2
      <4> QED BY <2>2, <3>2, <4>1, <4>2
    <3> QED BY <2>2, <3>1, <3>2
  <2>6. IsUpTo(h, gs, k + 1)
    BY <2>5 DEF IsUpTo
  <2> HIDE DEF h
  <2> QED BY <2>2, <2>4, <2>6
<1>4. T = 0..n
  <2> HIDE DEF T
  <2> QED BY <1>1, <1>2, <1>3, Induction
<1> QED BY <1>1, <1>4

\* The sources of a list are those such a function ends with.
SourcesAt(f, gs, n) == IsUpTo(f, gs, n) /\ SourcesOf(gs) = f[n]

LEMMA SourcesOfAt ==
  ASSUME NEW gs \in Seq(WellFormedGroups)
  PROVE  \E f : SourcesAt(f, gs, Len(gs))
<1> DEFINE n    == Len(gs)
           upTo == CHOOSE f : IsUpTo(f, gs, n)
<1>1. IsUpTo(upTo, gs, n)
  <2>1. n \in 0..Len(gs)
    OBVIOUS
  <2>2. \E f : IsUpTo(f, gs, n)
    BY <2>1, UpToExists
  <2> QED BY <2>2
<1>2. SourcesOf(gs) = upTo[n]
  BY DEF SourcesOf, IsUpTo, Joined
<1> HIDE DEF upTo
<1> QED BY <1>1, <1>2 DEF SourcesAt

\* What the service publishes for a list of well-formed groups is a list of
\* input sources.
LEMMA SourcesOfTyped ==
  ASSUME NEW gs \in Seq(WellFormedGroups)
  PROVE  SourcesOf(gs) \in Seq(Source)
<1> DEFINE n == Len(gs)
<1>1. n \in Nat /\ n \in 0..Len(gs)
  OBVIOUS
<1>2. PICK upTo : IsUpTo(upTo, gs, n) /\ SourcesOf(gs) = upTo[n]
  BY SourcesOfAt DEF SourcesAt
<1>3. SourcesOf(gs) = upTo[n]
  BY <1>2
<1> DEFINE T == {k \in 0..n : upTo[k] \in Seq(Source)}
<1>4. 0 \in T
  <2>1. 0 \in 0..n /\ upTo[0] = <<>>
    BY <1>1, <1>2 DEF IsUpTo
  <2>2. <<>> \in Seq(Source)
    OBVIOUS
  <2> QED BY <2>1, <2>2
<1>5. ASSUME NEW k \in 0..(n - 1), k \in T PROVE k + 1 \in T
  <2>1. k + 1 \in 0..n /\ k + 1 # 0 /\ (k + 1) - 1 = k /\ gs[k + 1] \in WellFormedGroups
    BY <1>1
  <2>2. upTo[k + 1] = Joined(upTo[k], gs[k + 1])
    BY <1>2, <2>1 DEF IsUpTo
  <2>3. SourcesOfGroup(gs[k + 1]) \in Seq(Source) /\ upTo[k] \in Seq(Source)
    BY <1>5, <2>1, SourcesOfGroupTyped
  <2>4. upTo[k + 1] \in Seq(Source)
    BY <2>2, <2>3 DEF Joined
  <2> QED BY <2>1, <2>4
<1>6. T = 0..n
  <2>1. T \in SUBSET (0..n)
    OBVIOUS
  <2> HIDE DEF T
  <2> QED BY <1>1, <1>4, <1>5, <2>1, Induction
<1> QED BY <1>1, <1>3, <1>6

\* Two lists of groups that show the same sources group by group show the same
\* sources.
LEMMA SameGroupsSameSources ==
  ASSUME NEW gs \in Seq(WellFormedGroups), NEW hs \in Seq(WellFormedGroups),
         DOMAIN gs = DOMAIN hs,
         \A k \in DOMAIN gs : SourcesOfGroup(gs[k]) = SourcesOfGroup(hs[k])
  PROVE  SourcesOf(gs) = SourcesOf(hs)
<1> DEFINE n == Len(gs)
<1>1. n \in Nat /\ n = Len(hs) /\ DOMAIN gs = 1..n
  OBVIOUS
<1>2. PICK f : SourcesAt(f, gs, n)
  BY SourcesOfAt
<1>3. PICK h : SourcesAt(h, hs, n)
  BY <1>1, SourcesOfAt
<1> DEFINE T == {k \in 0..n : f[k] = h[k]}
<1>4. 0 \in T
  BY <1>1, <1>2, <1>3 DEF SourcesAt, IsUpTo
<1>5. ASSUME NEW k \in 0..(n - 1), k \in T PROVE k + 1 \in T
  <2>1. k + 1 \in 0..n /\ k + 1 # 0 /\ (k + 1) - 1 = k /\ k + 1 \in DOMAIN gs
    BY <1>1
  <2>2. f[k + 1] = Joined(f[k], gs[k + 1])
    BY <1>2, <2>1 DEF SourcesAt, IsUpTo
  <2>3. h[k + 1] = Joined(h[k], hs[k + 1])
    BY <1>3, <2>1 DEF SourcesAt, IsUpTo
  <2>4. Joined(f[k], gs[k + 1]) = Joined(h[k], hs[k + 1])
    BY <1>5, <2>1 DEF Joined
  <2> QED BY <2>1, <2>2, <2>3, <2>4
<1>6. T = 0..n
  <2>1. T \in SUBSET (0..n)
    OBVIOUS
  <2> HIDE DEF T
  <2> QED BY <1>1, <1>4, <1>5, <2>1, Induction
<1>7. f[n] = h[n]
  BY <1>1, <1>6
<1> QED BY <1>2, <1>3, <1>7 DEF SourcesAt

\* The layout IBus names for an engine does not show, and neither does which
\* layout of a group is selected.
LEMMA EnsureLayoutShows ==
  ASSUME NEW g \in WellFormedGroups, NEW known
  PROVE  SourcesOfGroup(EnsureLayout(g, known)) = SourcesOfGroup(g)
<1>1. EnsureLayout(g, known).engine = g.engine
  BY DEF EnsureLayout, WellFormedGroups, Group
<1> QED BY <1>1 DEF SourcesOfGroup, EnsureLayout

\* A well-formed group always has a source to show as selected.
LEMMA SelectedLayoutKnown ==
  ASSUME NEW g \in WellFormedGroups, g.layouts # <<>>
  PROVE  SelectedLayout(g) \in Layouts
<1>1. g.layouts \in Seq(Layouts) /\ g.index \in Nat /\ g.index < Len(g.layouts)
  BY DEF WellFormedGroups, WellFormedGroup, Group
<1>2. g.index + 1 \in 1..Len(g.layouts)
  BY <1>1
<1> QED BY <1>1, <1>2 DEF SelectedLayout

-----------------------------------------------------------------------------
(* The manager.                                                            *)

Keymaps == [layouts : Seq(Layouts), index : Nat, by : {"kiosk", "backend"}]

Managers == [groups : Seq(WellFormedGroups), index : Nat,
             source : {"system", "session", "override"}, keymap : Keymaps,
             sync : BOOLEAN, asked : Engines \cup {NoEngine}, ok : BOOLEAN]

Envs == [locked : BOOLEAN, loaded : BOOLEAN, known : SUBSET Engines, up : BOOLEAN]

Sound(m) == m \in Managers /\ (m.index < Len(m.groups) \/ m.index = 0)

\* The groups gs show the sources that the groups hs show, group by group.
SameSources(gs, hs) ==
  /\ DOMAIN gs = DOMAIN hs
  /\ \A k \in DOMAIN hs : SourcesOfGroup(gs[k]) = SourcesOfGroup(hs[k])

\* r is sound and has the sources of m in groups like those of m.
SoundLike(r, m) == Sound(r) /\ SameSources(r.groups, m.groups)

-----------------------------------------------------------------------------
(* The parts of the record.                                                *)

LEMMA FlagsSound ==
  ASSUME NEW m, Sound(m), NEW b \in BOOLEAN
  PROVE  /\ SoundLike(m, m)
         /\ SoundLike([m EXCEPT !.ok = b], m)
         /\ SoundLike([m EXCEPT !.sync = b], m)
  BY DEF Sound, SoundLike, SameSources, Managers

LEMMA SoundLikeTransitive ==
  ASSUME NEW r, NEW q, NEW m, SoundLike(q, m), SoundLike(r, q)
  PROVE  SoundLike(r, m)
  BY DEF SoundLike, SameSources

LEMMA SourceSound ==
  ASSUME NEW m, Sound(m), NEW s \in {"system", "session", "override"}
  PROVE  SoundLike([m EXCEPT !.source = s], m)
  BY DEF Sound, SoundLike, SameSources, Managers

LEMMA IndexSound ==
  ASSUME NEW m, Sound(m), NEW k \in DOMAIN m.groups
  PROVE  SoundLike([m EXCEPT !.index = k - 1], m)
<1>1. m.groups \in Seq(WellFormedGroups) /\ k \in 1..Len(m.groups)
  BY DEF Sound, Managers
<1>2. k - 1 \in Nat /\ k - 1 < Len(m.groups)
  BY <1>1
<1> QED BY <1>2 DEF Sound, SoundLike, SameSources, Managers

LEMMA GroupSound ==
  ASSUME NEW m, Sound(m), NEW k \in DOMAIN m.groups, NEW g \in WellFormedGroups,
         SourcesOfGroup(g) = SourcesOfGroup(m.groups[k])
  PROVE  SoundLike([m EXCEPT !.groups[k] = g], m)
<1> DEFINE gs == [m.groups EXCEPT ![k] = g]
<1>1. m.groups \in Seq(WellFormedGroups)
  BY DEF Sound, Managers
<1>2. gs \in Seq(WellFormedGroups) /\ Len(gs) = Len(m.groups) /\ DOMAIN gs = DOMAIN m.groups
  BY <1>1
<1>3. [m EXCEPT !.groups[k] = g] = [m EXCEPT !.groups = gs]
  OBVIOUS
<1>4. SameSources(gs, m.groups)
  BY <1>1, <1>2 DEF SameSources
<1> HIDE DEF gs
<1> QED BY <1>2, <1>3, <1>4 DEF Sound, SoundLike, Managers

LEMMA KeymapSound ==
  ASSUME NEW m, Sound(m), NEW g \in WellFormedGroups
  PROVE  SoundLike([m EXCEPT !.keymap = Keymap(g)], m)
<1>1. Keymap(g) \in Keymaps
  BY DEF Keymap, Keymaps, WellFormedGroups, Group
<1> QED BY <1>1 DEF Sound, SoundLike, SameSources, Managers

LEMMA AskedSound ==
  ASSUME NEW m, Sound(m), NEW n \in Engines \cup {NoEngine}
  PROVE  SoundLike([m EXCEPT !.asked = n], m)
  BY DEF Sound, SoundLike, SameSources, Managers

\* The selected group is there whenever there are groups.
LEMMA SelectedExists ==
  ASSUME NEW m, Sound(m), HasGroups(m)
  PROVE  /\ m.index + 1 \in DOMAIN m.groups
         /\ Selected(m) \in WellFormedGroups
<1>1. m.groups \in Seq(WellFormedGroups) /\ m.groups # <<>> /\ m.index \in Nat
  BY DEF Sound, Managers, HasGroups
<1>2. Len(m.groups) \in Nat /\ Len(m.groups) # 0
  BY <1>1
<1>3. m.index + 1 \in 1..Len(m.groups)
  BY <1>1, <1>2 DEF Sound
<1> QED BY <1>1, <1>3 DEF Selected

-----------------------------------------------------------------------------
(* Activation.                                                             *)

LEMMA LeastInside ==
  ASSUME NEW S, S \subseteq Nat, S # {}
  PROVE  Least(S) \in S
<1>1. \E x \in S : \A y \in S : x <= y
  BY LeastExists
<1> QED BY <1>1 DEF Least

LEMMA ActivateSound ==
  ASSUME NEW m, Sound(m), NEW e \in Envs, NEW k \in DOMAIN m.groups
  PROVE  SoundLike(Activate(m, e, k), m)
<1> DEFINE g     == EnsureLayout(m.groups[k], e.known)
           n     == IF g.engine = NoEngine THEN DefaultEngine ELSE g.engine
           tried == [m EXCEPT !.groups[k] = g]
<1>1. m.groups[k] \in WellFormedGroups /\ e.known \in SUBSET Engines
  BY DEF Sound, Managers, Envs
<1>2. g \in WellFormedGroups
  BY <1>1, EnsureLayoutWellFormed
<1>3. n \in Engines
  BY <1>2, ManagerAssumption DEF WellFormedGroups, Group
<1>4. SoundLike(tried, m)
  BY <1>1, <1>2, GroupSound, EnsureLayoutShows
<1>5. CASE CanActivate(e, g)
  <2> DEFINE a == [tried EXCEPT !.asked = IF EngineStarts(e, n) THEN n ELSE @]
             b == [a EXCEPT !.keymap = Keymap(g)]
             c == [b EXCEPT !.ok = TRUE]
  <2>1. tried.asked \in Engines \cup {NoEngine}
    BY <1>4 DEF SoundLike, Sound, Managers
  <2>2. Activate(m, e, k) = c
    BY <1>4, <1>5 DEF Activate, SoundLike, Sound, Managers
  <2> HIDE DEF g, n, tried
  <2>3. SoundLike(a, tried)
    BY <1>3, <1>4, <2>1, AskedSound DEF SoundLike
  <2> HIDE DEF a
  <2>4. SoundLike(b, a)
    BY <1>2, <2>3, KeymapSound DEF SoundLike
  <2> HIDE DEF b
  <2>5. SoundLike(c, b)
    BY <2>4, FlagsSound DEF SoundLike
  <2> HIDE DEF c
  <2>6. SoundLike(b, tried)
    BY <2>3, <2>4, SoundLikeTransitive
  <2>7. SoundLike(c, m)
    BY <1>4, <2>5, <2>6, SoundLikeTransitive
  <2> QED BY <2>2, <2>7
<1>6. CASE ~ CanActivate(e, g)
  <2>1. Activate(m, e, k) = [tried EXCEPT !.ok = FALSE]
    BY <1>6 DEF Activate
  <2> HIDE DEF tried
  <2>2. SoundLike([tried EXCEPT !.ok = FALSE], tried)
    BY <1>4, FlagsSound DEF SoundLike
  <2> QED BY <1>4, <2>1, <2>2, SoundLikeTransitive
<1> QED BY <1>5, <1>6

LEMMA TriedSound ==
  ASSUME NEW m, Sound(m), NEW e \in Envs, NEW S
  PROVE  SoundLike(Tried(m, e, S), m)
<1> DEFINE gs == [k \in DOMAIN m.groups |->
                    IF k \in S THEN EnsureLayout(m.groups[k], e.known) ELSE m.groups[k]]
<1>1. m.groups \in Seq(WellFormedGroups) /\ e.known \in SUBSET Engines
  BY DEF Sound, Managers, Envs
<1>2. \A k \in DOMAIN m.groups : gs[k] \in WellFormedGroups
  BY <1>1, EnsureLayoutWellFormed
<1>3. DOMAIN m.groups = 1..Len(m.groups) /\ Len(m.groups) \in Nat
  BY <1>1
<1>4. gs \in Seq(WellFormedGroups) /\ Len(gs) = Len(m.groups) /\ DOMAIN gs = DOMAIN m.groups
  <2>1. gs \in [1..Len(m.groups) -> WellFormedGroups]
    BY <1>2, <1>3
  <2> HIDE DEF gs
  <2> QED BY <1>3, <2>1
<1>5. Tried(m, e, S) = [m EXCEPT !.groups = gs]
  BY DEF Tried
<1>6. SameSources(gs, m.groups)
  BY <1>1, EnsureLayoutShows DEF SameSources
<1> HIDE DEF gs
<1> QED BY <1>4, <1>5, <1>6 DEF Sound, SoundLike, Managers

LEMMA ActivateOneOfSound ==
  ASSUME NEW m, Sound(m), NEW e \in Envs, NEW S \in SUBSET DOMAIN m.groups, NEW p
  PROVE  SoundLike(ActivateOneOf(m, e, S, p), m)
<1> DEFINE able   == Able(m, e, S)
           k      == IF p \in able THEN p ELSE Least(able)
           passed == IF k = p THEN {} ELSE {j \in S : j < k}
<1>1. DOMAIN m.groups \subseteq Nat
  BY DEF Sound, Managers
<1>2. able \subseteq S
  BY DEF Able
<1>3. CASE able = {}
  <2> DEFINE t == Tried(m, e, S)
  <2>1. ActivateOneOf(m, e, S, p) = [t EXCEPT !.ok = FALSE]
    BY <1>3 DEF ActivateOneOf
  <2>2. SoundLike(t, m)
    BY TriedSound
  <2> HIDE DEF t
  <2>3. SoundLike([t EXCEPT !.ok = FALSE], t)
    BY <2>2, FlagsSound DEF SoundLike
  <2> QED BY <2>1, <2>2, <2>3, SoundLikeTransitive
<1>4. CASE able # {}
  <2>1. k \in DOMAIN m.groups
    BY <1>1, <1>2, <1>4, LeastInside
  <2> DEFINE t == Tried(m, e, passed)
             a == Activate(t, e, k)
             b == [a EXCEPT !.index = k - 1]
             c == [b EXCEPT !.sync = TRUE]
  <2>2. ActivateOneOf(m, e, S, p) = c
    BY <1>4 DEF ActivateOneOf
  <2> HIDE DEF k, passed
  <2>3. SoundLike(t, m)
    BY TriedSound
  <2> HIDE DEF t
  <2>4. SoundLike(a, t)
    BY <2>1, <2>3, ActivateSound DEF SoundLike, SameSources
  <2> HIDE DEF a
  <2>5. SoundLike(b, a)
    BY <2>1, <2>3, <2>4, IndexSound DEF SoundLike, SameSources
  <2> HIDE DEF b
  <2>6. SoundLike(c, b)
    BY <2>5, FlagsSound DEF SoundLike
  <2> HIDE DEF c
  <2>7. SoundLike(a, m)
    BY <2>3, <2>4, SoundLikeTransitive
  <2>8. SoundLike(b, m)
    BY <2>5, <2>7, SoundLikeTransitive
  <2> QED BY <2>2, <2>6, <2>8, SoundLikeTransitive
<1> QED BY <1>3, <1>4

LEMMA ActivateFirstSound ==
  ASSUME NEW m, Sound(m), NEW e \in Envs
  PROVE  SoundLike(ActivateFirst(m, e), m)
<1>1. CASE e.locked
  BY <1>1, FlagsSound DEF ActivateFirst
<1>2. CASE ~ e.locked
  <2>1. ActivateFirst(m, e) = ActivateOneOf(m, e, DOMAIN m.groups, 0)
    BY <1>2 DEF ActivateFirst
  <2>2. SoundLike(ActivateOneOf(m, e, DOMAIN m.groups, 0), m)
    BY ActivateOneOfSound
  <2> QED BY <2>1, <2>2
<1> QED BY <1>1, <1>2

LEMMA ActivateWithEngineSound ==
  ASSUME NEW m, Sound(m), NEW e \in Envs, NEW n
  PROVE  SoundLike(ActivateWithEngine(m, e, n), m)
<1> DEFINE S == {k \in DOMAIN m.groups : m.groups[k].engine = n}
<1>1. S \in SUBSET DOMAIN m.groups
  OBVIOUS
<1>2. ActivateWithEngine(m, e, n) = ActivateOneOf(m, e, S, m.index + 1)
  BY DEF ActivateWithEngine
<1> HIDE DEF S
<1> QED BY <1>1, <1>2, ActivateOneOfSound

LEMMA ActivateWithLayoutSound ==
  ASSUME NEW m, Sound(m), NEW e \in Envs, NEW l
  PROVE  SoundLike(ActivateWithLayout(m, e, l), m)
<1> DEFINE holders == {k \in DOMAIN m.groups : HoldsLayout(m.groups[k], l)}
           able    == Able(m, e, holders)
           k       == IF m.index + 1 \in able THEN m.index + 1 ELSE Least(able)
<1>1. CASE e.locked \/ able = {}
  <2>1. ActivateWithLayout(m, e, l) = [m EXCEPT !.ok = FALSE]
    BY <1>1 DEF ActivateWithLayout
  <2> QED BY <2>1, FlagsSound
<1>2. CASE ~ (e.locked \/ able = {})
  <2>1. able \subseteq Nat
    BY DEF Able, Sound, Managers
  <2>2. k \in able
    <3> HIDE DEF able
    <3> QED BY <1>2, <2>1, LeastInside
  <2>3. k \in DOMAIN m.groups /\ HoldsLayout(m.groups[k], l)
    BY <2>2 DEF Able
  <2> DEFINE t == [m EXCEPT !.groups[k] = SwitchToLayout(m.groups[k], l)]
  <2>4. ActivateWithLayout(m, e, l) = ActivateOneOf(t, e, {k}, k)
    BY <1>2 DEF ActivateWithLayout
  <2> HIDE DEF k
  <2>5. /\ SwitchToLayout(m.groups[k], l) \in WellFormedGroups
        /\ SourcesOfGroup(SwitchToLayout(m.groups[k], l)) = SourcesOfGroup(m.groups[k])
    <3>1. m.groups[k] \in WellFormedGroups
      BY <2>3 DEF Sound, Managers
    <3> QED BY <2>3, <3>1, SwitchToLayoutWellFormed, SwitchesShow
  <2>6. SoundLike(t, m)
    BY <2>3, <2>5, GroupSound
  <2>7. {k} \in SUBSET DOMAIN t.groups
    BY <2>3, <2>6 DEF SoundLike, SameSources
  <2> HIDE DEF t
  <2>8. SoundLike(ActivateOneOf(t, e, {k}, k), t)
    BY <2>6, <2>7, ActivateOneOfSound DEF SoundLike
  <2> QED BY <2>4, <2>6, <2>8, SoundLikeTransitive
<1> QED BY <1>1, <1>2

LEMMA ActivateBestSound ==
  ASSUME NEW m, Sound(m), NEW e \in Envs, NEW n, NEW l
  PROVE  SoundLike(ActivateBest(m, e, n, l), m)
<1> DEFINE wanted == IF n # NoEngine THEN ActivateWithEngine(m, e, n)
                     ELSE IF l # NoLayout THEN ActivateWithLayout(m, e, l)
                     ELSE [m EXCEPT !.ok = FALSE]
<1>1. SoundLike(wanted, m)
  BY ActivateWithEngineSound, ActivateWithLayoutSound, FlagsSound
<1>2. \/ ActivateBest(m, e, n, l) = [m EXCEPT !.ok = FALSE]
      \/ ActivateBest(m, e, n, l) = wanted
      \/ ActivateBest(m, e, n, l) = ActivateFirst(wanted, e)
  BY DEF ActivateBest
<1> HIDE DEF wanted
<1>3. SoundLike(ActivateFirst(wanted, e), m)
  <2>1. Sound(wanted)
    BY <1>1 DEF SoundLike
  <2> QED BY <1>1, <2>1, ActivateFirstSound, SoundLikeTransitive
<1> QED BY <1>1, <1>2, <1>3, FlagsSound

LEMMA ActivateSelectedSound ==
  ASSUME NEW m, Sound(m), NEW e \in Envs
  PROVE  SoundLike(ActivateSelected(m, e), m)
<1>1. CASE e.locked \/ ~ HasGroups(m)
  BY <1>1, FlagsSound DEF ActivateSelected
<1>2. CASE ~ (e.locked \/ ~ HasGroups(m))
  <2> DEFINE done == Activate(m, e, m.index + 1)
  <2>1. ActivateSelected(m, e) = [done EXCEPT !.sync = done.sync \/ done.ok]
    BY <1>2 DEF ActivateSelected
  <2>2. SoundLike(done, m)
    BY <1>2, SelectedExists, ActivateSound
  <2> HIDE DEF done
  <2>3. (done.sync \/ done.ok) \in BOOLEAN
    OBVIOUS
  <2>4. SoundLike([done EXCEPT !.sync = done.sync \/ done.ok], done)
    BY <2>2, <2>3, FlagsSound DEF SoundLike
  <2> QED BY <2>1, <2>2, <2>4, SoundLikeTransitive
<1> QED BY <1>1, <1>2

-----------------------------------------------------------------------------
(* Configuration.                                                          *)

LEMMA ReplacedSound ==
  ASSUME NEW m, Sound(m), NEW c \in Seq(Source)
  PROVE  Sound(Replaced(m, c))
<1>1. GroupsOf(c) \in Seq(WellFormedGroups)
  BY GroupsOfWellFormed
<1> QED BY <1>1 DEF Replaced, Sound, Managers

\* Setting input sources leaves well-formed groups and a selected position among
\* them, whatever was selected before and whether or not anything can be activated.
THEOREM SetInputSourcesSound ==
  ASSUME NEW m, Sound(m), NEW e \in Envs, NEW c \in Seq(Source)
  PROVE  Sound(SetInputSources(m, e, c))
<1> DEFINE old  == IF HasGroups(m) THEN Selected(m) ELSE NewGroup
           best == ActivateBest(Replaced(m, c), e, old.engine, SelectedLayout(old))
<1>1. SetInputSources(m, e, c) = [best EXCEPT !.sync = TRUE]
  BY DEF SetInputSources
<1> HIDE DEF old
<1>2. Sound(best)
  BY ReplacedSound, ActivateBestSound DEF SoundLike
<1> HIDE DEF best
<1> QED BY <1>1, <1>2, FlagsSound DEF SoundLike

LEMMA SetFromLocalesSound ==
  ASSUME NEW m, Sound(m), NEW e \in Envs, NEW c \in Seq(Source)
  PROVE  Sound(SetFromLocales(m, e, c))
<1> DEFINE new == Replaced(m, c)
           set == IF e.locked THEN [new EXCEPT !.ok = TRUE] ELSE ActivateFirst(new, e)
           own == [set EXCEPT !.source = "override"]
<1>1. SetFromLocales(m, e, c) = [own EXCEPT !.sync = TRUE]
  BY DEF SetFromLocales
<1>2. Sound(new)
  BY ReplacedSound
<1> HIDE DEF new
<1>3. Sound(set)
  BY <1>2, FlagsSound, ActivateFirstSound DEF SoundLike
<1> HIDE DEF set
<1>4. Sound(own)
  BY <1>3, SourceSound DEF SoundLike
<1> HIDE DEF own
<1> QED BY <1>1, <1>4, FlagsSound DEF SoundLike

LEMMA SetFromSystemSound ==
  ASSUME NEW m, Sound(m), NEW e \in Envs, NEW c \in Seq(Source) \cup {NoConfig}
  PROVE  Sound(SetFromSystem(m, e, c))
<1>1. CASE c = NoConfig
  BY <1>1, FlagsSound DEF SetFromSystem, SoundLike
<1>2. CASE c # NoConfig
  <2> DEFINE set  == ActivateFirst(Replaced(m, c), e)
             own  == IF set.ok THEN set ELSE SetFromLocales(set, e, LocaleSources)
             from == [own EXCEPT !.source = "system"]
  <2>1. SetFromSystem(m, e, c) = [from EXCEPT !.sync = TRUE]
    BY <1>2 DEF SetFromSystem
  <2>2. Sound(set)
    BY <1>2, ReplacedSound, ActivateFirstSound DEF SoundLike
  <2> HIDE DEF set
  <2>3. Sound(own)
    BY <2>2, SetFromLocalesSound, ManagerAssumption
  <2> HIDE DEF own
  <2>4. Sound(from)
    BY <2>3, SourceSound DEF SoundLike
  <2> HIDE DEF from
  <2> QED BY <2>1, <2>4, FlagsSound DEF SoundLike
<1> QED BY <1>1, <1>2

LEMMA SetFromSessionSound ==
  ASSUME NEW m, Sound(m), NEW e \in Envs,
         NEW c \in Seq(Source), NEW d \in Seq(Source) \cup {NoConfig}
  PROVE  Sound(SetFromSession(m, e, c, d))
<1> DEFINE set  == SetInputSources(m, e, c)
           from == [set EXCEPT !.source = "system"]
<1>1. \/ SetFromSession(m, e, c, d) = [set EXCEPT !.source = "session"]
      \/ SetFromSession(m, e, c, d) = SetFromSystem(from, e, d)
  BY DEF SetFromSession
<1>2. Sound(set)
  BY SetInputSourcesSound
<1> HIDE DEF set
<1>3. Sound([set EXCEPT !.source = "session"]) /\ Sound(from)
  BY <1>2, SourceSound DEF SoundLike
<1> HIDE DEF from
<1>4. Sound(SetFromSystem(from, e, d))
  BY <1>3, SetFromSystemSound
<1> QED BY <1>1, <1>3, <1>4

-----------------------------------------------------------------------------
(* Switching.                                                              *)

LEMMA SwitchedSound ==
  ASSUME NEW m, Sound(m), NEW k \in DOMAIN m.groups, NEW g \in WellFormedGroups,
         SourcesOfGroup(g) = SourcesOfGroup(m.groups[k])
  PROVE  SoundLike(Switched(m, k, g), m)
<1> DEFINE t == [m EXCEPT !.groups[k] = g]
<1>1. \/ Switched(m, k, g) = t
      \/ Switched(m, k, g) = [t EXCEPT !.keymap = Keymap(g)]
  BY DEF Switched, Sound, Managers
<1>2. SoundLike(t, m)
  BY GroupSound
<1> HIDE DEF t
<1>3. SoundLike([t EXCEPT !.keymap = Keymap(g)], t)
  BY <1>2, KeymapSound DEF SoundLike
<1> QED BY <1>1, <1>2, <1>3, SoundLikeTransitive

\* Moving past the last group comes back to the first one.
LEMMA CycleForwardSound ==
  ASSUME NEW m, Sound(m), HasGroups(m), NEW e \in Envs
  PROVE  SoundLike(CycleForward(m, e), m)
<1>1. m.groups \in Seq(WellFormedGroups) /\ m.groups # <<>> /\ m.index \in Nat
  BY DEF Sound, Managers, HasGroups
<1>2. CASE m.index + 1 < Len(m.groups)
  <2> DEFINE t == [m EXCEPT !.index = (m.index + 2) - 1]
  <2>1. m.index + 2 \in DOMAIN m.groups
    BY <1>1, <1>2
  <2>2. SoundLike(t, m)
    BY <2>1, IndexSound
  <2>3. CycleForward(m, e) = ActivateSelected(t, e)
    <3>1. (m.index + 2) - 1 = m.index + 1
      BY <1>1
    <3> QED BY <1>2, <3>1 DEF CycleForward
  <2> HIDE DEF t
  <2>4. SoundLike(ActivateSelected(t, e), t)
    BY <2>2, ActivateSelectedSound DEF SoundLike
  <2> QED BY <2>2, <2>3, <2>4, SoundLikeTransitive
<1>3. CASE ~ (m.index + 1 < Len(m.groups))
  <2> DEFINE t == [m EXCEPT !.index = 1 - 1]
             first == SwitchToFirst(m.groups[1])
  <2>1. 1 \in DOMAIN m.groups
    BY <1>1
  <2>2. SoundLike(t, m)
    BY <2>1, IndexSound
  <2>3. first \in WellFormedGroups /\ SourcesOfGroup(first) = SourcesOfGroup(t.groups[1])
    <3>1. t.groups = m.groups /\ m.groups[1] \in WellFormedGroups
      BY <1>1, <2>1 DEF Sound, Managers
    <3> QED BY <3>1, SwitchesWellFormed, SwitchesShow
  <2>4. CycleForward(m, e) = ActivateSelected(Switched(t, 1, first), e)
    BY <1>3 DEF CycleForward
  <2> HIDE DEF t, first
  <2>5. SoundLike(Switched(t, 1, first), t)
    BY <2>1, <2>2, <2>3, SwitchedSound DEF SoundLike, SameSources
  <2>6. SoundLike(ActivateSelected(Switched(t, 1, first), e), Switched(t, 1, first))
    BY <2>5, ActivateSelectedSound DEF SoundLike
  <2> QED BY <2>2, <2>4, <2>5, <2>6, SoundLikeTransitive
<1> QED BY <1>2, <1>3

\* Moving before the first group comes back to the last one.
LEMMA CycleBackwardSound ==
  ASSUME NEW m, Sound(m), HasGroups(m), NEW e \in Envs
  PROVE  SoundLike(CycleBackward(m, e), m)
<1>1. m.groups \in Seq(WellFormedGroups) /\ m.groups # <<>> /\ m.index \in Nat
  BY DEF Sound, Managers, HasGroups
<1>2. m.index < Len(m.groups)
  BY SelectedExists, <1>1
<1>3. CASE m.index > 0
  <2> DEFINE t == [m EXCEPT !.index = m.index - 1]
  <2>1. m.index \in DOMAIN m.groups
    BY <1>1, <1>2, <1>3
  <2>2. SoundLike(t, m)
    BY <2>1, IndexSound
  <2>3. CycleBackward(m, e) = ActivateSelected(t, e)
    BY <1>3 DEF CycleBackward
  <2> HIDE DEF t
  <2>4. SoundLike(ActivateSelected(t, e), t)
    BY <2>2, ActivateSelectedSound DEF SoundLike
  <2> QED BY <2>2, <2>3, <2>4, SoundLikeTransitive
<1>4. CASE ~ (m.index > 0)
  <2> DEFINE n == Len(m.groups)
             t == [m EXCEPT !.index = n - 1]
             last == SwitchToLast(m.groups[n])
  <2>1. n \in DOMAIN m.groups
    BY <1>1
  <2>2. SoundLike(t, m)
    BY <2>1, IndexSound
  <2>3. last \in WellFormedGroups /\ SourcesOfGroup(last) = SourcesOfGroup(t.groups[n])
    <3>1. t.groups = m.groups /\ m.groups[n] \in WellFormedGroups
      BY <1>1, <2>1 DEF Sound, Managers
    <3> QED BY <3>1, SwitchesWellFormed, SwitchesShow
  <2>4. CycleBackward(m, e) = ActivateSelected(Switched(t, n, last), e)
    BY <1>4 DEF CycleBackward
  <2> HIDE DEF n, t, last
  <2>5. SoundLike(Switched(t, n, last), t)
    BY <2>1, <2>2, <2>3, SwitchedSound DEF SoundLike, SameSources
  <2>6. SoundLike(ActivateSelected(Switched(t, n, last), e), Switched(t, n, last))
    BY <2>5, ActivateSelectedSound DEF SoundLike
  <2> QED BY <2>2, <2>4, <2>5, <2>6, SoundLikeTransitive
<1> QED BY <1>3, <1>4

\* Switching to the next source, inside a group or across to another one, past the
\* last one included, stays inside the list.
THEOREM SwitchToNextSourceSound ==
  ASSUME NEW m, Sound(m), NEW e \in Envs
  PROVE  /\ Sound(SwitchToNextSource(m, e))
         /\ SameSources(SwitchToNextSource(m, e).groups, m.groups)
<1>1. CASE ~ HasGroups(m)
  BY <1>1 DEF SwitchToNextSource, SameSources
<1>2. CASE HasGroups(m)
  <2> DEFINE g == Selected(m)
             moved == IF HasNext(g) THEN Switched(m, m.index + 1, SwitchToNext(g))
                                    ELSE CycleForward(m, e)
  <2>1. SwitchToNextSource(m, e) = [moved EXCEPT !.sync = TRUE]
    BY <1>2 DEF SwitchToNextSource
  <2>2. g \in WellFormedGroups /\ m.index + 1 \in DOMAIN m.groups
    BY <1>2, SelectedExists
  <2>3. g = m.groups[m.index + 1]
    BY DEF Selected
  <2> HIDE DEF g
  <2>4. HasNext(g) => SoundLike(Switched(m, m.index + 1, SwitchToNext(g)), m)
    BY <2>2, <2>3, SwitchesWellFormed, SwitchesShow, SwitchedSound
  <2>5. SoundLike(moved, m)
    BY <1>2, <2>4, CycleForwardSound
  <2> HIDE DEF moved
  <2>6. SoundLike([moved EXCEPT !.sync = TRUE], moved)
    BY <2>5, FlagsSound DEF SoundLike
  <2> QED BY <2>1, <2>5, <2>6, SoundLikeTransitive DEF SoundLike
<1> QED BY <1>1, <1>2

\* Switching to the previous source stays inside the list, in front of the first
\* group and the first layout included.
THEOREM SwitchToPreviousSourceSound ==
  ASSUME NEW m, Sound(m), NEW e \in Envs
  PROVE  /\ Sound(SwitchToPreviousSource(m, e))
         /\ SameSources(SwitchToPreviousSource(m, e).groups, m.groups)
<1>1. CASE ~ HasGroups(m)
  BY <1>1 DEF SwitchToPreviousSource, SameSources
<1>2. CASE HasGroups(m)
  <2> DEFINE g == Selected(m)
             moved == IF HasPrevious(g) THEN Switched(m, m.index + 1, SwitchToPrevious(g))
                                        ELSE CycleBackward(m, e)
  <2>1. SwitchToPreviousSource(m, e) = [moved EXCEPT !.sync = TRUE]
    BY <1>2 DEF SwitchToPreviousSource
  <2>2. g \in WellFormedGroups /\ m.index + 1 \in DOMAIN m.groups
    BY <1>2, SelectedExists
  <2>3. g = m.groups[m.index + 1]
    BY DEF Selected
  <2> HIDE DEF g
  <2>4. HasPrevious(g) => SoundLike(Switched(m, m.index + 1, SwitchToPrevious(g)), m)
    BY <2>2, <2>3, SwitchesWellFormed, SwitchesShow, SwitchedSound
  <2>5. SoundLike(moved, m)
    BY <1>2, <2>4, CycleBackwardSound
  <2> HIDE DEF moved
  <2>6. SoundLike([moved EXCEPT !.sync = TRUE], moved)
    BY <2>5, FlagsSound DEF SoundLike
  <2> QED BY <2>1, <2>5, <2>6, SoundLikeTransitive DEF SoundLike
<1> QED BY <1>1, <1>2

LEMMA SelectSourceSound ==
  ASSUME NEW m, Sound(m), NEW e \in Envs, NEW s \in Source
  PROVE  SoundLike(SelectSource(m, e, s), m)
  BY ActivateBestSound DEF SelectSource

-----------------------------------------------------------------------------
(* What the engine manager reports.                                        *)

LEMMA MaybeActivateHigherPrioritySound ==
  ASSUME NEW m, Sound(m), NEW e \in Envs
  PROVE  SoundLike(MaybeActivateHigherPriority(m, e), m)
<1> DEFINE leading == {k \in 1..m.index : \A j \in 1..k : m.groups[j].engine # NoEngine}
           a == ActivateOneOf(m, e, leading, 0)
<1>1. leading \in SUBSET DOMAIN m.groups
  <2>1. m.groups \in Seq(WellFormedGroups) /\ m.index \in Nat
    BY DEF Sound, Managers
  <2>2. m.index <= Len(m.groups)
    BY <2>1 DEF Sound
  <2>3. 1..m.index \subseteq DOMAIN m.groups
    BY <2>1, <2>2
  <2> QED BY <2>3
<1>2. \/ MaybeActivateHigherPriority(m, e) = [a EXCEPT !.index = m.index]
      \/ MaybeActivateHigherPriority(m, e) = ActivateSelected(Tried(m, e, leading), e)
  BY DEF MaybeActivateHigherPriority
<1> HIDE DEF leading
<1>3. SoundLike(a, m)
  BY <1>1, ActivateOneOfSound
<1> HIDE DEF a
<1>4. SoundLike([a EXCEPT !.index = m.index], m)
  <2>1. Len(a.groups) = Len(m.groups)
    BY <1>3 DEF SoundLike, SameSources, Sound, Managers
  <2> QED BY <1>3, <2>1 DEF SoundLike, Sound, Managers
<1>5. SoundLike(ActivateSelected(Tried(m, e, leading), e), m)
  <2>1. SoundLike(Tried(m, e, leading), m)
    BY TriedSound
  <2>2. SoundLike(ActivateSelected(Tried(m, e, leading), e), Tried(m, e, leading))
    BY <2>1, ActivateSelectedSound DEF SoundLike
  <2> QED BY <2>1, <2>2, SoundLikeTransitive
<1> QED BY <1>2, <1>4, <1>5

LEMMA OnIsLoadedChangedSound ==
  ASSUME NEW m, Sound(m), NEW e \in Envs
  PROVE  SoundLike(OnIsLoadedChanged(m, e), m)
  BY MaybeActivateHigherPrioritySound, ActivateFirstSound, FlagsSound DEF OnIsLoadedChanged

LEMMA OnActiveEngineChangedSound ==
  ASSUME NEW m, Sound(m), NEW e \in Envs, NEW n
  PROVE  SoundLike(OnActiveEngineChanged(m, e, n), m)
  BY ActivateWithEngineSound, ActivateFirstSound, FlagsSound DEF OnActiveEngineChanged

LEMMA SelectedSourceTyped ==
  ASSUME NEW m, Sound(m), HasGroups(m)
  PROVE  SelectedSource(m) \in Source
<1> DEFINE g == Selected(m)
<1>1. g \in WellFormedGroups
  BY SelectedExists
<1>2. SelectedSource(m) = IF g.engine # NoEngine THEN Ibus(g.engine) ELSE Xkb(SelectedLayout(g))
  BY DEF SelectedSource
<1> HIDE DEF g
<1>3. CASE g.engine # NoEngine
  BY <1>1, <1>2, <1>3 DEF WellFormedGroups, Group, Ibus, Source
<1>4. CASE g.engine = NoEngine
  <2>1. Len(g.layouts) \in 1..MaxLayouts
    BY <1>1, <1>4 DEF WellFormedGroups, WellFormedGroup
  <2>2. g.layouts # <<>>
    BY <2>1
  <2>3. SelectedLayout(g) \in Layouts
    BY <1>1, <2>2, SelectedLayoutKnown
  <2> QED BY <1>2, <1>4, <2>3 DEF Xkb, Source
<1> QED BY <1>3, <1>4

-----------------------------------------------------------------------------
(* The locked keymap. Below its own check of the lock, or the one of what  *)
(* it calls, no operation reaches the keymap.                              *)

\* r is sound and has the keymap of m.
Keeps(r, m) == Sound(r) /\ r.keymap = m.keymap

LEMMA FlagsKeep ==
  ASSUME NEW m, NEW q, Keeps(q, m), NEW b \in BOOLEAN
  PROVE  Keeps([q EXCEPT !.ok = b], m) /\ Keeps([q EXCEPT !.sync = b], m)
  BY DEF Keeps, Sound, Managers

LEMMA SourceKeeps ==
  ASSUME NEW m, NEW q, Keeps(q, m), NEW s \in {"system", "session", "override"}
  PROVE  Keeps([q EXCEPT !.source = s], m)
  BY DEF Keeps, Sound, Managers

LEMMA ReplacedKeeps ==
  ASSUME NEW m, Sound(m), NEW c \in Seq(Source)
  PROVE  Keeps(Replaced(m, c), m)
<1>1. Replaced(m, c).keymap = m.keymap
  BY DEF Replaced, Sound, Managers
<1> QED BY <1>1, ReplacedSound DEF Keeps

LEMMA KeepsTransitive ==
  ASSUME NEW r, NEW q, NEW m, Keeps(q, m), Sound(q) => Keeps(r, q)
  PROVE  Keeps(r, m)
  BY DEF Keeps

LEMMA SetInputSourcesLocked ==
  ASSUME NEW m, Sound(m), NEW e \in Envs, e.locked, NEW c \in Seq(Source)
  PROVE  Keeps(SetInputSources(m, e, c), m)
<1> DEFINE r    == Replaced(m, c)
           best == [r EXCEPT !.ok = FALSE]
<1>1. SetInputSources(m, e, c) = [best EXCEPT !.sync = TRUE]
  BY DEF SetInputSources, ActivateBest
<1>2. Keeps(r, m)
  BY ReplacedKeeps
<1> HIDE DEF r
<1>3. Keeps(best, m)
  BY <1>2, FlagsKeep
<1> HIDE DEF best
<1> QED BY <1>1, <1>3, FlagsKeep

LEMMA SetFromLocalesLocked ==
  ASSUME NEW m, Sound(m), NEW e \in Envs, e.locked, NEW c \in Seq(Source)
  PROVE  Keeps(SetFromLocales(m, e, c), m)
<1> DEFINE r   == Replaced(m, c)
           set == [r EXCEPT !.ok = TRUE]
           own == [set EXCEPT !.source = "override"]
<1>1. SetFromLocales(m, e, c) = [own EXCEPT !.sync = TRUE]
  BY DEF SetFromLocales
<1>2. Keeps(r, m)
  BY ReplacedKeeps
<1> HIDE DEF r
<1>3. Keeps(set, m)
  BY <1>2, FlagsKeep
<1> HIDE DEF set
<1>4. Keeps(own, m)
  BY <1>3, SourceKeeps
<1> HIDE DEF own
<1> QED BY <1>1, <1>4, FlagsKeep

LEMMA SetFromSystemLocked ==
  ASSUME NEW m, Sound(m), NEW e \in Envs, e.locked, NEW c \in Seq(Source) \cup {NoConfig}
  PROVE  Keeps(SetFromSystem(m, e, c), m)
<1>1. CASE c = NoConfig
  BY <1>1, FlagsKeep DEF SetFromSystem, Keeps
<1>2. CASE c # NoConfig
  <2> DEFINE r    == Replaced(m, c)
             set  == [r EXCEPT !.ok = FALSE]
             own  == SetFromLocales(set, e, LocaleSources)
             from == [own EXCEPT !.source = "system"]
  <2>1. Keeps(r, m)
    BY <1>2, ReplacedKeeps
  <2>2. r.ok \in BOOLEAN /\ [r EXCEPT !.ok = FALSE].ok = FALSE
    BY <2>1 DEF Keeps, Sound, Managers
  <2>3. SetFromSystem(m, e, c) = [from EXCEPT !.sync = TRUE]
    BY <1>2, <2>2 DEF SetFromSystem, ActivateFirst
  <2> HIDE DEF r
  <2>4. Keeps(set, m)
    BY <2>1, FlagsKeep
  <2> HIDE DEF set
  <2>5. Keeps(own, m)
    BY <2>4, SetFromLocalesLocked, KeepsTransitive, ManagerAssumption
  <2> HIDE DEF own
  <2>6. Keeps(from, m)
    BY <2>5, SourceKeeps
  <2> HIDE DEF from
  <2> QED BY <2>3, <2>6, FlagsKeep
<1> QED BY <1>1, <1>2

LEMMA SetFromSessionLocked ==
  ASSUME NEW m, Sound(m), NEW e \in Envs, e.locked,
         NEW c \in Seq(Source), NEW d \in Seq(Source) \cup {NoConfig}
  PROVE  Keeps(SetFromSession(m, e, c, d), m)
<1> DEFINE set  == SetInputSources(m, e, c)
           from == [set EXCEPT !.source = "system"]
<1>1. \/ SetFromSession(m, e, c, d) = [set EXCEPT !.source = "session"]
      \/ SetFromSession(m, e, c, d) = SetFromSystem(from, e, d)
  BY DEF SetFromSession
<1>2. Keeps(set, m)
  BY SetInputSourcesLocked
<1> HIDE DEF set
<1>3. Keeps(from, m) /\ Keeps([set EXCEPT !.source = "session"], m)
  BY <1>2, SourceKeeps
<1> HIDE DEF from
<1>4. Keeps(SetFromSystem(from, e, d), m)
  BY <1>3, SetFromSystemLocked, KeepsTransitive
<1> QED BY <1>1, <1>3, <1>4

\* Signals of the engine manager do nothing while the keymap is locked.
LEMMA SignalsLocked ==
  ASSUME NEW m, NEW e, e.locked, NEW n
  PROVE  OnIsLoadedChanged(m, e) = m /\ OnActiveEngineChanged(m, e, n) = m
  BY DEF OnIsLoadedChanged, OnActiveEngineChanged

-----------------------------------------------------------------------------
(* What D-Bus clients are shown. An operation publishes what it changes:   *)
(* it queues a synchronisation, or nothing that is shown changed.          *)

Shows(r, m) == DOMAIN m.groups # {} => SelectedSource(r) = SelectedSource(m)

Publishes(r, m) == SoundLike(r, m) /\ (r.sync \/ (r.sync = m.sync /\ Shows(r, m)))

LEMMA PublishesTransitive ==
  ASSUME NEW r, NEW q, NEW m, Publishes(q, m), Publishes(r, q)
  PROVE  Publishes(r, m)
<1>1. SoundLike(r, m) /\ DOMAIN q.groups = DOMAIN m.groups
  BY SoundLikeTransitive DEF Publishes, SoundLike, SameSources
<1>2. CASE r.sync
  BY <1>1, <1>2 DEF Publishes
<1>3. CASE ~ r.sync
  <2>1. r.sync = q.sync /\ Shows(r, q) /\ q.sync = m.sync /\ Shows(q, m)
    BY <1>3 DEF Publishes
  <2>2. Shows(r, m)
    BY <1>1, <2>1 DEF Shows
  <2> QED BY <1>1, <2>1, <2>2 DEF Publishes
<1> QED BY <1>2, <1>3

LEMMA FlagsPublish ==
  ASSUME NEW m, Sound(m), NEW b \in BOOLEAN
  PROVE  Publishes(m, m) /\ Publishes([m EXCEPT !.ok = b], m)
<1>1. SoundLike(m, m) /\ SoundLike([m EXCEPT !.ok = b], m)
  BY FlagsSound
<1> QED BY <1>1 DEF Publishes, Shows, SelectedSource, Selected, Sound, Managers

LEMMA KeymapPublishes ==
  ASSUME NEW m, Sound(m), NEW g \in WellFormedGroups
  PROVE  Publishes([m EXCEPT !.keymap = Keymap(g)], m)
<1>1. SoundLike([m EXCEPT !.keymap = Keymap(g)], m)
  BY KeymapSound
<1> QED BY <1>1 DEF Publishes, Shows, SelectedSource, Selected, Sound, Managers

LEMMA AskedPublishes ==
  ASSUME NEW m, Sound(m), NEW n \in Engines \cup {NoEngine}
  PROVE  Publishes([m EXCEPT !.asked = n], m)
<1>1. SoundLike([m EXCEPT !.asked = n], m)
  BY AskedSound
<1> QED BY <1>1 DEF Publishes, Shows, SelectedSource, Selected, Sound, Managers

\* Groups that only learned the layout of their engine.
LEMMA EnsuredPublish ==
  ASSUME NEW m, Sound(m), NEW gs, SoundLike([m EXCEPT !.groups = gs], m), NEW known,
         \A k \in DOMAIN m.groups : gs[k] \in {m.groups[k], EnsureLayout(m.groups[k], known)}
  PROVE  Publishes([m EXCEPT !.groups = gs], m)
<1> DEFINE r == [m EXCEPT !.groups = gs]
<1>1. r.groups = gs /\ r.index = m.index /\ r.sync = m.sync
  BY DEF Sound, Managers
<1>2. m.groups \in Seq(WellFormedGroups)
  BY DEF Sound, Managers
<1>3. ASSUME DOMAIN m.groups # {} PROVE SelectedSource(r) = SelectedSource(m)
  <2> DEFINE g == Selected(m)
             h == Selected(r)
  <2>1. m.index + 1 \in DOMAIN m.groups /\ g \in WellFormedGroups
    BY <1>3, SelectedExists DEF HasGroups
  <2>2. h = g \/ h = EnsureLayout(g, known)
    BY <1>1, <2>1 DEF Selected
  <2> HIDE DEF r
  <2>3. SelectedSource(r) = (IF h.engine # NoEngine THEN Ibus(h.engine) ELSE Xkb(SelectedLayout(h)))
        /\ SelectedSource(m) = (IF g.engine # NoEngine THEN Ibus(g.engine) ELSE Xkb(SelectedLayout(g)))
    BY DEF SelectedSource
  <2> HIDE DEF g, h
  <2>4. h.engine = g.engine /\ (g.engine = NoEngine => h = g)
    BY <2>1, <2>2 DEF EnsureLayout, WellFormedGroups, Group
  <2> QED BY <2>3, <2>4
<1> QED BY <1>1, <1>3 DEF Publishes, Shows

LEMMA ActivatePublishes ==
  ASSUME NEW m, Sound(m), NEW e \in Envs, NEW k \in DOMAIN m.groups
  PROVE  Publishes(Activate(m, e, k), m)
<1> DEFINE g  == EnsureLayout(m.groups[k], e.known)
           n  == IF g.engine = NoEngine THEN DefaultEngine ELSE g.engine
           gs == [m.groups EXCEPT ![k] = g]
           tried == [m EXCEPT !.groups = gs]
<1>1. m.groups[k] \in WellFormedGroups /\ e.known \in SUBSET Engines
  BY DEF Sound, Managers, Envs
<1>2. g \in WellFormedGroups /\ n \in Engines
  <2>1. g \in WellFormedGroups
    BY <1>1, EnsureLayoutWellFormed
  <2> QED BY <2>1, ManagerAssumption DEF WellFormedGroups, Group
<1>3. tried = [m EXCEPT !.groups[k] = g]
  OBVIOUS
<1>4. Publishes(tried, m)
  <2>1. SoundLike(tried, m)
    BY <1>1, <1>2, <1>3, GroupSound, EnsureLayoutShows
  <2>2. \A j \in DOMAIN m.groups : gs[j] \in {m.groups[j], EnsureLayout(m.groups[j], e.known)}
    OBVIOUS
  <2> HIDE DEF gs
  <2> QED BY <2>1, <2>2, EnsuredPublish
<1>5. CASE CanActivate(e, g)
  <2> DEFINE a == [tried EXCEPT !.asked = IF EngineStarts(e, n) THEN n ELSE tried.asked]
             b == [a EXCEPT !.keymap = Keymap(g)]
             c == [b EXCEPT !.ok = TRUE]
  <2>1. Activate(m, e, k) = c
    BY <1>3, <1>4, <1>5 DEF Activate, Publishes, SoundLike, Sound, Managers
  <2>2. (IF EngineStarts(e, n) THEN n ELSE tried.asked) \in Engines \cup {NoEngine}
    BY <1>2, <1>4 DEF Publishes, SoundLike, Sound, Managers
  <2> HIDE DEF g, n, tried
  <2>3. Publishes(a, tried)
    BY <1>4, <2>2, AskedPublishes DEF Publishes, SoundLike
  <2> HIDE DEF a
  <2>4. Publishes(b, a)
    BY <1>2, <2>3, KeymapPublishes DEF Publishes, SoundLike
  <2> HIDE DEF b
  <2>5. Publishes(c, b)
    BY <2>4, FlagsPublish DEF Publishes, SoundLike
  <2> HIDE DEF c
  <2>6. Publishes(a, m)
    BY <1>4, <2>3, PublishesTransitive
  <2>7. Publishes(b, m)
    BY <2>4, <2>6, PublishesTransitive
  <2> QED BY <2>1, <2>5, <2>7, PublishesTransitive
<1>6. CASE ~ CanActivate(e, g)
  <2>1. Activate(m, e, k) = [tried EXCEPT !.ok = FALSE]
    BY <1>3, <1>6 DEF Activate
  <2> HIDE DEF tried
  <2>2. Publishes([tried EXCEPT !.ok = FALSE], tried)
    BY <1>4, FlagsPublish DEF Publishes, SoundLike
  <2> QED BY <1>4, <2>1, <2>2, PublishesTransitive
<1> QED BY <1>5, <1>6

LEMMA TriedPublishes ==
  ASSUME NEW m, Sound(m), NEW e \in Envs, NEW S
  PROVE  Publishes(Tried(m, e, S), m)
<1> DEFINE gs == [k \in DOMAIN m.groups |->
                    IF k \in S THEN EnsureLayout(m.groups[k], e.known) ELSE m.groups[k]]
<1>1. Tried(m, e, S) = [m EXCEPT !.groups = gs]
  BY DEF Tried
<1>2. SoundLike([m EXCEPT !.groups = gs], m)
  BY <1>1, TriedSound
<1>3. \A k \in DOMAIN m.groups : gs[k] \in {m.groups[k], EnsureLayout(m.groups[k], e.known)}
  OBVIOUS
<1> HIDE DEF gs
<1> QED BY <1>1, <1>2, <1>3, EnsuredPublish

\* A group that is activated by name is published; when none can be, nothing
\* that is shown changed.
LEMMA ActivateOneOfPublishes ==
  ASSUME NEW m, Sound(m), NEW e \in Envs, NEW S \in SUBSET DOMAIN m.groups, NEW p
  PROVE  /\ Publishes(ActivateOneOf(m, e, S, p), m)
         /\ Able(m, e, S) # {} => ActivateOneOf(m, e, S, p).sync = TRUE
<1> DEFINE r == ActivateOneOf(m, e, S, p)
<1>1. SoundLike(r, m)
  BY ActivateOneOfSound
<1>2. CASE Able(m, e, S) = {}
  <2> DEFINE t == Tried(m, e, S)
  <2>1. r = [t EXCEPT !.ok = FALSE]
    BY <1>2 DEF ActivateOneOf
  <2> HIDE DEF r
  <2>2. Publishes(t, m)
    BY TriedPublishes
  <2> HIDE DEF t
  <2>3. Publishes([t EXCEPT !.ok = FALSE], t)
    BY <2>2, FlagsPublish DEF Publishes, SoundLike
  <2>4. Publishes(r, m)
    BY <2>1, <2>2, <2>3, PublishesTransitive
  <2> QED BY <1>2, <2>4 DEF r
<1>3. CASE Able(m, e, S) # {}
  <2>1. \E a : r = [a EXCEPT !.sync = TRUE]
    <3> DEFINE k == IF p \in Able(m, e, S) THEN p ELSE Least(Able(m, e, S))
               passed == IF k = p THEN {} ELSE {j \in S : j < k}
               a == [Activate(Tried(m, e, passed), e, k) EXCEPT !.index = k - 1]
    <3>1. r = [a EXCEPT !.sync = TRUE]
      BY <1>3 DEF ActivateOneOf
    <3> HIDE DEF r, a
    <3> QED BY <3>1
  <2>2. "sync" \in DOMAIN r
    BY <1>1 DEF SoundLike, Sound, Managers
  <2> HIDE DEF r
  <2>3. r.sync = TRUE
    BY <2>1, <2>2
  <2>4. Publishes(r, m)
    BY <1>1, <2>3 DEF Publishes
  <2> QED BY <2>3, <2>4 DEF r
<1> QED BY <1>2, <1>3

LEMMA ActivateFirstPublishes ==
  ASSUME NEW m, Sound(m), NEW e \in Envs
  PROVE  Publishes(ActivateFirst(m, e), m)
<1>1. CASE e.locked
  BY <1>1, FlagsPublish DEF ActivateFirst
<1>2. CASE ~ e.locked
  <2>1. ActivateFirst(m, e) = ActivateOneOf(m, e, DOMAIN m.groups, 0)
    BY <1>2 DEF ActivateFirst
  <2>2. Publishes(ActivateOneOf(m, e, DOMAIN m.groups, 0), m)
    BY ActivateOneOfPublishes
  <2> QED BY <2>1, <2>2
<1> QED BY <1>1, <1>2

LEMMA ActivateWithEnginePublishes ==
  ASSUME NEW m, Sound(m), NEW e \in Envs, NEW n
  PROVE  Publishes(ActivateWithEngine(m, e, n), m)
<1> DEFINE S == {k \in DOMAIN m.groups : m.groups[k].engine = n}
<1>1. S \in SUBSET DOMAIN m.groups
  OBVIOUS
<1>2. ActivateWithEngine(m, e, n) = ActivateOneOf(m, e, S, m.index + 1)
  BY DEF ActivateWithEngine
<1> HIDE DEF S
<1> QED BY <1>1, <1>2, ActivateOneOfPublishes

\* The layout is looked for in a group that can be activated, so that selecting
\* it there never ends in a failure that tells nobody.
LEMMA ActivateWithLayoutPublishes ==
  ASSUME NEW m, Sound(m), NEW e \in Envs, NEW l
  PROVE  Publishes(ActivateWithLayout(m, e, l), m)
<1> DEFINE holders == {k \in DOMAIN m.groups : HoldsLayout(m.groups[k], l)}
           able    == Able(m, e, holders)
           k       == IF m.index + 1 \in able THEN m.index + 1 ELSE Least(able)
<1>1. CASE e.locked \/ able = {}
  <2>1. ActivateWithLayout(m, e, l) = [m EXCEPT !.ok = FALSE]
    BY <1>1 DEF ActivateWithLayout
  <2> QED BY <2>1, FlagsPublish
<1>2. CASE ~ (e.locked \/ able = {})
  <2>1. k \in able
    <3>1. able \subseteq Nat
      BY DEF Able, Sound, Managers
    <3> HIDE DEF able
    <3> QED BY <1>2, <3>1, LeastInside
  <2>2. k \in DOMAIN m.groups /\ HoldsLayout(m.groups[k], l) /\ CanActivate(e, m.groups[k])
    BY <2>1 DEF Able
  <2> DEFINE g == SwitchToLayout(m.groups[k], l)
             t == [m EXCEPT !.groups[k] = g]
  <2>3. ActivateWithLayout(m, e, l) = ActivateOneOf(t, e, {k}, k)
    BY <1>2 DEF ActivateWithLayout
  <2> HIDE DEF k
  <2>4. m.groups[k] \in WellFormedGroups
    BY <2>2 DEF Sound, Managers
  <2>5. g \in WellFormedGroups /\ SourcesOfGroup(g) = SourcesOfGroup(m.groups[k])
    BY <2>2, <2>4, SwitchToLayoutWellFormed, SwitchesShow
  <2>6. CanActivate(e, g)
    <3>1. g.engine = m.groups[k].engine /\ g.layouts = m.groups[k].layouts
      BY <2>4 DEF SwitchToLayout, WellFormedGroups, Group
    <3>2. EnsureLayout(g, e.known).layouts = EnsureLayout(m.groups[k], e.known).layouts
      BY <2>4, <2>5, <3>1 DEF EnsureLayout, WellFormedGroups, Group
    <3> HIDE DEF g
    <3>3. EnsureLayout(g, e.known).layouts # <<>>
      BY <2>2, <3>2 DEF CanActivate
    <3> QED BY <2>2, <3>1, <3>3 DEF CanActivate
  <2>7. SoundLike(t, m)
    BY <2>2, <2>5, GroupSound
  <2>8. t.groups[k] = g
    BY <2>2 DEF Sound, Managers
  <2> HIDE DEF g, t
  <2>9. {k} \in SUBSET DOMAIN t.groups /\ Able(t, e, {k}) # {}
    BY <2>2, <2>6, <2>7, <2>8 DEF SoundLike, SameSources, Able
  <2>10. SoundLike(ActivateOneOf(t, e, {k}, k), t) /\ ActivateOneOf(t, e, {k}, k).sync = TRUE
    <3>1. Sound(t)
      BY <2>7 DEF SoundLike
    <3>2. SoundLike(ActivateOneOf(t, e, {k}, k), t)
      BY <2>9, <3>1, ActivateOneOfSound
    <3>3. ActivateOneOf(t, e, {k}, k).sync = TRUE
      BY <2>9, <3>1, ActivateOneOfPublishes
    <3> QED BY <3>2, <3>3
  <2>11. SoundLike(ActivateOneOf(t, e, {k}, k), m)
    BY <2>7, <2>10, SoundLikeTransitive
  <2> QED BY <2>3, <2>10, <2>11 DEF Publishes
<1> QED BY <1>1, <1>2

LEMMA ActivateBestPublishes ==
  ASSUME NEW m, Sound(m), NEW e \in Envs, NEW n, NEW l
  PROVE  Publishes(ActivateBest(m, e, n, l), m)
<1> DEFINE wanted == IF n # NoEngine THEN ActivateWithEngine(m, e, n)
                     ELSE IF l # NoLayout THEN ActivateWithLayout(m, e, l)
                     ELSE [m EXCEPT !.ok = FALSE]
<1>1. Publishes(wanted, m)
  BY ActivateWithEnginePublishes, ActivateWithLayoutPublishes, FlagsPublish
<1>2. \/ ActivateBest(m, e, n, l) = [m EXCEPT !.ok = FALSE]
      \/ ActivateBest(m, e, n, l) = wanted
      \/ ActivateBest(m, e, n, l) = ActivateFirst(wanted, e)
  BY DEF ActivateBest
<1> HIDE DEF wanted
<1>3. Publishes(ActivateFirst(wanted, e), m)
  <2>1. Sound(wanted)
    BY <1>1 DEF Publishes, SoundLike
  <2> QED BY <1>1, <2>1, ActivateFirstPublishes, PublishesTransitive
<1> QED BY <1>1, <1>2, <1>3, FlagsPublish

LEMMA ActivateSelectedPublishes ==
  ASSUME NEW m, Sound(m), NEW e \in Envs
  PROVE  Publishes(ActivateSelected(m, e), m)
<1>1. CASE e.locked \/ ~ HasGroups(m)
  BY <1>1, FlagsPublish DEF ActivateSelected
<1>2. CASE ~ (e.locked \/ ~ HasGroups(m))
  <2> DEFINE done == Activate(m, e, m.index + 1)
             r    == [done EXCEPT !.sync = done.sync \/ done.ok]
  <2>1. ActivateSelected(m, e) = r
    BY <1>2 DEF ActivateSelected
  <2>2. Publishes(done, m)
    BY <1>2, SelectedExists, ActivatePublishes
  <2> HIDE DEF done
  <2>3. SoundLike(r, m) /\ done.sync \in BOOLEAN /\ done.ok \in BOOLEAN
    BY <2>1, <2>2, ActivateSelectedSound DEF Publishes, SoundLike, Sound, Managers
  <2>4. CASE done.ok
    <3>1. r.sync = TRUE
      BY <2>2, <2>4 DEF Publishes, SoundLike, Sound, Managers
    <3> HIDE DEF r
    <3> QED BY <2>1, <2>3, <3>1 DEF Publishes
  <2>5. CASE ~ done.ok
    <3>1. r = done
      BY <2>2, <2>3, <2>5 DEF Publishes, SoundLike, Sound, Managers
    <3> QED BY <2>1, <2>2, <3>1
  <2> QED BY <2>4, <2>5
<1> QED BY <1>1, <1>2

LEMMA MaybeActivateHigherPriorityPublishes ==
  ASSUME NEW m, Sound(m), NEW e \in Envs
  PROVE  Publishes(MaybeActivateHigherPriority(m, e), m)
<1> DEFINE leading == {k \in 1..m.index : \A j \in 1..k : m.groups[j].engine # NoEngine}
           a == ActivateOneOf(m, e, leading, 0)
           r == MaybeActivateHigherPriority(m, e)
<1>1. leading \in SUBSET DOMAIN m.groups
  <2>1. m.groups \in Seq(WellFormedGroups) /\ m.index \in Nat
    BY DEF Sound, Managers
  <2>2. m.index <= Len(m.groups)
    BY <2>1 DEF Sound
  <2>3. 1..m.index \subseteq DOMAIN m.groups
    BY <2>1, <2>2
  <2> QED BY <2>3
<1>2. CASE Able(m, e, leading) # {}
  <2>1. r = [a EXCEPT !.index = m.index]
    BY <1>2 DEF MaybeActivateHigherPriority
  <2> HIDE DEF leading
  <2>2. a.sync = TRUE /\ SoundLike(a, m)
    BY <1>1, <1>2, ActivateOneOfPublishes, ActivateOneOfSound
  <2>3. SoundLike(r, m)
    BY MaybeActivateHigherPrioritySound
  <2> HIDE DEF a, r
  <2>4. r.sync = TRUE /\ r.groups = a.groups
    BY <2>1, <2>2 DEF SoundLike, Sound, Managers
  <2> QED BY <2>2, <2>3, <2>4 DEF Publishes, r
<1>3. CASE Able(m, e, leading) = {}
  <2> DEFINE t == Tried(m, e, leading)
  <2>1. r = ActivateSelected(t, e)
    BY <1>3 DEF MaybeActivateHigherPriority
  <2>2. Publishes(t, m)
    BY TriedPublishes
  <2> HIDE DEF t
  <2>3. Publishes(ActivateSelected(t, e), t)
    BY <2>2, ActivateSelectedPublishes DEF Publishes, SoundLike
  <2> QED BY <2>1, <2>2, <2>3, PublishesTransitive
<1> QED BY <1>2, <1>3

LEMMA OnIsLoadedChangedPublishes ==
  ASSUME NEW m, Sound(m), NEW e \in Envs
  PROVE  Publishes(OnIsLoadedChanged(m, e), m)
  BY MaybeActivateHigherPriorityPublishes, ActivateFirstPublishes, FlagsPublish
     DEF OnIsLoadedChanged

LEMMA OnActiveEngineChangedPublishes ==
  ASSUME NEW m, Sound(m), NEW e \in Envs, NEW n
  PROVE  Publishes(OnActiveEngineChanged(m, e, n), m)
  BY ActivateWithEnginePublishes, ActivateFirstPublishes, FlagsPublish
     DEF OnActiveEngineChanged

-----------------------------------------------------------------------------
(* The operations that replace the groups, or that switch, always queue a  *)
(* synchronisation; so does a reload that ends without any configuration.  *)

LEMMA SyncQueued ==
  ASSUME NEW m, Sound(m)
  PROVE  Sound([m EXCEPT !.sync = TRUE]) /\ [m EXCEPT !.sync = TRUE].sync = TRUE
  BY DEF Sound, Managers

LEMMA SetInputSourcesQueues ==
  ASSUME NEW m, Sound(m), NEW e \in Envs, NEW c \in Seq(Source)
  PROVE  SetInputSources(m, e, c).sync = TRUE
<1> DEFINE old  == IF HasGroups(m) THEN Selected(m) ELSE NewGroup
           best == ActivateBest(Replaced(m, c), e, old.engine, SelectedLayout(old))
<1>1. SetInputSources(m, e, c) = [best EXCEPT !.sync = TRUE]
  BY DEF SetInputSources
<1> HIDE DEF old
<1>2. Sound(best)
  BY ReplacedSound, ActivateBestSound DEF SoundLike
<1> HIDE DEF best
<1> QED BY <1>1, <1>2, SyncQueued

LEMMA SetFromLocalesQueues ==
  ASSUME NEW m, Sound(m), NEW e \in Envs, NEW c \in Seq(Source)
  PROVE  SetFromLocales(m, e, c).sync = TRUE
<1> DEFINE new == Replaced(m, c)
           set == IF e.locked THEN [new EXCEPT !.ok = TRUE] ELSE ActivateFirst(new, e)
           own == [set EXCEPT !.source = "override"]
<1>1. SetFromLocales(m, e, c) = [own EXCEPT !.sync = TRUE]
  BY DEF SetFromLocales
<1>2. Sound(new)
  BY ReplacedSound
<1> HIDE DEF new
<1>3. Sound(set)
  BY <1>2, FlagsSound, ActivateFirstSound DEF SoundLike
<1> HIDE DEF set
<1>4. Sound(own)
  BY <1>3, SourceSound DEF SoundLike
<1> HIDE DEF own
<1> QED BY <1>1, <1>4, SyncQueued

\* With no layouts from localed the operation changes nothing that is shown.
LEMMA SetFromSystemQueues ==
  ASSUME NEW m, Sound(m), NEW e \in Envs, NEW c \in Seq(Source) \cup {NoConfig}
  PROVE  /\ c # NoConfig => SetFromSystem(m, e, c).sync = TRUE
         /\ c = NoConfig => SetFromSystem(m, e, c) = [m EXCEPT !.ok = FALSE]
<1>1. CASE c = NoConfig
  BY <1>1 DEF SetFromSystem
<1>2. CASE c # NoConfig
  <2> DEFINE set  == ActivateFirst(Replaced(m, c), e)
             own  == IF set.ok THEN set ELSE SetFromLocales(set, e, LocaleSources)
             from == [own EXCEPT !.source = "system"]
             r    == [from EXCEPT !.sync = TRUE]
  <2>1. SetFromSystem(m, e, c) = r
    BY <1>2 DEF SetFromSystem
  <2>2. Sound(set)
    BY <1>2, ReplacedSound, ActivateFirstSound DEF SoundLike
  <2> HIDE DEF set
  <2>3. Sound(own)
    BY <2>2, SetFromLocalesSound, ManagerAssumption
  <2> HIDE DEF own
  <2>4. Sound(from)
    BY <2>3, SourceSound DEF SoundLike
  <2> HIDE DEF from
  <2>5. r.sync = TRUE
    BY <2>4, SyncQueued
  <2> QED BY <1>2, <2>1, <2>5
<1> QED BY <1>1, <1>2

LEMMA SetFromSessionQueues ==
  ASSUME NEW m, Sound(m), NEW e \in Envs,
         NEW c \in Seq(Source), NEW d \in Seq(Source) \cup {NoConfig}
  PROVE  SetFromSession(m, e, c, d).sync = TRUE
<1> DEFINE set  == SetInputSources(m, e, c)
           from == [set EXCEPT !.source = "system"]
           done == [set EXCEPT !.source = "session"]
           r    == SetFromSession(m, e, c, d)
<1>1. r = done \/ r = SetFromSystem(from, e, d)
  BY DEF SetFromSession
<1>2. Sound(set) /\ set.sync = TRUE
  BY SetInputSourcesSound, SetInputSourcesQueues
<1> HIDE DEF set
<1>3. done.sync = TRUE /\ from.sync = TRUE /\ Sound(from)
  BY <1>2, SourceSound DEF SoundLike, Sound, Managers
<1> HIDE DEF from, done
<1>4. SetFromSystem(from, e, d).sync = TRUE
  <2>1. [from EXCEPT !.ok = FALSE].sync = from.sync
    BY <1>3 DEF Sound, Managers
  <2> QED BY <1>3, <2>1, SetFromSystemQueues
<1> HIDE DEF r
<1>5. r.sync = TRUE
  BY <1>1, <1>3, <1>4
<1> QED BY <1>5 DEF r

LEMMA SwitchToNextSourceQueues ==
  ASSUME NEW m, Sound(m), NEW e \in Envs
  PROVE  SwitchToNextSource(m, e).sync = TRUE \/ SwitchToNextSource(m, e) = m
<1>1. CASE ~ HasGroups(m)
  BY <1>1 DEF SwitchToNextSource
<1>2. CASE HasGroups(m)
  <2> DEFINE g == Selected(m)
             moved == IF HasNext(g) THEN Switched(m, m.index + 1, SwitchToNext(g))
                                    ELSE CycleForward(m, e)
  <2>1. SwitchToNextSource(m, e) = [moved EXCEPT !.sync = TRUE]
    BY <1>2 DEF SwitchToNextSource
  <2>2. g \in WellFormedGroups /\ m.index + 1 \in DOMAIN m.groups
    BY <1>2, SelectedExists
  <2>3. g = m.groups[m.index + 1]
    BY DEF Selected
  <2> HIDE DEF g
  <2>4. HasNext(g) => Sound(Switched(m, m.index + 1, SwitchToNext(g)))
    BY <2>2, <2>3, SwitchesWellFormed, SwitchesShow, SwitchedSound DEF SoundLike
  <2>5. Sound(moved)
    BY <1>2, <2>4, CycleForwardSound DEF SoundLike
  <2> HIDE DEF moved
  <2> QED BY <2>1, <2>5, SyncQueued
<1> QED BY <1>1, <1>2

LEMMA SwitchToPreviousSourceQueues ==
  ASSUME NEW m, Sound(m), NEW e \in Envs
  PROVE  SwitchToPreviousSource(m, e).sync = TRUE \/ SwitchToPreviousSource(m, e) = m
<1>1. CASE ~ HasGroups(m)
  BY <1>1 DEF SwitchToPreviousSource
<1>2. CASE HasGroups(m)
  <2> DEFINE g == Selected(m)
             moved == IF HasPrevious(g) THEN Switched(m, m.index + 1, SwitchToPrevious(g))
                                        ELSE CycleBackward(m, e)
  <2>1. SwitchToPreviousSource(m, e) = [moved EXCEPT !.sync = TRUE]
    BY <1>2 DEF SwitchToPreviousSource
  <2>2. g \in WellFormedGroups /\ m.index + 1 \in DOMAIN m.groups
    BY <1>2, SelectedExists
  <2>3. g = m.groups[m.index + 1]
    BY DEF Selected
  <2> HIDE DEF g
  <2>4. HasPrevious(g) => Sound(Switched(m, m.index + 1, SwitchToPrevious(g)))
    BY <2>2, <2>3, SwitchesWellFormed, SwitchesShow, SwitchedSound DEF SoundLike
  <2>5. Sound(moved)
    BY <1>2, <2>4, CycleBackwardSound DEF SoundLike
  <2> HIDE DEF moved
  <2> QED BY <2>1, <2>5, SyncQueued
<1> QED BY <1>1, <1>2

-----------------------------------------------------------------------------
(* The keymap and the selection. What the manager loads has a layout, so   *)
(* that the group it came from is never given another one; a layout group  *)
(* can always be activated, so that an activation of every group that      *)
(* fails found engines only.                                               *)

KeymapTyped(m) == m.keymap.by = "kiosk" => m.keymap.layouts # <<>>

Follows(m) ==
  m.keymap.by = "kiosk" /\ HasGroups(m) /\ Selected(m).engine = NoEngine
    => \/ m.keymap = Keymap(Selected(m))
       \/ \E k \in 1..m.index : m.groups[k].engine # NoEngine /\ m.keymap = Keymap(m.groups[k])

Loaded(m) == KeymapTyped(m) /\ Follows(m)

\* r has the groups, the selection and the keymap of m.
LEMMA SameLoads ==
  ASSUME NEW m, NEW r, r.groups = m.groups, r.index = m.index, r.keymap = m.keymap
  PROVE  /\ KeymapTyped(r) <=> KeymapTyped(m)
         /\ Follows(r) <=> Follows(m)
  BY DEF KeymapTyped, Follows, HasGroups, Selected

LEMMA FlagsLoad ==
  ASSUME NEW m, Sound(m), NEW b
  PROVE  /\ KeymapTyped([m EXCEPT !.ok = b]) <=> KeymapTyped(m)
         /\ KeymapTyped([m EXCEPT !.sync = b]) <=> KeymapTyped(m)
         /\ KeymapTyped([m EXCEPT !.source = b]) <=> KeymapTyped(m)
         /\ Follows([m EXCEPT !.ok = b]) <=> Follows(m)
         /\ Follows([m EXCEPT !.sync = b]) <=> Follows(m)
         /\ Follows([m EXCEPT !.source = b]) <=> Follows(m)
  BY DEF KeymapTyped, Follows, HasGroups, Selected, Sound, Managers

LEMMA FlagsLoaded ==
  ASSUME NEW m, Sound(m), Loaded(m), NEW b
  PROVE  /\ Loaded([m EXCEPT !.ok = b])
         /\ Loaded([m EXCEPT !.sync = b])
         /\ Loaded([m EXCEPT !.source = b])
  BY FlagsLoad DEF Loaded

\* A group that has a layout keeps it, and a layout group is left as it is.
LEMMA EnsureLayoutKeeps ==
  ASSUME NEW g \in WellFormedGroups, NEW known
  PROVE  /\ EnsureLayout(g, known).engine = g.engine
         /\ EnsureLayout(EnsureLayout(g, known), known) = EnsureLayout(g, known)
         /\ g.layouts # <<>> \/ g.engine = NoEngine => EnsureLayout(g, known) = g
<1> DEFINE h == EnsureLayout(g, known)
<1>1. g.engine \in Engines \cup {NoEngine} /\ g.layouts \in Seq(Layouts)
  BY DEF WellFormedGroups, Group
<1>2. h.engine = g.engine
  BY DEF EnsureLayout, WellFormedGroups, Group
<1>3. CASE g.engine = NoEngine \/ g.layouts # <<>>
  <2>1. g.engine = NoEngine \/ Len(g.layouts) = 1
    <3>1. g.engine # NoEngine => g.layouts = <<EngineLayout[g.engine]>>
      BY <1>3 DEF WellFormedGroups, WellFormedGroup
    <3> QED BY <3>1
  <2>2. h = g
    BY <2>1 DEF EnsureLayout
  <2> QED BY <2>2
<1>4. CASE g.engine # NoEngine /\ g.layouts = <<>>
  <2> DEFINE ls == IF g.engine \in known THEN <<EngineLayout[g.engine]>> ELSE <<>>
  <2>1. h = [g EXCEPT !.layouts = ls]
    BY <1>4 DEF EnsureLayout
  <2>2. h.layouts = ls /\ h.engine = g.engine
    BY <2>1, <1>2 DEF WellFormedGroups, Group
  <2>3. EnsureLayout(h, known) = [h EXCEPT !.layouts = ls] \/ EnsureLayout(h, known) = h
    BY <2>2 DEF EnsureLayout
  <2>4. [h EXCEPT !.layouts = ls] = h
    BY <2>1 DEF WellFormedGroups, Group
  <2> QED BY <1>2, <1>4, <2>3, <2>4
<1> QED BY <1>2, <1>3, <1>4

\* Whether a group can be activated does not depend on an earlier attempt, and
\* a layout group always can.
LEMMA CanActivateTwice ==
  ASSUME NEW g \in WellFormedGroups, NEW e
  PROVE  /\ CanActivate(e, EnsureLayout(g, e.known)) <=> CanActivate(e, g)
         /\ CanActivate(e, g) => EnsureLayout(g, e.known).layouts # <<>>
         /\ g.engine = NoEngine => CanActivate(e, g)
<1>1. g.engine = NoEngine => g.layouts # <<>>
  <2>1. g.engine = NoEngine => Len(g.layouts) \in 1..MaxLayouts
    BY DEF WellFormedGroups, WellFormedGroup
  <2>2. Len(<< >>) = 0 /\ 0 \notin 1..MaxLayouts
    OBVIOUS
  <2> QED BY <2>1, <2>2
<1> QED BY <1>1, EnsureLayoutKeeps DEF CanActivate

\* Groups that only learned the layout of their engine.
LEMMA EnsuredLoad ==
  ASSUME NEW m, Sound(m), NEW r, SoundLike(r, m), NEW known,
         r.index = m.index, r.keymap = m.keymap,
         \A k \in DOMAIN m.groups : r.groups[k] \in {m.groups[k], EnsureLayout(m.groups[k], known)}
  PROVE  /\ KeymapTyped(r) <=> KeymapTyped(m)
         /\ Loaded(m) => Loaded(r)
<1>1. m.groups \in Seq(WellFormedGroups) /\ m.index \in Nat
  BY DEF Sound, Managers
<1>2. KeymapTyped(r) <=> KeymapTyped(m)
  BY DEF KeymapTyped
<1>3. \A k \in DOMAIN m.groups :
        /\ r.groups[k].engine = m.groups[k].engine
        /\ m.groups[k].layouts # <<>> \/ m.groups[k].engine = NoEngine
             => r.groups[k] = m.groups[k]
  BY <1>1, EnsureLayoutKeeps
<1>4. SUFFICES ASSUME Loaded(m), m.keymap.by = "kiosk", HasGroups(r),
                      Selected(r).engine = NoEngine
               PROVE  \/ m.keymap = Keymap(Selected(r))
                      \/ \E k \in 1..m.index : /\ r.groups[k].engine # NoEngine
                                               /\ m.keymap = Keymap(r.groups[k])
  BY <1>2 DEF Loaded, Follows
<1>5. HasGroups(m)
  <2>1. r.index + 1 \in DOMAIN m.groups
    BY <1>4, SelectedExists DEF SoundLike, SameSources
  <2> QED BY <2>1 DEF HasGroups
<1>6. m.index + 1 \in DOMAIN m.groups /\ Selected(r) = r.groups[m.index + 1]
  BY <1>5, SelectedExists DEF Selected
<1>7. Selected(r) = Selected(m)
  BY <1>3, <1>4, <1>6 DEF Selected
<1>8. CASE m.keymap = Keymap(Selected(m))
  BY <1>7, <1>8
<1>9. ASSUME NEW k \in 1..m.index, m.groups[k].engine # NoEngine,
             m.keymap = Keymap(m.groups[k])
      PROVE  r.groups[k].engine # NoEngine /\ m.keymap = Keymap(r.groups[k])
  <2>1. k \in DOMAIN m.groups
    BY <1>1, <1>6
  <2>2. m.groups[k].layouts # <<>>
    BY <1>4, <1>9 DEF Loaded, KeymapTyped, Keymap
  <2>3. r.groups[k] = m.groups[k]
    BY <1>3, <2>1, <2>2
  <2> QED BY <1>9, <2>3
<1> QED BY <1>4, <1>5, <1>7, <1>8, <1>9 DEF Loaded, Follows

LEMMA TriedLoads ==
  ASSUME NEW m, Sound(m), NEW e \in Envs, NEW S
  PROVE  /\ KeymapTyped(Tried(m, e, S)) <=> KeymapTyped(m)
         /\ Loaded(m) => Loaded(Tried(m, e, S))
         /\ Tried(m, e, S).index = m.index
         /\ \A k \in DOMAIN m.groups :
              Tried(m, e, S).groups[k] \in {m.groups[k], EnsureLayout(m.groups[k], e.known)}
<1> DEFINE t == Tried(m, e, S)
<1>1. SoundLike(t, m)
  BY TriedSound
<1>2. t.index = m.index /\ t.keymap = m.keymap
  BY DEF Tried, Sound, Managers
<1>3. t.groups = [k \in DOMAIN m.groups |->
                    IF k \in S THEN EnsureLayout(m.groups[k], e.known) ELSE m.groups[k]]
  BY DEF Tried, Sound, Managers
<1>4. \A k \in DOMAIN m.groups : t.groups[k] \in {m.groups[k], EnsureLayout(m.groups[k], e.known)}
  BY <1>3
<1> HIDE DEF t
<1>5. (KeymapTyped(t) <=> KeymapTyped(m)) /\ (Loaded(m) => Loaded(t))
  BY <1>1, <1>2, <1>4, EnsuredLoad
<1> QED BY <1>2, <1>4, <1>5 DEF t

\* A group that can be activated has its keymap loaded, and it has one.
LEMMA ActivateLoads ==
  ASSUME NEW m, Sound(m), NEW e \in Envs, NEW k \in DOMAIN m.groups, KeymapTyped(m)
  PROVE  /\ KeymapTyped(Activate(m, e, k))
         /\ Activate(m, e, k).index = m.index
         /\ Activate(m, e, k).groups[k].engine = m.groups[k].engine
         /\ CanActivate(e, m.groups[k]) =>
              /\ Activate(m, e, k).ok = TRUE
              /\ Activate(m, e, k).keymap = Keymap(Activate(m, e, k).groups[k])
         /\ ~ CanActivate(e, m.groups[k]) =>
              /\ Activate(m, e, k).ok = FALSE
              /\ Follows(m) => Follows(Activate(m, e, k))
<1> DEFINE g  == EnsureLayout(m.groups[k], e.known)
           n  == IF g.engine = NoEngine THEN DefaultEngine ELSE g.engine
           gs == [m.groups EXCEPT ![k] = g]
           tried == [m EXCEPT !.groups = gs]
           r  == Activate(m, e, k)
<1>1. m.groups[k] \in WellFormedGroups /\ SoundLike(r, m)
  BY ActivateSound DEF Sound, Managers
<1>2. /\ CanActivate(e, g) <=> CanActivate(e, m.groups[k])
      /\ CanActivate(e, g) => g.layouts # <<>>
      /\ g.engine = m.groups[k].engine
  BY <1>1, CanActivateTwice, EnsureLayoutKeeps
<1>3. tried = [m EXCEPT !.groups[k] = g]
  OBVIOUS
<1>4. gs[k] = g /\ \A j \in DOMAIN m.groups : gs[j] \in {m.groups[j], g} /\ (j # k => gs[j] = m.groups[j])
  OBVIOUS
<1>5. CASE CanActivate(e, g)
  <2>1. r = [tried EXCEPT !.ok = TRUE, !.keymap = Keymap(g),
                          !.asked = IF EngineStarts(e, n) THEN n ELSE tried.asked]
    BY <1>3, <1>5 DEF Activate
  <2> HIDE DEF g, n, gs, r
  <2>2. r.ok = TRUE /\ r.index = m.index /\ r.groups = gs /\ r.keymap = Keymap(g)
    BY <2>1 DEF Sound, Managers
  <2>3. KeymapTyped(r)
    BY <1>2, <1>5, <2>2 DEF KeymapTyped, Keymap
  <2> QED BY <1>2, <1>4, <1>5, <2>2, <2>3 DEF r
<1>6. CASE ~ CanActivate(e, g)
  <2>1. r = [tried EXCEPT !.ok = FALSE]
    BY <1>3, <1>6 DEF Activate
  <2>2. \A j \in DOMAIN m.groups : gs[j] \in {m.groups[j], EnsureLayout(m.groups[j], e.known)}
    OBVIOUS
  <2> HIDE DEF g, gs, r
  <2>3. r.ok = FALSE /\ r.index = m.index /\ r.groups = gs /\ r.keymap = m.keymap
    BY <2>1 DEF Sound, Managers
  <2>4. KeymapTyped(r) /\ (Loaded(m) => Loaded(r))
    BY <1>1, <2>2, <2>3, EnsuredLoad
  <2> QED BY <1>2, <1>4, <1>6, <2>3, <2>4 DEF r, Loaded
<1> QED BY <1>5, <1>6

\* When one of the groups can be activated its keymap is loaded, and that group
\* has been selected; when none can, the keymap stays.
LEMMA ActivateOneOfLoads ==
  ASSUME NEW m, Sound(m), NEW e \in Envs, NEW S \in SUBSET DOMAIN m.groups, NEW p,
         KeymapTyped(m)
  PROVE  /\ KeymapTyped(ActivateOneOf(m, e, S, p))
         /\ Follows(m) => Follows(ActivateOneOf(m, e, S, p))
         /\ Able(m, e, S) = {} => ActivateOneOf(m, e, S, p).ok = FALSE
         /\ Able(m, e, S) # {} =>
              /\ ActivateOneOf(m, e, S, p).ok = TRUE
              /\ Follows(ActivateOneOf(m, e, S, p))
              /\ \E k \in S :
                   /\ ActivateOneOf(m, e, S, p).groups[k].engine = m.groups[k].engine
                   /\ ActivateOneOf(m, e, S, p).keymap
                        = Keymap(ActivateOneOf(m, e, S, p).groups[k])
<1> DEFINE r == ActivateOneOf(m, e, S, p)
<1>1. SoundLike(r, m) /\ m.groups \in Seq(WellFormedGroups) /\ DOMAIN m.groups \subseteq Nat
  BY ActivateOneOfSound DEF Sound, Managers
<1>2. CASE Able(m, e, S) = {}
  <2> DEFINE t == Tried(m, e, S)
  <2>1. r = [t EXCEPT !.ok = FALSE]
    BY <1>2 DEF ActivateOneOf
  <2>2. Sound(t) /\ KeymapTyped(t) /\ (Follows(m) => Follows(t))
    BY TriedSound, TriedLoads DEF SoundLike, Loaded
  <2> HIDE DEF t, r
  <2>3. r.ok = FALSE /\ KeymapTyped(r) /\ (Follows(m) => Follows(r))
    BY <2>1, <2>2, FlagsLoad DEF Sound, Managers
  <2> QED BY <1>2, <2>3 DEF r
<1>3. CASE Able(m, e, S) # {}
  <2> DEFINE k      == IF p \in Able(m, e, S) THEN p ELSE Least(Able(m, e, S))
             passed == IF k = p THEN {} ELSE {j \in S : j < k}
             t == Tried(m, e, passed)
             a == Activate(t, e, k)
  <2>1. r = [a EXCEPT !.index = k - 1, !.sync = TRUE]
    BY <1>3 DEF ActivateOneOf
  <2>2. Able(m, e, S) \subseteq S
    BY DEF Able
  <2>3. k \in Able(m, e, S)
    BY <1>1, <1>3, <2>2, LeastInside
  <2>4. k \in S /\ k \in DOMAIN m.groups /\ CanActivate(e, m.groups[k])
    BY <2>3 DEF Able
  <2> HIDE DEF k, passed, r
  <2>5. /\ Sound(t) /\ KeymapTyped(t) /\ DOMAIN t.groups = DOMAIN m.groups
        /\ t.groups[k] \in {m.groups[k], EnsureLayout(m.groups[k], e.known)}
    BY <2>4, TriedSound, TriedLoads DEF SoundLike, SameSources
  <2>6. t.groups[k].engine = m.groups[k].engine /\ CanActivate(e, t.groups[k])
    <3>1. m.groups[k] \in WellFormedGroups
      BY <1>1, <2>4
    <3>2. EnsureLayout(m.groups[k], e.known).engine = m.groups[k].engine
      BY <3>1, EnsureLayoutKeeps
    <3>3. CanActivate(e, EnsureLayout(m.groups[k], e.known))
      BY <2>4, <3>1, CanActivateTwice
    <3> QED BY <2>4, <2>5, <3>2, <3>3
  <2> HIDE DEF t
  <2>7. /\ SoundLike(a, t) /\ KeymapTyped(a) /\ a.ok = TRUE
        /\ a.groups[k].engine = m.groups[k].engine
        /\ a.keymap = Keymap(a.groups[k])
    <3>1. k \in DOMAIN t.groups
      BY <2>4, <2>5
    <3>2. SoundLike(a, t)
      BY <2>5, <3>1, ActivateSound
    <3>3. /\ KeymapTyped(a) /\ a.groups[k].engine = t.groups[k].engine
          /\ a.ok = TRUE /\ a.keymap = Keymap(a.groups[k])
      BY <2>5, <2>6, <3>1, ActivateLoads
    <3> QED BY <2>6, <3>2, <3>3
  <2> HIDE DEF a
  <2>8. /\ r.groups = a.groups /\ r.index = k - 1 /\ r.keymap = a.keymap /\ r.ok = TRUE
    BY <2>1, <2>7 DEF SoundLike, Sound, Managers
  <2>9. k \in Nat /\ (k - 1) + 1 = k
    BY <1>1, <2>4
  <2>10. Selected(r) = a.groups[k]
    BY <2>8, <2>9 DEF Selected
  <2>11. KeymapTyped(r) /\ Follows(r)
    BY <2>7, <2>8, <2>10 DEF KeymapTyped, Follows
  <2> QED BY <1>3, <2>4, <2>7, <2>8, <2>11 DEF r
<1> QED BY <1>2, <1>3

\* After every group was tried the keymap follows the selection, whatever it
\* was before: if none can be activated they are all engines.
LEMMA ActivateFirstLoads ==
  ASSUME NEW m, Sound(m), NEW e \in Envs, ~ e.locked, KeymapTyped(m)
  PROVE  Loaded(ActivateFirst(m, e))
<1> DEFINE S == DOMAIN m.groups
           r == ActivateOneOf(m, e, S, 0)
<1>1. ActivateFirst(m, e) = r
  BY DEF ActivateFirst
<1>2. SoundLike(r, m) /\ KeymapTyped(r) /\ m.groups \in Seq(WellFormedGroups)
  BY ActivateOneOfSound, ActivateOneOfLoads DEF Sound, Managers
<1>3. CASE Able(m, e, S) # {}
  <2>1. Follows(r)
    BY <1>3, ActivateOneOfLoads
  <2> QED BY <1>1, <1>2, <2>1 DEF Loaded
<1>4. CASE Able(m, e, S) = {}
  <2>1. \A k \in S : m.groups[k].engine # NoEngine
    BY <1>2, <1>4, CanActivateTwice DEF Able
  <2> DEFINE t == Tried(m, e, S)
  <2>2. r = [t EXCEPT !.ok = FALSE]
    BY <1>4 DEF ActivateOneOf
  <2>3. Sound(t) /\ DOMAIN t.groups = S /\ \A k \in S : t.groups[k].engine # NoEngine
    BY <1>2, <2>1, TriedSound, TriedLoads, EnsureLayoutKeeps DEF SoundLike, SameSources
  <2> HIDE DEF t
  <2>4. r.groups = t.groups
    BY <2>2, <2>3 DEF Sound, Managers
  <2> HIDE DEF r
  <2>5. ASSUME HasGroups(r) PROVE Selected(r).engine # NoEngine
    BY <1>2, <2>3, <2>4, <2>5, SelectedExists DEF SoundLike, Selected
  <2> QED BY <1>1, <1>2, <2>5 DEF Loaded, Follows
<1> QED BY <1>3, <1>4

LEMMA ActivateWithEngineLoads ==
  ASSUME NEW m, Sound(m), NEW e \in Envs, NEW n, KeymapTyped(m)
  PROVE  /\ KeymapTyped(ActivateWithEngine(m, e, n))
         /\ \/ Follows(ActivateWithEngine(m, e, n))
            \/ ~ Follows(m) /\ ActivateWithEngine(m, e, n).ok = FALSE
<1> DEFINE S == {k \in DOMAIN m.groups : m.groups[k].engine = n}
<1>1. S \in SUBSET DOMAIN m.groups
  OBVIOUS
<1>2. ActivateWithEngine(m, e, n) = ActivateOneOf(m, e, S, m.index + 1)
  BY DEF ActivateWithEngine
<1> HIDE DEF S
<1> DEFINE r == ActivateOneOf(m, e, S, m.index + 1)
<1>3. /\ KeymapTyped(r) /\ (Follows(m) => Follows(r))
      /\ Able(m, e, S) = {} => r.ok = FALSE
      /\ Able(m, e, S) # {} => Follows(r)
  BY <1>1, ActivateOneOfLoads
<1> HIDE DEF r
<1> QED BY <1>2, <1>3 DEF r

\* The group that holds the layout is known to start before the layout is
\* selected in it.
LEMMA ActivateWithLayoutLoads ==
  ASSUME NEW m, Sound(m), NEW e \in Envs, NEW l, KeymapTyped(m)
  PROVE  /\ KeymapTyped(ActivateWithLayout(m, e, l))
         /\ \/ Follows(ActivateWithLayout(m, e, l))
            \/ ActivateWithLayout(m, e, l).ok = FALSE
<1> DEFINE holders == {k \in DOMAIN m.groups : HoldsLayout(m.groups[k], l)}
           able    == Able(m, e, holders)
           k       == IF m.index + 1 \in able THEN m.index + 1 ELSE Least(able)
<1>1. CASE e.locked \/ able = {}
  <2> DEFINE r == [m EXCEPT !.ok = FALSE]
  <2>1. ActivateWithLayout(m, e, l) = r
    BY <1>1 DEF ActivateWithLayout
  <2>2. r.ok = FALSE /\ KeymapTyped(r)
    BY FlagsLoad DEF Sound, Managers
  <2> HIDE DEF r
  <2> QED BY <2>1, <2>2
<1>2. CASE ~ (e.locked \/ able = {})
  <2>1. able \subseteq Nat
    BY DEF Able, Sound, Managers
  <2>2. k \in able
    <3> HIDE DEF able
    <3> QED BY <1>2, <2>1, LeastInside
  <2>3. k \in DOMAIN m.groups /\ HoldsLayout(m.groups[k], l)
    BY <2>2 DEF Able
  <2> DEFINE t == [m EXCEPT !.groups[k] = SwitchToLayout(m.groups[k], l)]
             r == ActivateOneOf(t, e, {k}, k)
  <2>4. ActivateWithLayout(m, e, l) = r
    BY <1>2 DEF ActivateWithLayout
  <2> HIDE DEF k
  <2>5. /\ SwitchToLayout(m.groups[k], l) \in WellFormedGroups
        /\ SourcesOfGroup(SwitchToLayout(m.groups[k], l)) = SourcesOfGroup(m.groups[k])
    BY <2>3, SwitchToLayoutWellFormed, SwitchesShow DEF Sound, Managers
  <2>6. SoundLike(t, m)
    BY <2>3, <2>5, GroupSound
  <2>7. {k} \in SUBSET DOMAIN t.groups /\ KeymapTyped(t) /\ Sound(t)
    BY <2>3, <2>6 DEF SoundLike, SameSources, KeymapTyped, Sound, Managers
  <2> HIDE DEF t
  <2>8. KeymapTyped(r) /\ (Follows(r) \/ r.ok = FALSE)
    <3>1. CASE Able(t, e, {k}) = {}
      BY <2>7, <3>1, ActivateOneOfLoads
    <3>2. CASE Able(t, e, {k}) # {}
      BY <2>7, <3>2, ActivateOneOfLoads
    <3> QED BY <3>1, <3>2
  <2> QED BY <2>4, <2>8
<1> QED BY <1>1, <1>2

LEMMA ActivateBestLoads ==
  ASSUME NEW m, Sound(m), NEW e \in Envs, ~ e.locked, NEW n, NEW l, KeymapTyped(m)
  PROVE  Loaded(ActivateBest(m, e, n, l))
<1> DEFINE wanted == IF n # NoEngine THEN ActivateWithEngine(m, e, n)
                     ELSE IF l # NoLayout THEN ActivateWithLayout(m, e, l)
                     ELSE [m EXCEPT !.ok = FALSE]
<1>1. ActivateBest(m, e, n, l) = IF wanted.ok THEN wanted ELSE ActivateFirst(wanted, e)
  BY DEF ActivateBest
<1>2. [m EXCEPT !.ok = FALSE].ok = FALSE
  BY DEF Sound, Managers
<1>3. KeymapTyped(wanted) /\ (Follows(wanted) \/ wanted.ok = FALSE)
  BY <1>2, ActivateWithEngineLoads, ActivateWithLayoutLoads, FlagsLoad
<1>4. Sound(wanted)
  BY ActivateWithEngineSound, ActivateWithLayoutSound, FlagsSound DEF SoundLike
<1> HIDE DEF wanted
<1>5. Loaded(ActivateFirst(wanted, e))
  BY <1>3, <1>4, ActivateFirstLoads
<1> QED BY <1>1, <1>3, <1>5 DEF Loaded

\* Activating the selected group makes the keymap follow it: a layout group
\* always can be, and an engine's group that cannot asks nothing of the keymap.
LEMMA ActivateSelectedLoads ==
  ASSUME NEW m, Sound(m), HasGroups(m), NEW e \in Envs, ~ e.locked, KeymapTyped(m)
  PROVE  Loaded(ActivateSelected(m, e))
<1> DEFINE k == m.index + 1
           a == Activate(m, e, k)
           r == [a EXCEPT !.sync = a.sync \/ a.ok]
<1>1. ActivateSelected(m, e) = r
  BY DEF ActivateSelected
<1>2. k \in DOMAIN m.groups /\ m.groups[k] \in WellFormedGroups
  BY SelectedExists DEF Selected
<1>3. /\ SoundLike(a, m) /\ KeymapTyped(a) /\ a.index = m.index
      /\ a.groups[k].engine = m.groups[k].engine
      /\ CanActivate(e, m.groups[k]) => a.keymap = Keymap(a.groups[k])
  BY <1>2, ActivateSound, ActivateLoads
<1>4. ~ CanActivate(e, m.groups[k]) => m.groups[k].engine # NoEngine
  BY <1>2, CanActivateTwice
<1> HIDE DEF a
<1>5. Selected(a) = a.groups[k]
  BY <1>3 DEF Selected
<1>6. Follows(a)
  BY <1>3, <1>4, <1>5 DEF Follows
<1>7. Loaded(r)
  BY <1>3, <1>6, FlagsLoad DEF Loaded, SoundLike
<1> QED BY <1>1, <1>7

LEMMA ReplacedLoads ==
  ASSUME NEW m, Sound(m), KeymapTyped(m), NEW c \in Seq(Source)
  PROVE  Sound(Replaced(m, c)) /\ KeymapTyped(Replaced(m, c))
  BY ReplacedSound, ReplacedKeeps DEF Keeps, KeymapTyped

\* Replacing the list of groups ends with the keymap of what is selected in it.
LEMMA SetInputSourcesLoads ==
  ASSUME NEW m, Sound(m), NEW e \in Envs, ~ e.locked, KeymapTyped(m), NEW c \in Seq(Source)
  PROVE  Loaded(SetInputSources(m, e, c))
<1> DEFINE old  == IF HasGroups(m) THEN Selected(m) ELSE NewGroup
           new  == Replaced(m, c)
           best == ActivateBest(new, e, old.engine, SelectedLayout(old))
<1>1. SetInputSources(m, e, c) = [best EXCEPT !.sync = TRUE]
  BY DEF SetInputSources
<1> HIDE DEF old
<1>2. Sound(new) /\ KeymapTyped(new)
  BY ReplacedLoads
<1> HIDE DEF new
<1>3. Sound(best) /\ Loaded(best)
  BY <1>2, ActivateBestSound, ActivateBestLoads DEF SoundLike
<1> HIDE DEF best
<1>4. Loaded([best EXCEPT !.sync = TRUE])
  BY <1>3, FlagsLoaded
<1> QED BY <1>1, <1>4, Zenon

LEMMA SetFromLocalesLoads ==
  ASSUME NEW m, Sound(m), NEW e \in Envs, ~ e.locked, KeymapTyped(m), NEW c \in Seq(Source)
  PROVE  Loaded(SetFromLocales(m, e, c))
<1> DEFINE new == Replaced(m, c)
           set == ActivateFirst(new, e)
           own == [set EXCEPT !.source = "override"]
<1>1. SetFromLocales(m, e, c) = [own EXCEPT !.sync = TRUE]
  BY DEF SetFromLocales
<1>2. Sound(new) /\ KeymapTyped(new)
  BY ReplacedLoads
<1> HIDE DEF new
<1>3. Sound(set) /\ Loaded(set)
  BY <1>2, ActivateFirstSound, ActivateFirstLoads DEF SoundLike
<1> HIDE DEF set
<1>4. Sound(own) /\ Loaded(own)
  BY <1>3, SourceSound, FlagsLoaded DEF SoundLike
<1> HIDE DEF own
<1>5. Loaded([own EXCEPT !.sync = TRUE])
  BY <1>4, FlagsLoaded
<1> QED BY <1>1, <1>5, Zenon

LEMMA SetFromSystemLoads ==
  ASSUME NEW m, Sound(m), NEW e \in Envs, ~ e.locked, Loaded(m),
         NEW c \in Seq(Source) \cup {NoConfig}
  PROVE  Loaded(SetFromSystem(m, e, c))
<1>1. CASE c = NoConfig
  <2> DEFINE r == SetFromSystem(m, e, c)
  <2>1. r = [m EXCEPT !.ok = FALSE]
    BY <1>1 DEF SetFromSystem
  <2> HIDE DEF r
  <2>2. Loaded(r)
    BY <2>1, FlagsLoaded
  <2> QED BY <2>2 DEF r
<1>2. CASE c # NoConfig
  <2> DEFINE new  == Replaced(m, c)
             set  == ActivateFirst(new, e)
             own  == IF set.ok THEN set ELSE SetFromLocales(set, e, LocaleSources)
             from == [own EXCEPT !.source = "system"]
             r    == SetFromSystem(m, e, c)
  <2>1. r = [from EXCEPT !.sync = TRUE]
    BY <1>2 DEF SetFromSystem
  <2>2. Sound(new) /\ KeymapTyped(new)
    BY <1>2, ReplacedLoads DEF Loaded
  <2> HIDE DEF new
  <2>3. Sound(set) /\ Loaded(set)
    BY <2>2, ActivateFirstSound, ActivateFirstLoads DEF SoundLike
  <2> HIDE DEF set
  <2>4. Sound(own) /\ Loaded(own)
    BY <2>3, SetFromLocalesSound, SetFromLocalesLoads, ManagerAssumption DEF Loaded
  <2> HIDE DEF own
  <2>5. Sound(from) /\ Loaded(from)
    BY <2>4, SourceSound, FlagsLoaded DEF SoundLike
  <2> HIDE DEF from
  <2> HIDE DEF r
  <2>6. Loaded(r)
    BY <2>1, <2>5, FlagsLoaded
  <2> QED BY <2>6 DEF r
<1> QED BY <1>1, <1>2

LEMMA SetFromSessionLoads ==
  ASSUME NEW m, Sound(m), NEW e \in Envs, ~ e.locked, KeymapTyped(m),
         NEW c \in Seq(Source), NEW d \in Seq(Source) \cup {NoConfig}
  PROVE  Loaded(SetFromSession(m, e, c, d))
<1> DEFINE set  == SetInputSources(m, e, c)
           from == [set EXCEPT !.source = "system"]
<1>1. \/ SetFromSession(m, e, c, d) = [set EXCEPT !.source = "session"]
      \/ SetFromSession(m, e, c, d) = SetFromSystem(from, e, d)
  BY DEF SetFromSession
<1>2. Sound(set) /\ Loaded(set)
  BY SetInputSourcesSound, SetInputSourcesLoads
<1> HIDE DEF set
<1>3. Loaded([set EXCEPT !.source = "session"]) /\ Sound(from) /\ Loaded(from)
  BY <1>2, SourceSound, FlagsLoaded DEF SoundLike
<1> HIDE DEF from
<1>4. Loaded(SetFromSystem(from, e, d))
  BY <1>3, SetFromSystemLoads
<1> QED BY <1>1, <1>3, <1>4

\* A switch to another layout of the selected group loads that layout.
LEMMA SwitchedLoads ==
  ASSUME NEW m, Sound(m), NEW k \in DOMAIN m.groups, NEW g \in WellFormedGroups,
         KeymapTyped(m)
  PROVE  /\ KeymapTyped(Switched(m, k, g))
         /\ k = m.index + 1 /\ g.layouts # <<>> => Follows(Switched(m, k, g))
<1> DEFINE r == Switched(m, k, g)
<1>1. /\ r.keymap = IF g.layouts = <<>> THEN m.keymap ELSE Keymap(g)
      /\ r.index = m.index /\ r.groups = [m.groups EXCEPT ![k] = g]
  BY DEF Switched, Sound, Managers
<1> HIDE DEF r
<1>2. KeymapTyped(r)
  BY <1>1 DEF KeymapTyped, Keymap
<1>3. ASSUME k = m.index + 1, g.layouts # <<>> PROVE Follows(r)
  <2>1. Selected(r) = g /\ r.keymap = Keymap(g)
    BY <1>1, <1>3 DEF Selected
  <2> QED BY <2>1 DEF Follows
<1> QED BY <1>2, <1>3 DEF r

LEMMA IndexLoads ==
  ASSUME NEW m, Sound(m), HasGroups(m), KeymapTyped(m), NEW k \in DOMAIN m.groups
  PROVE  /\ SoundLike([m EXCEPT !.index = k - 1], m)
         /\ HasGroups([m EXCEPT !.index = k - 1])
         /\ KeymapTyped([m EXCEPT !.index = k - 1])
  BY IndexSound DEF HasGroups, KeymapTyped, Sound, Managers

LEMMA SwitchedHasGroups ==
  ASSUME NEW m, Sound(m), NEW k \in DOMAIN m.groups, NEW g \in WellFormedGroups,
         SourcesOfGroup(g) = SourcesOfGroup(m.groups[k])
  PROVE  Sound(Switched(m, k, g)) /\ HasGroups(Switched(m, k, g))
<1>1. SoundLike(Switched(m, k, g), m)
  BY SwitchedSound
<1>2. Switched(m, k, g).groups # <<>>
  BY <1>1 DEF SoundLike, SameSources
<1> QED BY <1>1, <1>2 DEF SoundLike, HasGroups

\* Moving to another group, and past the end of the list, loads the keymap of
\* the group that it ends in.
LEMMA CycleForwardLoads ==
  ASSUME NEW m, Sound(m), HasGroups(m), NEW e \in Envs, ~ e.locked, KeymapTyped(m)
  PROVE  Sound(CycleForward(m, e)) /\ Loaded(CycleForward(m, e))
<1>1. m.groups \in Seq(WellFormedGroups) /\ m.groups # <<>> /\ m.index \in Nat
  BY DEF Sound, Managers, HasGroups
<1>2. CASE m.index + 1 < Len(m.groups)
  <2> DEFINE t == [m EXCEPT !.index = (m.index + 2) - 1]
  <2>1. m.index + 2 \in DOMAIN m.groups
    BY <1>1, <1>2
  <2>2. Sound(t) /\ HasGroups(t) /\ KeymapTyped(t)
    BY <2>1, IndexLoads DEF SoundLike
  <2>3. CycleForward(m, e) = ActivateSelected(t, e)
    <3>1. (m.index + 2) - 1 = m.index + 1
      BY <1>1
    <3> QED BY <1>2, <3>1 DEF CycleForward
  <2> HIDE DEF t
  <2> QED BY <2>2, <2>3, ActivateSelectedSound, ActivateSelectedLoads DEF SoundLike
<1>3. CASE ~ (m.index + 1 < Len(m.groups))
  <2> DEFINE t == [m EXCEPT !.index = 1 - 1]
             first == SwitchToFirst(m.groups[1])
             s == Switched(t, 1, first)
  <2>1. 1 \in DOMAIN m.groups
    BY <1>1
  <2>2. SoundLike(t, m) /\ KeymapTyped(t)
    BY <2>1, IndexLoads
  <2>3. first \in WellFormedGroups /\ SourcesOfGroup(first) = SourcesOfGroup(t.groups[1])
    <3>1. t.groups = m.groups /\ m.groups[1] \in WellFormedGroups
      BY <1>1, <2>1 DEF Sound, Managers
    <3> QED BY <3>1, SwitchesWellFormed, SwitchesShow
  <2>4. CycleForward(m, e) = ActivateSelected(s, e)
    BY <1>3 DEF CycleForward
  <2> HIDE DEF t, first
  <2>5. Sound(s) /\ HasGroups(s) /\ KeymapTyped(s)
    BY <2>1, <2>2, <2>3, SwitchedHasGroups, SwitchedLoads DEF SoundLike, SameSources
  <2> HIDE DEF s
  <2> QED BY <2>4, <2>5, ActivateSelectedSound, ActivateSelectedLoads DEF SoundLike
<1> QED BY <1>2, <1>3

LEMMA CycleBackwardLoads ==
  ASSUME NEW m, Sound(m), HasGroups(m), NEW e \in Envs, ~ e.locked, KeymapTyped(m)
  PROVE  Sound(CycleBackward(m, e)) /\ Loaded(CycleBackward(m, e))
<1>1. m.groups \in Seq(WellFormedGroups) /\ m.groups # <<>> /\ m.index \in Nat
  BY DEF Sound, Managers, HasGroups
<1>2. m.index < Len(m.groups)
  BY SelectedExists, <1>1
<1>3. CASE m.index > 0
  <2> DEFINE t == [m EXCEPT !.index = m.index - 1]
  <2>1. m.index \in DOMAIN m.groups
    BY <1>1, <1>2, <1>3
  <2>2. Sound(t) /\ HasGroups(t) /\ KeymapTyped(t)
    BY <2>1, IndexLoads DEF SoundLike
  <2>3. CycleBackward(m, e) = ActivateSelected(t, e)
    BY <1>3 DEF CycleBackward
  <2> HIDE DEF t
  <2> QED BY <2>2, <2>3, ActivateSelectedSound, ActivateSelectedLoads DEF SoundLike
<1>4. CASE ~ (m.index > 0)
  <2> DEFINE n == Len(m.groups)
             t == [m EXCEPT !.index = n - 1]
             last == SwitchToLast(m.groups[n])
             s == Switched(t, n, last)
  <2>1. n \in DOMAIN m.groups
    BY <1>1
  <2>2. SoundLike(t, m) /\ KeymapTyped(t)
    BY <2>1, IndexLoads
  <2>3. last \in WellFormedGroups /\ SourcesOfGroup(last) = SourcesOfGroup(t.groups[n])
    <3>1. t.groups = m.groups /\ m.groups[n] \in WellFormedGroups
      BY <1>1, <2>1 DEF Sound, Managers
    <3> QED BY <3>1, SwitchesWellFormed, SwitchesShow
  <2>4. CycleBackward(m, e) = ActivateSelected(s, e)
    BY <1>4 DEF CycleBackward
  <2> HIDE DEF n, t, last
  <2>5. Sound(s) /\ HasGroups(s) /\ KeymapTyped(s)
    BY <2>1, <2>2, <2>3, SwitchedHasGroups, SwitchedLoads DEF SoundLike, SameSources
  <2> HIDE DEF s
  <2> QED BY <2>4, <2>5, ActivateSelectedSound, ActivateSelectedLoads DEF SoundLike
<1> QED BY <1>3, <1>4

LEMMA SwitchToNextSourceLoads ==
  ASSUME NEW m, Sound(m), NEW e \in Envs, ~ e.locked, Loaded(m)
  PROVE  Loaded(SwitchToNextSource(m, e))
<1>1. CASE ~ HasGroups(m)
  BY <1>1 DEF SwitchToNextSource
<1>2. CASE HasGroups(m)
  <2> DEFINE k == m.index + 1
             g == Selected(m)
             h == SwitchToNext(g)
             moved == IF HasNext(g) THEN Switched(m, k, h) ELSE CycleForward(m, e)
  <2>1. SwitchToNextSource(m, e) = [moved EXCEPT !.sync = TRUE]
    BY <1>2 DEF SwitchToNextSource
  <2>2. g \in WellFormedGroups /\ k \in DOMAIN m.groups
    BY <1>2, SelectedExists
  <2>3. HasNext(g) => /\ h \in WellFormedGroups /\ h.layouts # <<>>
                   /\ SourcesOfGroup(h) = SourcesOfGroup(m.groups[k])
    <3>1. HasNext(g) => g.layouts # <<>> /\ h.layouts = g.layouts
      BY <2>2 DEF HasNext, SwitchToNext, WellFormedGroups, Group
    <3> QED BY <2>2, <3>1, SwitchesWellFormed, SwitchesShow DEF Selected
  <2> HIDE DEF g, h
  <2>4. ASSUME HasNext(g) PROVE Sound(Switched(m, k, h)) /\ Loaded(Switched(m, k, h))
    BY <2>2, <2>3, <2>4, SwitchedHasGroups, SwitchedLoads DEF Loaded
  <2>5. Sound(CycleForward(m, e)) /\ Loaded(CycleForward(m, e))
    BY <1>2, CycleForwardLoads DEF Loaded
  <2>6. Sound(moved) /\ Loaded(moved)
    <3>1. CASE HasNext(g)
      BY <2>4, <3>1
    <3>2. CASE ~ HasNext(g)
      BY <2>5, <3>2
    <3> QED BY <3>1, <3>2
  <2> HIDE DEF moved
  <2>7. Loaded([moved EXCEPT !.sync = TRUE])
    BY <2>6, FlagsLoaded
  <2> QED BY <2>1, <2>7, Zenon
<1> QED BY <1>1, <1>2

LEMMA SwitchToPreviousSourceLoads ==
  ASSUME NEW m, Sound(m), NEW e \in Envs, ~ e.locked, Loaded(m)
  PROVE  Loaded(SwitchToPreviousSource(m, e))
<1>1. CASE ~ HasGroups(m)
  BY <1>1 DEF SwitchToPreviousSource
<1>2. CASE HasGroups(m)
  <2> DEFINE k == m.index + 1
             g == Selected(m)
             h == SwitchToPrevious(g)
             moved == IF HasPrevious(g) THEN Switched(m, k, h) ELSE CycleBackward(m, e)
  <2>1. SwitchToPreviousSource(m, e) = [moved EXCEPT !.sync = TRUE]
    BY <1>2 DEF SwitchToPreviousSource
  <2>2. g \in WellFormedGroups /\ k \in DOMAIN m.groups
    BY <1>2, SelectedExists
  <2>3. HasPrevious(g) => /\ h \in WellFormedGroups /\ h.layouts # <<>>
                   /\ SourcesOfGroup(h) = SourcesOfGroup(m.groups[k])
    <3>1. HasPrevious(g) => g.layouts # <<>> /\ h.layouts = g.layouts
      BY <2>2 DEF HasPrevious, SwitchToPrevious, WellFormedGroups, Group
    <3> QED BY <2>2, <3>1, SwitchesWellFormed, SwitchesShow DEF Selected
  <2> HIDE DEF g, h
  <2>4. ASSUME HasPrevious(g) PROVE Sound(Switched(m, k, h)) /\ Loaded(Switched(m, k, h))
    BY <2>2, <2>3, <2>4, SwitchedHasGroups, SwitchedLoads DEF Loaded
  <2>5. Sound(CycleBackward(m, e)) /\ Loaded(CycleBackward(m, e))
    BY <1>2, CycleBackwardLoads DEF Loaded
  <2>6. Sound(moved) /\ Loaded(moved)
    <3>1. CASE HasPrevious(g)
      BY <2>4, <3>1
    <3>2. CASE ~ HasPrevious(g)
      BY <2>5, <3>2
    <3> QED BY <3>1, <3>2
  <2> HIDE DEF moved
  <2>7. Loaded([moved EXCEPT !.sync = TRUE])
    BY <2>6, FlagsLoaded
  <2> QED BY <2>1, <2>7, Zenon
<1> QED BY <1>1, <1>2

\* The one way in which the keymap stops following the selection: an engine
\* ahead of the selected group that starts again is not selected.
LEMMA MaybeActivateHigherPriorityLoads ==
  ASSUME NEW m, Sound(m), NEW e \in Envs, ~ e.locked, Loaded(m)
  PROVE  Loaded(MaybeActivateHigherPriority(m, e))
<1> DEFINE leading == {k \in 1..m.index : \A j \in 1..k : m.groups[j].engine # NoEngine}
           a == ActivateOneOf(m, e, leading, 0)
           r == MaybeActivateHigherPriority(m, e)
<1>1. leading \in SUBSET DOMAIN m.groups
  <2>1. m.groups \in Seq(WellFormedGroups) /\ m.index \in Nat
    BY DEF Sound, Managers
  <2>2. m.index <= Len(m.groups)
    BY <2>1 DEF Sound
  <2>3. 1..m.index \subseteq DOMAIN m.groups
    BY <2>1, <2>2
  <2> QED BY <2>3
<1>2. \A k \in leading : k \in 1..m.index /\ m.groups[k].engine # NoEngine
  BY DEF Sound, Managers
<1>3. CASE Able(m, e, leading) # {}
  <2>1. r = [a EXCEPT !.index = m.index]
    BY <1>3 DEF MaybeActivateHigherPriority
  <2> HIDE DEF leading
  <2>2. SoundLike(a, m) /\ KeymapTyped(a)
    BY <1>1, ActivateOneOfSound, ActivateOneOfLoads DEF Loaded
  <2>3. PICK k \in leading : a.groups[k].engine = m.groups[k].engine
                             /\ a.keymap = Keymap(a.groups[k])
    BY <1>1, <1>3, ActivateOneOfLoads DEF Loaded
  <2> HIDE DEF a, r
  <2>4. r.index = m.index /\ r.groups = a.groups /\ r.keymap = a.keymap
    BY <2>1, <2>2 DEF SoundLike, Sound, Managers
  <2>5. KeymapTyped(r)
    BY <2>2, <2>4 DEF KeymapTyped
  <2>6. Follows(r)
    BY <1>2, <2>3, <2>4 DEF Follows
  <2> QED BY <2>5, <2>6 DEF Loaded, r
<1>4. CASE Able(m, e, leading) = {}
  <2> DEFINE t == Tried(m, e, leading)
  <2>1. r = ActivateSelected(t, e)
    BY <1>4 DEF MaybeActivateHigherPriority
  <2>2. Sound(t) /\ Loaded(t)
    BY TriedSound, TriedLoads DEF SoundLike
  <2> HIDE DEF t
  <2>3. CASE HasGroups(t)
    BY <2>1, <2>2, <2>3, ActivateSelectedLoads DEF Loaded
  <2>4. CASE ~ HasGroups(t)
    BY <2>1, <2>2, <2>4 DEF ActivateSelected
  <2> QED BY <2>3, <2>4
<1> QED BY <1>3, <1>4

LEMMA OnIsLoadedChangedLoads ==
  ASSUME NEW m, Sound(m), NEW e \in Envs, Loaded(m)
  PROVE  Loaded(OnIsLoadedChanged(m, e))
  BY MaybeActivateHigherPriorityLoads, ActivateFirstLoads DEF OnIsLoadedChanged, Loaded

LEMMA OnActiveEngineChangedLoads ==
  ASSUME NEW m, Sound(m), NEW e \in Envs, NEW n, Loaded(m)
  PROVE  Loaded(OnActiveEngineChanged(m, e, n))
  BY ActivateWithEngineLoads, ActivateFirstLoads DEF OnActiveEngineChanged, Loaded

=============================================================================
