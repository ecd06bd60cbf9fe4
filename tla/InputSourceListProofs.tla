------------------------ MODULE InputSourceListProofs ------------------------
(***************************************************************************)
(* What becomes of a list of input sources, for any layouts, engines and   *)
(* size of groups: the add loops pack it into groups that show all of it,  *)
(* in its order, in as few groups as its order allows.                     *)
(***************************************************************************)
EXTENDS InputSourceGrouping, InputSourceCycle, InputSourcesManagerProofs, SequenceTheorems

-----------------------------------------------------------------------------
(* One group more, or one layout more in the last.                         *)

LEMMA SourcesOfAppend ==
  ASSUME NEW gs \in Seq(WellFormedGroups), NEW g \in WellFormedGroups
  PROVE  SourcesOf(Append(gs, g)) = SourcesOf(gs) \o SourcesOfGroup(g)
<1> DEFINE n  == Len(gs)
           hs == Append(gs, g)
<1>1. n \in Nat /\ hs \in Seq(WellFormedGroups) /\ Len(hs) = n + 1
  OBVIOUS
<1>2. hs[n + 1] = g /\ \A k \in 1..n : hs[k] = gs[k]
  OBVIOUS
<1>3. PICK f : SourcesAt(f, gs, n)
  BY SourcesOfAt
<1> HIDE DEF hs
<1>4. PICK h : SourcesAt(h, hs, n + 1)
  BY <1>1, SourcesOfAt
<1> HIDE DEF n
<1> DEFINE T == {k \in 0..n : h[k] = f[k]}
<1>5. 0 \in T
  BY <1>1, <1>3, <1>4 DEF SourcesAt, IsUpTo
<1>6. ASSUME NEW k \in 0..(n - 1), k \in T PROVE k + 1 \in T
  <2>1. k + 1 \in 1..n /\ k + 1 \in 0..n /\ k + 1 \in 0..(n + 1) /\ k + 1 # 0 /\ (k + 1) - 1 = k
    BY <1>1
  <2>2. f[k + 1] = Joined(f[k], gs[k + 1]) /\ h[k + 1] = Joined(h[k], hs[k + 1])
    BY <1>3, <1>4, <2>1 DEF SourcesAt, IsUpTo
  <2> QED
    BY <1>2, <1>6, <2>1, <2>2
<1>7. T = 0..n
  <2>1. T \in SUBSET (0..n)
    OBVIOUS
  <2> HIDE DEF T
  <2> QED
    BY <1>1, <1>5, <1>6, <2>1, Induction
<1>8. h[n] = f[n]
  BY <1>1, <1>7
<1>9. h[n + 1] = Joined(h[n], hs[n + 1])
  <2>1. n + 1 \in 0..(n + 1) /\ n + 1 # 0 /\ (n + 1) - 1 = n
    BY <1>1
  <2> QED
    BY <1>4, <2>1 DEF SourcesAt, IsUpTo
<1> QED
  BY <1>2, <1>3, <1>4, <1>8, <1>9 DEF SourcesAt, Joined, hs

LEMMA EmptyShowsNothing == SourcesOf(<<>>) = <<>>
<1>1. <<>> \in Seq(WellFormedGroups) /\ Len(<<>>) = 0
  OBVIOUS
<1>2. PICK f : SourcesAt(f, <<>>, 0)
  BY <1>1, SourcesOfAt
<1>3. 0 \in 0..0
  OBVIOUS
<1> QED
  BY <1>2, <1>3 DEF SourcesAt, IsUpTo

\* Another last group.
LEMMA LastReplaced ==
  ASSUME NEW S, NEW fs \in Seq(S), NEW f \in S, NEW g \in S
  PROVE  LET gs == Append(fs, f) IN [gs EXCEPT ![Len(gs)] = g] = Append(fs, g)
<1> DEFINE gs == Append(fs, f)
           hs == [gs EXCEPT ![Len(gs)] = g]
           es == Append(fs, g)
           n  == Len(fs)
<1>1. n \in Nat /\ gs \in Seq(S) /\ Len(gs) = n + 1 /\ \A k \in 1..n : gs[k] = fs[k]
  BY AppendProperties
<1>2. es \in Seq(S) /\ Len(es) = n + 1 /\ es[n + 1] = g /\ \A k \in 1..n : es[k] = fs[k]
  BY AppendProperties
<1> HIDE DEF gs, es, n
<1>3. DOMAIN gs = 1..(n + 1) /\ Len(gs) = n + 1
  BY <1>1
<1>4. hs \in Seq(S) /\ Len(hs) = n + 1 /\ hs[n + 1] = g /\ \A k \in 1..n : hs[k] = gs[k]
  <2>1. hs = [k \in 1..(n + 1) |-> IF k = n + 1 THEN g ELSE gs[k]]
    BY <1>3
  <2>2. hs \in Seq(S) /\ Len(hs) = n + 1
    BY <1>1, <1>3
  <2> QED
    BY <1>1, <2>1, <2>2
<1> HIDE DEF hs
<1>5. \A k \in 1..Len(hs) : hs[k] = es[k]
  BY <1>1, <1>2, <1>4
<1>6. hs = es
  BY <1>2, <1>4, <1>5, SeqEqual
<1> QED
  BY <1>6 DEF hs, gs, es

LEMMA LayoutShows ==
  ASSUME NEW g \in WellFormedGroups, g.engine = NoEngine, NEW l \in Layouts
  PROVE  SourcesOfGroup(AddLayout(g, l)) = Append(SourcesOfGroup(g), Xkb(l))
<1> DEFINE n    == Len(g.layouts)
           h    == AddLayout(g, l)
           more == Append(g.layouts, l)
           old  == SourcesOfGroup(g)
           new  == [k \in 1..(n + 1) |-> Xkb(more[k])]
           es   == Append(old, Xkb(l))
<1>1. g.layouts \in Seq(Layouts) /\ n \in Nat
  BY DEF WellFormedGroups, Group
<1>2. h.engine = NoEngine /\ h.layouts = more
  BY DEF AddLayout, WellFormedGroups, Group
<1>3. /\ more \in Seq(Layouts) /\ Len(more) = n + 1
      /\ more[n + 1] = l /\ \A k \in 1..n : more[k] = g.layouts[k]
  BY <1>1, AppendProperties
<1>4. old \in Seq(Source) /\ Len(old) = n /\ \A k \in 1..n : old[k] = Xkb(g.layouts[k])
  <2>1. old = [k \in 1..n |-> Xkb(g.layouts[k])]
    BY <1>1 DEF SourcesOfGroup
  <2>2. old \in Seq(Source)
    BY SourcesOfGroupTyped
  <2> HIDE DEF old
  <2> QED
    BY <1>1, <2>1, <2>2
<1>5. \A m \in Layouts : Xkb(m) \in Source
  BY DEF Xkb, Source
<1> HIDE DEF more, h, old, n
<1>6. /\ es \in Seq(Source) /\ Len(es) = n + 1
      /\ es[n + 1] = Xkb(l) /\ \A k \in 1..n : es[k] = old[k]
  BY <1>4, <1>5, AppendProperties
<1>7. SourcesOfGroup(h) = new
  <2>1. DOMAIN more = 1..(n + 1)
    BY <1>3
  <2> QED
    BY <1>2, <2>1 DEF SourcesOfGroup
<1>8. new \in Seq(Source) /\ Len(new) = n + 1 /\ \A k \in 1..(n + 1) : new[k] = Xkb(more[k])
  <2>1. \A k \in 1..(n + 1) : more[k] \in Layouts
    BY <1>3
  <2> QED
    BY <1>1, <1>5, <2>1 DEF n
<1> HIDE DEF es, new
<1>9. \A k \in 1..Len(new) : new[k] = es[k]
  BY <1>1, <1>3, <1>4, <1>6, <1>8 DEF n
<1>10. new = es
  BY <1>6, <1>8, <1>9, SeqEqual
<1> QED
  BY <1>7, <1>10 DEF es, h, old

-----------------------------------------------------------------------------
(* What one source does to a list of groups.                               *)

\* Packed says it of the groups at hand.
PackedGroups(gs) ==
  \A k \in 1..(Len(gs) - 1) :
    gs[k].engine = NoEngine /\ gs[k + 1].engine = NoEngine
      => Len(gs[k].layouts) = MaxLayouts

\* A group nobody has switched or activated yet.
New(g) == g.index = 0 /\ (g.engine # NoEngine => g.layouts = <<>>)

\* What the loops keep of groups gs and the list c they have read.
Packs(gs, c) ==
  /\ gs \in Seq(WellFormedGroups)
  /\ \A k \in 1..Len(gs) : New(gs[k])
  /\ SourcesOf(gs) = c
  /\ PackedGroups(gs)

LEMMA NewLayoutGroup ==
  ASSUME NEW l \in Layouts
  PROVE  LET g == AddLayout(NewGroup, l)
         IN  /\ g \in WellFormedGroups /\ g.engine = NoEngine /\ New(g)
             /\ SourcesOfGroup(g) = <<Xkb(l)>>
<1> DEFINE g == AddLayout(NewGroup, l)
<1>1. g.engine = NoEngine /\ g.layouts = <<l>> /\ g.index = 0
  BY DEF AddLayout, NewGroup
<1>2. g \in WellFormedGroups
  BY OneLayoutWellFormed
<1> HIDE DEF g
<1>3. SourcesOfGroup(g) = <<Xkb(l)>>
  BY <1>1 DEF SourcesOfGroup
<1> QED
  BY <1>1, <1>2, <1>3 DEF g, New

LEMMA NewEngineGroup ==
  ASSUME NEW n \in Engines
  PROVE  LET g == SetInputEngine(NewGroup, n)
         IN  /\ g \in WellFormedGroups /\ g.engine = n /\ New(g)
             /\ SourcesOfGroup(g) = <<Ibus(n)>>
<1> DEFINE g == SetInputEngine(NewGroup, n)
<1>1. g.engine = n /\ g.layouts = <<>> /\ g.index = 0
  BY DEF SetInputEngine, NewGroup
<1>2. <<>> \in Seq(Layouts) /\ n # NoEngine
  BY GroupAssumption
<1>3. g \in Group
  BY <1>2, GroupAssumption DEF SetInputEngine, NewGroup, Group
<1> HIDE DEF g
<1>4. g \in WellFormedGroups
  BY <1>1, <1>2, <1>3 DEF WellFormedGroups, WellFormedGroup
<1>5. SourcesOfGroup(g) = <<Ibus(n)>>
  BY <1>1, <1>2 DEF SourcesOfGroup
<1> QED
  BY <1>1, <1>4, <1>5 DEF g, New

LEMMA GroupAppended ==
  ASSUME NEW gs, NEW c, Packs(gs, c), NEW g \in WellFormedGroups, NEW s \in Source,
         SourcesOfGroup(g) = <<s>>, New(g),
         g.engine # NoEngine \/ gs = <<>> \/ ~Accepts(gs[Len(gs)])
  PROVE  Packs(Append(gs, g), Append(c, s))
<1> DEFINE n  == Len(gs)
           hs == Append(gs, g)
<1>1. gs \in Seq(WellFormedGroups) /\ n \in Nat
  BY DEF Packs
<1>2. /\ hs \in Seq(WellFormedGroups) /\ Len(hs) = n + 1
      /\ hs[n + 1] = g /\ \A k \in 1..n : hs[k] = gs[k]
  BY <1>1, AppendProperties
<1>3. SourcesOf(hs) = Append(c, s)
  <2>1. c \in Seq(Source) /\ c = SourcesOf(gs)
    BY <1>1, SourcesOfTyped DEF Packs
  <2>2. SourcesOf(hs) = c \o <<s>>
    BY <1>1, <2>1, SourcesOfAppend
  <2> QED
    BY <2>1, <2>2, AppendIsConcat
<1> HIDE DEF hs
<1>4. ASSUME NEW k \in 1..(Len(hs) - 1), hs[k].engine = NoEngine, hs[k + 1].engine = NoEngine
      PROVE  Len(hs[k].layouts) = MaxLayouts
  <2>1. k \in 1..n /\ hs[k] = gs[k]
    BY <1>1, <1>2
  <2>2. CASE k = n
    <3>1. gs[n] \in WellFormedGroups /\ gs # <<>>
      BY <1>1, <2>1, <2>2
    <3>2. gs[n].engine = NoEngine /\ ~Accepts(gs[n])
      BY <1>2, <1>4, <2>1, <2>2, <3>1
    <3>3. /\ Len(gs[n].layouts) \in 1..MaxLayouts /\ MaxLayouts \in Nat
          /\ ~(Len(gs[n].layouts) < MaxLayouts)
      BY <3>1, <3>2, GroupAssumption DEF WellFormedGroups, WellFormedGroup, Accepts
    <3> QED
      BY <2>1, <2>2, <3>3
  <2>3. CASE k # n
    <3>1. k \in 1..(n - 1) /\ hs[k + 1] = gs[k + 1]
      BY <1>1, <1>2, <2>1, <2>3
    <3> QED
      BY <1>4, <2>1, <3>1 DEF Packs, PackedGroups
  <2> QED
    BY <2>2, <2>3
<1>5. \A k \in 1..Len(hs) : New(hs[k])
  BY <1>1, <1>2 DEF Packs
<1> QED
  BY <1>2, <1>3, <1>4, <1>5 DEF Packs, PackedGroups, hs

LEMMA LayoutAccepted ==
  ASSUME NEW gs, NEW c, Packs(gs, c), NEW l \in Layouts, gs # <<>>, Accepts(gs[Len(gs)])
  PROVE  Packs([gs EXCEPT ![Len(gs)] = AddLayout(@, l)], Append(c, Xkb(l)))
<1>1. PICK fs \in Seq(WellFormedGroups), f \in WellFormedGroups : gs = Append(fs, f)
  BY SequenceEmptyOrAppend DEF Packs
<1> DEFINE n  == Len(fs)
           g  == AddLayout(f, l)
           hs == Append(fs, g)
           s  == Xkb(l)
<1>2. Len(gs) = n + 1 /\ gs[n + 1] = f /\ n \in Nat /\ \A k \in 1..n : gs[k] = fs[k]
  BY <1>1, AppendProperties
<1>3. f.engine = NoEngine /\ g \in WellFormedGroups
  BY <1>2, AddLayoutWellFormed DEF Accepts
<1>4. g.engine = NoEngine /\ New(g)
  <2>1. New(f)
    BY <1>2 DEF Packs
  <2> QED
    BY <1>3, <2>1 DEF AddLayout, WellFormedGroups, Group, New
<1>5. [gs EXCEPT ![Len(gs)] = AddLayout(@, l)] = hs
  <2>1. [gs EXCEPT ![Len(gs)] = AddLayout(@, l)] = [gs EXCEPT ![Len(gs)] = g]
    BY <1>2
  <2> HIDE DEF g
  <2> QED
    BY <1>1, <1>3, <2>1, LastReplaced
<1>6. /\ hs \in Seq(WellFormedGroups) /\ Len(hs) = n + 1 /\ hs[n + 1] = g
      /\ \A k \in 1..n : hs[k] = fs[k]
  <2> HIDE DEF g
  <2> QED
    BY <1>3, AppendProperties
<1>7. SourcesOf(hs) = Append(c, s)
  <2>1. s \in Source
    BY DEF Xkb, Source
  <2>2. SourcesOfGroup(g) = Append(SourcesOfGroup(f), s)
    BY <1>3, LayoutShows
  <2>3. SourcesOfGroup(f) \in Seq(Source) /\ SourcesOf(fs) \in Seq(Source)
    BY SourcesOfGroupTyped, SourcesOfTyped
  <2>4. c = SourcesOf(fs) \o SourcesOfGroup(f)
    BY <1>1, SourcesOfAppend DEF Packs
  <2> HIDE DEF g, s
  <2>5. SourcesOf(hs) = SourcesOf(fs) \o Append(SourcesOfGroup(f), s)
    BY <1>3, <2>2, SourcesOfAppend
  <2> QED
    BY <2>1, <2>3, <2>4, <2>5
<1> HIDE DEF hs, g
<1>8. ASSUME NEW k \in 1..(Len(hs) - 1), hs[k].engine = NoEngine, hs[k + 1].engine = NoEngine
      PROVE  Len(hs[k].layouts) = MaxLayouts
  <2>1. k \in 1..n /\ hs[k] = gs[k] /\ k \in 1..(Len(gs) - 1)
    BY <1>2, <1>6
  <2>2. gs[k + 1].engine = NoEngine
    <3>1. CASE k = n
      BY <1>2, <1>3, <3>1
    <3>2. CASE k # n
      <4>1. k + 1 \in 1..n
        BY <1>2, <2>1, <3>2
      <4> QED
        BY <1>2, <1>6, <1>8, <4>1
    <3> QED
      BY <3>1, <3>2
  <2> QED
    BY <1>8, <2>1, <2>2 DEF Packs, PackedGroups
<1>9. \A k \in 1..Len(hs) : New(hs[k])
  BY <1>2, <1>4, <1>6 DEF Packs
<1> QED
  BY <1>5, <1>6, <1>7, <1>8, <1>9 DEF Packs, PackedGroups

\* Adding a source keeps the groups packed, and shows it after the others if it is known.
LEMMA AddSourcePacks ==
  ASSUME NEW gs, NEW c, Packs(gs, c), NEW s \in Source
  PROVE  Packs(AddSource(gs, s), IF Known(s) THEN Append(c, s) ELSE c)
<1>1. CASE s.type = "ibus"
  <2>1. s.id \in Engines /\ s = Ibus(s.id) /\ s.type # "xkb" /\ Known(s)
    BY <1>1 DEF Source, Ibus, Known
  <2> DEFINE g == SetInputEngine(NewGroup, s.id)
  <2>2. g \in WellFormedGroups /\ g.engine # NoEngine /\ SourcesOfGroup(g) = <<s>> /\ New(g)
    BY <2>1, NewEngineGroup, GroupAssumption
  <2>3. AddSource(gs, s) = Append(gs, g)
    BY <2>1 DEF AddSource, AddEngineSource
  <2> HIDE DEF g
  <2> QED
    BY <2>1, <2>2, <2>3, GroupAppended
<1>2. CASE s.type # "ibus"
  <2>1. s.id \in Layouts /\ s = Xkb(s.id) /\ AddSource(gs, s) = AddLayoutSource(gs, s.id)
        /\ (Known(s) <=> s.id \in KnownLayouts)
    BY <1>2 DEF Source, Xkb, Known, AddSource
  <2>2. CASE s.id \notin KnownLayouts
    <3>1. AddSource(gs, s) = gs /\ ~Known(s)
      BY <2>1, <2>2 DEF AddLayoutSource
    <3> QED
      BY <3>1
  <2>3. CASE s.id \in KnownLayouts /\ gs # <<>> /\ Accepts(gs[Len(gs)])
    <3>1. AddSource(gs, s) = [gs EXCEPT ![Len(gs)] = AddLayout(@, s.id)]
      BY <2>1, <2>3 DEF AddLayoutSource
    <3>2. Packs([gs EXCEPT ![Len(gs)] = AddLayout(@, s.id)], Append(c, Xkb(s.id)))
      BY <2>1, <2>3, LayoutAccepted
    <3>3. Known(s)
      BY <2>1, <2>3
    <3> QED
      BY <2>1, <3>1, <3>2, <3>3
  <2>4. CASE s.id \in KnownLayouts /\ ~(gs # <<>> /\ Accepts(gs[Len(gs)]))
    <3> DEFINE g == AddLayout(NewGroup, s.id)
    <3>1. g \in WellFormedGroups /\ SourcesOfGroup(g) = <<s>> /\ New(g)
      BY <2>1, NewLayoutGroup
    <3>2. AddSource(gs, s) = Append(gs, g)
      BY <2>1, <2>4 DEF AddLayoutSource
    <3> HIDE DEF g
    <3> QED
      BY <2>1, <2>4, <3>1, <3>2, GroupAppended
  <2> QED
    BY <2>2, <2>3, <2>4
<1> QED
  BY <1>1, <1>2

LEMMA NothingPacked == Packs(<<>>, <<>>)
<1>1. <<>> \in Seq(WellFormedGroups) /\ Len(<<>>) = 0 /\ 1..0 = {}
  OBVIOUS
<1> QED
  BY <1>1, EmptyShowsNothing DEF Packs, PackedGroups

-----------------------------------------------------------------------------
(* What all the sources of a list do.                                      *)

\* A function that is defined by recursion on 0..n from what is known of the sources before.
IsKnownTo(f, c, n) ==
  f = [k \in 0..n |-> IF k = 0 THEN <<>>
                      ELSE IF Known(c[k]) THEN Append(f[k - 1], c[k]) ELSE f[k - 1]]

LEMMA KnownToExists ==
  ASSUME NEW c, NEW n \in Nat
  PROVE  \E f : IsKnownTo(f, c, n)
<1> DEFINE T == {i \in 0..n : \E f : IsKnownTo(f, c, i)}
<1>1. 0 \in T
  <2> DEFINE f == [k \in 0..0 |-> <<>>]
  <2>1. IsKnownTo(f, c, 0)
    BY DEF IsKnownTo
  <2> HIDE DEF f
  <2> QED
    BY <2>1
<1>2. ASSUME NEW i \in 0..(n - 1), i \in T PROVE i + 1 \in T
  <2>1. PICK f : IsKnownTo(f, c, i)
    BY <1>2
  <2> DEFINE last == IF Known(c[i + 1]) THEN Append(f[i], c[i + 1]) ELSE f[i]
             h == [k \in 0..(i + 1) |-> IF k = i + 1 THEN last ELSE f[k]]
  <2>2. ASSUME NEW k \in 0..(i + 1)
        PROVE  h[k] = IF k = 0 THEN <<>>
                      ELSE IF Known(c[k]) THEN Append(h[k - 1], c[k]) ELSE h[k - 1]
    <3>1. CASE k = i + 1
      <4>1. h[k] = last /\ h[k - 1] = f[i] /\ k # 0
        BY <3>1
      <4> HIDE DEF h
      <4> QED
        BY <3>1, <4>1
    <3>2. CASE k \in 0..i
      <4>1. h[k] = f[k] /\ (k # 0 => h[k - 1] = f[k - 1])
        BY <3>2
      <4> HIDE DEF h
      <4> QED
        BY <2>1, <3>2, <4>1 DEF IsKnownTo
    <3> QED
      BY <3>1, <3>2
  <2>3. h = [k \in 0..(i + 1) |-> h[k]]
    OBVIOUS
  <2> HIDE DEF h
  <2>4. IsKnownTo(h, c, i + 1)
    BY <2>2, <2>3 DEF IsKnownTo
  <2> QED
    BY <2>4
<1>3. T = 0..n
  <2>1. T \in SUBSET (0..n)
    OBVIOUS
  <2> HIDE DEF T
  <2> QED
    BY <1>1, <1>2, <2>1, Induction
<1> QED
  BY <1>3

LEMMA KnownSourcesAt ==
  ASSUME NEW c \in Seq(Source)
  PROVE  \E f : IsKnownTo(f, c, Len(c)) /\ KnownSources(c) = f[Len(c)]
<1> DEFINE n == Len(c)
           f == CHOOSE g : IsKnownTo(g, c, n)
<1>1. n \in Nat
  OBVIOUS
<1>2. IsKnownTo(f, c, n)
  BY <1>1, KnownToExists
<1>3. KnownSources(c) = f[n]
  BY DEF KnownSources, IsKnownTo
<1> HIDE DEF f
<1> QED
  BY <1>2, <1>3

LEMMA KnownSourcesOfNothing == KnownSources(<<>>) = <<>>
<1>1. <<>> \in Seq(Source) /\ Len(<<>>) = 0 /\ 0 \in 0..0
  OBVIOUS
<1>2. PICK f : IsKnownTo(f, <<>>, 0) /\ KnownSources(<<>>) = f[0]
  BY <1>1, KnownSourcesAt
<1> QED
  BY <1>1, <1>2 DEF IsKnownTo

LEMMA KnownSourcesAppend ==
  ASSUME NEW c \in Seq(Source), NEW s \in Source
  PROVE  KnownSources(Append(c, s)) =
           IF Known(s) THEN Append(KnownSources(c), s) ELSE KnownSources(c)
<1> DEFINE n == Len(c)
           d == Append(c, s)
<1>1. n \in Nat /\ d \in Seq(Source) /\ Len(d) = n + 1 /\ d[n + 1] = s
      /\ \A k \in 1..n : d[k] = c[k]
  BY AppendProperties
<1>2. PICK f : IsKnownTo(f, c, n) /\ KnownSources(c) = f[n]
  BY KnownSourcesAt
<1> HIDE DEF d
<1>3. PICK h : IsKnownTo(h, d, n + 1) /\ KnownSources(d) = h[n + 1]
  BY <1>1, KnownSourcesAt
<1> HIDE DEF n
<1> DEFINE T == {k \in 0..n : h[k] = f[k]}
<1>4. 0 \in T
  BY <1>1, <1>2, <1>3 DEF IsKnownTo
<1>5. ASSUME NEW k \in 0..(n - 1), k \in T PROVE k + 1 \in T
  <2>1. k + 1 \in 1..n /\ k + 1 \in 0..n /\ k + 1 \in 0..(n + 1) /\ k + 1 # 0 /\ (k + 1) - 1 = k
    BY <1>1
  <2>2. f[k + 1] = IF Known(c[k + 1]) THEN Append(f[k], c[k + 1]) ELSE f[k]
    BY <1>2, <2>1 DEF IsKnownTo
  <2>3. h[k + 1] = IF Known(d[k + 1]) THEN Append(h[k], d[k + 1]) ELSE h[k]
    BY <1>3, <2>1 DEF IsKnownTo
  <2> QED
    BY <1>1, <1>5, <2>1, <2>2, <2>3
<1>6. T = 0..n
  <2>1. T \in SUBSET (0..n)
    OBVIOUS
  <2> HIDE DEF T
  <2> QED
    BY <1>1, <1>4, <1>5, <2>1, Induction
<1>7. h[n] = f[n]
  BY <1>1, <1>6
<1>8. h[n + 1] = IF Known(d[n + 1]) THEN Append(h[n], d[n + 1]) ELSE h[n]
  <2>1. n + 1 \in 0..(n + 1) /\ n + 1 # 0 /\ (n + 1) - 1 = n
    BY <1>1
  <2> QED
    BY <1>3, <2>1 DEF IsKnownTo
<1>9. KnownSources(d) = IF Known(s) THEN Append(KnownSources(c), s) ELSE KnownSources(c)
  BY <1>1, <1>2, <1>3, <1>7, <1>8
<1> QED
  BY <1>9 DEF d

\* The groups that a list is packed into show what is known of the list, in its order, and
\* are no more than its order requires: what org.gnome.Kiosk.InputSources publishes after
\* set_input_sources is the list that was set.
THEOREM ListIsShown ==
  ASSUME NEW c \in Seq(Source)
  PROVE  Packs(GroupsOf(c), KnownSources(c))
<1> DEFINE n     == Len(c)
           after == CHOOSE f : IsAfter(f, c, n)
<1>1. n \in Nat /\ n \in 0..Len(c)
  OBVIOUS
<1>2. IsAfter(after, c, n)
  <2>1. \E f : IsAfter(f, c, n)
    BY <1>1, AfterExists
  <2> QED
    BY <2>1
<1>3. GroupsOf(c) = after[n]
  BY DEF GroupsOf, IsAfter
<1> HIDE DEF after
<1>4. PICK known : IsKnownTo(known, c, n) /\ KnownSources(c) = known[n]
  BY KnownSourcesAt
<1> DEFINE T == {k \in 0..n : Packs(after[k], known[k])}
<1>5. 0 \in T
  <2>1. 0 \in 0..n /\ after[0] = <<>> /\ known[0] = <<>>
    BY <1>1, <1>2, <1>4 DEF IsAfter, IsKnownTo
  <2> QED
    BY <2>1, NothingPacked
<1>6. ASSUME NEW k \in 0..(n - 1), k \in T PROVE k + 1 \in T
  <2>1. k + 1 \in 0..n /\ k + 1 # 0 /\ (k + 1) - 1 = k /\ c[k + 1] \in Source
    BY <1>1
  <2>2. after[k + 1] = AddSource(after[k], c[k + 1])
    BY <1>2, <2>1 DEF IsAfter
  <2>3. known[k + 1] = IF Known(c[k + 1]) THEN Append(known[k], c[k + 1]) ELSE known[k]
    BY <1>4, <2>1 DEF IsKnownTo
  <2>4. Packs(AddSource(after[k], c[k + 1]),
              IF Known(c[k + 1]) THEN Append(known[k], c[k + 1]) ELSE known[k])
    BY <1>6, <2>1, AddSourcePacks
  <2> QED
    BY <2>1, <2>2, <2>3, <2>4
<1>7. T = 0..n
  <2>1. T \in SUBSET (0..n)
    OBVIOUS
  <2> HIDE DEF T
  <2> QED
    BY <1>1, <1>5, <1>6, <2>1, Induction
<1> QED
  BY <1>1, <1>3, <1>4, <1>7

-----------------------------------------------------------------------------
(* The loops one iteration at a time.                                      *)

GroupingInv == configured \in Seq(Source) /\ Packs(groups, KnownSources(configured))

LEMMA GroupingInvariant ==
  ASSUME GroupingInv, [GroupingNext]_groupingVars
  PROVE  GroupingInv'
<1>1. ASSUME NEW s \in Source, configured' = Append(configured, s), groups' = AddSource(groups, s)
      PROVE  GroupingInv'
  <2>1. configured' \in Seq(Source)
    BY <1>1 DEF GroupingInv
  <2>2. KnownSources(configured') =
          IF Known(s) THEN Append(KnownSources(configured), s) ELSE KnownSources(configured)
    BY <1>1, KnownSourcesAppend DEF GroupingInv
  <2>3. Packs(groups', KnownSources(configured'))
    BY <1>1, <2>2, AddSourcePacks DEF GroupingInv
  <2> QED
    BY <2>1, <2>3 DEF GroupingInv
<1>2. ASSUME NEW l \in Layouts, AddLayoutCall(l) PROVE GroupingInv'
  <2>1. Xkb(l) \in Source /\ AddSource(groups, Xkb(l)) = AddLayoutSource(groups, l)
    BY DEF Xkb, Source, AddSource
  <2> QED
    BY <1>1, <1>2, <2>1 DEF AddLayoutCall
<1>3. ASSUME NEW n \in Engines, AddEngineCall(n) PROVE GroupingInv'
  <2>1. Ibus(n) \in Source /\ AddSource(groups, Ibus(n)) = AddEngineSource(groups, n)
    BY DEF Ibus, Source, AddSource
  <2> QED
    BY <1>1, <1>3, <2>1 DEF AddEngineCall
<1>4. CASE UNCHANGED groupingVars
  BY <1>4 DEF groupingVars, GroupingInv
<1> QED
  BY <1>2, <1>3, <1>4 DEF GroupingNext

THEOREM GroupingKeepsInvariant == GroupingSpec => []GroupingInv
<1>1. GroupingInit => GroupingInv
  BY NothingPacked, KnownSourcesOfNothing DEF GroupingInit, GroupingInv
<1> QED
  BY <1>1, GroupingInvariant, PTL DEF GroupingSpec

\* add_layout and add_input_engine lose, repeat and reorder nothing, whatever they are given
\* and however many layouts a group takes.
THEOREM SourcesKeepTheirPlace == GroupingSpec => []NothingLost
<1>1. GroupingInv => NothingLost
  BY DEF GroupingInv, Packs, NothingLost
<1> QED
  BY <1>1, GroupingKeepsInvariant, PTL

\* A layout goes to a new group only when the one before takes no more.
THEOREM GroupsAreFull == GroupingSpec => []Packed
<1>1. GroupingInv => Packed
  BY DEF GroupingInv, Packs, PackedGroups, Packed
<1> QED
  BY <1>1, GroupingKeepsInvariant, PTL
-----------------------------------------------------------------------------
(* Groups and the sources they show.                                       *)

\* A list of which everything is known is shown as it is.
LEMMA AllKnown ==
  ASSUME NEW c \in Seq(Source), \A k \in DOMAIN c : Known(c[k])
  PROVE  KnownSources(c) = c
<1> DEFINE n == Len(c)
<1>1. n \in Nat /\ DOMAIN c = 1..n
  OBVIOUS
<1>2. PICK f : IsKnownTo(f, c, n) /\ KnownSources(c) = f[n]
  BY KnownSourcesAt
<1> DEFINE Shown(k) == /\ f[k] \in Seq(Source) /\ Len(f[k]) = k
                       /\ \A j \in 1..k : f[k][j] = c[j]
           T == {k \in 0..n : Shown(k)}
<1>3. 0 \in T
  <2>1. f[0] = <<>> /\ 0 \in 0..n
    BY <1>1, <1>2 DEF IsKnownTo
  <2>2. <<>> \in Seq(Source) /\ Len(<<>>) = 0 /\ 1..0 = {}
    OBVIOUS
  <2>3. Shown(0)
    BY <2>1, <2>2
  <2> QED
    BY <2>1, <2>3
<1>4. ASSUME NEW k \in 0..(n - 1), k \in T PROVE k + 1 \in T
  <2>1. k + 1 \in 1..n /\ k + 1 \in 0..n /\ k + 1 # 0 /\ (k + 1) - 1 = k /\ c[k + 1] \in Source
    BY <1>1
  <2>2. f[k + 1] = Append(f[k], c[k + 1])
    BY <1>1, <1>2, <2>1 DEF IsKnownTo
  <2>3. f[k] \in Seq(Source) /\ Len(f[k]) = k /\ \A j \in 1..k : f[k][j] = c[j]
    BY <1>4
  <2>4. /\ f[k + 1] \in Seq(Source) /\ Len(f[k + 1]) = k + 1
        /\ f[k + 1][k + 1] = c[k + 1] /\ \A j \in 1..k : f[k + 1][j] = f[k][j]
    BY <2>1, <2>2, <2>3, AppendProperties
  <2>5. \A j \in 1..(k + 1) : f[k + 1][j] = c[j]
    <3>1. \A j \in 1..(k + 1) : j \in 1..k \/ j = k + 1
      BY <2>1
    <3> QED
      BY <2>3, <2>4, <3>1, Zenon
  <2> QED
    BY <2>1, <2>4, <2>5
<1>5. T = 0..n
  <2>1. T \in SUBSET (0..n)
    OBVIOUS
  <2> HIDE DEF T
  <2> QED
    BY <1>1, <1>3, <1>4, <2>1, Induction
<1>6. Shown(n)
  BY <1>1, <1>5
<1> QED
  BY <1>1, <1>2, <1>6, SeqEqual

LEMMA GroupShows ==
  ASSUME NEW g \in WellFormedGroups
  PROVE  /\ SourcesOfGroup(g) \in Seq(Source)
         /\ g.engine # NoEngine => SourcesOfGroup(g) = <<Ibus(g.engine)>>
         /\ g.engine = NoEngine =>
              /\ Len(SourcesOfGroup(g)) = Len(g.layouts)
              /\ \A k \in 1..Len(g.layouts) : SourcesOfGroup(g)[k] = Xkb(g.layouts[k])
         /\ Len(SourcesOfGroup(g)) \in Nat \ {0}
<1> DEFINE q == SourcesOfGroup(g)
<1>1. q \in Seq(Source)
  BY SourcesOfGroupTyped
<1>2. CASE g.engine # NoEngine
  <2>1. q = <<Ibus(g.engine)>>
    BY <1>2 DEF SourcesOfGroup
  <2> HIDE DEF q
  <2>2. Len(q) = 1
    BY <2>1
  <2> QED
    BY <1>1, <1>2, <2>1, <2>2 DEF q
<1>3. CASE g.engine = NoEngine
  <2>1. g.layouts \in Seq(Layouts) /\ Len(g.layouts) \in 1..MaxLayouts
    BY <1>3 DEF WellFormedGroups, WellFormedGroup, Group
  <2>2. Len(g.layouts) \in Nat \ {0}
    BY <2>1, GroupAssumption
  <2>3. q = [k \in 1..Len(g.layouts) |-> Xkb(g.layouts[k])]
    BY <1>3, <2>1 DEF SourcesOfGroup
  <2> HIDE DEF q
  <2>4. Len(q) = Len(g.layouts) /\ \A k \in 1..Len(g.layouts) : q[k] = Xkb(g.layouts[k])
    BY <1>1, <2>1, <2>3
  <2> QED
    BY <1>1, <1>3, <2>2, <2>4 DEF q
<1> QED
  BY <1>2, <1>3

\* Groups that show the same sources differ in nothing but the selected layout and an engine's
\* layout.
LEMMA SameShownSame ==
  ASSUME NEW g \in WellFormedGroups, NEW h \in WellFormedGroups,
         SourcesOfGroup(g) = SourcesOfGroup(h)
  PROVE  /\ g.engine = h.engine
         /\ g.engine = NoEngine => g.layouts = h.layouts
<1>1. ASSUME NEW a \in WellFormedGroups, NEW b \in WellFormedGroups,
             SourcesOfGroup(a) = SourcesOfGroup(b), a.engine # NoEngine
      PROVE  b.engine = a.engine
  <2>1. SourcesOfGroup(a)[1] = Ibus(a.engine) /\ Len(SourcesOfGroup(a)) = 1
    BY <1>1, GroupShows
  <2>2. CASE b.engine # NoEngine
    <3>1. SourcesOfGroup(b)[1] = Ibus(b.engine)
      BY <2>2, GroupShows
    <3> QED
      BY <1>1, <2>1, <3>1 DEF Ibus
  <2>3. CASE b.engine = NoEngine
    <3>1. Len(b.layouts) = 1
      BY <1>1, <2>1, <2>3, GroupShows
    <3>2. SourcesOfGroup(b)[1] = Xkb(b.layouts[1])
      BY <2>3, <3>1, GroupShows
    <3> QED
      BY <1>1, <2>1, <3>2 DEF Ibus, Xkb
  <2> QED
    BY <2>2, <2>3
<1>2. g.engine = h.engine
  BY <1>1
<1>3. ASSUME g.engine = NoEngine PROVE g.layouts = h.layouts
  <2>1. g.layouts \in Seq(Layouts) /\ h.layouts \in Seq(Layouts)
    BY DEF WellFormedGroups, Group
  <2>2. /\ Len(SourcesOfGroup(g)) = Len(g.layouts) /\ Len(SourcesOfGroup(h)) = Len(h.layouts)
        /\ \A k \in 1..Len(g.layouts) : SourcesOfGroup(g)[k] = Xkb(g.layouts[k])
        /\ \A k \in 1..Len(h.layouts) : SourcesOfGroup(h)[k] = Xkb(h.layouts[k])
    BY <1>2, <1>3, GroupShows
  <2>3. Len(g.layouts) = Len(h.layouts)
    BY <2>2
  <2>4. \A k \in 1..Len(g.layouts) : Xkb(g.layouts[k]) = Xkb(h.layouts[k])
    BY <2>2, <2>3
  <2>5. \A k \in 1..Len(g.layouts) : g.layouts[k] = h.layouts[k]
    BY <2>4 DEF Xkb
  <2> QED
    BY <2>1, <2>3, <2>5, SeqEqual
<1> QED
  BY <1>2, <1>3

-----------------------------------------------------------------------------
(* Where a group's sources are in the list.                                *)

\* The sources of the first i groups.
Before(gs, i) == SourcesOf(SubSeq(gs, 1, i))

LEMMA BeforeTyped ==
  ASSUME NEW gs \in Seq(WellFormedGroups), NEW i \in 0..Len(gs)
  PROVE  /\ SubSeq(gs, 1, i) \in Seq(WellFormedGroups)
         /\ Len(SubSeq(gs, 1, i)) = i
         /\ \A k \in 1..i : SubSeq(gs, 1, i)[k] = gs[k]
         /\ Before(gs, i) \in Seq(Source)
<1> DEFINE hs == SubSeq(gs, 1, i)
<1>1. Len(gs) \in Nat /\ i \in Nat
  OBVIOUS
<1>2. hs \in Seq(WellFormedGroups) /\ Len(hs) = i /\ \A k \in 1..i : hs[k] = gs[k]
  BY <1>1
<1> HIDE DEF hs
<1>3. SourcesOf(hs) \in Seq(Source)
  BY <1>2, SourcesOfTyped
<1> QED
  BY <1>2, <1>3 DEF hs, Before

LEMMA BeforeEnds ==
  ASSUME NEW gs \in Seq(WellFormedGroups)
  PROVE  Len(Before(gs, 0)) = 0 /\ Before(gs, Len(gs)) = SourcesOf(gs)
<1>1. SubSeq(gs, 1, 0) = <<>> /\ SubSeq(gs, 1, Len(gs)) = gs
  BY SubSeqEmpty, SubSeqFull
<1>2. Len(<<>>) = 0
  OBVIOUS
<1> QED
  BY <1>1, <1>2, EmptyShowsNothing DEF Before

LEMMA BeforeNext ==
  ASSUME NEW gs \in Seq(WellFormedGroups), NEW i \in 0..(Len(gs) - 1)
  PROVE  /\ Before(gs, i + 1) = Before(gs, i) \o SourcesOfGroup(gs[i + 1])
         /\ Len(Before(gs, i + 1)) = Len(Before(gs, i)) + Len(SourcesOfGroup(gs[i + 1]))
<1> DEFINE hs == SubSeq(gs, 1, i)
           g  == gs[i + 1]
<1>1. Len(gs) \in Nat /\ i \in 0..Len(gs) /\ i + 1 \in 0..Len(gs) /\ i + 1 \in 1..Len(gs)
      /\ (i + 1) - 1 = i
  OBVIOUS
<1>2. hs \in Seq(WellFormedGroups) /\ g \in WellFormedGroups
  BY <1>1, BeforeTyped
<1>3. SubSeq(gs, 1, i + 1) = Append(hs, g)
  <2>1. SubSeq(gs, 1, i + 1) = SubSeq(gs, 1, i) \o <<gs[i + 1]>>
    BY <1>1, SubSeqRecursiveSecond
  <2> HIDE DEF hs, g
  <2>2. Append(hs, g) = hs \o <<g>>
    BY <1>2, AppendIsConcat
  <2> QED
    BY <2>1, <2>2 DEF hs, g
<1> HIDE DEF hs, g
<1>4. SourcesOf(Append(hs, g)) = SourcesOf(hs) \o SourcesOfGroup(g)
  BY <1>2, SourcesOfAppend
<1>5. SourcesOf(hs) \in Seq(Source) /\ SourcesOfGroup(g) \in Seq(Source)
  BY <1>2, SourcesOfTyped, SourcesOfGroupTyped
<1>6. Len(SourcesOf(hs) \o SourcesOfGroup(g)) = Len(SourcesOf(hs)) + Len(SourcesOfGroup(g))
  BY <1>5, ConcatProperties
<1> QED
  BY <1>3, <1>4, <1>6 DEF Before, hs, g

\* Groups that show the same sources place them at the same positions.
LEMMA SameBefore ==
  ASSUME NEW gs \in Seq(WellFormedGroups), NEW hs \in Seq(WellFormedGroups),
         SameSources(gs, hs), NEW i \in 0..Len(hs)
  PROVE  Len(gs) = Len(hs) /\ Before(gs, i) = Before(hs, i)
<1>1. Len(gs) = Len(hs) /\ Len(gs) \in Nat /\ DOMAIN hs = 1..Len(hs)
  BY DEF SameSources
<1> DEFINE fs == SubSeq(gs, 1, i)
           es == SubSeq(hs, 1, i)
<1>2. fs \in Seq(WellFormedGroups) /\ Len(fs) = i /\ \A k \in 1..i : fs[k] = gs[k]
  BY <1>1, BeforeTyped
<1>3. es \in Seq(WellFormedGroups) /\ Len(es) = i /\ \A k \in 1..i : es[k] = hs[k]
  BY BeforeTyped
<1> HIDE DEF fs, es
<1>4. DOMAIN fs = 1..i /\ DOMAIN es = 1..i
  BY <1>2, <1>3
<1>5. \A k \in 1..i : SourcesOfGroup(fs[k]) = SourcesOfGroup(es[k])
  BY <1>1, <1>2, <1>3 DEF SameSources
<1>6. SourcesOf(fs) = SourcesOf(es)
  BY <1>2, <1>3, <1>4, <1>5, SameGroupsSameSources
<1> QED
  BY <1>1, <1>6 DEF Before, fs, es

LEMMA ShownBefore ==
  ASSUME NEW gs \in Seq(WellFormedGroups), NEW i \in 0..(Len(gs) - 1),
         NEW j \in 1..Len(SourcesOfGroup(gs[i + 1]))
  PROVE  LET k == Len(Before(gs, i)) + j
         IN  k \in 1..Len(SourcesOf(gs)) /\ SourcesOf(gs)[k] = SourcesOfGroup(gs[i + 1])[j]
<1> DEFINE n == Len(gs)
           q == SourcesOfGroup(gs[i + 1])
           b == Len(Before(gs, i))
           At(h) == b + j \in 1..Len(Before(gs, h)) /\ Before(gs, h)[b + j] = q[j]
           T == {h \in 0..(n - 1 - i) : At(i + 1 + h)}
<1>1. n \in Nat /\ i \in 0..n /\ i + 1 \in 1..n /\ n - 1 - i \in Nat
  OBVIOUS
<1>2. Before(gs, i) \in Seq(Source) /\ q \in Seq(Source) /\ b \in Nat /\ j \in 1..Len(q)
  BY <1>1, BeforeTyped, SourcesOfGroupTyped
<1>3. 0 \in T
  <2>1. Before(gs, i + 1) = Before(gs, i) \o q
    BY BeforeNext
  <2>2. /\ Len(Before(gs, i) \o q) = b + Len(q)
        /\ (Before(gs, i) \o q)[b + j] = q[(b + j) - b]
    <3> HIDE DEF q
    <3>1. b + j \in 1..(b + Len(q)) /\ ~(b + j <= b)
      BY <1>2
    <3> QED
      BY <1>2, <3>1, ConcatProperties
  <2>3. (b + j) - b = j /\ b + j \in 1..(b + Len(q)) /\ i + 1 + 0 = i + 1 /\ 0 \in 0..(n - 1 - i)
    BY <1>1, <1>2
  <2> QED
    BY <2>1, <2>2, <2>3
<1>4. ASSUME NEW h \in 0..((n - 1 - i) - 1), h \in T PROVE h + 1 \in T
  <2> DEFINE p == i + 1 + h
  <2>1. /\ p \in 0..(n - 1) /\ p \in 0..n /\ p + 1 \in 1..n /\ p + 1 = i + 1 + (h + 1)
        /\ h + 1 \in 0..(n - 1 - i)
    BY <1>1
  <2>2. At(p)
    BY <1>4
  <2> HIDE DEF p
  <2> DEFINE s == Before(gs, p)
             t == SourcesOfGroup(gs[p + 1])
  <2>3. s \in Seq(Source) /\ t \in Seq(Source)
    <3>1. gs[p + 1] \in WellFormedGroups
      BY <2>1
    <3>2. s \in Seq(Source)
      BY <2>1, BeforeTyped
    <3> QED
      BY <3>1, <3>2, SourcesOfGroupTyped
  <2>4. Before(gs, p + 1) = s \o t
    BY <2>1, BeforeNext
  <2>5. b + j \in 1..Len(s) /\ s[b + j] = q[j]
    BY <2>2
  <2> HIDE DEF s, t, q, b
  <2>6. Len(s \o t) = Len(s) + Len(t) /\ (s \o t)[b + j] = s[b + j] /\ b + j \in 1..Len(s \o t)
    BY <2>3, <2>5, ConcatProperties
  <2>7. b + j \in 1..Len(Before(gs, p + 1)) /\ Before(gs, p + 1)[b + j] = q[j]
    BY <2>4, <2>5, <2>6
  <2>8. At(i + 1 + (h + 1))
    BY <2>1, <2>7
  <2> QED
    BY <2>1, <2>8
<1>5. T = 0..(n - 1 - i)
  <2>1. T \in SUBSET (0..(n - 1 - i))
    OBVIOUS
  <2> HIDE DEF T
  <2> QED
    BY <1>1, <1>3, <1>4, <2>1, Induction
<1>6. n - 1 - i \in T /\ i + 1 + (n - 1 - i) = n
  <2>1. n - 1 - i \in 0..(n - 1 - i) /\ i + 1 + (n - 1 - i) = n
    BY <1>1
  <2> HIDE DEF T
  <2> QED
    BY <1>5, <2>1
<1>7. At(n)
  BY <1>6
<1> QED
  BY <1>7, BeforeEnds
-----------------------------------------------------------------------------
(* The selected position.                                                  *)

\* A group selects one of the sources it shows.
LEMMA GroupSelection ==
  ASSUME NEW g \in WellFormedGroups
  PROVE  /\ g.index \in Nat /\ g.index < Len(SourcesOfGroup(g))
         /\ g.engine # NoEngine => g.index = 0 /\ SourcesOfGroup(g)[1] = Ibus(g.engine)
         /\ g.engine = NoEngine =>
              /\ g.index < Len(g.layouts)
              /\ SelectedLayout(g) \in Layouts
              /\ SourcesOfGroup(g)[g.index + 1] = Xkb(SelectedLayout(g))
<1>1. g.index \in Nat /\ g.layouts \in Seq(Layouts) /\ (g.index < Len(g.layouts) \/ g.index = 0)
  BY DEF WellFormedGroups, WellFormedGroup, Group
<1>2. CASE g.engine # NoEngine
  <2>1. g.layouts = <<>> \/ g.layouts = <<EngineLayout[g.engine]>>
    BY <1>2 DEF WellFormedGroups, WellFormedGroup
  <2>2. Len(g.layouts) = 0 \/ Len(g.layouts) = 1
    <3>1. Len(<<EngineLayout[g.engine]>>) = 1 /\ Len(<<>>) = 0
      OBVIOUS
    <3> QED
      BY <2>1, <3>1
  <2>3. g.index = 0
    <3>1. g.index \in Nat /\ (g.index < Len(g.layouts) \/ g.index = 0)
      BY <1>1
    <3>2. CASE Len(g.layouts) = 0
      BY <3>1, <3>2
    <3>3. CASE Len(g.layouts) = 1
      BY <3>1, <3>3
    <3> QED
      BY <2>2, <3>2, <3>3
  <2>4. SourcesOfGroup(g) = <<Ibus(g.engine)>>
    BY <1>2, GroupShows
  <2>5. Len(SourcesOfGroup(g)) = 1 /\ SourcesOfGroup(g)[1] = Ibus(g.engine)
    BY <2>4
  <2> QED
    BY <1>2, <2>3, <2>5
<1>3. CASE g.engine = NoEngine
  <2>1. Len(g.layouts) \in 1..MaxLayouts
    BY <1>3 DEF WellFormedGroups, WellFormedGroup
  <2>2. g.index < Len(g.layouts) /\ g.index + 1 \in 1..Len(g.layouts)
    BY <1>1, <2>1, GroupAssumption
  <2>3. SelectedLayout(g) = g.layouts[g.index + 1] /\ SelectedLayout(g) \in Layouts
    BY <1>1, <2>2 DEF SelectedLayout
  <2> QED
    BY <1>1, <1>3, <2>2, <2>3, GroupShows
<1> QED
  BY <1>2, <1>3

\* The position counted over all groups is in the list, and the source there is the selected one.
LEMMA Positioned ==
  ASSUME NEW m, Sound(m), HasGroups(m)
  PROVE  /\ PositionOf(m) = Len(Before(m.groups, m.index)) + Selected(m).index + 1
         /\ PositionOf(m) \in 1..Len(SourcesOf(m.groups))
         /\ SourcesOf(m.groups)[PositionOf(m)] = SelectedSource(m)
<1> DEFINE g == Selected(m)
           b == Len(Before(m.groups, m.index))
<1>1. m.groups \in Seq(WellFormedGroups) /\ m.index \in 0..(Len(m.groups) - 1)
  BY SelectedExists DEF Sound, Managers
<1>2. g \in WellFormedGroups /\ g = m.groups[m.index + 1]
  BY SelectedExists DEF Selected
<1> HIDE DEF g
<1>3. b \in Nat
  <2>1. m.index \in 0..Len(m.groups)
    BY <1>1
  <2> QED
    BY <1>1, <2>1, BeforeTyped
<1>4. /\ g.index \in Nat /\ g.index + 1 \in 1..Len(SourcesOfGroup(g))
      /\ g.engine # NoEngine => g.index = 0
      /\ SourcesOfGroup(g)[g.index + 1] = SelectedSource(m)
  <2>1. SelectedSource(m) = IF g.engine # NoEngine THEN Ibus(g.engine) ELSE Xkb(SelectedLayout(g))
    BY DEF SelectedSource, g
  <2>2. SourcesOfGroup(g) \in Seq(Source)
    BY <1>2, SourcesOfGroupTyped
  <2>3. g.index \in Nat /\ g.index + 1 \in 1..Len(SourcesOfGroup(g))
    BY <1>2, <2>2, GroupSelection
  <2>4. CASE g.engine # NoEngine
    <3>1. g.index = 0 /\ SourcesOfGroup(g)[1] = Ibus(g.engine)
      BY <1>2, <2>4, GroupSelection
    <3> QED
      BY <2>1, <2>3, <2>4, <3>1
  <2>5. CASE g.engine = NoEngine
    <3>1. SourcesOfGroup(g)[g.index + 1] = Xkb(SelectedLayout(g))
      BY <1>2, <2>5, GroupSelection
    <3> QED
      BY <2>1, <2>3, <2>5, <3>1
  <2> QED
    BY <2>4, <2>5
<1>5. PositionOf(m) = b + (g.index + 1)
  BY <1>3, <1>4 DEF PositionOf, Before, g
<1>6. LET k == b + (g.index + 1)
      IN  /\ k \in 1..Len(SourcesOf(m.groups))
          /\ SourcesOf(m.groups)[k] = SourcesOfGroup(m.groups[m.index + 1])[g.index + 1]
  <2>1. g.index + 1 \in 1..Len(SourcesOfGroup(m.groups[m.index + 1]))
    BY <1>2, <1>4
  <2> QED
    BY <1>1, <2>1, ShownBefore
<1>7. b + (g.index + 1) = b + g.index + 1
  BY <1>3, <1>4
<1> HIDE DEF b
<1>8. PositionOf(m) \in 1..Len(SourcesOf(m.groups)) /\ SourcesOf(m.groups)[PositionOf(m)] = SelectedSource(m)
  BY <1>2, <1>4, <1>5, <1>6
<1> QED
  BY <1>5, <1>7, <1>8 DEF b, g

\* r has the sources of m and remembers the same layout in every group.
Kept(r, m) ==
  /\ SoundLike(r, m)
  /\ \A k \in DOMAIN m.groups : r.groups[k].index = m.groups[k].index

LEMMA KeptTransitive ==
  ASSUME NEW r, NEW q, NEW m, Kept(q, m), Kept(r, q)
  PROVE  Kept(r, m)
  BY SoundLikeTransitive DEF Kept, SoundLike, SameSources

LEMMA KeptItself ==
  ASSUME NEW m, Sound(m), NEW b \in BOOLEAN
  PROVE  /\ Kept(m, m)
         /\ Kept([m EXCEPT !.ok = b], m)
         /\ Kept([m EXCEPT !.sync = b], m)
  BY FlagsSound DEF Kept, Sound, Managers

LEMMA LikeHasGroups ==
  ASSUME NEW m, Sound(m), HasGroups(m), NEW r, SoundLike(r, m)
  PROVE  /\ Sound(r) /\ HasGroups(r)
         /\ Len(r.groups) = Len(m.groups)
         /\ DOMAIN r.groups = DOMAIN m.groups
         /\ SourcesOf(r.groups) = SourcesOf(m.groups)
<1>1. r.groups \in Seq(WellFormedGroups) /\ m.groups \in Seq(WellFormedGroups) /\ m.groups # <<>>
  BY DEF SoundLike, Sound, Managers, HasGroups
<1>2. DOMAIN r.groups = DOMAIN m.groups
  BY DEF SoundLike, SameSources
<1>3. Len(r.groups) = Len(m.groups) /\ r.groups # <<>>
  BY <1>1, <1>2
<1>4. SourcesOf(r.groups) = SourcesOf(m.groups)
  BY <1>1, <1>2, SameGroupsSameSources DEF SoundLike, SameSources
<1> QED
  BY <1>2, <1>3, <1>4 DEF SoundLike, HasGroups

LEMMA KeptPosition ==
  ASSUME NEW m, Sound(m), HasGroups(m), NEW r, Kept(r, m), r.index = m.index
  PROVE  PositionOf(r) = PositionOf(m)
<1>1. Sound(r) /\ HasGroups(r)
  BY LikeHasGroups DEF Kept
<1>2. m.index + 1 \in DOMAIN m.groups /\ m.index \in 0..Len(m.groups)
  BY SelectedExists DEF Sound, Managers
<1>3. Before(r.groups, r.index) = Before(m.groups, m.index)
  BY <1>1, <1>2, SameBefore DEF Kept, SoundLike, Sound, Managers
<1>4. Selected(r).index = Selected(m).index
  BY <1>2 DEF Kept, Selected
<1> QED
  BY <1>1, <1>3, <1>4, Positioned

-----------------------------------------------------------------------------
(* A quiet system: IBus has every engine and the keymap is not locked.     *)

LEMMA ReadyStarts ==
  /\ Ready \in Envs
  /\ ~Ready.locked /\ Ready.loaded /\ Ready.known = Engines
  /\ \A n \in Engines : EngineStarts(Ready, n)
  BY DEF Ready, Envs, EngineStarts

LEMMA ReadyActivates ==
  ASSUME NEW g \in WellFormedGroups
  PROVE  /\ CanActivate(Ready, g)
         /\ CanActivate(Ready, EnsureLayout(g, Engines))
<1>1. CASE g.engine = NoEngine
  BY <1>1, CanActivateTwice, ReadyStarts
<1>2. CASE g.engine # NoEngine
  <2>1. g.engine \in Engines /\ EngineStarts(Ready, g.engine)
    BY <1>2, ReadyStarts DEF WellFormedGroups, Group
  <2>2. EnsureLayout(g, Engines).layouts # <<>>
    <3>1. CASE g.layouts # <<>>
      BY <3>1, EnsureLayoutKeeps
    <3>2. CASE g.layouts = <<>>
      <4>1. EnsureLayout(g, Engines) = [g EXCEPT !.layouts = <<EngineLayout[g.engine]>>]
        BY <1>2, <2>1, <3>2 DEF EnsureLayout
      <4>2. EnsureLayout(g, Engines).layouts = <<EngineLayout[g.engine]>>
        BY <4>1 DEF WellFormedGroups, Group
      <4> QED
        BY <4>2
    <3> QED
      BY <3>1, <3>2
  <2>3. CanActivate(Ready, g)
    BY <2>1, <2>2, ReadyStarts DEF CanActivate
  <2> QED
    BY <2>3, CanActivateTwice, ReadyStarts
<1> QED
  BY <1>1, <1>2

\* The engine that activating a group asks for.
EngineOf(g) == IF g.engine = NoEngine THEN DefaultEngine ELSE g.engine

\* r is m after group k was activated and selected.
Reaches(r, m, k) ==
  /\ Kept(r, m)
  /\ r.index = k - 1
  /\ r.asked = EngineOf(m.groups[k])
  /\ r.ok = TRUE

LEMMA ActivateKeepsPlace ==
  ASSUME NEW m, Sound(m), NEW k \in DOMAIN m.groups
  PROVE  LET r == Activate(m, Ready, k)
         IN  /\ Kept(r, m)
             /\ r.index = m.index
             /\ r.asked = EngineOf(m.groups[k])
             /\ r.ok = TRUE
<1> DEFINE g     == EnsureLayout(m.groups[k], Engines)
           n     == IF g.engine = NoEngine THEN DefaultEngine ELSE g.engine
           tried == [m EXCEPT !.groups[k] = g]
           r     == Activate(m, Ready, k)
<1>1. m.groups \in Seq(WellFormedGroups) /\ m.groups[k] \in WellFormedGroups
  BY DEF Sound, Managers
<1>2. g \in WellFormedGroups /\ g.engine = m.groups[k].engine /\ g.index = m.groups[k].index
  BY <1>1, EnsureLayoutWellFormed, EnsureLayoutKeeps DEF EnsureLayout, WellFormedGroups, Group
<1>3. CanActivate(Ready, g) /\ n \in Engines /\ EngineStarts(Ready, n)
  BY <1>1, <1>2, ReadyActivates, ReadyStarts, ManagerAssumption DEF WellFormedGroups, Group
<1>4. n = EngineOf(m.groups[k])
  BY <1>2 DEF EngineOf
<1>5. r = [tried EXCEPT !.ok = TRUE, !.keymap = Keymap(g), !.asked = n]
  BY <1>3, ReadyStarts DEF Activate
<1>6. SoundLike(r, m)
  BY ActivateSound, ReadyStarts
<1> HIDE DEF g, n
<1>7. r.groups = [m.groups EXCEPT ![k] = g] /\ r.index = m.index /\ r.asked = n /\ r.ok = TRUE
  BY <1>5 DEF Sound, Managers
<1>8. \A j \in DOMAIN m.groups : r.groups[j].index = m.groups[j].index
  BY <1>2, <1>7
<1> QED
  BY <1>4, <1>6, <1>7, <1>8 DEF Kept

LEMMA TriedKeepsPlace ==
  ASSUME NEW m, Sound(m), NEW S
  PROVE  LET r == Tried(m, Ready, S)
         IN  Kept(r, m) /\ r.index = m.index /\ r.asked = m.asked
<1> DEFINE r == Tried(m, Ready, S)
<1>1. SoundLike(r, m)
  BY TriedSound, ReadyStarts
<1>2. /\ r.index = m.index /\ r.asked = m.asked
      /\ r.groups = [k \in DOMAIN m.groups |->
                       IF k \in S THEN EnsureLayout(m.groups[k], Ready.known) ELSE m.groups[k]]
  BY DEF Tried, Sound, Managers
<1>3. \A g \in WellFormedGroups : EnsureLayout(g, Ready.known).index = g.index
  BY DEF EnsureLayout, WellFormedGroups, Group
<1>4. \A k \in DOMAIN m.groups : m.groups[k] \in WellFormedGroups
  BY DEF Sound, Managers
<1> HIDE DEF r
<1>5. \A k \in DOMAIN m.groups : r.groups[k].index = m.groups[k].index
  BY <1>2, <1>3, <1>4
<1> QED
  BY <1>1, <1>2, <1>5 DEF Kept, r

LEMMA ReadyAble ==
  ASSUME NEW m, Sound(m), NEW S \in SUBSET DOMAIN m.groups
  PROVE  Able(m, Ready, S) = S
  BY ReadyActivates DEF Able, Sound, Managers

LEMMA ActivateOneOfReaches ==
  ASSUME NEW m, Sound(m), NEW S \in SUBSET DOMAIN m.groups, S # {}, NEW p
  PROVE  LET k == IF p \in S THEN p ELSE Least(S)
         IN  k \in S /\ Reaches(ActivateOneOf(m, Ready, S, p), m, k)
<1> DEFINE k == IF p \in S THEN p ELSE Least(S)
           passed == IF k = p THEN {} ELSE {j \in S : j < k}
           t == Tried(m, Ready, passed)
           a == Activate(t, Ready, k)
           r == ActivateOneOf(m, Ready, S, p)
<1>1. S \subseteq Nat /\ k \in S /\ k \in DOMAIN m.groups
  <2>1. S \subseteq Nat
    BY DEF Sound, Managers
  <2> QED
    BY <2>1, LeastInside
<1>2. r = [a EXCEPT !.index = k - 1, !.sync = TRUE]
  BY ReadyAble DEF ActivateOneOf
<1>3. SoundLike(r, m)
  BY ActivateOneOfSound, ReadyStarts
<1> HIDE DEF k, passed, r
<1>4. Kept(t, m)
  BY TriedKeepsPlace
<1>5. Sound(t) /\ k \in DOMAIN t.groups
  BY <1>1, <1>4 DEF Kept, SoundLike, SameSources
<1>6. t.groups[k].engine = m.groups[k].engine
  BY <1>1, EnsureLayoutKeeps DEF Tried, Sound, Managers
<1> HIDE DEF t
<1>7. Kept(a, t) /\ a.asked = EngineOf(t.groups[k]) /\ a.ok = TRUE
  BY <1>5, ActivateKeepsPlace
<1> HIDE DEF a
<1>8. Kept(a, m) /\ a \in Managers
  <2>1. Kept(a, m)
    BY <1>4, <1>7, KeptTransitive
  <2> QED
    BY <2>1 DEF Kept, SoundLike, Sound
<1>9. r.groups = a.groups /\ r.index = k - 1 /\ r.asked = a.asked /\ r.ok = a.ok
  BY <1>2, <1>8 DEF Managers
<1>10. Kept(r, m)
  BY <1>3, <1>8, <1>9 DEF Kept
<1>11. Reaches(r, m, k)
  BY <1>6, <1>7, <1>9, <1>10 DEF Reaches, EngineOf
<1> QED
  BY <1>1, <1>11 DEF k, r

LEMMA ActivateNoneOf ==
  ASSUME NEW m, Sound(m), NEW p
  PROVE  LET r == ActivateOneOf(m, Ready, {}, p)
         IN  Kept(r, m) /\ r.index = m.index /\ r.asked = m.asked /\ r.ok = FALSE
<1> DEFINE t == Tried(m, Ready, {})
<1>1. ActivateOneOf(m, Ready, {}, p) = [t EXCEPT !.ok = FALSE]
  BY DEF ActivateOneOf, Able
<1>2. Kept(t, m) /\ t.index = m.index /\ t.asked = m.asked
  BY TriedKeepsPlace
<1> HIDE DEF t
<1>3. Sound(t)
  BY <1>2 DEF Kept, SoundLike
<1>4. Kept([t EXCEPT !.ok = FALSE], m)
  BY <1>2, <1>3, KeptItself, KeptTransitive
<1> QED
  BY <1>1, <1>2, <1>3, <1>4 DEF Sound, Managers
LEMMA LeastIsOne ==
  ASSUME NEW S, S \subseteq Nat \ {0}, 1 \in S
  PROVE  Least(S) = 1
<1> DEFINE k == Least(S)
<1>1. k \in S /\ \A j \in S : k <= j
  <2>1. \E x \in S : \A y \in S : x <= y
    BY LeastExists
  <2> QED
    BY <2>1 DEF Least
<1> HIDE DEF k
<1>2. k \in Nat /\ k # 0 /\ k <= 1
  BY <1>1
<1>3. k = 1
  BY <1>2
<1> QED
  BY <1>3 DEF k

\* With nothing better to do the first group is selected.
LEMMA ActivateFirstReaches ==
  ASSUME NEW m, Sound(m), HasGroups(m)
  PROVE  Reaches(ActivateFirst(m, Ready), m, 1)
<1> DEFINE S == DOMAIN m.groups
<1>1. m.groups \in Seq(WellFormedGroups) /\ m.groups # <<>>
  BY DEF Sound, Managers, HasGroups
<1>2. S = 1..Len(m.groups) /\ Len(m.groups) \in Nat \ {0}
  BY <1>1
<1>3. S \subseteq Nat \ {0} /\ 1 \in S /\ 0 \notin S
  BY <1>2
<1>4. ActivateFirst(m, Ready) = ActivateOneOf(m, Ready, S, 0)
  BY ReadyStarts DEF ActivateFirst
<1>5. S \in SUBSET DOMAIN m.groups /\ S # {}
  BY <1>3
<1> HIDE DEF S
<1>6. Least(S) = 1
  BY <1>3, LeastIsOne
<1>7. Reaches(ActivateOneOf(m, Ready, S, 0), m, IF 0 \in S THEN 0 ELSE Least(S))
  BY <1>5, ActivateOneOfReaches
<1> QED
  BY <1>3, <1>4, <1>6, <1>7

LEMMA ActivateWithEngineReaches ==
  ASSUME NEW m, Sound(m), NEW n, \E k \in DOMAIN m.groups : m.groups[k].engine = n
  PROVE  \E k \in DOMAIN m.groups :
           /\ m.groups[k].engine = n
           /\ Reaches(ActivateWithEngine(m, Ready, n), m, k)
           /\ m.index + 1 \in DOMAIN m.groups /\ Selected(m).engine = n => k = m.index + 1
<1> DEFINE S == {k \in DOMAIN m.groups : m.groups[k].engine = n}
           p == m.index + 1
           h == IF p \in S THEN p ELSE Least(S)
<1>1. S \in SUBSET DOMAIN m.groups /\ S # {}
  OBVIOUS
<1>2. ActivateWithEngine(m, Ready, n) = ActivateOneOf(m, Ready, S, p)
  BY DEF ActivateWithEngine
<1>3. \A k \in S : k \in DOMAIN m.groups /\ m.groups[k].engine = n
  OBVIOUS
<1>4. p \in DOMAIN m.groups /\ Selected(m).engine = n => p \in S
  BY DEF Selected
<1> HIDE DEF S, p
<1>5. h \in S /\ Reaches(ActivateOneOf(m, Ready, S, p), m, h)
  BY <1>1, ActivateOneOfReaches
<1>6. p \in S => h = p
  OBVIOUS
<1> HIDE DEF h
<1> QED
  BY <1>2, <1>3, <1>4, <1>5, <1>6 DEF p

LEMMA ActivateWithoutEngine ==
  ASSUME NEW m, Sound(m), NEW n, \A k \in DOMAIN m.groups : m.groups[k].engine # n
  PROVE  LET r == ActivateWithEngine(m, Ready, n)
         IN  Kept(r, m) /\ r.index = m.index /\ r.asked = m.asked /\ r.ok = FALSE
<1> DEFINE S == {k \in DOMAIN m.groups : m.groups[k].engine = n}
<1>1. S = {}
  OBVIOUS
<1> DEFINE r == ActivateWithEngine(m, Ready, n)
<1>2. r = ActivateOneOf(m, Ready, S, m.index + 1)
  BY DEF ActivateWithEngine
<1> HIDE DEF S, r
<1>3. r = ActivateOneOf(m, Ready, {}, m.index + 1)
  BY <1>1, <1>2
<1>4. Kept(r, m) /\ r.index = m.index /\ r.asked = m.asked /\ r.ok = FALSE
  BY <1>3, ActivateNoneOf
<1> QED
  BY <1>4 DEF r

\* The group that is reached is selected as it was remembered.
LEMMA ReachesSelects ==
  ASSUME NEW m, Sound(m), NEW k \in DOMAIN m.groups, NEW r, Reaches(r, m, k)
  PROVE  /\ Sound(r) /\ HasGroups(r)
         /\ Selected(r) = r.groups[k] /\ Selected(r) \in WellFormedGroups
         /\ Selected(r).engine = m.groups[k].engine
         /\ Selected(r).index = m.groups[k].index
         /\ m.groups[k].engine = NoEngine => SelectedLayout(Selected(r)) = SelectedLayout(m.groups[k])
         /\ r.asked = EngineOf(Selected(r))
<1>1. m.groups \in Seq(WellFormedGroups) /\ k \in Nat /\ m.groups # <<>>
  <2>1. m.groups \in Seq(WellFormedGroups)
    BY DEF Sound, Managers
  <2> QED
    BY <2>1
<1>2. Sound(r) /\ HasGroups(r) /\ DOMAIN r.groups = DOMAIN m.groups
  BY <1>1, LikeHasGroups DEF Reaches, Kept, HasGroups
<1>3. Selected(r) = r.groups[k]
  BY <1>1 DEF Reaches, Selected
<1>4. r.groups[k] \in WellFormedGroups /\ m.groups[k] \in WellFormedGroups
  BY <1>1, <1>2 DEF Sound, Managers
<1>5. SourcesOfGroup(r.groups[k]) = SourcesOfGroup(m.groups[k])
  BY DEF Reaches, Kept, SoundLike, SameSources
<1>6. /\ r.groups[k].engine = m.groups[k].engine
      /\ r.groups[k].engine = NoEngine => r.groups[k].layouts = m.groups[k].layouts
  BY <1>4, <1>5, SameShownSame
<1>7. r.groups[k].index = m.groups[k].index
  BY DEF Reaches, Kept
<1> QED
  BY <1>2, <1>3, <1>4, <1>6, <1>7 DEF Reaches, EngineOf, SelectedLayout

-----------------------------------------------------------------------------
(* What is left behind by a call.                                          *)

\* IBus has been asked for the engine of the selected group, or for nothing.
Asks(m) == m.asked = NoEngine \/ m.asked = EngineOf(Selected(m))

\* Only an engine's group is looked for by that engine.
Apart(gs) == Len(gs) = 1 \/ \A k \in DOMAIN gs : gs[k].engine # DefaultEngine

\* The answer of IBus leaves the selection where it is.
LEMMA SettledKeeps ==
  ASSUME NEW m, Sound(m), HasGroups(m), Asks(m), Apart(m.groups)
  PROVE  Kept(Settled(m), m) /\ Settled(m).index = m.index /\ Settled(m).asked = NoEngine
<1> DEFINE heard == IF m.asked = NoEngine THEN m
                    ELSE OnActiveEngineChanged(m, Ready, m.asked)
<1>1. Kept(heard, m) /\ heard.index = m.index
  <2>1. CASE m.asked = NoEngine
    BY <2>1, KeptItself
  <2>2. CASE m.asked # NoEngine
    <3> DEFINE n == m.asked
               r == ActivateWithEngine(m, Ready, n)
    <3>1. heard = r
      BY <2>2, ReadyStarts DEF OnActiveEngineChanged
    <3>2. n = EngineOf(Selected(m)) /\ m.index + 1 \in DOMAIN m.groups
          /\ Selected(m) = m.groups[m.index + 1]
      BY <2>2, SelectedExists DEF Asks, Selected
    <3> HIDE DEF n
    <3>3. CASE Selected(m).engine # NoEngine
      <4>1. n = Selected(m).engine
        BY <3>2, <3>3 DEF EngineOf
      <4>2. \E k \in DOMAIN m.groups :
              Reaches(r, m, k) /\ (m.index + 1 \in DOMAIN m.groups /\ Selected(m).engine = n
                                     => k = m.index + 1)
        BY <3>2, <4>1, ActivateWithEngineReaches
      <4>3. Reaches(r, m, m.index + 1)
        BY <3>2, <4>1, <4>2
      <4>4. m.index \in Nat
        BY DEF Sound, Managers
      <4> HIDE DEF r
      <4> QED
        BY <3>1, <4>3, <4>4 DEF Reaches
    <3>4. CASE Selected(m).engine = NoEngine
      <4>1. n = DefaultEngine /\ n # NoEngine
        BY <3>2, <3>4, ManagerAssumption, GroupAssumption DEF EngineOf
      <4>2. \A k \in DOMAIN m.groups : m.groups[k].engine # n
        <5>1. CASE Len(m.groups) = 1
          <6>1. \A k \in DOMAIN m.groups : k = m.index + 1
            BY <3>2, <5>1 DEF Sound, Managers
          <6> QED
            BY <3>2, <3>4, <4>1, <6>1
        <5>2. CASE Len(m.groups) # 1
          BY <4>1, <5>2 DEF Apart
        <5> QED
          BY <5>1, <5>2
      <4>3. Kept(r, m) /\ r.index = m.index
        BY <4>2, ActivateWithoutEngine
      <4> QED
        BY <3>1, <4>3
    <3> QED
      BY <3>3, <3>4
  <2> QED
    BY <2>1, <2>2
<1>2. Settled(m) = [heard EXCEPT !.asked = NoEngine, !.sync = FALSE, !.ok = FALSE]
  BY DEF Settled
<1> HIDE DEF heard
<1>3. Sound(heard)
  BY <1>1 DEF Kept, SoundLike
<1> DEFINE h == [heard EXCEPT !.asked = NoEngine, !.sync = FALSE, !.ok = FALSE]
<1>4. h.groups = heard.groups /\ h.index = heard.index /\ h.asked = NoEngine /\ Sound(h)
  BY <1>3 DEF Sound, Managers
<1> HIDE DEF h
<1>5. Kept(h, m)
  BY <1>1, <1>4 DEF Kept, SoundLike
<1> QED
  BY <1>1, <1>2, <1>4, <1>5 DEF h
-----------------------------------------------------------------------------
(* Looking for a source.                                                   *)

\* r has the sources of m, selects s and has asked IBus for what its selection needs.
Selects(r, m, s) ==
  /\ SoundLike(r, m)
  /\ SelectedSource(r) = s
  /\ Asks(r)

LEMMA ActivateWithLayoutSelects ==
  ASSUME NEW m, Sound(m), NEW l \in Layouts,
         \A k \in DOMAIN m.groups : HoldsLayout(m.groups[k], l) => m.groups[k].engine = NoEngine,
         \E k \in DOMAIN m.groups : HoldsLayout(m.groups[k], l)
  PROVE  LET r == ActivateWithLayout(m, Ready, l)
         IN  Selects(r, m, Xkb(l)) /\ r.ok = TRUE
<1> DEFINE holders == {k \in DOMAIN m.groups : HoldsLayout(m.groups[k], l)}
           k == IF m.index + 1 \in holders THEN m.index + 1 ELSE Least(holders)
           g == SwitchToLayout(m.groups[k], l)
           t == [m EXCEPT !.groups[k] = g]
           r == ActivateOneOf(t, Ready, {k}, k)
<1>1. holders \in SUBSET DOMAIN m.groups /\ holders # {} /\ holders \subseteq Nat
  BY DEF Sound, Managers
<1>2. Able(m, Ready, holders) = holders
  <2> HIDE DEF holders
  <2> QED
    BY <1>1, ReadyAble
<1>3. ActivateWithLayout(m, Ready, l) = r
  <2>1. Able(m, Ready, holders) # {} /\ ~Ready.locked
    BY <1>1, <1>2, ReadyStarts
  <2> QED
    BY <1>2, <2>1 DEF ActivateWithLayout
<1>4. k \in holders
  <2> HIDE DEF holders
  <2> QED
    BY <1>1, LeastInside
<1>5. k \in DOMAIN m.groups /\ HoldsLayout(m.groups[k], l) /\ m.groups[k].engine = NoEngine
  BY <1>4
<1> HIDE DEF k
<1>6. m.groups[k] \in WellFormedGroups
  BY <1>5 DEF Sound, Managers
<1>7. /\ g \in WellFormedGroups /\ SelectedLayout(g) = l
      /\ SourcesOfGroup(g) = SourcesOfGroup(m.groups[k])
  BY <1>5, <1>6, SwitchToLayoutWellFormed, SwitchesShow
<1>8. g.engine = NoEngine
  BY <1>5, <1>6, <1>7, SameShownSame
<1> HIDE DEF g
<1>9. SoundLike(t, m)
  BY <1>5, <1>7, GroupSound
<1>10. Sound(t) /\ k \in DOMAIN t.groups /\ t.groups[k] = g
  BY <1>5, <1>9 DEF SoundLike, SameSources, Sound, Managers
<1> HIDE DEF t
<1>11. {k} \in SUBSET DOMAIN t.groups /\ {k} # {}
  BY <1>10
<1>12. Reaches(r, t, k)
  BY <1>10, <1>11, ActivateOneOfReaches
<1> HIDE DEF r
<1>13. /\ Selected(r).engine = NoEngine /\ SelectedLayout(Selected(r)) = l
       /\ r.asked = EngineOf(Selected(r)) /\ r.ok = TRUE
  <2>1. /\ Selected(r).engine = t.groups[k].engine
        /\ t.groups[k].engine = NoEngine => SelectedLayout(Selected(r)) = SelectedLayout(t.groups[k])
        /\ r.asked = EngineOf(Selected(r))
    BY <1>10, <1>12, ReachesSelects
  <2>2. r.ok = TRUE
    BY <1>12 DEF Reaches
  <2> QED
    BY <1>7, <1>8, <1>10, <2>1, <2>2
<1>14. SoundLike(r, m)
  BY <1>9, <1>12, SoundLikeTransitive DEF Reaches, Kept
<1> QED
  BY <1>3, <1>13, <1>14 DEF Selects, SelectedSource, Asks

\* A group is looked for by its engine, or by a layout that only layout groups hold. When there
\* is none, the first group is taken as it is.
LEMMA ActivateBestEngine ==
  ASSUME NEW m, Sound(m), HasGroups(m), NEW n \in Engines, NEW l
  PROVE  LET r == ActivateBest(m, Ready, n, l)
         IN  IF \E k \in DOMAIN m.groups : m.groups[k].engine = n
             THEN Selects(r, m, Ibus(n))
             ELSE Kept(r, m) /\ r.index = 0 /\ Asks(r)
<1> DEFINE w == ActivateWithEngine(m, Ready, n)
           r == ActivateBest(m, Ready, n, l)
<1>1. r = IF w.ok THEN w ELSE ActivateFirst(w, Ready)
  BY ReadyStarts, GroupAssumption DEF ActivateBest
<1>2. CASE \E k \in DOMAIN m.groups : m.groups[k].engine = n
  <2>1. PICK k \in DOMAIN m.groups : m.groups[k].engine = n /\ Reaches(w, m, k)
    BY <1>2, ActivateWithEngineReaches
  <2>2. r = w
    BY <1>1, <2>1 DEF Reaches
  <2> HIDE DEF w, r
  <2>3. Selected(w).engine = n /\ w.asked = EngineOf(Selected(w))
    BY <2>1, ReachesSelects
  <2>4. SelectedSource(w) = Ibus(n)
    BY <2>3, GroupAssumption DEF SelectedSource
  <2>5. Selects(r, m, Ibus(n))
    BY <2>1, <2>2, <2>3, <2>4 DEF Selects, Reaches, Kept, Asks
  <2> QED
    BY <1>2, <2>5 DEF r
<1>3. CASE ~ \E k \in DOMAIN m.groups : m.groups[k].engine = n
  <2>1. Kept(w, m) /\ w.ok = FALSE
    BY <1>3, ActivateWithoutEngine
  <2>2. r = ActivateFirst(w, Ready)
    BY <1>1, <2>1
  <2>3. Sound(w) /\ HasGroups(w) /\ 1 \in DOMAIN w.groups
    <3> HIDE DEF w
    <3>1. Sound(w) /\ HasGroups(w)
      BY <2>1, LikeHasGroups DEF Kept
    <3> QED
      BY <3>1 DEF Sound, Managers, HasGroups
  <2> HIDE DEF w, r
  <2>4. Reaches(r, w, 1)
    BY <2>2, <2>3, ActivateFirstReaches
  <2>5. Kept(r, m) /\ r.index = 0
    BY <2>1, <2>4, KeptTransitive DEF Reaches
  <2>6. Asks(r)
    BY <2>3, <2>4, ReachesSelects DEF Asks
  <2> QED
    BY <1>3, <2>5, <2>6 DEF r
<1> QED
  BY <1>2, <1>3

LEMMA ActivateBestFirst ==
  ASSUME NEW m, Sound(m), HasGroups(m), NEW r, r = ActivateFirst([m EXCEPT !.ok = FALSE], Ready)
  PROVE  Kept(r, m) /\ r.index = 0 /\ Asks(r)
<1> DEFINE w == [m EXCEPT !.ok = FALSE]
<1>1. Kept(w, m)
  BY KeptItself
<1> HIDE DEF w
<1>2. Sound(w) /\ HasGroups(w)
  BY <1>1, LikeHasGroups DEF Kept
<1>3. 1 \in DOMAIN w.groups
  BY <1>2 DEF Sound, Managers, HasGroups
<1>4. Reaches(r, w, 1)
  BY <1>2, ActivateFirstReaches DEF w
<1>5. Kept(r, m) /\ r.index = 0
  BY <1>1, <1>4, KeptTransitive DEF Reaches
<1>6. Asks(r)
  BY <1>2, <1>3, <1>4, ReachesSelects DEF Asks
<1> QED
  BY <1>5, <1>6

LEMMA ActivateBestLayout ==
  ASSUME NEW m, Sound(m), HasGroups(m), NEW l \in Layouts,
         \A k \in DOMAIN m.groups : HoldsLayout(m.groups[k], l) => m.groups[k].engine = NoEngine
  PROVE  LET r == ActivateBest(m, Ready, NoEngine, l)
         IN  IF \E k \in DOMAIN m.groups : HoldsLayout(m.groups[k], l)
             THEN Selects(r, m, Xkb(l))
             ELSE Kept(r, m) /\ r.index = 0 /\ Asks(r)
<1> DEFINE w == ActivateWithLayout(m, Ready, l)
           r == ActivateBest(m, Ready, NoEngine, l)
<1>1. r = IF w.ok THEN w ELSE ActivateFirst(w, Ready)
  BY ReadyStarts, GroupAssumption DEF ActivateBest
<1>2. CASE \E k \in DOMAIN m.groups : HoldsLayout(m.groups[k], l)
  <2>1. Selects(w, m, Xkb(l)) /\ w.ok = TRUE
    BY <1>2, ActivateWithLayoutSelects
  <2>2. r = w
    BY <1>1, <2>1
  <2> QED
    BY <1>2, <2>1, <2>2
<1>3. CASE ~ \E k \in DOMAIN m.groups : HoldsLayout(m.groups[k], l)
  <2>1. {k \in DOMAIN m.groups : HoldsLayout(m.groups[k], l)} = {}
    BY <1>3
  <2>2. Able(m, Ready, {}) = {}
    BY DEF Able
  <2>3. w = [m EXCEPT !.ok = FALSE]
    BY <2>1, <2>2 DEF ActivateWithLayout
  <2>4. ~ w.ok
    BY <2>3 DEF Sound, Managers
  <2>5. r = ActivateFirst([m EXCEPT !.ok = FALSE], Ready)
    BY <1>1, <2>3, <2>4
  <2> HIDE DEF r
  <2>6. Kept(r, m) /\ r.index = 0 /\ Asks(r)
    BY <2>5, ActivateBestFirst
  <2> QED
    BY <1>3, <2>6 DEF r
<1> QED
  BY <1>2, <1>3

LEMMA ActivateBestNothing ==
  ASSUME NEW m, Sound(m), HasGroups(m)
  PROVE  LET r == ActivateBest(m, Ready, NoEngine, NoLayout)
         IN  Kept(r, m) /\ r.index = 0 /\ Asks(r)
<1>1. ~ [m EXCEPT !.ok = FALSE].ok
  BY DEF Sound, Managers
<1>2. ActivateBest(m, Ready, NoEngine, NoLayout) = ActivateFirst([m EXCEPT !.ok = FALSE], Ready)
  BY <1>1, ReadyStarts DEF ActivateBest
<1> QED
  BY <1>2, ActivateBestFirst
-----------------------------------------------------------------------------
(* Walking the list.                                                       *)

\* The ends of a group, as its methods see them and as clients count.
LEMMA GroupEnds ==
  ASSUME NEW g \in WellFormedGroups
  PROVE  /\ ~HasNext(g) => g.index + 1 = Len(SourcesOfGroup(g))
         /\ ~HasPrevious(g) => g.index = 0
         /\ SwitchToFirst(g).index = 0
         /\ SwitchToLast(g).index + 1 = Len(SourcesOfGroup(g))
         /\ HasNext(g) => SwitchToNext(g).index = g.index + 1
         /\ HasPrevious(g) => SwitchToPrevious(g).index = g.index - 1
<1>1. g.index \in Nat /\ g.layouts \in Seq(Layouts) /\ Len(g.layouts) \in Nat
  BY DEF WellFormedGroups, Group
<1>2. /\ HasNext(g) => SwitchToNext(g).index = g.index + 1
      /\ HasPrevious(g) => SwitchToPrevious(g).index = g.index - 1
  BY DEF SwitchToNext, SwitchToPrevious, WellFormedGroups, Group
<1>3. CASE g.engine # NoEngine
  <2>1. Len(SourcesOfGroup(g)) = 1
    <3>1. SourcesOfGroup(g) = <<Ibus(g.engine)>>
      BY <1>3, GroupShows
    <3> QED
      BY <3>1
  <2>2. g.index = 0
    BY <1>3, GroupSelection
  <2>3. g.layouts = <<>> \/ g.layouts = <<EngineLayout[g.engine]>>
    BY <1>3 DEF WellFormedGroups, WellFormedGroup
  <2>4. SwitchToFirst(g).index = 0
    BY <2>2 DEF SwitchToFirst, WellFormedGroups, Group
  <2>5. SwitchToLast(g).index = 0
    <3>1. CASE g.layouts = <<>>
      BY <2>2, <3>1 DEF SwitchToLast, WellFormedGroups, Group
    <3>2. CASE g.layouts # <<>>
      <4>1. Len(<<EngineLayout[g.engine]>>) = 1
        OBVIOUS
      <4>2. Len(g.layouts) = 1
        BY <2>3, <3>2, <4>1
      <4> QED
        BY <3>2, <4>2 DEF SwitchToLast, WellFormedGroups, Group
    <3> QED
      BY <3>1, <3>2
  <2> QED
    BY <1>2, <2>1, <2>2, <2>4, <2>5
<1>4. CASE g.engine = NoEngine
  <2>1. Len(SourcesOfGroup(g)) = Len(g.layouts) /\ g.index < Len(g.layouts)
    BY <1>4, GroupShows, GroupSelection
  <2>2. g.layouts # <<>>
    BY <1>1, <2>1
  <2>3. SwitchToFirst(g).index = 0 /\ SwitchToLast(g).index = Len(g.layouts) - 1
    BY <2>2 DEF SwitchToFirst, SwitchToLast, WellFormedGroups, Group
  <2>4. ~HasNext(g) => g.index + 1 = Len(g.layouts)
    BY <1>1, <2>1 DEF HasNext
  <2>5. ~HasPrevious(g) => g.index = 0
    BY <2>2 DEF HasPrevious
  <2> QED
    BY <1>1, <1>2, <2>1, <2>3, <2>4, <2>5
<1> QED
  BY <1>3, <1>4

\* No group can be entered in its middle.
Narrow(gs) == Len(gs) = 1 \/ \A k \in DOMAIN gs : Len(SourcesOfGroup(gs[k])) = 1

LEMMA EnteredAtItsEnds ==
  ASSUME NEW m, Sound(m), Narrow(m.groups), Len(m.groups) # 1, NEW k \in DOMAIN m.groups
  PROVE  m.groups[k].index = 0 /\ Len(SourcesOfGroup(m.groups[k])) = 1
<1>1. m.groups[k] \in WellFormedGroups /\ Len(SourcesOfGroup(m.groups[k])) = 1
  BY DEF Sound, Managers, Narrow
<1>2. m.groups[k].index \in Nat /\ m.groups[k].index < 1
  BY <1>1, GroupSelection
<1> QED
  BY <1>1, <1>2

\* Positions counted in the groups of m.
LEMMA PositionLike ==
  ASSUME NEW m, Sound(m), HasGroups(m), NEW r, SoundLike(r, m)
  PROVE  /\ PositionOf(r) = Len(Before(m.groups, r.index)) + Selected(r).index + 1
         /\ PositionOf(r) \in 1..Len(SourcesOf(m.groups))
<1>1. Sound(r) /\ HasGroups(r) /\ Len(r.groups) = Len(m.groups)
      /\ SourcesOf(r.groups) = SourcesOf(m.groups)
  BY LikeHasGroups
<1>2. r.index \in 0..Len(m.groups)
  BY <1>1, SelectedExists DEF Sound, Managers
<1>3. Before(r.groups, r.index) = Before(m.groups, r.index)
  BY <1>1, <1>2, SameBefore DEF SoundLike, Sound, Managers
<1> QED
  BY <1>1, <1>3, Positioned

LEMMA SwitchedPlace ==
  ASSUME NEW m, Sound(m), NEW k \in DOMAIN m.groups, NEW g \in WellFormedGroups,
         SourcesOfGroup(g) = SourcesOfGroup(m.groups[k])
  PROVE  LET r == Switched(m, k, g)
         IN  /\ SoundLike(r, m) /\ r.index = m.index /\ r.asked = m.asked
             /\ r.groups[k] = g
<1> DEFINE r == Switched(m, k, g)
<1>1. SoundLike(r, m)
  BY SwitchedSound
<1>2. r.index = m.index /\ r.asked = m.asked /\ r.groups = [m.groups EXCEPT ![k] = g]
  BY DEF Switched, Sound, Managers
<1> HIDE DEF r
<1> QED
  BY <1>1, <1>2 DEF r

LEMMA ActivateSelectedKeeps ==
  ASSUME NEW m, Sound(m), HasGroups(m)
  PROVE  LET r == ActivateSelected(m, Ready)
         IN  /\ Kept(r, m) /\ r.index = m.index
             /\ r.asked = EngineOf(Selected(m)) /\ Asks(r)
<1> DEFINE done == Activate(m, Ready, m.index + 1)
           r == [done EXCEPT !.sync = done.sync \/ done.ok]
<1>1. ActivateSelected(m, Ready) = r
  BY ReadyStarts DEF ActivateSelected
<1>2. m.index + 1 \in DOMAIN m.groups /\ m.index \in Nat
  BY SelectedExists DEF Sound, Managers
<1>3. /\ Kept(done, m) /\ done.index = m.index /\ done.ok = TRUE
      /\ done.asked = EngineOf(m.groups[m.index + 1])
  BY <1>2, ActivateKeepsPlace
<1> HIDE DEF done
<1>4. Sound(done) /\ (done.sync \/ done.ok) = TRUE
  BY <1>3 DEF Kept, SoundLike
<1>5. r = [done EXCEPT !.sync = TRUE]
  BY <1>4
<1> HIDE DEF r
<1>6. Kept(r, done) /\ r.index = done.index /\ r.asked = done.asked /\ r.ok = done.ok
  BY <1>4, <1>5, KeptItself DEF Sound, Managers
<1>7. Kept(r, m)
  BY <1>3, <1>6, KeptTransitive
<1>8. Reaches(r, m, m.index + 1)
  BY <1>2, <1>3, <1>6, <1>7 DEF Reaches
<1>9. Asks(r)
  BY <1>2, <1>8, ReachesSelects DEF Asks
<1> QED
  BY <1>1, <1>3, <1>6, <1>7, <1>9 DEF Selected
\* The groups that the walk goes from and to.
LEMMA NextPosition ==
  ASSUME NEW m, Sound(m), HasGroups(m), m.asked = NoEngine, Narrow(m.groups)
  PROVE  LET r == SwitchToNextSource(m, Ready)
             n == Len(SourcesOf(m.groups))
         IN  /\ SoundLike(r, m) /\ Asks(r)
             /\ PositionOf(r) = IF PositionOf(m) = n THEN 1 ELSE PositionOf(m) + 1
<1> DEFINE g == Selected(m)
           i == m.index
           n == Len(m.groups)
           N == Len(SourcesOf(m.groups))
           b(k) == Len(Before(m.groups, k))
           moved == IF HasNext(g) THEN Switched(m, i + 1, SwitchToNext(g)) ELSE CycleForward(m, Ready)
           r == [moved EXCEPT !.sync = TRUE]
           Moves(q) == /\ SoundLike(q, m) /\ Asks(q)
                       /\ PositionOf(q) = IF PositionOf(m) = N THEN 1 ELSE PositionOf(m) + 1
<1>1. /\ m.groups \in Seq(WellFormedGroups) /\ n \in Nat
      /\ i \in 0..(n - 1) /\ i + 1 \in DOMAIN m.groups /\ DOMAIN m.groups = 1..n
      /\ g = m.groups[i + 1] /\ g \in WellFormedGroups
  BY SelectedExists DEF Sound, Managers, Selected
<1>2. \A k \in 0..n : b(k) \in Nat
  BY <1>1, BeforeTyped
<1>3. b(0) = 0 /\ b(n) = N /\ \A k \in 0..(n - 1) : b(k + 1) = b(k) + Len(SourcesOfGroup(m.groups[k + 1]))
  BY <1>1, BeforeEnds, BeforeNext
<1>4. PositionOf(m) = b(i) + g.index + 1 /\ PositionOf(m) \in 1..N /\ g.index \in Nat
  BY <1>1, Positioned, GroupSelection
<1> HIDE DEF g, i, n, N, b
<1>5. Moves(moved)
  <2>1. CASE HasNext(g)
    <3> DEFINE h == SwitchToNext(g)
    <3>1. h \in WellFormedGroups /\ SourcesOfGroup(h) = SourcesOfGroup(m.groups[i + 1]) /\ h.index = g.index + 1
      BY <1>1, <2>1, SwitchesWellFormed, SwitchesShow, GroupEnds
    <3> HIDE DEF h
    <3> DEFINE q == Switched(m, i + 1, h)
    <3>2. SoundLike(q, m) /\ q.index = i /\ q.asked = NoEngine /\ q.groups[i + 1] = h
      BY <1>1, <3>1, SwitchedPlace DEF i
    <3> HIDE DEF q
    <3>3. PositionOf(q) = b(i) + h.index + 1 /\ PositionOf(q) \in 1..N
      BY <3>2, PositionLike DEF Selected, b, N
    <3>4. b(i) \in Nat
      BY <1>1, <1>2
    <3>5. PositionOf(q) = PositionOf(m) + 1 /\ PositionOf(m) # N
      BY <1>4, <3>1, <3>3, <3>4
    <3>6. Moves(q)
      BY <3>2, <3>5 DEF Asks
    <3> QED
      BY <2>1, <3>6 DEF q, h
  <2>2. CASE ~HasNext(g) /\ i + 1 < n
    <3> DEFINE t == [m EXCEPT !.index = (i + 2) - 1]
               q == ActivateSelected(t, Ready)
    <3>1. /\ i + 2 \in DOMAIN m.groups /\ (i + 2) - 1 = i + 1 /\ n # 1 /\ i + 1 \in 0..n
          /\ i \in 0..n /\ (i + 1) + 1 = i + 2
      BY <1>1, <2>2
    <3>2. CycleForward(m, Ready) = q
      BY <2>2, <3>1 DEF CycleForward, i, n
    <3>3. SoundLike(t, m) /\ t.index = i + 1 /\ t.groups = m.groups
      BY <3>1, IndexSound DEF Sound, Managers
    <3> HIDE DEF t
    <3>4. Sound(t) /\ HasGroups(t)
      BY <3>3, LikeHasGroups
    <3>5. Kept(q, t) /\ q.index = t.index /\ Asks(q)
      BY <3>4, ActivateSelectedKeeps
    <3> HIDE DEF q
    <3>6. SoundLike(q, m)
      BY <3>3, <3>5, SoundLikeTransitive DEF Kept
    <3>7. PositionOf(q) = PositionOf(t)
      BY <3>4, <3>5, KeptPosition
    <3>8. PositionOf(t) = b(i + 1) + m.groups[i + 2].index + 1 /\ PositionOf(t) \in 1..N
      BY <3>1, <3>3, PositionLike DEF Selected, b, N
    <3>9. m.groups[i + 2].index = 0
      BY <3>1, EnteredAtItsEnds DEF n
    <3>10. b(i + 1) = b(i) + (g.index + 1) /\ b(i) \in Nat /\ b(i + 1) \in Nat
      BY <1>1, <1>2, <1>3, <2>2, <3>1, GroupEnds
    <3>11. PositionOf(t) = PositionOf(m) + 1 /\ PositionOf(m) # N
      BY <1>4, <3>8, <3>9, <3>10
    <3>12. Moves(q)
      BY <3>5, <3>6, <3>7, <3>11
    <3> QED
      BY <2>2, <3>2, <3>12
  <2>3. CASE ~HasNext(g) /\ ~(i + 1 < n)
    <3> DEFINE t == [m EXCEPT !.index = 1 - 1]
               h == SwitchToFirst(m.groups[1])
               u == Switched(t, 1, h)
               q == ActivateSelected(u, Ready)
    <3>1. 1 \in DOMAIN m.groups /\ i + 1 = n /\ m.groups[1] \in WellFormedGroups /\ i \in 0..n
      BY <1>1, <2>3
    <3>2. CycleForward(m, Ready) = q
      BY <2>3 DEF CycleForward, i, n
    <3>3. SoundLike(t, m) /\ t.index = 0 /\ t.groups = m.groups
      <4>1. SoundLike(t, m)
        BY <3>1, IndexSound
      <4> QED
        BY <4>1 DEF Sound, Managers
    <3>4. h \in WellFormedGroups /\ SourcesOfGroup(h) = SourcesOfGroup(m.groups[1]) /\ h.index = 0
      BY <3>1, SwitchesWellFormed, SwitchesShow, GroupEnds
    <3> HIDE DEF t, h
    <3>5. Sound(t) /\ 1 \in DOMAIN t.groups
      BY <3>1, <3>3 DEF SoundLike
    <3>6. SoundLike(u, t) /\ u.index = 0 /\ u.groups[1] = h
      BY <3>3, <3>4, <3>5, SwitchedPlace
    <3> HIDE DEF u
    <3>7. SoundLike(u, m)
      BY <3>3, <3>6, SoundLikeTransitive
    <3>8. Sound(u) /\ HasGroups(u)
      BY <3>7, LikeHasGroups
    <3>9. Kept(q, u) /\ q.index = u.index /\ Asks(q)
      BY <3>8, ActivateSelectedKeeps
    <3> HIDE DEF q
    <3>10. SoundLike(q, m)
      BY <3>7, <3>9, SoundLikeTransitive DEF Kept
    <3>11. PositionOf(q) = PositionOf(u)
      BY <3>8, <3>9, KeptPosition
    <3>12. PositionOf(u) = 1
      <4>1. PositionOf(u) = b(0) + h.index + 1
        BY <3>6, <3>7, PositionLike DEF Selected, b
      <4> QED
        BY <1>3, <3>4, <4>1
    <3>13. PositionOf(m) = N
      <4>1. b(i + 1) = b(i) + (g.index + 1) /\ b(i) \in Nat
        BY <1>1, <1>2, <1>3, <2>3, <3>1, GroupEnds
      <4> QED
        BY <1>3, <1>4, <3>1, <4>1
    <3>14. Moves(q)
      BY <3>9, <3>10, <3>11, <3>12, <3>13
    <3> QED
      BY <2>3, <3>2, <3>14
  <2> QED
    BY <2>1, <2>2, <2>3
<1>6. SwitchToNextSource(m, Ready) = r
  BY DEF SwitchToNextSource, g, i
<1> HIDE DEF moved
<1>7. Sound(moved) /\ HasGroups(moved)
  BY <1>5, LikeHasGroups
<1>8. Kept(r, moved) /\ r.index = moved.index /\ r.asked = moved.asked /\ Selected(r) = Selected(moved)
  BY <1>7, KeptItself DEF Sound, Managers, Selected
<1> HIDE DEF r
<1>9. PositionOf(r) = PositionOf(moved) /\ SoundLike(r, m) /\ Asks(r)
  BY <1>5, <1>7, <1>8, KeptPosition, SoundLikeTransitive DEF Kept, Asks
<1> QED
  BY <1>5, <1>6, <1>9 DEF N
LEMMA PreviousPosition ==
  ASSUME NEW m, Sound(m), HasGroups(m), m.asked = NoEngine, Narrow(m.groups)
  PROVE  LET r == SwitchToPreviousSource(m, Ready)
             n == Len(SourcesOf(m.groups))
         IN  /\ SoundLike(r, m) /\ Asks(r)
             /\ PositionOf(r) = IF PositionOf(m) = 1 THEN n ELSE PositionOf(m) - 1
<1> DEFINE g == Selected(m)
           i == m.index
           n == Len(m.groups)
           N == Len(SourcesOf(m.groups))
           b(k) == Len(Before(m.groups, k))
           moved == IF HasPrevious(g) THEN Switched(m, i + 1, SwitchToPrevious(g))
                                      ELSE CycleBackward(m, Ready)
           r == [moved EXCEPT !.sync = TRUE]
           Moves(q) == /\ SoundLike(q, m) /\ Asks(q)
                       /\ PositionOf(q) = IF PositionOf(m) = 1 THEN N ELSE PositionOf(m) - 1
<1>1. /\ m.groups \in Seq(WellFormedGroups) /\ n \in Nat
      /\ i \in 0..(n - 1) /\ i + 1 \in DOMAIN m.groups /\ DOMAIN m.groups = 1..n
      /\ g = m.groups[i + 1] /\ g \in WellFormedGroups
  BY SelectedExists DEF Sound, Managers, Selected
<1>2. \A k \in 0..n : b(k) \in Nat
  BY <1>1, BeforeTyped
<1>3. b(0) = 0 /\ b(n) = N /\ \A k \in 0..(n - 1) : b(k + 1) = b(k) + Len(SourcesOfGroup(m.groups[k + 1]))
  BY <1>1, BeforeEnds, BeforeNext
<1>4. PositionOf(m) = b(i) + g.index + 1 /\ PositionOf(m) \in 1..N /\ g.index \in Nat
  BY <1>1, Positioned, GroupSelection
<1> HIDE DEF g, i, n, N, b
<1>5. Moves(moved)
  <2>1. CASE HasPrevious(g)
    <3> DEFINE h == SwitchToPrevious(g)
    <3>1. h \in WellFormedGroups /\ SourcesOfGroup(h) = SourcesOfGroup(m.groups[i + 1]) /\ h.index = g.index - 1
      BY <1>1, <2>1, SwitchesWellFormed, SwitchesShow, GroupEnds
    <3> HIDE DEF h
    <3> DEFINE q == Switched(m, i + 1, h)
    <3>2. SoundLike(q, m) /\ q.index = i /\ q.asked = NoEngine /\ q.groups[i + 1] = h
      BY <1>1, <3>1, SwitchedPlace DEF i
    <3> HIDE DEF q
    <3>3. PositionOf(q) = b(i) + h.index + 1 /\ PositionOf(q) \in 1..N
      BY <3>2, PositionLike DEF Selected, b, N
    <3>4. b(i) \in Nat
      BY <1>1, <1>2
    <3>5. PositionOf(q) = PositionOf(m) - 1 /\ PositionOf(m) # 1
      BY <1>4, <3>1, <3>3, <3>4
    <3>6. Moves(q)
      BY <3>2, <3>5 DEF Asks
    <3> QED
      BY <2>1, <3>6 DEF q, h
  <2>2. CASE ~HasPrevious(g) /\ i > 0
    <3> DEFINE t == [m EXCEPT !.index = i - 1]
               q == ActivateSelected(t, Ready)
    <3>1. /\ i \in DOMAIN m.groups /\ n # 1 /\ i - 1 \in 0..n /\ i - 1 \in 0..(n - 1)
          /\ i \in 0..n /\ (i - 1) + 1 = i
      BY <1>1, <2>2
    <3>2. CycleBackward(m, Ready) = q
      BY <2>2 DEF CycleBackward, i
    <3>3. SoundLike(t, m) /\ t.index = i - 1 /\ t.groups = m.groups
      BY <3>1, IndexSound DEF Sound, Managers
    <3> HIDE DEF t
    <3>4. Sound(t) /\ HasGroups(t)
      BY <3>3, LikeHasGroups
    <3>5. Kept(q, t) /\ q.index = t.index /\ Asks(q)
      BY <3>4, ActivateSelectedKeeps
    <3> HIDE DEF q
    <3>6. SoundLike(q, m)
      BY <3>3, <3>5, SoundLikeTransitive DEF Kept
    <3>7. PositionOf(q) = PositionOf(t)
      BY <3>4, <3>5, KeptPosition
    <3>8. PositionOf(t) = b(i - 1) + m.groups[i].index + 1 /\ PositionOf(t) \in 1..N
      BY <3>1, <3>3, PositionLike DEF Selected, b, N
    <3>9. m.groups[i].index = 0 /\ Len(SourcesOfGroup(m.groups[i])) = 1
      BY <3>1, EnteredAtItsEnds DEF n
    <3>10. b((i - 1) + 1) = b(i - 1) + Len(SourcesOfGroup(m.groups[(i - 1) + 1])) /\ b(i - 1) \in Nat
      BY <1>2, <1>3, <3>1
    <3>11. g.index = 0
      BY <1>1, <2>2, GroupEnds
    <3>12. PositionOf(t) = PositionOf(m) - 1 /\ PositionOf(m) # 1
      <4>1. b(i) = b(i - 1) + 1 /\ b(i - 1) \in Nat
        BY <3>1, <3>9, <3>10
      <4>2. PositionOf(m) = b(i - 1) + 1 + 0 + 1 /\ PositionOf(t) = b(i - 1) + 0 + 1
        BY <1>4, <3>8, <3>9, <3>11, <4>1
      <4> QED
        BY <4>1, <4>2
    <3>13. Moves(q)
      BY <3>5, <3>6, <3>7, <3>12
    <3> QED
      BY <2>2, <3>2, <3>13
  <2>3. CASE ~HasPrevious(g) /\ ~(i > 0)
    <3> DEFINE t == [m EXCEPT !.index = n - 1]
               h == SwitchToLast(m.groups[n])
               u == Switched(t, n, h)
               q == ActivateSelected(u, Ready)
    <3>1. n \in DOMAIN m.groups /\ i = 0 /\ m.groups[n] \in WellFormedGroups
          /\ n - 1 \in 0..(n - 1) /\ (n - 1) + 1 = n /\ n - 1 \in 0..n
      BY <1>1, <2>3
    <3>2. CycleBackward(m, Ready) = q
      BY <2>3 DEF CycleBackward, i, n
    <3>3. SoundLike(t, m) /\ t.index = n - 1 /\ t.groups = m.groups
      <4>1. SoundLike(t, m)
        BY <3>1, IndexSound
      <4> QED
        BY <4>1 DEF Sound, Managers
    <3>4. h \in WellFormedGroups /\ SourcesOfGroup(h) = SourcesOfGroup(m.groups[n])
          /\ h.index + 1 = Len(SourcesOfGroup(m.groups[n])) /\ h.index \in Nat
      <4>1. h \in WellFormedGroups /\ SourcesOfGroup(h) = SourcesOfGroup(m.groups[n])
            /\ h.index + 1 = Len(SourcesOfGroup(m.groups[n]))
        BY <3>1, SwitchesWellFormed, SwitchesShow, GroupEnds
      <4> HIDE DEF h
      <4> QED
        BY <4>1, GroupSelection
    <3> HIDE DEF t, h
    <3>5. Sound(t) /\ n \in DOMAIN t.groups
      BY <3>1, <3>3 DEF SoundLike
    <3>6. SoundLike(u, t) /\ u.index = n - 1 /\ u.groups[n] = h
      BY <3>3, <3>4, <3>5, SwitchedPlace
    <3> HIDE DEF u
    <3>7. SoundLike(u, m)
      BY <3>3, <3>6, SoundLikeTransitive
    <3>8. Sound(u) /\ HasGroups(u)
      BY <3>7, LikeHasGroups
    <3>9. Kept(q, u) /\ q.index = u.index /\ Asks(q)
      BY <3>8, ActivateSelectedKeeps
    <3> HIDE DEF q
    <3>10. SoundLike(q, m)
      BY <3>7, <3>9, SoundLikeTransitive DEF Kept
    <3>11. PositionOf(q) = PositionOf(u)
      BY <3>8, <3>9, KeptPosition
    <3>12. PositionOf(u) = N
      <4>1. PositionOf(u) = b(n - 1) + h.index + 1
        BY <3>1, <3>6, <3>7, PositionLike DEF Selected, b
      <4>2. b((n - 1) + 1) = b(n - 1) + Len(SourcesOfGroup(m.groups[(n - 1) + 1])) /\ b(n - 1) \in Nat
        BY <1>2, <1>3, <3>1
      <4> QED
        BY <1>3, <3>1, <3>4, <4>1, <4>2
    <3>13. PositionOf(m) = 1
      <4>1. g.index = 0
        BY <1>1, <2>3, GroupEnds
      <4> QED
        BY <1>3, <1>4, <3>1, <4>1
    <3>14. Moves(q)
      BY <3>9, <3>10, <3>11, <3>12, <3>13
    <3> QED
      BY <2>3, <3>2, <3>14
  <2> QED
    BY <2>1, <2>2, <2>3
<1>6. SwitchToPreviousSource(m, Ready) = r
  BY DEF SwitchToPreviousSource, g, i
<1> HIDE DEF moved
<1>7. Sound(moved) /\ HasGroups(moved)
  BY <1>5, LikeHasGroups
<1>8. Kept(r, moved) /\ r.index = moved.index /\ r.asked = moved.asked /\ Selected(r) = Selected(moved)
  BY <1>7, KeptItself DEF Sound, Managers, Selected
<1> HIDE DEF r
<1>9. PositionOf(r) = PositionOf(moved) /\ SoundLike(r, m) /\ Asks(r)
  BY <1>5, <1>7, <1>8, KeptPosition, SoundLikeTransitive DEF Kept, Asks
<1> QED
  BY <1>5, <1>6, <1>9 DEF N
-----------------------------------------------------------------------------
(* The groups of a list.                                                   *)

Offers(gs, s) ==
  \E k \in DOMAIN gs : \E j \in 1..Len(SourcesOfGroup(gs[k])) : SourcesOfGroup(gs[k])[j] = s

\* What a list of groups shows are the sources of its groups.
LEMMA ShownByGroups ==
  ASSUME NEW gs \in Seq(WellFormedGroups), NEW s
  PROVE  Offers(gs, s) <=> \E p \in 1..Len(SourcesOf(gs)) : SourcesOf(gs)[p] = s
<1> DEFINE n == Len(gs)
           Found(q) == \A p \in 1..Len(q) : Offers(gs, q[p])
           T == {h \in 0..n : Found(Before(gs, h))}
<1>1. n \in Nat /\ DOMAIN gs = 1..n
  OBVIOUS
<1>2. 0 \in T
  <2>1. Len(Before(gs, 0)) = 0 /\ 1..0 = {} /\ 0 \in 0..n
    BY <1>1, BeforeEnds
  <2> QED
    BY <2>1
<1>3. ASSUME NEW h \in 0..(n - 1), h \in T PROVE h + 1 \in T
  <2> DEFINE q == Before(gs, h)
             t == SourcesOfGroup(gs[h + 1])
  <2>1. h \in 0..n /\ h + 1 \in 0..n /\ h + 1 \in DOMAIN gs /\ gs[h + 1] \in WellFormedGroups
    BY <1>1
  <2>2. q \in Seq(Source) /\ t \in Seq(Source) /\ Before(gs, h + 1) = q \o t
    BY <2>1, BeforeTyped, BeforeNext, SourcesOfGroupTyped
  <2>3. Found(q)
    BY <1>3
  <2>4. \A j \in 1..Len(t) : Offers(gs, t[j])
    BY <2>1 DEF Offers
  <2> HIDE DEF q, t
  <2>5. ASSUME NEW p \in 1..Len(q \o t) PROVE Offers(gs, (q \o t)[p])
    <3>1. /\ Len(q \o t) = Len(q) + Len(t)
          /\ (q \o t)[p] = IF p <= Len(q) THEN q[p] ELSE t[p - Len(q)]
      BY <2>2, ConcatProperties
    <3>2. p \in 1..(Len(q) + Len(t)) /\ Len(q) \in Nat /\ Len(t) \in Nat
      BY <2>2, <3>1
    <3>3. CASE p <= Len(q)
      BY <2>3, <3>1, <3>2, <3>3
    <3>4. CASE ~(p <= Len(q))
      <4>1. p - Len(q) \in 1..Len(t)
        BY <3>2, <3>4
      <4> QED
        BY <2>4, <3>1, <3>4, <4>1
    <3> QED
      BY <3>3, <3>4
  <2> QED
    BY <2>1, <2>2, <2>5
<1>4. T = 0..n
  <2>1. T \in SUBSET (0..n)
    OBVIOUS
  <2> HIDE DEF T
  <2> QED
    BY <1>1, <1>2, <1>3, <2>1, Induction
<1>5. Found(SourcesOf(gs))
  <2>1. n \in T
    <3>1. n \in 0..n
      BY <1>1
    <3> HIDE DEF T
    <3> QED
      BY <1>4, <3>1
  <2> QED
    BY <2>1, BeforeEnds
<1>6. ASSUME Offers(gs, s) PROVE \E p \in 1..Len(SourcesOf(gs)) : SourcesOf(gs)[p] = s
  <2> PICK k \in DOMAIN gs : \E j \in 1..Len(SourcesOfGroup(gs[k])) : SourcesOfGroup(gs[k])[j] = s
    BY <1>6 DEF Offers
  <2>1. PICK j \in 1..Len(SourcesOfGroup(gs[k])) : SourcesOfGroup(gs[k])[j] = s
    OBVIOUS
  <2>2. k - 1 \in 0..(Len(gs) - 1) /\ (k - 1) + 1 = k
    BY <1>1
  <2>3. j \in 1..Len(SourcesOfGroup(gs[(k - 1) + 1]))
    BY <2>2
  <2> DEFINE p == Len(Before(gs, k - 1)) + j
  <2>4. p \in 1..Len(SourcesOf(gs)) /\ SourcesOf(gs)[p] = SourcesOfGroup(gs[(k - 1) + 1])[j]
    BY <2>2, <2>3, ShownBefore
  <2> HIDE DEF p
  <2> QED
    BY <2>1, <2>2, <2>4
<1> QED
  BY <1>5, <1>6

\* An engine is shown by the group it has, a layout by the layout groups that hold it.
LEMMA ShownSources ==
  ASSUME NEW gs \in Seq(WellFormedGroups)
  PROVE  /\ \A n \in Engines :
              Offers(gs, Ibus(n)) <=> \E k \in DOMAIN gs : gs[k].engine = n
         /\ \A l \in Layouts :
              Offers(gs, Xkb(l)) <=>
                \E k \in DOMAIN gs : gs[k].engine = NoEngine /\ HoldsLayout(gs[k], l)
<1>1. ASSUME NEW k \in DOMAIN gs, gs[k].engine # NoEngine, NEW s
      PROVE  (\E j \in 1..Len(SourcesOfGroup(gs[k])) : SourcesOfGroup(gs[k])[j] = s)
               <=> s = Ibus(gs[k].engine)
  <2>1. SourcesOfGroup(gs[k]) = <<Ibus(gs[k].engine)>>
    BY <1>1, GroupShows
  <2>2. Len(SourcesOfGroup(gs[k])) = 1 /\ SourcesOfGroup(gs[k])[1] = Ibus(gs[k].engine)
    BY <2>1
  <2> QED
    BY <2>2
<1>2. ASSUME NEW k \in DOMAIN gs, gs[k].engine = NoEngine, NEW s
      PROVE  (\E j \in 1..Len(SourcesOfGroup(gs[k])) : SourcesOfGroup(gs[k])[j] = s)
               <=> \E j \in DOMAIN gs[k].layouts : s = Xkb(gs[k].layouts[j])
  <2>1. /\ Len(SourcesOfGroup(gs[k])) = Len(gs[k].layouts)
        /\ \A j \in 1..Len(gs[k].layouts) : SourcesOfGroup(gs[k])[j] = Xkb(gs[k].layouts[j])
    BY <1>2, GroupShows
  <2>2. gs[k].layouts \in Seq(Layouts)
    BY DEF WellFormedGroups, Group
  <2>3. DOMAIN gs[k].layouts = 1..Len(gs[k].layouts)
    BY <2>2
  <2> QED
    BY <2>1, <2>3
<1>3. ASSUME NEW n \in Engines
      PROVE  Offers(gs, Ibus(n)) <=> \E k \in DOMAIN gs : gs[k].engine = n
  <2>1. n # NoEngine /\ \A x : Ibus(n) # Xkb(x) /\ (Ibus(n) = Ibus(x) <=> n = x)
    BY GroupAssumption DEF Ibus, Xkb
  <2>2. ASSUME NEW k \in DOMAIN gs
        PROVE  (\E j \in 1..Len(SourcesOfGroup(gs[k])) : SourcesOfGroup(gs[k])[j] = Ibus(n))
                 <=> gs[k].engine = n
    <3>1. CASE gs[k].engine # NoEngine
      BY <1>1, <2>1, <3>1
    <3>2. CASE gs[k].engine = NoEngine
      <4>1. (\E j \in 1..Len(SourcesOfGroup(gs[k])) : SourcesOfGroup(gs[k])[j] = Ibus(n))
              <=> \E j \in DOMAIN gs[k].layouts : Ibus(n) = Xkb(gs[k].layouts[j])
        BY <1>2, <3>2
      <4>2. gs[k].engine # n
        BY <2>1, <3>2
      <4> QED
        BY <2>1, <4>1, <4>2
    <3> QED
      BY <3>1, <3>2
  <2> QED
    BY <2>2 DEF Offers
<1>4. ASSUME NEW l \in Layouts
      PROVE  Offers(gs, Xkb(l)) <=>
               \E k \in DOMAIN gs : gs[k].engine = NoEngine /\ HoldsLayout(gs[k], l)
  <2>1. \A x : Xkb(l) # Ibus(x) /\ (Xkb(l) = Xkb(x) <=> l = x)
    BY DEF Ibus, Xkb
  <2>2. ASSUME NEW k \in DOMAIN gs
        PROVE  (\E j \in 1..Len(SourcesOfGroup(gs[k])) : SourcesOfGroup(gs[k])[j] = Xkb(l))
                 <=> gs[k].engine = NoEngine /\ HoldsLayout(gs[k], l)
    <3>1. CASE gs[k].engine # NoEngine
      BY <1>1, <2>1, <3>1
    <3>2. CASE gs[k].engine = NoEngine
      BY <1>2, <2>1, <3>2 DEF HoldsLayout
    <3> QED
      BY <3>1, <3>2
  <2> QED
    BY <2>2 DEF Offers
<1> QED
  BY <1>3, <1>4

\* What a list of the caller is good for when it is simple.
LEMMA SimpleShown ==
  ASSUME NEW c \in Lists, Simple(c)
  PROVE  /\ c \in Seq(Source) /\ Len(c) \in Nat \ {0} /\ DOMAIN c = 1..Len(c)
         /\ \A j, k \in DOMAIN c : c[j] = c[k] => j = k
         /\ Packs(GroupsOf(c), c)
<1>1. c \in Seq(Source) /\ c # <<>>
  BY CycleAssumption
<1>2. \A k \in DOMAIN c : Known(c[k])
  BY DEF Simple, Known
<1>3. Packs(GroupsOf(c), c)
  BY <1>1, <1>2, AllKnown, ListIsShown
<1>4. \A j, k \in DOMAIN c : c[j] = c[k] => j = k
  BY DEF Simple
<1> QED
  BY <1>1, <1>3, <1>4

\* The manager has the groups of c.
Stands(m, c) == c \in Lists /\ Sound(m) /\ SameSources(m.groups, GroupsOf(c))

LEMMA StandsFor ==
  ASSUME NEW c, Simple(c), NEW m, Stands(m, c)
  PROVE  /\ HasGroups(m) /\ SourcesOf(m.groups) = c
         /\ Narrow(m.groups) /\ Apart(m.groups)
<1> DEFINE gs == m.groups
           hs == GroupsOf(c)
<1>1. c \in Lists /\ gs \in Seq(WellFormedGroups) /\ SameSources(gs, hs)
  BY DEF Stands, Sound, Managers
<1>2. hs \in Seq(WellFormedGroups) /\ SourcesOf(hs) = c /\ c \in Seq(Source) /\ Len(c) # 0
      /\ DOMAIN c = 1..Len(c)
  BY <1>1, SimpleShown DEF Packs
<1>3. Len(gs) = Len(hs) /\ DOMAIN gs = DOMAIN hs
  BY <1>1, <1>2 DEF SameSources
<1>4. SourcesOf(gs) = c
  BY <1>1, <1>2, SameGroupsSameSources DEF SameSources
<1>5. gs # <<>>
  BY <1>2, <1>4, EmptyShowsNothing
<1>6. Len(hs) = 1 \/ \A k \in DOMAIN hs : Len(SourcesOfGroup(hs[k])) = 1
  BY DEF Simple
<1>7. Narrow(gs)
  BY <1>1, <1>3, <1>6 DEF Narrow, SameSources
<1>8. Apart(gs)
  <2>1. ASSUME NEW k \in DOMAIN gs, gs[k].engine = DefaultEngine, Len(gs) # 1 PROVE FALSE
    <3>1. Offers(gs, Ibus(DefaultEngine))
      BY <1>1, <2>1, ShownSources, ManagerAssumption
    <3>2. PICK p \in 1..Len(c) : c[p] = Ibus(DefaultEngine)
      BY <1>1, <1>4, <3>1, ShownByGroups
    <3>3. c[p].type = "ibus" => c[p].id # DefaultEngine
      BY <1>2, <1>3, <2>1 DEF Simple
    <3> QED
      BY <3>2, <3>3 DEF Ibus
  <2> QED
    BY <2>1 DEF Apart
<1> QED
  BY <1>4, <1>5, <1>7, <1>8 DEF HasGroups
-----------------------------------------------------------------------------
(* The list's operations, by the groups.                                   *)

\* In a simple list an engine's group does not hold a layout that the list offers.
LEMMA LayoutsApart ==
  ASSUME NEW c, Simple(c), NEW m, Stands(m, c), NEW l \in Layouts, Offers(m.groups, Xkb(l)),
         NEW k \in DOMAIN m.groups, HoldsLayout(m.groups[k], l)
  PROVE  m.groups[k].engine = NoEngine
<1> DEFINE gs == m.groups
           n == gs[k].engine
<1>1. gs \in Seq(WellFormedGroups) /\ gs[k] \in WellFormedGroups /\ DOMAIN gs = 1..Len(gs)
  BY DEF Stands, Sound, Managers
<1>2. SourcesOf(gs) = c
  BY StandsFor
<1>3. SUFFICES ASSUME n # NoEngine PROVE FALSE
  OBVIOUS
<1>4. n \in Engines /\ l = EngineLayout[n]
  <2>1. n \in Engines /\ (gs[k].layouts = <<>> \/ gs[k].layouts = <<EngineLayout[n]>>)
    BY <1>1, <1>3 DEF WellFormedGroups, WellFormedGroup, Group
  <2>2. PICK j \in DOMAIN gs[k].layouts : gs[k].layouts[j] = l
    BY DEF HoldsLayout
  <2>3. gs[k].layouts = <<EngineLayout[n]>>
    BY <2>1, <2>2
  <2>4. DOMAIN <<EngineLayout[n]>> = {1} /\ <<EngineLayout[n]>>[1] = EngineLayout[n]
    OBVIOUS
  <2> QED
    BY <2>1, <2>2, <2>3, <2>4
<1>5. PICK p \in 1..Len(c) : c[p] = Xkb(l)
  BY <1>1, <1>2, ShownByGroups
<1>6. PICK q \in 1..Len(c) : c[q] = Ibus(n)
  <2>1. Offers(gs, Ibus(n))
    BY <1>1, <1>4, ShownSources
  <2> QED
    BY <1>1, <1>2, <2>1, ShownByGroups
<1>7. CASE Len(gs) = 1
  <2>1. PICK j \in DOMAIN gs : gs[j].engine = NoEngine
    BY <1>1, ShownSources
  <2> QED
    BY <1>1, <1>3, <1>7, <2>1
<1>8. CASE Len(gs) # 1
  <2>1. Len(GroupsOf(c)) # 1 /\ DOMAIN c = 1..Len(c)
    <3>1. GroupsOf(c) \in Seq(WellFormedGroups) /\ DOMAIN c = 1..Len(c)
      BY SimpleShown DEF Stands, Packs
    <3>2. DOMAIN gs = DOMAIN GroupsOf(c)
      BY DEF Stands, SameSources
    <3>3. Len(gs) = Len(GroupsOf(c))
      BY <1>1, <3>1, <3>2
    <3> QED
      BY <1>8, <3>1, <3>3
  <2>2. c[q].type = "ibus" => \A j \in DOMAIN c : c[j] # Xkb(EngineLayout[c[q].id])
    BY <2>1 DEF Simple
  <2> QED
    BY <1>4, <1>5, <1>6, <2>1, <2>2 DEF Ibus
<1> QED
  BY <1>7, <1>8

LEMMA SelectOffered ==
  ASSUME NEW c, Simple(c), NEW m, Stands(m, c), NEW s \in Source, Offers(m.groups, s)
  PROVE  Selects(SelectSource(m, Ready, s), m, s)
<1> DEFINE r == SelectSource(m, Ready, s)
<1>1. Sound(m) /\ HasGroups(m) /\ m.groups \in Seq(WellFormedGroups)
  BY StandsFor DEF Stands, Sound, Managers
<1>2. CASE s.type = "ibus"
  <2>1. s.id \in Engines /\ s = Ibus(s.id)
    BY <1>2 DEF Source, Ibus
  <2>2. r = ActivateBest(m, Ready, s.id, NoLayout)
    BY <1>2 DEF SelectSource
  <2>3. \E k \in DOMAIN m.groups : m.groups[k].engine = s.id
    BY <1>1, <2>1, ShownSources
  <2> HIDE DEF r
  <2>4. Selects(r, m, Ibus(s.id))
    BY <1>1, <2>1, <2>2, <2>3, ActivateBestEngine
  <2> QED
    BY <2>1, <2>4 DEF r
<1>3. CASE s.type # "ibus"
  <2>1. s.id \in Layouts /\ s = Xkb(s.id) /\ s.type = "xkb"
    BY <1>3 DEF Source, Xkb
  <2>2. r = ActivateBest(m, Ready, NoEngine, s.id)
    BY <1>3, <2>1 DEF SelectSource
  <2>3. \E k \in DOMAIN m.groups : HoldsLayout(m.groups[k], s.id)
    BY <1>1, <2>1, ShownSources
  <2>4. \A k \in DOMAIN m.groups : HoldsLayout(m.groups[k], s.id) => m.groups[k].engine = NoEngine
    BY <2>1, LayoutsApart
  <2> HIDE DEF r
  <2>5. Selects(r, m, Xkb(s.id))
    BY <1>1, <2>1, <2>2, <2>3, <2>4, ActivateBestLayout
  <2> QED
    BY <2>1, <2>5 DEF r
<1> QED
  BY <1>2, <1>3

\* r has the groups of c, selects s if c has it, and the first source of c otherwise.
Finds(r, c, s) ==
  /\ Stands(r, c) /\ Asks(r)
  /\ IF \E p \in DOMAIN c : c[p] = s THEN SelectedSource(r) = s ELSE PositionOf(r) = 1

\* Groups that were just made are found with their first source selected.
LEMMA ReplacedStands ==
  ASSUME NEW m, Sound(m), NEW c \in Lists, Simple(c)
  PROVE  LET w == Replaced(m, c)
         IN  /\ Stands(w, c) /\ HasGroups(w)
             /\ w.groups = GroupsOf(c)
             /\ \A k \in DOMAIN w.groups : New(w.groups[k])
<1> DEFINE w == Replaced(m, c)
<1>1. c \in Seq(Source) /\ Packs(GroupsOf(c), c)
  BY SimpleShown
<1>2. Sound(w)
  BY <1>1, ReplacedSound
<1>3. w.groups = GroupsOf(c)
  BY DEF Replaced, Sound, Managers
<1> HIDE DEF w
<1>4. Stands(w, c)
  BY <1>2, <1>3 DEF Stands, SameSources
<1>5. \A k \in DOMAIN w.groups : New(w.groups[k])
  BY <1>1, <1>3 DEF Packs
<1> QED
  BY <1>3, <1>4, <1>5, StandsFor DEF w

LEMMA LikeStands ==
  ASSUME NEW c, NEW m, Stands(m, c), NEW r, SoundLike(r, m)
  PROVE  Stands(r, c)
  BY DEF Stands, SoundLike, SameSources

LEMMA FirstSelected ==
  ASSUME NEW m, Sound(m), HasGroups(m), \A k \in DOMAIN m.groups : New(m.groups[k]),
         NEW r, Kept(r, m), r.index = 0
  PROVE  PositionOf(r) = 1
<1>1. m.groups \in Seq(WellFormedGroups) /\ 1 \in DOMAIN m.groups
  BY DEF Sound, Managers, HasGroups
<1>2. Selected(r).index = 0
  BY <1>1 DEF Selected, Kept, New
<1>3. PositionOf(r) = Len(Before(m.groups, 0)) + 0 + 1
  BY <1>2, PositionLike DEF Kept
<1> QED
  BY <1>1, <1>3, BeforeEnds

LEMMA SetFinds ==
  ASSUME NEW m, Sound(m), HasGroups(m), NEW c \in Lists, Simple(c)
  PROVE  Finds(SetInputSources(m, Ready, c), c, SelectedSource(m))
<1> DEFINE old  == Selected(m)
           s    == SelectedSource(m)
           w    == Replaced(m, c)
           best == ActivateBest(w, Ready, old.engine, SelectedLayout(old))
           r    == [best EXCEPT !.sync = TRUE]
<1>1. SetInputSources(m, Ready, c) = r
  BY DEF SetInputSources
<1>2. /\ Stands(w, c) /\ HasGroups(w) /\ w.groups = GroupsOf(c)
      /\ \A k \in DOMAIN w.groups : New(w.groups[k])
  BY ReplacedStands
<1>3. Sound(w) /\ w.groups \in Seq(WellFormedGroups) /\ SourcesOf(w.groups) = c
      /\ DOMAIN c = 1..Len(c)
  BY <1>2, StandsFor, SimpleShown DEF Stands, Sound, Managers
<1>4. old \in WellFormedGroups
  BY SelectedExists
<1>5. s = IF old.engine # NoEngine THEN Ibus(old.engine) ELSE Xkb(SelectedLayout(old))
  BY DEF SelectedSource
<1>6. Offers(w.groups, s) <=> \E p \in DOMAIN c : c[p] = s
  BY <1>3, ShownByGroups
<1> HIDE DEF old, s, w
<1>7. IF Offers(w.groups, s) THEN Selects(best, w, s)
                             ELSE Kept(best, w) /\ best.index = 0 /\ Asks(best)
  <2>1. CASE old.engine # NoEngine
    <3>1. old.engine \in Engines /\ s = Ibus(old.engine)
      BY <1>4, <1>5, <2>1 DEF WellFormedGroups, Group
    <3>2. Offers(w.groups, s) <=> \E k \in DOMAIN w.groups : w.groups[k].engine = old.engine
      BY <1>3, <3>1, ShownSources
    <3> QED
      BY <1>2, <1>3, <3>1, <3>2, ActivateBestEngine
  <2>2. CASE old.engine = NoEngine
    <3> DEFINE l == SelectedLayout(old)
    <3>1. l \in Layouts /\ s = Xkb(l)
      BY <1>4, <1>5, <2>2, GroupSelection
    <3>2. best = ActivateBest(w, Ready, NoEngine, l)
      BY <2>2
    <3> HIDE DEF l, best
    <3>3. \A k \in DOMAIN w.groups : HoldsLayout(w.groups[k], l) => w.groups[k].engine = NoEngine
      <4>1. \A k \in DOMAIN w.groups : w.groups[k].engine # NoEngine => w.groups[k].layouts = <<>>
        BY <1>2 DEF New
      <4>2. DOMAIN <<>> = {}
        OBVIOUS
      <4> QED
        BY <4>1, <4>2 DEF HoldsLayout
    <3>4. Offers(w.groups, s) <=> \E k \in DOMAIN w.groups : HoldsLayout(w.groups[k], l)
      BY <1>3, <3>1, <3>3, ShownSources
    <3> QED
      BY <1>2, <1>3, <3>1, <3>2, <3>3, <3>4, ActivateBestLayout
  <2> QED
    BY <2>1, <2>2
<1> HIDE DEF best
<1>8. SoundLike(best, w) /\ Asks(best)
      /\ IF Offers(w.groups, s) THEN SelectedSource(best) = s ELSE PositionOf(best) = 1
  BY <1>2, <1>3, <1>7, FirstSelected DEF Selects, Kept
<1>9. Sound(best) /\ HasGroups(best)
  BY <1>2, <1>3, <1>8, LikeHasGroups
<1>10. Kept(r, best) /\ r.index = best.index /\ r.asked = best.asked /\ r.groups = best.groups
  BY <1>9, KeptItself DEF Sound, Managers
<1> HIDE DEF r
<1>11. Stands(r, c)
  BY <1>2, <1>8, <1>10, LikeStands DEF Kept
<1>12. Asks(r) /\ SelectedSource(r) = SelectedSource(best)
  BY <1>8, <1>10 DEF Asks, SelectedSource, Selected
<1>13. PositionOf(r) = PositionOf(best)
  BY <1>9, <1>10, KeptPosition
<1> QED
  BY <1>1, <1>6, <1>8, <1>11, <1>12, <1>13 DEF Finds, s

\* The first list is found at its first source.
LEMMA StartsAtFirst ==
  ASSUME NEW c \in Lists, Simple(c)
  PROVE  LET r == SetInputSources(Empty, Ready, c)
         IN  Stands(r, c) /\ Asks(r) /\ PositionOf(r) = 1
<1> DEFINE w    == Replaced(Empty, c)
           best == ActivateBest(w, Ready, NoEngine, NoLayout)
           r    == [best EXCEPT !.sync = TRUE]
<1>1. Sound(Empty) /\ ~HasGroups(Empty)
  <2>1. <<>> \in Seq(WellFormedGroups) /\ <<>> \in Seq(Layouts) /\ 0 \in Nat
    OBVIOUS
  <2> QED
    BY <2>1 DEF Empty, Sound, Managers, Keymaps, HasGroups
<1>2. SelectedLayout(NewGroup) = NoLayout /\ NewGroup.engine = NoEngine
  <2>1. Len(<<>>) = 0
    OBVIOUS
  <2> QED
    BY <2>1 DEF SelectedLayout, NewGroup
<1>3. SetInputSources(Empty, Ready, c) = r
  BY <1>1, <1>2 DEF SetInputSources
<1>4. /\ Stands(w, c) /\ HasGroups(w)
      /\ \A k \in DOMAIN w.groups : New(w.groups[k])
  BY <1>1, ReplacedStands
<1>5. Sound(w)
  BY <1>4 DEF Stands
<1> HIDE DEF w
<1>6. Kept(best, w) /\ best.index = 0 /\ Asks(best)
  BY <1>4, <1>5, ActivateBestNothing
<1> HIDE DEF best
<1>7. PositionOf(best) = 1 /\ Sound(best) /\ HasGroups(best)
  BY <1>4, <1>5, <1>6, FirstSelected, LikeHasGroups DEF Kept
<1>8. Kept(r, best) /\ r.index = best.index /\ r.asked = best.asked /\ r.groups = best.groups
  BY <1>7, KeptItself DEF Sound, Managers
<1> HIDE DEF r
<1>9. Stands(r, c)
  BY <1>4, <1>6, <1>8, LikeStands DEF Kept
<1>10. Asks(r) /\ PositionOf(r) = 1
  BY <1>6, <1>7, <1>8, KeptPosition DEF Asks, Selected
<1> QED
  BY <1>3, <1>9, <1>10
-----------------------------------------------------------------------------
(* The groups implement the list.                                          *)

\* What a call leaves to IBus does not move the selection.
LEMMA SettledStands ==
  ASSUME NEW c, Simple(c), NEW m, Stands(m, c), Asks(m)
  PROVE  /\ Stands(Settled(m), c) /\ Settled(m).asked = NoEngine
         /\ SourcesOf(Settled(m).groups) = c
         /\ PositionOf(Settled(m)) = PositionOf(m)
<1>1. Sound(m) /\ HasGroups(m) /\ Apart(m.groups)
  BY StandsFor DEF Stands
<1>2. Kept(Settled(m), m) /\ Settled(m).index = m.index /\ Settled(m).asked = NoEngine
  BY <1>1, SettledKeeps
<1>3. Stands(Settled(m), c)
  BY <1>2, LikeStands DEF Kept
<1> QED
  BY <1>1, <1>2, <1>3, StandsFor, KeptPosition

LEMMA StandsAt ==
  ASSUME NEW c, Simple(c), NEW m, Stands(m, c)
  PROVE  PositionOf(m) \in DOMAIN c /\ c[PositionOf(m)] = SelectedSource(m)
<1>1. Sound(m) /\ HasGroups(m) /\ SourcesOf(m.groups) = c /\ DOMAIN c = 1..Len(c)
  BY StandsFor, SimpleShown DEF Stands
<1> QED
  BY <1>1, Positioned

\* A source of a list without repetition is at one position.
LEMMA OnePosition ==
  ASSUME NEW c, \A j, k \in DOMAIN c : c[j] = c[k] => j = k, NEW k \in DOMAIN c
  PROVE  List!Holds(c, c[k]) /\ List!PositionIn(c, c[k]) = k
  BY DEF List!Holds, List!PositionIn

ListInv ==
  /\ \E c \in Lists : Stands(manager, c)
  /\ manager.asked = NoEngine

LEMMA ListStarts ==
  ASSUME \A c \in Lists : Simple(c), Init
  PROVE  ListInv /\ List!Init
<1> PICK c \in Lists : manager = Settled(SetInputSources(Empty, Ready, c))
  BY DEF Init
<1>1. Simple(c)
  OBVIOUS
<1> DEFINE r == SetInputSources(Empty, Ready, c)
<1>2. Stands(r, c) /\ Asks(r) /\ PositionOf(r) = 1
  BY <1>1, StartsAtFirst
<1> HIDE DEF r
<1>3. Stands(Settled(r), c) /\ Settled(r).asked = NoEngine
      /\ SourcesOf(Settled(r).groups) = c /\ PositionOf(Settled(r)) = 1
  BY <1>1, <1>2, SettledStands
<1>4. manager = Settled(r)
  BY DEF r
<1> QED
  BY <1>3, <1>4 DEF ListInv, List!Init, Offered, Position, Init

LEMMA ListSteps ==
  ASSUME \A c \in Lists : Simple(c), ListInv, [Next]_vars
  PROVE  ListInv' /\ [List!Next]_(List!vars)
<1> PICK c \in Lists : Stands(manager, c)
  BY DEF ListInv
<1>1. /\ Simple(c) /\ c \in Seq(Source) /\ DOMAIN c = 1..Len(c) /\ Len(c) \in Nat \ {0}
      /\ \A j, k \in DOMAIN c : c[j] = c[k] => j = k
  BY SimpleShown
<1>2. /\ Sound(manager) /\ HasGroups(manager) /\ manager.asked = NoEngine
      /\ Offered = c /\ Narrow(manager.groups)
  BY <1>1, StandsFor DEF Stands, ListInv, Offered
<1>3. Position \in DOMAIN c /\ c[Position] = SelectedSource(manager)
  BY <1>1, StandsAt DEF Position
<1>4. ASSUME NEW d \in Lists, SetInputSourcesCall(d) PROVE ListInv' /\ List!Next
  <2> DEFINE r == SetInputSources(manager, Ready, d)
             s == SelectedSource(manager)
  <2>1. /\ Simple(d) /\ d \in Seq(Source) /\ DOMAIN d = 1..Len(d) /\ Len(d) \in Nat \ {0}
        /\ \A j, k \in DOMAIN d : d[j] = d[k] => j = k
    BY SimpleShown
  <2>2. Finds(r, d, s)
    BY <1>2, <2>1, SetFinds
  <2>3. manager' = Settled(r) /\ request' = <<"set", d>>
    BY <1>4 DEF SetInputSourcesCall
  <2> HIDE DEF r, s
  <2>4. Stands(manager', d) /\ manager'.asked = NoEngine /\ SourcesOf(manager'.groups) = d
        /\ PositionOf(manager') = PositionOf(r)
    BY <2>1, <2>2, <2>3, SettledStands DEF Finds
  <2>5. Offered' = d /\ Position' = PositionOf(r)
    BY <2>4 DEF Offered, Position
  <2>6. PositionOf(r) \in DOMAIN d /\ d[PositionOf(r)] = SelectedSource(r)
    BY <2>1, <2>2, StandsAt DEF Finds
  <2>7. PositionOf(r) = IF List!Holds(d, s) THEN List!PositionIn(d, s) ELSE 1
    <3>1. CASE List!Holds(d, s)
      <4>1. SelectedSource(r) = s
        BY <2>2, <3>1 DEF Finds, List!Holds
      <4> QED
        BY <2>1, <2>6, <3>1, <4>1, OnePosition
    <3>2. CASE ~List!Holds(d, s)
      BY <2>2, <3>2 DEF Finds, List!Holds
    <3> QED
      BY <3>1, <3>2
  <2>8. List!SetInputSources(d)
    BY <1>2, <1>3, <2>3, <2>5, <2>7 DEF List!SetInputSources, s
  <2> QED
    BY <2>4, <2>8 DEF ListInv, List!Next
<1>5. ASSUME NEW k \in DOMAIN Offered, SelectInputSourceCall(Offered[k]) PROVE ListInv' /\ List!Next
  <2> DEFINE r == SelectSource(manager, Ready, c[k])
  <2>1. k \in DOMAIN c /\ c[k] \in Source
    BY <1>1, <1>2
  <2>2. Offers(manager.groups, c[k])
    BY <1>1, <1>2, <2>1, ShownByGroups DEF Offered, Sound, Managers
  <2>3. Selects(r, manager, c[k])
    BY <1>1, <2>1, <2>2, SelectOffered
  <2>4. manager' = Settled(r) /\ request' = <<"select", c[k]>>
    BY <1>2, <1>5 DEF SelectInputSourceCall
  <2> HIDE DEF r
  <2>5. Stands(r, c) /\ Asks(r)
    BY <2>3, LikeStands DEF Selects
  <2>6. Stands(manager', c) /\ manager'.asked = NoEngine /\ SourcesOf(manager'.groups) = c
        /\ PositionOf(manager') = PositionOf(r)
    BY <1>1, <2>4, <2>5, SettledStands
  <2>7. PositionOf(r) \in DOMAIN c /\ c[PositionOf(r)] = c[k]
    BY <1>1, <2>3, <2>5, StandsAt DEF Selects
  <2>8. Offered' = c /\ Position' = k
    BY <1>1, <2>1, <2>6, <2>7 DEF Offered, Position
  <2>9. List!Holds(c, c[k]) /\ List!PositionIn(c, c[k]) = k
    BY <1>1, <2>1, OnePosition
  <2>10. List!SelectInputSource(Offered[k])
    BY <1>2, <2>4, <2>8, <2>9 DEF List!SelectInputSource
  <2> QED
    BY <1>5, <2>6, <2>10 DEF ListInv, List!Next
<1>6. ASSUME SelectNextInputSourceCall PROVE ListInv' /\ List!Next
  <2> DEFINE r == SwitchToNextSource(manager, Ready)
  <2>1. /\ SoundLike(r, manager) /\ Asks(r)
        /\ PositionOf(r) = IF Position = Len(c) THEN 1 ELSE Position + 1
    BY <1>2, NextPosition DEF Offered, Position
  <2>2. manager' = Settled(r) /\ request' = <<"next">>
    BY <1>6 DEF SelectNextInputSourceCall
  <2> HIDE DEF r
  <2>3. Stands(r, c)
    BY <2>1, LikeStands
  <2>4. Stands(manager', c) /\ manager'.asked = NoEngine /\ SourcesOf(manager'.groups) = c
        /\ PositionOf(manager') = PositionOf(r)
    BY <1>1, <2>1, <2>2, <2>3, SettledStands
  <2>5. PositionOf(r) = (Position % Len(c)) + 1
    <3>1. Position \in 1..Len(c) /\ Len(c) \in Nat \ {0}
      BY <1>1, <1>3
    <3>2. CASE Position = Len(c)
      <4>1. Len(c) % Len(c) = 0
        BY <3>1
      <4> QED
        BY <2>1, <3>2, <4>1
    <3>3. CASE Position # Len(c)
      <4>1. Position \in Nat /\ Position < Len(c)
        BY <3>1, <3>3
      <4>2. Position % Len(c) = Position
        BY <3>1, <4>1
      <4> QED
        BY <2>1, <3>3, <4>2
    <3> QED
      BY <3>2, <3>3
  <2>6. List!SelectNextInputSource
    BY <1>2, <2>2, <2>4, <2>5 DEF List!SelectNextInputSource, Offered, Position
  <2> QED
    BY <2>4, <2>6 DEF ListInv, List!Next
<1>7. ASSUME SelectPreviousInputSourceCall PROVE ListInv' /\ List!Next
  <2> DEFINE r == SwitchToPreviousSource(manager, Ready)
  <2>1. /\ SoundLike(r, manager) /\ Asks(r)
        /\ PositionOf(r) = IF Position = 1 THEN Len(c) ELSE Position - 1
    BY <1>2, PreviousPosition DEF Offered, Position
  <2>2. manager' = Settled(r) /\ request' = <<"previous">>
    BY <1>7 DEF SelectPreviousInputSourceCall
  <2> HIDE DEF r
  <2>3. Stands(r, c)
    BY <2>1, LikeStands
  <2>4. Stands(manager', c) /\ manager'.asked = NoEngine /\ SourcesOf(manager'.groups) = c
        /\ PositionOf(manager') = PositionOf(r)
    BY <1>1, <2>1, <2>2, <2>3, SettledStands
  <2>5. List!SelectPreviousInputSource
    BY <1>2, <2>1, <2>2, <2>4 DEF List!SelectPreviousInputSource, Offered, Position
  <2> QED
    BY <2>4, <2>5 DEF ListInv, List!Next
<1>8. CASE UNCHANGED vars
  BY <1>8 DEF vars, ListInv, List!vars, Offered, Position
<1> QED
  BY <1>4, <1>5, <1>6, <1>7, <1>8 DEF Next

\* Whatever is called, in whatever order and across whichever groups, clients walk the list they
\* set: SetInputSources keeps the selection when the new list has it, SelectInputSource selects
\* what it is given, and next and previous move by one and wrap around. Proved for any lists that
\* are simple, of any length, and any limit on the layouts of a group.
THEOREM ListIsImplemented ==
  ASSUME \A c \in Lists : Simple(c)
  PROVE  Spec => ImplementsList
<1>1. Init => ListInv /\ List!Init
  BY ListStarts
<1>2. ListInv /\ [Next]_vars => ListInv' /\ [List!Next]_(List!vars)
  BY ListSteps
<1> QED
  BY <1>1, <1>2, PTL DEF Spec, ImplementsList, List!Spec
=============================================================================
