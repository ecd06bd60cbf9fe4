------------------------- MODULE WindowTrackerProofs -------------------------
(***************************************************************************)
(* What holds of the window tracker for any windows, desktop files and     *)
(* number width: a window belongs to one application (OwnedOnce), and the  *)
(* counts, the states and the set of running applications agree with the   *)
(* windows there are (Tallied). They are inductive together with the types *)
(* and with Connected: an application that has windows is one whose state  *)
(* the tracker listens to. Of the focused application (FocusKept) it is    *)
(* shown, from that invariant, that no window comes or goes unnoticed on   *)
(* the way up from the focus window.                                       *)
(***************************************************************************)
EXTENDS WindowTracker, FiniteSetTheorems, WellFoundedInduction, TLAPS

-----------------------------------------------------------------------------
(* Naturals.                                                               *)

LEMMA LeastExists ==
  ASSUME NEW T, T \subseteq Nat, T # {}
  PROVE  \E x \in T : \A y \in T : x <= y
<1> DEFINE R == OpToRel(<, Nat)
<1>1. IsWellFoundedOn(R, Nat)
  BY NatLessThanWellFounded
<1>2. \A x, y \in Nat : <<x, y>> \in R <=> x < y
  BY DEF OpToRel
<1> HIDE DEF R
<1>3. PICK x \in T : \A y \in T : <<y, x>> \notin R
  BY <1>1, WFMin
<1>4. ASSUME NEW y \in T PROVE x <= y
  <2>1. ~(y < x)
    BY <1>2, <1>3
  <2> QED
    BY <2>1
<1> QED
  BY <1>4

\* A set of naturals up to n that has 0 and is closed under successor has them all.
LEMMA UpTo ==
  ASSUME NEW n \in Nat, NEW T \in SUBSET (0..n), 0 \in T,
         \A i \in 0..(n - 1) : i \in T => i + 1 \in T
  PROVE  T = 0..n
<1> SUFFICES ASSUME (0..n) \ T # {} PROVE FALSE
  OBVIOUS
<1> DEFINE U == (0..n) \ T
<1>1. PICK x \in U : \A y \in U : x <= y
  <2>1. U \subseteq Nat /\ U # {}
    OBVIOUS
  <2> HIDE DEF U
  <2> QED
    BY <2>1, LeastExists
<1>2. x - 1 \in 0..(n - 1) /\ x - 1 \in T
  BY <1>1
<1> QED
  BY <1>1, <1>2

-----------------------------------------------------------------------------
(* What holds of a tracker between signals.                                *)

USE ApplicationsAssumption

\* An application with windows is listened to.
Connected(t) == \A a \in Apps : t.members[a] # {} => a \in t.watched

Interesting(t, skip, a) == {w \in t.members[a] : ~skip[w]}

TalliedFor(t, skip, a) ==
  LET n == Cardinality(Interesting(t, skip, a))
  IN  /\ t.count[a] = n
      /\ t.state[a] = IF n = 0 THEN "stopped" ELSE "running"
      /\ a \in t.running <=> n # 0

\* What every handler finds and leaves: a tracker t, where skip is what skip-taskbar is.
Good(t, skip) ==
  /\ t \in Trackers
  /\ \A a \in Apps : t.members[a] = {w \in Windows : t.owner[w] = a}
  /\ \A a \in Apps : TalliedFor(t, skip, a)
  /\ Connected(t)

-----------------------------------------------------------------------------
(* Counting.                                                               *)

LEMMA Subsets ==
  ASSUME NEW S \in SUBSET Windows
  PROVE  /\ IsFiniteSet(S)
         /\ Cardinality(S) \in 0..Cardinality(Windows)
         /\ Cardinality(S) = 0 <=> S = {}
<1>1. IsFiniteSet(S) /\ Cardinality(S) <= Cardinality(Windows)
  BY FS_Subset
<1>2. Cardinality(S) \in Nat /\ Cardinality(Windows) \in Nat
  BY <1>1, FS_CardinalityType
<1> QED
  BY <1>1, <1>2, FS_EmptySet

LEMMA OneMore ==
  ASSUME NEW S \in SUBSET Windows, NEW w \in Windows, w \notin S
  PROVE  Cardinality(S \cup {w}) = More(Cardinality(S))
<1>1. Cardinality(S \cup {w}) = Cardinality(S) + 1
  BY Subsets, FS_AddElement
<1>2. Cardinality(S \cup {w}) \in 0..Cardinality(Windows)
  BY Subsets, S \cup {w} \in SUBSET Windows
<1>3. Cardinality(Windows) \in Nat /\ Cardinality(S) \in Nat
  BY Subsets, FS_CardinalityType
<1> QED
  BY <1>1, <1>2, <1>3 DEF More

LEMMA OneLess ==
  ASSUME NEW S \in SUBSET Windows, NEW w \in S
  PROVE  Cardinality(S \ {w}) = Less(Cardinality(S))
<1>1. Cardinality(S \ {w}) = Cardinality(S) - 1
  BY Subsets, FS_RemoveElement
<1>2. Cardinality(S \ {w}) \in Nat /\ Cardinality(S) \in Nat
  BY Subsets, S \ {w} \in SUBSET Windows, FS_CardinalityType
<1> QED
  BY <1>1, <1>2 DEF Less

-----------------------------------------------------------------------------
(* The application and the app system.                                     *)

LEMMA Synced ==
  ASSUME NEW u \in Trackers, NEW a \in Apps, a \in u.watched,
         u.state[a] = "running" <=> a \in u.running
  PROVE  LET v == SyncRunningState(u, a)
         IN  /\ v \in Trackers
             /\ v.owner = u.owner /\ v.members = u.members /\ v.count = u.count
             /\ v.watched = u.watched /\ v.focused = u.focused /\ v.signals = u.signals
             /\ v.state = [u.state EXCEPT ![a] = IF u.count[a] = 0 THEN "stopped" ELSE "running"]
             /\ v.running = IF u.count[a] = 0 THEN u.running \ {a} ELSE u.running \cup {a}
<1> DEFINE state == IF u.count[a] = 0 THEN "stopped" ELSE "running"
<1>1. u.state \in [Apps -> {"stopped", "running"}]
  BY DEF Trackers
<1>2. CASE u.state[a] = state
  <2>1. SyncRunningState(u, a) = u
    BY <1>2 DEF SyncRunningState, StateTransition
  <2>2. u.state = [u.state EXCEPT ![a] = state]
    BY <1>1, <1>2
  <2>3. u.running = IF u.count[a] = 0 THEN u.running \ {a} ELSE u.running \cup {a}
    BY <1>2
  <2> QED
    BY <2>1, <2>2, <2>3
<1>3. CASE u.state[a] # state
  <2>1. SyncRunningState(u, a) =
          [[u EXCEPT !.state[a] = state] EXCEPT
             !.running = IF state = "running" THEN @ \cup {a} ELSE @ \ {a}]
    BY <1>1, <1>3 DEF SyncRunningState, StateTransition, NotifyAppStateChanged, Trackers
  <2> DEFINE states == [u.state EXCEPT ![a] = state]
             apps == IF u.count[a] = 0 THEN u.running \ {a} ELSE u.running \cup {a}
  <2>2. SyncRunningState(u, a) = [u EXCEPT !.state = states, !.running = apps]
    BY <2>1 DEF Trackers
  <2>3. states \in [Apps -> {"stopped", "running"}] /\ apps \in SUBSET Apps
    BY <1>1 DEF Trackers
  <2> HIDE DEF states, apps
  <2> DEFINE v == SyncRunningState(u, a)
  <2>4. v = [owner |-> u.owner, members |-> u.members, count |-> u.count, state |-> states,
             watched |-> u.watched, running |-> apps, focused |-> u.focused,
             signals |-> u.signals]
    BY <2>2 DEF Trackers
  <2> HIDE DEF v
  <2>5. v \in Trackers
    BY <2>3, <2>4 DEF Trackers
  <2> QED
    BY <2>4, <2>5 DEF v, states, apps
<1> QED
  BY <1>2, <1>3

\* u is t with the windows of a changed and counted, or skip-taskbar of one of them: synced,
\* it is good again.
LEMMA Resynced ==
  ASSUME NEW t, NEW skip, Good(t, skip), NEW skip2,
         NEW u \in Trackers, NEW a \in Apps, a \in u.watched,
         Connected(u), u.state = t.state, u.running = t.running,
         u.members[a] \in SUBSET Windows,
         u.count[a] = Cardinality(Interesting(u, skip2, a)),
         \A b \in Apps : u.members[b] = {w \in Windows : u.owner[w] = b},
         \A b \in Apps \ {a} : /\ u.count[b] = t.count[b]
                               /\ Interesting(u, skip2, b) = Interesting(t, skip, b)
  PROVE  LET v == SyncRunningState(u, a)
         IN  /\ Good(v, skip2)
             /\ v.owner = u.owner /\ v.focused = u.focused /\ v.signals = u.signals
<1> DEFINE v == SyncRunningState(u, a)
<1>1. u.state[a] = "running" <=> a \in u.running
  BY DEF Good, TalliedFor
<1>2. /\ v \in Trackers
      /\ v.owner = u.owner /\ v.members = u.members /\ v.count = u.count
      /\ v.watched = u.watched /\ v.focused = u.focused /\ v.signals = u.signals
      /\ v.state = [u.state EXCEPT ![a] = IF u.count[a] = 0 THEN "stopped" ELSE "running"]
      /\ v.running = IF u.count[a] = 0 THEN u.running \ {a} ELSE u.running \cup {a}
  BY <1>1, Synced
<1>3. \A b \in Apps : Interesting(v, skip2, b) = Interesting(u, skip2, b)
  BY <1>2 DEF Interesting
<1>4. u.state \in [Apps -> {"stopped", "running"}]
  BY DEF Trackers
<1> HIDE DEF v
<1>5. TalliedFor(v, skip2, a)
  BY <1>2, <1>3, <1>4 DEF TalliedFor
<1>6. ASSUME NEW b \in Apps \ {a} PROVE TalliedFor(v, skip2, b)
  <2>1. TalliedFor(t, skip, b)
    BY DEF Good
  <2> QED
    BY <1>2, <1>3, <1>4, <2>1 DEF TalliedFor
<1>7. Good(v, skip2)
  BY <1>2, <1>5, <1>6 DEF Good, Connected
<1> QED
  BY <1>2, <1>7 DEF v

-----------------------------------------------------------------------------
(* The window tracker.                                                     *)

LEMMA CollectedGood ==
  ASSUME NEW t, NEW skip, Good(t, skip)
  PROVE  /\ Good(Collected(t), skip)
         /\ Collected(t).owner = t.owner /\ Collected(t).focused = t.focused
         /\ Collected(t).signals = t.signals
<1> DEFINE v == Collected(t)
           watched == {a \in t.watched : Alive(t, a)}
<1>1. t \in Trackers
  BY DEF Good
<1>2. v = [owner |-> t.owner, members |-> t.members, count |-> t.count, state |-> t.state,
           watched |-> watched, running |-> t.running, focused |-> t.focused,
           signals |-> t.signals]
  <2>1. v = [t EXCEPT !.watched = watched]
    BY DEF Collected
  <2> HIDE DEF v, watched
  <2> QED
    BY <1>1, <2>1 DEF Trackers
<1>3. watched \in SUBSET Apps /\ \A a \in t.watched : t.members[a] # {} => a \in watched
  BY <1>1 DEF Trackers, Alive
<1> HIDE DEF watched, v
<1>4. v \in Trackers
  BY <1>1, <1>2, <1>3 DEF Trackers
<1>5. Connected(v)
  BY <1>2, <1>3 DEF Good, Connected
<1>6. \A a \in Apps : TalliedFor(v, skip, a)
  BY <1>2 DEF Good, TalliedFor, Interesting
<1> QED
  BY <1>2, <1>4, <1>5, <1>6 DEF Good, v

LEMMA TrackWindowGood ==
  ASSUME NEW env, NEW t, Good(t, env.skip), NEW a \in Apps, NEW w \in Windows,
         t.owner[w] = NoApp
  PROVE  LET v == TrackWindow(t, env, a, w)
         IN  /\ Good(v, env.skip)
             /\ v.owner = [t.owner EXCEPT ![w] = a] /\ v.focused = t.focused
             /\ v.signals = t.signals \cup {"windows"}
<1> DEFINE owner   == [t.owner EXCEPT ![w] = a]
           members == [t.members EXCEPT ![a] = @ \cup {w}]
           count   == [t.count EXCEPT ![a] = IF env.skip[w] THEN @ ELSE More(@)]
           watched == t.watched \cup {a}
           signals == t.signals \cup {"windows"}
           u == [owner |-> owner, members |-> members, count |-> count, state |-> t.state,
                 watched |-> watched, running |-> t.running, focused |-> t.focused,
                 signals |-> signals]
           S == Interesting(t, env.skip, a)
<1>1. t \in Trackers
  BY DEF Good
<1>2. w \notin t.members[a]
  BY DEF Good
<1>3. TrackWindow(t, env, a, w) = SyncRunningState(u, a)
  <2> DEFINE u0 == [t EXCEPT !.owner[w] = a, !.watched = @ \cup {a},
                            !.signals = @ \cup {"windows"}]
  <2>1. u0 = [owner |-> owner, members |-> t.members, count |-> t.count, state |-> t.state,
              watched |-> watched, running |-> t.running, focused |-> t.focused,
              signals |-> signals]
    <3>1. u0 = [t EXCEPT !.owner = owner, !.watched = watched, !.signals = signals]
      BY <1>1 DEF Trackers
    <3> HIDE DEF u0, owner, watched, signals
    <3> QED
      BY <1>1, <3>1 DEF Trackers
  <2>2. TrackWindow(t, env, a, w) = AddWindow(u0, env, a, w)
    BY DEF TrackWindow
  <2> HIDE DEF u0
  <2>3. AddWindow(u0, env, a, w) =
          SyncRunningState([u0 EXCEPT !.members[a] = @ \cup {w},
                                      !.count[a] = IF env.skip[w] THEN @ ELSE More(@)], a)
    BY <1>2, <2>1 DEF AddWindow
  <2> DEFINE u1 == [u0 EXCEPT !.members[a] = @ \cup {w},
                             !.count[a] = IF env.skip[w] THEN @ ELSE More(@)]
  <2>4. u1 = u
    <3>1. u1 = [u0 EXCEPT !.members = members, !.count = count]
      BY <2>1
    <3> HIDE DEF u1, owner, members, count, watched, signals
    <3> QED
      BY <2>1, <3>1
  <2> QED
    BY <2>2, <2>3, <2>4
<1>4. S \in SUBSET Windows /\ w \notin S /\ t.count[a] = Cardinality(S)
  BY <1>1, <1>2 DEF Good, Interesting, TalliedFor, Trackers
<1>5. Interesting(u, env.skip, a) = IF env.skip[w] THEN S ELSE S \cup {w}
  BY <1>1 DEF Interesting, Trackers
<1>6. count[a] = Cardinality(Interesting(u, env.skip, a))
  BY <1>1, <1>4, <1>5, OneMore DEF Trackers
<1>7. count \in [Apps -> 0..Cardinality(Windows)]
  <2>1. Interesting(u, env.skip, a) \in SUBSET Windows
    BY <1>4, <1>5
  <2>2. count[a] \in 0..Cardinality(Windows)
    <3>1. Cardinality(Interesting(u, env.skip, a)) \in 0..Cardinality(Windows)
      BY <2>1, Subsets
    <3> HIDE DEF count, u
    <3> QED BY <1>6, <3>1, Zenon
  <2> QED
    BY <1>1, <2>2 DEF Trackers
<1>8. u \in Trackers
  <2>1. /\ owner \in [Windows -> Apps \cup {NoApp}]
        /\ members \in [Apps -> SUBSET Windows]
        /\ watched \in SUBSET Apps
        /\ signals \in SUBSET {"windows", "applications"}
    BY <1>1 DEF Trackers
  <2> HIDE DEF owner, members, count, watched, signals
  <2> QED
    BY <1>1, <1>7, <2>1 DEF Trackers
<1>9. Connected(u)
  BY <1>1 DEF Good, Connected, Trackers
<1>10. \A b \in Apps : u.members[b] = {x \in Windows : u.owner[x] = b}
  <2> TAKE b \in Apps
  <2>1. t.members[b] = {x \in Windows : t.owner[x] = b} /\ b # NoApp
    BY DEF Good
  <2>2. CASE b = a
    BY <1>1, <2>1, <2>2 DEF Trackers
  <2>3. CASE b # a
    BY <1>1, <2>1, <2>3 DEF Trackers
  <2> QED
    BY <2>2, <2>3
<1>11. \A b \in Apps \ {a} : /\ u.count[b] = t.count[b]
                             /\ Interesting(u, env.skip, b) = Interesting(t, env.skip, b)
  BY <1>1 DEF Interesting, Trackers
<1>12. a \in u.watched /\ u.state = t.state /\ u.running = t.running
       /\ u.count[a] = Cardinality(Interesting(u, env.skip, a))
       /\ u.members[a] \in SUBSET Windows
  BY <1>6, <1>8 DEF Trackers
<1>13. u.owner = owner /\ u.signals = signals /\ u.focused = t.focused
  OBVIOUS
<1> HIDE DEF u
<1>14. LET v == SyncRunningState(u, a)
       IN  /\ Good(v, env.skip)
           /\ v.owner = u.owner /\ v.focused = u.focused /\ v.signals = u.signals
  BY <1>8, <1>9, <1>10, <1>11, <1>12, Resynced
<1> QED
  BY <1>3, <1>13, <1>14

LEMMA DisassociateWindowGood ==
  ASSUME NEW env, NEW t, Good(t, env.skip), NEW w \in Windows
  PROVE  LET v == DisassociateWindow(t, env, w)
         IN  /\ Good(v, env.skip)
             /\ v.owner = [t.owner EXCEPT ![w] = NoApp] /\ v.focused = t.focused
             /\ t.owner[w] # NoApp => "windows" \in v.signals
             /\ v.signals \subseteq t.signals \cup {"windows"}
<1>1. t \in Trackers
  BY DEF Good
<1>2. CASE t.owner[w] = NoApp
  <2>1. DisassociateWindow(t, env, w) = t
    BY <1>2 DEF DisassociateWindow
  <2>2. t.owner = [t.owner EXCEPT ![w] = NoApp]
    BY <1>1, <1>2 DEF Trackers
  <2> QED
    BY <1>2, <2>1, <2>2
<1>3. CASE t.owner[w] # NoApp
  <2> DEFINE a       == t.owner[w]
             owner   == [t.owner EXCEPT ![w] = NoApp]
             members == [t.members EXCEPT ![a] = @ \ {w}]
             count   == [t.count EXCEPT ![a] = IF env.skip[w] THEN @ ELSE Less(@)]
             signals == t.signals \cup {"windows"}
             u == [owner |-> owner, members |-> members, count |-> count, state |-> t.state,
                   watched |-> t.watched, running |-> t.running, focused |-> t.focused,
                   signals |-> signals]
             S == Interesting(t, env.skip, a)
  <2>1. a \in Apps
    BY <1>1, <1>3 DEF Trackers
  <2>2. w \in t.members[a] /\ a \in t.watched
    BY <2>1 DEF Good, Connected
  <2>3. DisassociateWindow(t, env, w) = Collected(SyncRunningState(u, a))
    <3> DEFINE u0 == [t EXCEPT !.owner[w] = NoApp, !.signals = @ \cup {"windows"}]
               u1 == [u0 EXCEPT !.members[a] = @ \ {w},
                                !.count[a] = IF env.skip[w] THEN @ ELSE Less(@)]
    <3>1. DisassociateWindow(t, env, w) = Collected(RemoveWindow(u0, env, a, w))
      BY <1>3 DEF DisassociateWindow
    <3>2. u0 = [owner |-> owner, members |-> t.members, count |-> t.count, state |-> t.state,
                watched |-> t.watched, running |-> t.running, focused |-> t.focused,
                signals |-> signals]
      <4>1. u0 = [t EXCEPT !.owner = owner, !.signals = signals]
        BY <1>1 DEF Trackers
      <4> HIDE DEF u0, owner, signals
      <4> QED
        BY <1>1, <4>1 DEF Trackers
    <3> HIDE DEF u0, a
    <3>3. RemoveWindow(u0, env, a, w) = SyncRunningState(u1, a)
      BY <2>2, <3>2 DEF RemoveWindow
    <3>4. u1 = u
      <4>1. u1 = [u0 EXCEPT !.members = members, !.count = count]
        BY <3>2
      <4> HIDE DEF u1, owner, members, count, signals
      <4> QED
        BY <3>2, <4>1
    <3> QED
      BY <3>1, <3>3, <3>4
  <2> HIDE DEF a
  <2>4. S \in SUBSET Windows /\ t.count[a] = Cardinality(S) /\ (~env.skip[w] => w \in S)
    BY <1>1, <2>1, <2>2 DEF Good, Interesting, TalliedFor, Trackers
  <2>5. Interesting(u, env.skip, a) = IF env.skip[w] THEN S ELSE S \ {w}
    BY <1>1, <2>1 DEF Interesting, Trackers
  <2>6. count[a] = Cardinality(Interesting(u, env.skip, a))
    BY <1>1, <2>1, <2>4, <2>5, OneLess DEF Trackers
  <2>7. count \in [Apps -> 0..Cardinality(Windows)]
    <3>1. Interesting(u, env.skip, a) \in SUBSET Windows
      BY <2>4, <2>5
    <3>2. count[a] \in 0..Cardinality(Windows)
      <4>1. Cardinality(Interesting(u, env.skip, a)) \in 0..Cardinality(Windows)
        BY <3>1, Subsets
      <4> QED BY <2>6, <4>1, Zenon
    <3> QED
      BY <1>1, <2>1, <3>2 DEF Trackers
  <2>8. u \in Trackers
    <3>1. /\ owner \in [Windows -> Apps \cup {NoApp}]
          /\ members \in [Apps -> SUBSET Windows]
          /\ signals \in SUBSET {"windows", "applications"}
      BY <1>1 DEF Trackers
    <3> HIDE DEF owner, members, count, signals
    <3> QED
      BY <1>1, <2>7, <3>1 DEF Trackers
  <2>9. Connected(u)
    BY <1>1 DEF Good, Connected, Trackers
  <2>10. \A b \in Apps : u.members[b] = {x \in Windows : u.owner[x] = b}
    <3> TAKE b \in Apps
    <3>1. t.members[b] = {x \in Windows : t.owner[x] = b} /\ b # NoApp
      BY DEF Good
    <3>2. CASE b = a
      BY <1>1, <3>1, <3>2 DEF Trackers
    <3>3. CASE b # a
      BY <1>1, <3>1, <3>3 DEF Trackers, a
    <3> QED
      BY <3>2, <3>3
  <2>11. \A b \in Apps \ {a} : /\ u.count[b] = t.count[b]
                               /\ Interesting(u, env.skip, b) = Interesting(t, env.skip, b)
    BY <1>1 DEF Interesting, Trackers
  <2>12. a \in u.watched /\ u.state = t.state /\ u.running = t.running
         /\ u.count[a] = Cardinality(Interesting(u, env.skip, a))
         /\ u.members[a] \in SUBSET Windows
    BY <2>1, <2>2, <2>6, <2>8 DEF Trackers
  <2>13. u.owner = owner /\ u.signals = signals /\ u.focused = t.focused
    OBVIOUS
  <2> HIDE DEF u
  <2>14. LET v == SyncRunningState(u, a)
         IN  /\ Good(v, env.skip)
             /\ v.owner = u.owner /\ v.focused = u.focused /\ v.signals = u.signals
    BY <2>1, <2>8, <2>9, <2>10, <2>11, <2>12, Resynced
  <2>15. LET v == Collected(SyncRunningState(u, a))
         IN  /\ Good(v, env.skip)
             /\ v.owner = u.owner /\ v.focused = u.focused /\ v.signals = u.signals
    BY <2>14, CollectedGood
  <2> QED
    BY <1>3, <2>3, <2>13, <2>15
<1> QED
  BY <1>2, <1>3

LEMMA OnSkipTaskbarChangedGood ==
  ASSUME NEW skip \in [Windows -> BOOLEAN], NEW t, Good(t, skip), NEW w \in Windows,
         NEW env, env.skip = [skip EXCEPT ![w] = ~@], t.owner[w] # NoApp
  PROVE  LET v == OnSkipTaskbarChanged(t, env, t.owner[w], w)
         IN  /\ Good(v, env.skip)
             /\ v.owner = t.owner /\ v.focused = t.focused /\ v.signals = t.signals
<1> DEFINE a     == t.owner[w]
           count == [t.count EXCEPT ![a] = IF env.skip[w] THEN Less(@) ELSE More(@)]
           u     == [t EXCEPT !.count = count]
           S     == Interesting(t, skip, a)
<1>1. t \in Trackers
  BY DEF Good
<1>2. a \in Apps
  BY <1>1 DEF Trackers
<1>3. w \in t.members[a] /\ a \in t.watched
  BY <1>2 DEF Good, Connected
<1>4. OnSkipTaskbarChanged(t, env, a, w) = SyncRunningState(u, a)
  BY <1>1 DEF OnSkipTaskbarChanged, Trackers
<1>5. S \in SUBSET Windows /\ t.count[a] = Cardinality(S) /\ (w \in S <=> ~skip[w])
  BY <1>1, <1>2, <1>3 DEF Good, Interesting, TalliedFor, Trackers
<1>6. env.skip[w] = ~skip[w] /\ \A x \in Windows \ {w} : env.skip[x] = skip[x]
  OBVIOUS
<1>7. /\ u.owner = t.owner /\ u.members = t.members /\ u.count = count /\ u.state = t.state
      /\ u.watched = t.watched /\ u.running = t.running /\ u.focused = t.focused
      /\ u.signals = t.signals
  <2> HIDE DEF count
  <2> QED
    BY <1>1 DEF Trackers
<1>8. t.members \in [Apps -> SUBSET Windows] /\ t.count \in [Apps -> 0..Cardinality(Windows)]
  BY <1>1 DEF Trackers
<1> HIDE DEF a
<1>9. Interesting(u, env.skip, a) = IF env.skip[w] THEN S \ {w} ELSE S \cup {w}
  <2> HIDE DEF u
  <2> QED
    BY <1>2, <1>3, <1>6, <1>7, <1>8 DEF Interesting
<1>10. count[a] = Cardinality(Interesting(u, env.skip, a))
  <2> HIDE DEF u
  <2> HIDE DEF S
  <2>1. CASE env.skip[w]
    <3>1. Cardinality(S \ {w}) = Less(Cardinality(S))
      BY <1>5, <1>6, <2>1, OneLess
    <3> QED
      BY <1>2, <1>5, <1>8, <1>9, <2>1, <3>1
  <2>2. CASE ~env.skip[w]
    <3>1. Cardinality(S \cup {w}) = More(Cardinality(S))
      BY <1>5, <1>6, <2>2, OneMore
    <3> QED
      BY <1>2, <1>5, <1>8, <1>9, <2>2, <3>1
  <2> QED
    BY <2>1, <2>2
<1>11. count \in [Apps -> 0..Cardinality(Windows)]
  <2> HIDE DEF u
  <2>1. Interesting(u, env.skip, a) \in SUBSET Windows
    BY <1>5, <1>9
  <2>2. count[a] \in 0..Cardinality(Windows)
    <3>1. Cardinality(Interesting(u, env.skip, a)) \in 0..Cardinality(Windows)
      BY <2>1, Subsets
    <3> HIDE DEF count
    <3> QED BY <1>10, <3>1, Zenon
  <2> QED
    BY <1>2, <1>8, <2>2
<1>12. u \in Trackers
  <2> HIDE DEF count
  <2> QED
    BY <1>1, <1>11 DEF Trackers
<1>13. \A b \in Apps \ {a} : Interesting(u, env.skip, b) = Interesting(t, skip, b)
  <2> TAKE b \in Apps \ {a}
  <2>1. w \notin t.members[b]
    BY DEF Good, a
  <2> HIDE DEF u
  <2> QED
    BY <1>6, <1>7, <1>8, <2>1 DEF Interesting
<1>14. \A b \in Apps \ {a} : u.count[b] = t.count[b]
  BY <1>7, <1>8
<1>15. Connected(u) /\ (\A b \in Apps : u.members[b] = {x \in Windows : u.owner[x] = b})
  <2> HIDE DEF u
  <2> QED
    BY <1>7 DEF Good, Connected
<1> HIDE DEF u, count
<1>16. u.count[a] = Cardinality(Interesting(u, env.skip, a)) /\ u.members[a] \in SUBSET Windows
  BY <1>2, <1>7, <1>8, <1>10
<1>17. LET v == SyncRunningState(u, a)
       IN  /\ Good(v, env.skip)
           /\ v.owner = u.owner /\ v.focused = u.focused /\ v.signals = u.signals
  <2>1. \A b \in Apps \ {a} : /\ u.count[b] = t.count[b]
                              /\ Interesting(u, env.skip, b) = Interesting(t, skip, b)
    BY <1>13, <1>14
  <2>2. a \in u.watched /\ u.state = t.state /\ u.running = t.running
    BY <1>3, <1>7
  <2> DEFINE now == env.skip
  <2>3. /\ u.count[a] = Cardinality(Interesting(u, now, a))
        /\ \A b \in Apps \ {a} : /\ u.count[b] = t.count[b]
                                 /\ Interesting(u, now, b) = Interesting(t, skip, b)
    BY <1>16, <2>1
  <2> HIDE DEF now
  <2>4. LET v == SyncRunningState(u, a)
        IN  /\ Good(v, now)
            /\ v.owner = u.owner /\ v.focused = u.focused /\ v.signals = u.signals
    BY <1>2, <1>12, <1>15, <1>16, <2>2, <2>3, Resynced
  <2> QED
    BY <2>4 DEF now
<1> QED
  BY <1>4, <1>7, <1>17 DEF a

LEMMA FocusedAppType ==
  ASSUME NEW t \in Trackers, NEW env, NEW x
  PROVE  FocusedApp(t, env, x) \in Apps \cup {NoApp}
<1> DEFINE owners == FocusOwners(env, x)
<1>1. owners \subseteq Windows
  BY DEF FocusOwners
<1>2. CASE owners = {}
  BY <1>2 DEF FocusedApp
<1>3. CASE owners # {}
  <2>1. (CHOOSE r \in owners : TRUE) \in Windows
    BY <1>1, <1>3
  <2> HIDE DEF owners
  <2>2. FocusedApp(t, env, x) = t.owner[CHOOSE r \in owners : TRUE]
    BY <1>3 DEF FocusedApp, owners
  <2> QED
    BY <2>1, <2>2 DEF Trackers
<1> QED
  BY <1>2, <1>3

LEMMA UpdateFocusedAppGood ==
  ASSUME NEW t, NEW skip, Good(t, skip), NEW env, NEW x
  PROVE  LET v == UpdateFocusedApp(t, env, x)
         IN  /\ Good(v, skip)
             /\ v.owner = t.owner /\ v.focused = FocusedApp(t, env, x)
             /\ t.signals \subseteq v.signals
             /\ "applications" \in v.signals \/ v.focused = t.focused
<1> DEFINE a == FocusedApp(t, env, x)
           signals == t.signals \cup {"applications"}
           u == [t EXCEPT !.focused = a, !.signals = signals]
<1>1. t \in Trackers
  BY DEF Good
<1>2. a \in Apps \cup {NoApp}
  BY <1>1, FocusedAppType
<1>3. \/ UpdateFocusedApp(t, env, x) = t /\ t.focused = a
      \/ UpdateFocusedApp(t, env, x) = Collected(u)
  BY <1>1 DEF UpdateFocusedApp, Trackers
<1>4. signals \in SUBSET {"windows", "applications"}
  BY <1>1 DEF Trackers
<1>5. /\ u \in Trackers /\ u.signals = signals /\ u.focused = a
      /\ u.owner = t.owner /\ u.members = t.members /\ u.count = t.count /\ u.state = t.state
      /\ u.watched = t.watched /\ u.running = t.running
  <2> HIDE DEF a, signals
  <2> QED
    BY <1>1, <1>2, <1>4 DEF Trackers
<1> HIDE DEF u
<1>6. Good(u, skip)
  BY <1>5 DEF Good, Connected, TalliedFor, Interesting
<1> QED
  BY <1>3, <1>5, <1>6, CollectedGood

\* The focused application is found by a window in the taskbar, so it runs.
LEMMA FocusedRuns ==
  ASSUME NEW t, NEW env, Good(t, env.skip), NEW x
  PROVE  FocusedApp(t, env, x) \in t.running \cup {NoApp}
<1> DEFINE owners == FocusOwners(env, x)
           r      == CHOOSE v \in owners : TRUE
           a      == t.owner[r]
<1>1. SUFFICES ASSUME owners # {}, a # NoApp PROVE a \in t.running
  BY DEF FocusedApp
<1>2. r \in owners
  BY <1>1
<1>3. r \in Windows /\ ~env.skip[r]
  BY <1>2 DEF FocusOwners
<1> HIDE DEF r
<1>4. t \in Trackers
  BY DEF Good
<1>5. a \in Apps
  BY <1>1, <1>3, <1>4 DEF Trackers
<1> HIDE DEF a
<1> DEFINE S == Interesting(t, env.skip, a)
<1>6. S \in SUBSET Windows
  BY <1>4, <1>5 DEF Interesting, Trackers
<1>7. r \in S
  BY <1>3, <1>5 DEF Interesting, Good, a
<1>8. TalliedFor(t, env.skip, a)
  BY <1>5 DEF Good
<1>9. Cardinality(S) # 0
  <2> HIDE DEF S
  <2> QED
    BY <1>6, <1>7, Subsets
<1> QED
  BY <1>8, <1>9 DEF TalliedFor

\* Of windows that no application has, skip-taskbar may be anything.
LEMMA GoodElsewhere ==
  ASSUME NEW t, NEW skip, Good(t, skip), NEW skip2,
         \A x \in Windows : t.owner[x] # NoApp => skip2[x] = skip[x]
  PROVE  Good(t, skip2)
<1>1. ASSUME NEW a \in Apps PROVE Interesting(t, skip2, a) = Interesting(t, skip, a)
  <2>1. t.members[a] = {w \in Windows : t.owner[w] = a} /\ a # NoApp
    BY DEF Good
  <2> QED
    BY <2>1 DEF Interesting
<1> QED
  BY <1>1 DEF Good, TalliedFor

LEMMA AppsForType ==
  ASSUME NEW t \in Trackers, NEW env \in Says, NEW w \in Windows
  PROVE  AppsFor(t, env, w) \subseteq Apps
<1>1. SUFFICES ASSUME NEW r \in Windows PROVE AppsForRoot(t, env, r) \subseteq Apps
  BY DEF AppsFor, Roots
<1>2. NewFake(t, r) \subseteq Apps
  <2>1. ASSUME NEW n \in Numbers PROVE <<r, n>> \in Apps
    BY DEF Apps, Fakes
  <2> QED
    BY <2>1 DEF NewFake
<1>3. ByPid(t, r) \subseteq Apps
  BY DEF ByPid, Trackers
<1>4. ByGroup(t, r) \subseteq Apps
  BY DEF ByGroup, Trackers
<1>5. env.match[r] # NoApp => env.match[r] \in Apps
  BY DEF Says, Apps
<1>6. t.owner[r] # NoApp => t.owner[r] \in Apps
  BY DEF Trackers
<1> QED
  BY <1>2, <1>3, <1>4, <1>5, <1>6 DEF AppsForRoot

LEMMA TrackedGood ==
  ASSUME NEW env \in Says, NEW t, Good(t, env.skip), NEW w \in Windows,
         t.owner[w] = NoApp, NEW v \in Tracked(t, env, w)
  PROVE  /\ Good(v, env.skip)
         /\ \E a \in Apps : v.owner = [t.owner EXCEPT ![w] = a]
         /\ v.focused = t.focused
         /\ v.signals = t.signals \cup {"windows"}
<1>1. PICK a \in AppsFor(t, env, w) : v = TrackWindow(t, env, a, w)
  BY DEF Tracked
<1>2. a \in Apps
  BY AppsForType DEF Good
<1>3. LET u == TrackWindow(t, env, a, w)
      IN  /\ Good(u, env.skip)
          /\ u.owner = [t.owner EXCEPT ![w] = a] /\ u.focused = t.focused
          /\ u.signals = t.signals \cup {"windows"}
  BY <1>2, TrackWindowGood, SMTT(60)
<1> QED
  BY <1>1, <1>2, <1>3

-----------------------------------------------------------------------------
(* On the way up from the focus window.                                    *)

\* The first k steps up from w.
IsUp(f, env, w, k) ==
  f = [n \in 0..k |-> IF n = 0 THEN w
                      ELSE IF f[n - 1] = NoWindow THEN NoWindow ELSE env.parent[f[n - 1]]]

LEMMA UpExists ==
  ASSUME NEW env, NEW w, NEW k \in Nat
  PROVE  \E f : IsUp(f, env, w, k)
<1> DEFINE T == {i \in 0..k : \E f : IsUp(f, env, w, i)}
<1>1. 0 \in T
  <2> DEFINE f == [n \in 0..0 |-> w]
  <2>1. IsUp(f, env, w, 0)
    BY DEF IsUp
  <2> HIDE DEF f
  <2> QED
    BY <2>1
<1>2. ASSUME NEW i \in 0..(k - 1), i \in T PROVE i + 1 \in T
  <2>1. PICK f : IsUp(f, env, w, i)
    BY <1>2
  <2> DEFINE last == IF f[i] = NoWindow THEN NoWindow ELSE env.parent[f[i]]
             h == [n \in 0..(i + 1) |-> IF n = i + 1 THEN last ELSE f[n]]
  <2>2. ASSUME NEW n \in 0..(i + 1)
        PROVE  h[n] = IF n = 0 THEN w
                      ELSE IF h[n - 1] = NoWindow THEN NoWindow ELSE env.parent[h[n - 1]]
    <3>1. CASE n = i + 1
      <4>1. h[n] = last /\ h[n - 1] = f[i] /\ n # 0
        BY <3>1
      <4> HIDE DEF h
      <4> QED
        BY <4>1
    <3>2. CASE n \in 0..i
      <4>1. h[n] = f[n] /\ (n # 0 => h[n - 1] = f[n - 1])
        BY <3>2
      <4> HIDE DEF h
      <4> QED
        BY <2>1, <3>2, <4>1 DEF IsUp
    <3> QED
      BY <3>1, <3>2
  <2>3. h = [n \in 0..(i + 1) |-> h[n]]
    OBVIOUS
  <2> HIDE DEF h
  <2>4. IsUp(h, env, w, i + 1)
    BY <2>2, <2>3 DEF IsUp
  <2> QED
    BY <2>4
<1>3. T = 0..k
  <2>1. T \in SUBSET (0..k)
    OBVIOUS
  <2> HIDE DEF T
  <2> QED
    BY <1>1, <1>2, <2>1, UpTo
<1> QED
  BY <1>3

LEMMA UpIsUp ==
  ASSUME NEW env, NEW w
  PROVE  IsUp(Up(env, w), env, w, Cardinality(Windows))
<1> DEFINE k == Cardinality(Windows)
           f == CHOOSE g : IsUp(g, env, w, k)
<1>1. k \in Nat
  BY FS_CardinalityType
<1>2. IsUp(f, env, w, k)
  BY <1>1, UpExists
<1>3. Up(env, w) = f
  BY DEF Up, IsUp
<1> QED
  BY <1>2, <1>3

\* The focus never stands for a window that is not it and that nothing is transient for.
LEMMA NotTheFocus ==
  ASSUME NEW env \in Says, NEW x \in Windows \cup {NoWindow}, NEW w \in Windows, x # w,
         \A v \in Windows : env.parent[v] # w
  PROVE  w \notin FocusOwners(env, x)
<1> DEFINE up == Up(env, x)
           k  == Cardinality(Windows)
           T  == {n \in 0..k : up[n] \in (Windows \cup {NoWindow}) \ {w}}
<1>1. k \in Nat
  BY FS_CardinalityType
<1>2. IsUp(up, env, x, k)
  BY UpIsUp
<1> HIDE DEF up, k
<1>3. DOMAIN up = 0..k
  BY <1>2 DEF IsUp
<1>4. 0 \in T
  BY <1>1, <1>2 DEF IsUp
<1>5. ASSUME NEW n \in 0..(k - 1), n \in T PROVE n + 1 \in T
  <2>1. up[n + 1] = IF up[n] = NoWindow THEN NoWindow ELSE env.parent[up[n]]
    BY <1>1, <1>2 DEF IsUp
  <2>2. up[n] # NoWindow => env.parent[up[n]] \in (Windows \cup {NoWindow}) \ {w}
    BY <1>5 DEF Says
  <2> QED
    BY <1>1, <2>1, <2>2
<1>6. T = 0..k
  <2>1. T \in SUBSET (0..k)
    OBVIOUS
  <2> HIDE DEF T
  <2> QED
    BY <1>1, <1>4, <1>5, <2>1, UpTo
<1>7. \A n \in DOMAIN up : up[n] # w
  BY <1>3, <1>6
<1> QED
  BY <1>7 DEF FocusOwners, up

-----------------------------------------------------------------------------
(* The system.                                                             *)

OwnersOK == \A w \in Windows : w \in managed <=> tracker.owner[w] # NoApp

MutterOK ==
  /\ managed \subseteq Windows
  /\ says \in Says
  /\ focus \in managed \cup {NoWindow}

ClientOK ==
  /\ told.windows \subseteq Windows \X Apps
  /\ told.active = {tracker.focused} \ {NoApp}

IInv == /\ Good(tracker, says.skip) /\ tracker.signals = {}
        /\ OwnersOK /\ MutterOK /\ ClientOK

LEMMA Yields == IInv => TypeOK /\ OwnedOnce /\ Tallied
<1> SUFFICES ASSUME IInv PROVE TypeOK /\ OwnedOnce /\ Tallied
  OBVIOUS
<1>1. TypeOK /\ OwnedOnce
  <2>1. told.active \subseteq Apps
    BY DEF IInv, Good, Trackers, ClientOK
  <2> QED
    BY <2>1 DEF IInv, TypeOK, OwnedOnce, Good, OwnersOK, MutterOK, ClientOK
<1>2. ASSUME NEW a \in Apps
      PROVE  LET interesting == {w \in tracker.members[a] : ~says.skip[w]}
             IN  /\ tracker.count[a] = Cardinality(interesting)
                 /\ tracker.state[a] = "running" <=> interesting # {}
                 /\ a \in tracker.running <=> interesting # {}
  <2> DEFINE S == {w \in tracker.members[a] : ~says.skip[w]}
  <2>1. S \in SUBSET Windows /\ TalliedFor(tracker, says.skip, a)
    BY DEF IInv, Good, Trackers
  <2>2. Cardinality(S) = 0 <=> S = {}
    BY <2>1, Subsets
  <2>3. S = Interesting(tracker, says.skip, a)
    BY DEF Interesting
  <2> HIDE DEF S
  <2>4. /\ tracker.count[a] = Cardinality(S)
        /\ tracker.state[a] = "running" <=> S # {}
        /\ a \in tracker.running <=> S # {}
    BY <2>1, <2>2, <2>3 DEF TalliedFor
  <2> QED
    BY <2>4 DEF S
<1> QED
  BY <1>1, <1>2 DEF Tallied

LEMMA InitInvariant == Init => IInv
<1> SUFFICES ASSUME Init PROVE IInv
  OBVIOUS
<1>1. tracker = NoWindows /\ tracker \in Trackers
  <2>1. 0 \in 0..Cardinality(Windows)
    BY FS_CardinalityType
  <2> QED
    BY <2>1 DEF Init, NoWindows, Trackers
<1>2. ASSUME NEW a \in Apps PROVE TalliedFor(tracker, says.skip, a)
  <2>1. Interesting(tracker, says.skip, a) = {}
    BY <1>1 DEF Interesting, NoWindows
  <2> QED
    BY <1>1, <2>1, FS_EmptySet DEF TalliedFor, NoWindows
<1>3. Good(tracker, says.skip)
  BY <1>1, <1>2 DEF Good, Connected, NoWindows
<1>4. OwnersOK /\ tracker.signals = {} /\ ClientOK
  BY <1>1 DEF Init, OwnersOK, ClientOK, NoWindows
<1>5. MutterOK
  BY DEF Init, MutterOK, Says
<1> QED
  BY <1>3, <1>4, <1>5 DEF IInv

\* What a step of the tracker leaves the client with.
Informed ==
  \/ tracker'.owner # tracker.owner
  \/ told.windows = GetWindows(tracker) /\ tracker'.running = tracker.running
  => told'.windows = GetWindows(tracker')

\* A handler that ends with t, which has told of what it moved, leaves things in order.
LEMMA Becomes ==
  ASSUME IInv, NEW t, NEW skip, Good(t, skip), TrackerBecomes(t),
         t.owner = tracker.owner \/ "windows" \in t.signals,
         IF "applications" \in t.signals THEN t.focused \in t.running \cup {NoApp}
                                          ELSE t.focused = tracker.focused
  PROVE  /\ Good(tracker', skip) /\ tracker'.signals = {}
         /\ tracker'.owner = t.owner /\ tracker'.focused = t.focused
         /\ ClientOK' /\ Informed
<1>1. t \in Trackers
  BY DEF Good
<1>2. /\ tracker' \in Trackers /\ tracker'.signals = {}
      /\ tracker'.owner = t.owner /\ tracker'.members = t.members /\ tracker'.count = t.count
      /\ tracker'.state = t.state /\ tracker'.watched = t.watched
      /\ tracker'.running = t.running /\ tracker'.focused = t.focused
  BY <1>1 DEF TrackerBecomes, Trackers
<1>3. Good(tracker', skip)
  BY <1>2 DEF Good, Connected, TalliedFor, Interesting
<1>4. /\ told'.windows = IF "windows" \in t.signals THEN GetWindows(t) ELSE told.windows
      /\ told'.active = IF "applications" \in t.signals THEN ActiveOnSeats(t) ELSE told.active
  BY DEF TrackerBecomes
<1>5. GetWindows(tracker') = GetWindows(t) /\ GetWindows(t) \subseteq Windows \X Apps
  BY <1>1, <1>2 DEF GetWindows, Trackers
<1>6. ClientOK'
  <2>1. told'.windows \subseteq Windows \X Apps
    BY <1>4, <1>5 DEF IInv, ClientOK
  <2>2. NoApp \notin t.running
    BY <1>1 DEF Trackers
  <2>3. told'.active = {t.focused} \ {NoApp}
    BY <1>4, <2>2 DEF ActiveOnSeats, IInv, ClientOK
  <2> QED
    BY <1>2, <2>1, <2>3 DEF ClientOK
<1>7. ASSUME t.owner = tracker.owner, t.running = tracker.running
      PROVE  GetWindows(t) = GetWindows(tracker)
  <2>1. ASSUME NEW a \in t.running PROVE t.members[a] = tracker.members[a]
    <3>1. a \in Apps
      BY <1>1 DEF Trackers
    <3>2. t.members[a] = {w \in Windows : t.owner[w] = a}
      BY <3>1 DEF Good
    <3>3. tracker.members[a] = {w \in Windows : tracker.owner[w] = a}
      BY <3>1 DEF IInv, Good
    <3> QED
      BY <1>7, <3>2, <3>3
  <2> QED
    BY <1>7, <2>1 DEF GetWindows
<1>8. Informed
  BY <1>2, <1>4, <1>5, <1>7 DEF Informed
<1> QED
  BY <1>2, <1>3, <1>6, <1>8

LEMMA WindowCreatedKeeps ==
  ASSUME IInv, NEW w \in Windows, NEW d, NEW s, NEW p, WindowCreated(w, d, s, p)
  PROVE  /\ IInv' /\ Informed /\ tracker'.focused = tracker.focused
         /\ \A x \in Windows : x # w => tracker'.owner[x] = tracker.owner[x]
<1> DEFINE env == [says EXCEPT !.match[w] = d, !.skip[w] = s, !.parent[w] = p]
<1>1. tracker.owner[w] = NoApp
  BY DEF IInv, OwnersOK, WindowCreated
<1>2. env \in Says /\ env.skip = [says.skip EXCEPT ![w] = s]
  <2>1. d \in Desktop \cup {NoApp} /\ s \in BOOLEAN /\ p \in Windows \cup {NoWindow}
    BY DEF WindowCreated, IInv, MutterOK
  <2> QED
    BY <2>1 DEF IInv, MutterOK, Says
<1>3. Good(tracker, env.skip)
  <2> DEFINE now == env.skip
  <2>1. \A x \in Windows : tracker.owner[x] # NoApp => now[x] = says.skip[x]
    BY <1>1, <1>2 DEF IInv, MutterOK, Says
  <2> HIDE DEF now
  <2>2. Good(tracker, now)
    BY <2>1, GoodElsewhere DEF IInv
  <2> QED
    BY <2>2 DEF now
<1>4. says' = env /\ managed' = managed \cup {w} /\ focus' = focus
  BY DEF WindowCreated
<1>5. PICK t \in Tracked(tracker, env, w) : TrackerBecomes(t)
  BY DEF WindowCreated
<1> HIDE DEF env
<1>6. /\ Good(t, env.skip)
      /\ \E a \in Apps : t.owner = [tracker.owner EXCEPT ![w] = a]
      /\ t.focused = tracker.focused
      /\ t.signals = {"windows"}
  <2>1. tracker.signals = {}
    BY DEF IInv
  <2> QED
    BY <1>1, <1>2, <1>3, <1>5, <2>1, TrackedGood
<1>7. /\ Good(tracker', env.skip) /\ tracker'.signals = {}
      /\ tracker'.owner = t.owner /\ tracker'.focused = t.focused
      /\ ClientOK' /\ Informed
  BY <1>5, <1>6, Becomes
<1>8. OwnersOK'
  BY <1>4, <1>6, <1>7 DEF IInv, Good, Trackers, OwnersOK
<1>9. MutterOK'
  BY <1>2, <1>4 DEF IInv, MutterOK
<1>10. \A x \in Windows : x # w => tracker'.owner[x] = tracker.owner[x]
  BY <1>6, <1>7 DEF IInv, Good, Trackers
<1> QED
  BY <1>4, <1>6, <1>7, <1>8, <1>9, <1>10 DEF IInv

LEMMA WindowUnmanagedKeeps ==
  ASSUME IInv, NEW w \in Windows, WindowUnmanaged(w)
  PROVE  /\ IInv' /\ Informed /\ tracker'.focused = tracker.focused
         /\ \A x \in Windows : x # w => tracker'.owner[x] = tracker.owner[x]
<1> DEFINE t == DisassociateWindow(tracker, says, w)
<1>1. /\ Good(t, says.skip)
      /\ t.owner = [tracker.owner EXCEPT ![w] = NoApp] /\ t.focused = tracker.focused
      /\ tracker.owner[w] # NoApp => "windows" \in t.signals
      /\ "applications" \notin t.signals
  <2>1. Good(tracker, says.skip) /\ tracker.signals = {}
    BY DEF IInv
  <2>2. /\ Good(t, says.skip)
        /\ t.owner = [tracker.owner EXCEPT ![w] = NoApp] /\ t.focused = tracker.focused
        /\ tracker.owner[w] # NoApp => "windows" \in t.signals
        /\ t.signals \subseteq tracker.signals \cup {"windows"}
    BY <2>1, DisassociateWindowGood
  <2> HIDE DEF t
  <2> QED
    BY <2>1, <2>2
<1>2. TrackerBecomes(t) /\ managed' = managed \ {w} /\ focus' = focus /\ focus # w
  BY DEF WindowUnmanaged
<1> HIDE DEF t
<1>3. tracker.owner \in [Windows -> Apps \cup {NoApp}]
  BY DEF IInv, Good, Trackers
<1>4. t.owner = tracker.owner \/ "windows" \in t.signals
  BY <1>1, <1>3
<1>5. says' \in Says /\ \A x \in Windows : x # w => says'.skip[x] = says.skip[x]
  <2>1. PICK p \in {w, says.parent[w], NoWindow} :
          says' = [says EXCEPT !.match[w] = NoApp, !.skip[w] = FALSE, !.parent =
                     [v \in Windows |-> IF v = w THEN NoWindow ELSE IF @[v] = w THEN p ELSE @[v]]]
    BY DEF WindowUnmanaged
  <2>2. p \in Windows \cup {NoWindow} /\ says \in Says
    BY DEF IInv, MutterOK, Says
  <2> DEFINE match == [says.match EXCEPT ![w] = NoApp]
             skip == [says.skip EXCEPT ![w] = FALSE]
             parent == [v \in Windows |-> IF v = w THEN NoWindow
                                         ELSE IF says.parent[v] = w THEN p ELSE says.parent[v]]
  <2>3. says' = [match |-> match, skip |-> skip, parent |-> parent]
    <3>1. says' = [says EXCEPT !.match = match, !.skip = skip, !.parent = parent]
      BY <2>1, <2>2 DEF Says
    <3> HIDE DEF match, skip, parent
    <3> QED
      BY <2>2, <3>1 DEF Says
  <2>4. /\ match \in [Windows -> Desktop \cup {NoApp}] /\ skip \in [Windows -> BOOLEAN]
        /\ parent \in [Windows -> Windows \cup {NoWindow}]
        /\ \A x \in Windows : x # w => skip[x] = says.skip[x]
    BY <2>2 DEF Says
  <2> HIDE DEF match, skip, parent
  <2> QED
    BY <2>3, <2>4 DEF Says
<1>6. Good(t, says'.skip)
  <2> DEFINE now == says'.skip
  <2>1. \A x \in Windows : t.owner[x] # NoApp => now[x] = says.skip[x]
    BY <1>1, <1>3, <1>5
  <2> HIDE DEF now
  <2>2. Good(t, now)
    <3>1. Good(t, says.skip)
      BY <1>1
    <3> QED
      BY <2>1, <3>1, GoodElsewhere
  <2> QED
    BY <2>2 DEF now
<1>7. /\ Good(tracker', says'.skip) /\ tracker'.signals = {}
      /\ tracker'.owner = t.owner /\ tracker'.focused = t.focused
      /\ ClientOK' /\ Informed
  BY <1>1, <1>2, <1>4, <1>6, Becomes
<1>8. OwnersOK'
  BY <1>1, <1>2, <1>3, <1>7 DEF IInv, OwnersOK
<1>9. MutterOK'
  BY <1>2, <1>5 DEF IInv, MutterOK
<1>10. \A x \in Windows : x # w => tracker'.owner[x] = tracker.owner[x]
  BY <1>1, <1>3, <1>7
<1> QED
  BY <1>1, <1>7, <1>8, <1>9, <1>10 DEF IInv

LEMMA WindowChangedKeeps ==
  ASSUME IInv, NEW w \in Windows, NEW d, WindowChanged(w, d)
  PROVE  IInv' /\ Informed /\ tracker'.focused = FocusedApp(tracker', says', focus')
<1> DEFINE env  == [says EXCEPT !.match[w] = d]
           gone == DisassociateWindow(tracker, env, w)
<1>1. env \in Says /\ env.skip = says.skip
  <2>1. d \in Desktop \cup {NoApp}
    BY DEF WindowChanged
  <2> QED
    BY <2>1 DEF IInv, MutterOK, Says
<1>2. says' = env /\ managed' = managed /\ focus' = focus
  BY DEF WindowChanged
<1>3. PICK t \in TrackedWindowChanged(tracker, env, focus, w) : TrackerBecomes(t)
  BY DEF WindowChanged
<1> HIDE DEF env
<1>4. PICK n \in Tracked(gone, env, w) : t = UpdateFocusedApp(n, env, focus)
  BY <1>3 DEF TrackedWindowChanged
<1>5. Good(tracker, env.skip)
  BY <1>1 DEF IInv
<1>6. /\ Good(gone, env.skip) /\ gone.owner = [tracker.owner EXCEPT ![w] = NoApp]
      /\ gone.focused = tracker.focused
  BY <1>5, DisassociateWindowGood
<1> HIDE DEF gone
<1>7. tracker.owner \in [Windows -> Apps \cup {NoApp}]
  BY DEF IInv, Good, Trackers
<1>8. /\ Good(n, env.skip) /\ "windows" \in n.signals /\ n.focused = tracker.focused
      /\ \E a \in Apps : n.owner = [gone.owner EXCEPT ![w] = a]
  <2>1. gone.owner[w] = NoApp
    BY <1>6, <1>7
  <2> DEFINE found(v) == /\ Good(v, env.skip)
                         /\ \E a \in Apps : v.owner = [gone.owner EXCEPT ![w] = a]
                         /\ v.focused = gone.focused
                         /\ v.signals = gone.signals \cup {"windows"}
  <2>2. env \in Says /\ Good(gone, env.skip)
    BY <1>1, <1>6
  <2>3. \A v \in Tracked(gone, env, w) : found(v)
    BY <2>1, <2>2, TrackedGood
  <2>4. found(n)
    <3> HIDE DEF found
    <3> QED
      BY <1>4, <2>3
  <2> QED
    BY <1>6, <2>4
<1>9. /\ Good(t, env.skip) /\ "windows" \in t.signals
      /\ t.owner = n.owner /\ t.focused = FocusedApp(n, env, focus)
      /\ "applications" \in t.signals \/ t.focused = tracker.focused
      /\ t.focused \in t.running \cup {NoApp}
  <2>1. /\ Good(t, env.skip) /\ "windows" \in t.signals
        /\ t.owner = n.owner /\ t.focused = FocusedApp(n, env, focus)
        /\ "applications" \in t.signals \/ t.focused = n.focused
    BY <1>4, <1>8, UpdateFocusedAppGood
  <2>2. FocusedApp(t, env, focus) = FocusedApp(n, env, focus)
    BY <2>1 DEF FocusedApp
  <2> QED
    BY <1>8, <2>1, <2>2, FocusedRuns
<1>10. /\ Good(tracker', env.skip) /\ tracker'.signals = {}
       /\ tracker'.owner = t.owner /\ tracker'.focused = t.focused
       /\ ClientOK' /\ Informed
  BY <1>3, <1>9, Becomes
<1>11. OwnersOK'
  <2>1. PICK a \in Apps : n.owner = [gone.owner EXCEPT ![w] = a]
    BY <1>8
  <2>2. a # NoApp /\ w \in managed
    BY DEF WindowChanged
  <2>3. \A x \in Windows : tracker'.owner[x] = IF x = w THEN a ELSE tracker.owner[x]
    BY <1>6, <1>7, <1>9, <1>10, <2>1
  <2> QED
    BY <1>2, <2>2, <2>3 DEF IInv, OwnersOK
<1>12. MutterOK'
  BY <1>1, <1>2 DEF IInv, MutterOK
<1>13. tracker'.focused = FocusedApp(tracker', env, focus)
  BY <1>9, <1>10 DEF FocusedApp
<1> QED
  BY <1>2, <1>10, <1>11, <1>12, <1>13 DEF IInv

LEMMA SkipTaskbarChangedKeeps ==
  ASSUME IInv, NEW w \in Windows, SkipTaskbarChanged(w)
  PROVE  /\ IInv' /\ Informed
         /\ tracker'.owner = tracker.owner /\ tracker'.focused = tracker.focused
<1> DEFINE env == [says EXCEPT !.skip[w] = ~@]
           t   == OnSkipTaskbarChanged(tracker, env, tracker.owner[w], w)
<1>1. env \in Says /\ env.skip = [says.skip EXCEPT ![w] = ~@] /\ says.skip \in [Windows -> BOOLEAN]
  BY DEF IInv, MutterOK, Says
<1>2. says' = env /\ managed' = managed /\ focus' = focus /\ TrackerBecomes(t)
  BY DEF SkipTaskbarChanged
<1>3. tracker.owner[w] # NoApp
  BY DEF IInv, OwnersOK, SkipTaskbarChanged
<1> HIDE DEF env
<1>4. /\ Good(t, env.skip) /\ t.owner = tracker.owner /\ t.focused = tracker.focused
      /\ t.signals = {}
  BY <1>1, <1>3, OnSkipTaskbarChangedGood DEF IInv
<1> HIDE DEF t
<1>5. /\ Good(tracker', env.skip) /\ tracker'.signals = {}
      /\ tracker'.owner = t.owner /\ tracker'.focused = t.focused
      /\ ClientOK' /\ Informed
  BY <1>2, <1>4, Becomes
<1>6. OwnersOK' /\ MutterOK'
  BY <1>1, <1>2, <1>4, <1>5 DEF IInv, OwnersOK, MutterOK
<1> QED
  BY <1>2, <1>4, <1>5, <1>6 DEF IInv

LEMMA TransientForChangedKeeps ==
  ASSUME IInv, NEW w \in Windows, NEW p, TransientForChanged(w, p)
  PROVE  IInv' /\ Informed /\ tracker' = tracker
<1>1. says' \in Says /\ says'.skip = says.skip
  <2>1. p \in Windows \cup {NoWindow}
    BY DEF TransientForChanged, IInv, MutterOK
  <2> QED
    BY <2>1 DEF TransientForChanged, IInv, MutterOK, Says
<1>2. UNCHANGED <<managed, focus, tracker, told>>
  BY DEF TransientForChanged
<1> QED
  BY <1>1, <1>2 DEF IInv, OwnersOK, MutterOK, ClientOK, Informed

LEMMA FocusWindowChangedKeeps ==
  ASSUME IInv, NEW w, FocusWindowChanged(w)
  PROVE  IInv' /\ Informed /\ tracker'.focused = FocusedApp(tracker', says', focus')
<1> DEFINE t == UpdateFocusedApp(tracker, says, w)
<1>1. /\ Good(t, says.skip)
      /\ t.owner = tracker.owner /\ t.focused = FocusedApp(tracker, says, w)
      /\ "applications" \in t.signals \/ t.focused = tracker.focused
      /\ t.focused \in t.running \cup {NoApp}
  <2>1. /\ Good(t, says.skip)
        /\ t.owner = tracker.owner /\ t.focused = FocusedApp(tracker, says, w)
        /\ "applications" \in t.signals \/ t.focused = tracker.focused
    BY UpdateFocusedAppGood DEF IInv
  <2>2. FocusedApp(t, says, w) = FocusedApp(tracker, says, w)
    BY <2>1 DEF FocusedApp
  <2> QED
    BY <2>1, <2>2, FocusedRuns
<1>2. TrackerBecomes(t) /\ UNCHANGED <<managed, says>> /\ focus' = w
      /\ w \in managed \cup {NoWindow}
  BY DEF FocusWindowChanged
<1> HIDE DEF t
<1>3. /\ Good(tracker', says.skip) /\ tracker'.signals = {}
      /\ tracker'.owner = t.owner /\ tracker'.focused = t.focused
      /\ ClientOK' /\ Informed
  BY <1>1, <1>2, Becomes
<1>4. OwnersOK' /\ MutterOK'
  BY <1>1, <1>2, <1>3 DEF IInv, OwnersOK, MutterOK
<1>5. tracker'.focused = FocusedApp(tracker', says, w)
  BY <1>1, <1>3 DEF FocusedApp
<1> QED
  BY <1>2, <1>3, <1>4, <1>5 DEF IInv

\* Every signal of mutter, with all the handlers it runs, keeps the tracker in order.
THEOREM NextInvariant == IInv /\ [Next]_vars => IInv'
<1> SUFFICES ASSUME IInv, [Next]_vars PROVE IInv'
  OBVIOUS
<1>1. CASE Next
  BY <1>1, WindowCreatedKeeps, WindowUnmanagedKeeps, WindowChangedKeeps,
     SkipTaskbarChangedKeeps, TransientForChangedKeeps, FocusWindowChangedKeeps
     DEF Next
<1>2. CASE UNCHANGED vars
  BY <1>2 DEF vars, IInv, OwnersOK, MutterOK, ClientOK
<1> QED
  BY <1>1, <1>2

\* The invariant holds throughout.
THEOREM AlwaysInOrder == Spec => []IInv
BY InitInvariant, NextInvariant, PTL DEF Spec

\* The types, and the counts that never pass zero.
THEOREM TypeCorrect == Spec => []TypeOK
<1>1. IInv => TypeOK
  BY Yields
<1> QED BY AlwaysInOrder, <1>1, PTL

\* Windows and their applications agree, for any windows and desktop files: track_window
\* and disassociate_window neither lose a window nor leave it in two applications.
THEOREM WindowsAreOwnedOnce == Spec => []OwnedOnce
<1>1. IInv => OwnedOnce
  BY Yields
<1> QED BY AlwaysInOrder, <1>1, PTL

\* The running applications are those with a window in the taskbar, and the count says how
\* many: handlers of notify::skip-taskbar and notify::state miss no change.
THEOREM RunningIsTallied == Spec => []Tallied
<1>1. IInv => Tallied
  BY Yields
<1> QED BY AlwaysInOrder, <1>1, PTL

\* A client that asks again when it is told to has the list of windows after each that opens,
\* closes or changes hands, and knows the application with the focus: of the handlers of the
\* tracker those emit tracked-windows-changed that move windows, and set_focused_app never
\* moves on in silence.
THEOREM ClientsAreTold == Spec => ClientsTold
<1>1. IInv => told.active = {tracker.focused} \ {NoApp}
  BY DEF IInv, ClientOK
<1>2. IInv /\ [Next]_vars =>
        [\/ managed' # managed
         \/ tracker'.owner # tracker.owner
         \/ told.windows = GetWindows(tracker) /\ tracker'.running = tracker.running
         => told'.windows = GetWindows(tracker')]_vars
  <2> SUFFICES ASSUME IInv, Next
               PROVE  \/ managed' # managed
                      \/ tracker'.owner # tracker.owner
                      \/ told.windows = GetWindows(tracker) /\ tracker'.running = tracker.running
                      => told'.windows = GetWindows(tracker')
    OBVIOUS
  <2>1. IInv' /\ Informed
    BY WindowCreatedKeeps, WindowUnmanagedKeeps, WindowChangedKeeps, SkipTaskbarChangedKeeps,
       TransientForChangedKeeps, FocusWindowChangedKeeps DEF Next
  <2>2. managed' # managed => tracker'.owner # tracker.owner
    BY <2>1 DEF IInv, OwnersOK, MutterOK
  <2> QED
    BY <2>1, <2>2 DEF Informed
<1> QED
  BY <1>1, <1>2, AlwaysInOrder, PTL DEF Spec, ClientsTold

-----------------------------------------------------------------------------
(* The focused application.                                                *)

\* FocusedApp is that of the first window in the taskbar, and of nothing else.
LEMMA SameFocusedApp ==
  ASSUME NEW t, NEW u, NEW env, NEW env2, NEW x,
         FocusOwners(env2, x) = FocusOwners(env, x),
         \A r \in FocusOwners(env, x) : u.owner[r] = t.owner[r]
  PROVE  FocusedApp(u, env2, x) = FocusedApp(t, env, x)
<1> DEFINE owners == FocusOwners(env, x)
<1>1. owners # {} => (CHOOSE r \in owners : TRUE) \in owners
  OBVIOUS
<1> HIDE DEF owners
<1> QED
  BY <1>1 DEF FocusedApp, owners

FocusFound == tracker.focused = FocusedApp(tracker, says, focus)

\* It is so before a step in which the focus moves or stands for the same windows as before.
FocusStands ==
  /\ FocusFound
  /\ focus' = focus => /\ FocusOwners(says', focus) = FocusOwners(says, focus)
                       /\ FocusOwners(says, focus) \subseteq managed'

\* Of a window that is made or goes the focused application does not depend.
LEMMA FocusElsewhere ==
  ASSUME FocusStands, focus' = focus, tracker'.focused = tracker.focused,
         NEW w, w \notin FocusOwners(says, focus),
         \A x \in Windows : x # w => tracker'.owner[x] = tracker.owner[x]
  PROVE  FocusFound'
<1>1. \A r \in FocusOwners(says, focus) : tracker'.owner[r] = tracker.owner[r]
  BY DEF FocusOwners
<1>2. FocusedApp(tracker', says', focus) = FocusedApp(tracker, says, focus)
  BY <1>1, SameFocusedApp DEF FocusStands, FocusFound
<1> QED
  BY <1>2 DEF FocusStands, FocusFound

LEMMA FocusStep ==
  ASSUME IInv, FocusStands, [Next]_vars
  PROVE  FocusFound'
<1>1. ASSUME NEW w \in Windows, NEW d, NEW s, NEW p, WindowCreated(w, d, s, p) PROVE FocusFound'
  <2>1. /\ focus' = focus /\ focus # w /\ focus \in Windows \cup {NoWindow}
        /\ says \in Says /\ \A v \in Windows : says.parent[v] # w
    BY <1>1 DEF WindowCreated, IInv, MutterOK
  <2>2. w \notin FocusOwners(says, focus)
    BY <2>1, NotTheFocus
  <2> QED
    BY <1>1, <2>1, <2>2, WindowCreatedKeeps, FocusElsewhere
<1>2. ASSUME NEW w \in Windows, WindowUnmanaged(w) PROVE FocusFound'
  <2>1. focus' = focus /\ w \notin FocusOwners(says, focus)
    BY <1>2 DEF WindowUnmanaged, FocusStands
  <2> QED
    BY <1>2, <2>1, WindowUnmanagedKeeps, FocusElsewhere
<1>3. ASSUME NEW w \in Windows, NEW d, WindowChanged(w, d) PROVE FocusFound'
  BY <1>3, WindowChangedKeeps DEF FocusFound
<1>4. ASSUME NEW w \in Windows, SkipTaskbarChanged(w) PROVE FocusFound'
  <2>1. focus' = focus /\ NoWindow \notin FocusOwners(says, focus)
    BY <1>4 DEF SkipTaskbarChanged, FocusOwners
  <2> QED
    BY <1>4, <2>1, SkipTaskbarChangedKeeps, FocusElsewhere
<1>5. ASSUME NEW w \in Windows, NEW p, TransientForChanged(w, p) PROVE FocusFound'
  <2>1. focus' = focus /\ NoWindow \notin FocusOwners(says, focus)
    BY <1>5 DEF TransientForChanged, FocusOwners
  <2> QED
    BY <1>5, <2>1, TransientForChangedKeeps, FocusElsewhere
<1>6. ASSUME NEW w, FocusWindowChanged(w) PROVE FocusFound'
  BY <1>6, FocusWindowChangedKeeps DEF FocusFound
<1>7. CASE UNCHANGED vars
  BY <1>7 DEF vars, FocusStands, FocusFound
<1>8. CASE Next
  BY <1>1, <1>2, <1>3, <1>4, <1>5, <1>6, <1>8 DEF Next
<1> QED
  BY <1>7, <1>8

\* The tracker asks again which application has the focus whenever the focus moves or a
\* window changes its class, and needs to ask at no other signal while the window in the
\* taskbar that the focus stands for is there.
THEOREM FocusFollows == Spec => FocusKept
<1>1. IInv /\ [Next]_vars =>
        [/\ tracker.focused = FocusedApp(tracker, says, focus)
         /\ focus' = focus => /\ FocusOwners(says', focus) = FocusOwners(says, focus)
                              /\ FocusOwners(says, focus) \subseteq managed'
         => tracker'.focused = FocusedApp(tracker', says', focus')]_vars
  BY FocusStep DEF FocusStands, FocusFound
<1> QED
  BY <1>1, AlwaysInOrder, PTL DEF Spec, FocusKept
=============================================================================
