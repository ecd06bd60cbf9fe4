----------------------------- MODULE Applications -----------------------------
(***************************************************************************)
(* Windows and the applications they belong to: KioskApp                   *)
(* (compositor/kiosk-app.c), the set of running ones                       *)
(* (compositor/kiosk-app-system.c) and the operations with which the       *)
(* window tracker (compositor/kiosk-window-tracker.c) moves windows among  *)
(* them. Their signals are handled at once, so an operation is a function  *)
(* from the record of all three to the next, given what mutter says of the *)
(* windows in env.                                                         *)
(*                                                                         *)
(* An application is a desktop file that is installed, or a fake one made  *)
(* for a window that no desktop file claims. Fake ones live as long as     *)
(* somebody refers to them, and a window may get several in turn: they are *)
(* pairs of the window and a number.                                       *)
(***************************************************************************)
EXTENDS Integers, FiniteSets

CONSTANTS
  Windows,   \* the windows that may be there
  Desktop,   \* the applications with a desktop file
  NoApp,
  NoWindow,
  Profile,   \* what does not change of a window: see ApplicationsAssumption
  Unknown,   \* a pid below 1, a group that is NULL
  Wrap       \* the values of the unsigned number_of_interesting_windows, 2^32 in the code

Numbers == 1..(Cardinality(Windows) + 1)
Fakes   == Windows \X Numbers
Apps    == Desktop \cup Fakes

\* normal: of type META_WINDOW_NORMAL; eligible: of a type that clients are told of;
\* remote: of another host; override: override-redirect; found: what its class, sandbox or application id may find of the desktop files;
\* skips: the values of skip-taskbar it may have; above: what it may be transient for.
ASSUME ApplicationsAssumption ==
  /\ IsFiniteSet(Windows)
  /\ Wrap \in Nat /\ Cardinality(Windows) < Wrap
  /\ NoWindow \notin Windows
  /\ NoApp \notin Apps
  /\ \A w \in Windows : Profile[w].normal \in BOOLEAN /\ Profile[w].eligible \in BOOLEAN
                        /\ Profile[w].remote \in BOOLEAN /\ Profile[w].override \in BOOLEAN
                        /\ Profile[w].found \subseteq Desktop \cup {NoApp}
                        /\ Profile[w].skips \subseteq BOOLEAN /\ Profile[w].above \subseteq Windows

\* owner is window_to_app, running is running_apps; members, count and state are
\* the windows, the number_of_interesting_windows and the state of each application;
\* watched are those whose notify::state the tracker has connected to. signals are those
\* of the introspection service that the operation has emitted: "windows" for
\* WindowsChanged, "applications" for RunningApplicationsChanged.
Trackers == [owner   : [Windows -> Apps \cup {NoApp}],
             members : [Apps -> SUBSET Windows],
             count   : [Apps -> 0..Cardinality(Windows)],
             state   : [Apps -> {"stopped", "running"}],
             watched : SUBSET Apps,
             running : SUBSET Apps,
             focused : Apps \cup {NoApp},
             signals : SUBSET {"windows", "applications"}]

NoWindows ==
  [owner   |-> [w \in Windows |-> NoApp],
   members |-> [a \in Apps |-> {}],
   count   |-> [a \in Apps |-> 0],
   state   |-> [a \in Apps |-> "stopped"],
   watched |-> {}, running |-> {}, focused |-> NoApp, signals |-> {}]

\* A fake application goes with its last reference.
Alive(t, a) == a \in Desktop \/ t.members[a] # {} \/ t.focused = a
Collected(t) == [t EXCEPT !.watched = {a \in @ : Alive(t, a)}]

-----------------------------------------------------------------------------
(* KioskApp and KioskAppSystem.                                            *)

\* on_app_state_changed of the tracker tells the app system, if it is connected.
NotifyAppStateChanged(t, a) ==
  IF a \notin t.watched THEN t
  ELSE [t EXCEPT !.running = IF t.state[a] = "running" THEN @ \cup {a} ELSE @ \ {a}]

StateTransition(t, a, state) ==
  IF t.state[a] = state THEN t
  ELSE NotifyAppStateChanged([t EXCEPT !.state[a] = state], a)

SyncRunningState(t, a) ==
  StateTransition(t, a, IF t.count[a] = 0 THEN "stopped" ELSE "running")

\* Of an unsigned number.
More(n) == IF n = Wrap - 1 THEN 0 ELSE n + 1
Less(n) == IF n = 0 THEN Wrap - 1 ELSE n - 1

OnSkipTaskbarChangedSwapped(t, env, a, w) ==
  SyncRunningState(
    [t EXCEPT !.count[a] = IF env.skip[w] THEN More(@) ELSE Less(@)], a)
OnSkipTaskbarChanged(t, env, a, w) ==
  SyncRunningState(
    [t EXCEPT !.count[a] = IF env.skip[w] THEN Less(@) ELSE More(@)], a)

AddWindow(t, env, a, w) ==
  IF w \in t.members[a] THEN t
  ELSE SyncRunningState(
         [t EXCEPT !.members[a] = @ \cup {w},
                   !.count[a] = IF env.skip[w] THEN @ ELSE More(@)], a)

RemoveWindow(t, env, a, w) ==
  IF w \notin t.members[a] THEN t
  ELSE SyncRunningState(
         [t EXCEPT !.members[a] = @ \ {w},
                   !.count[a] = IF env.skip[w] THEN @ ELSE Less(@)], a)

-----------------------------------------------------------------------------
(* The window tracker: which application a window belongs to.              *)

\* From a window to the one it is transient for, and on; mutter allows no loops.
Up(env, w) ==
  LET up[n \in 0..Cardinality(Windows)] ==
        IF n = 0 THEN w ELSE IF up[n - 1] = NoWindow THEN NoWindow ELSE env.parent[up[n - 1]]
  IN  up

\* The window at the top.
Roots(env, w) ==
  LET up == Up(env, w)
  IN  {r \in Windows : env.parent[r] = NoWindow /\ \E n \in DOMAIN up : up[n] = r}

NewFake(t, w) ==
  {<<w, n>> : n \in {m \in Numbers : /\ ~Alive(t, <<w, m>>)
                                     /\ \A k \in 1..(m - 1) : Alive(t, <<w, k>>)}}

\* Of the running applications, in the order of a hash table, one with a window of that pid.
ByPid(t, w) ==
  {a \in t.running : \E v \in t.members[a] :
                       ~Profile[v].override /\ Profile[v].pid = Profile[w].pid}

ByGroup(t, w) ==
  {t.owner[v] : v \in {u \in Windows : Profile[u].normal
                                       /\ Profile[u].group = Profile[w].group}} \ {NoApp}

\* env.match is what WM_CLASS, the sandbox and the GApplication id find of desktop files.
AppsForRoot(t, env, r) ==
  LET known   == (Profile[r].normal \/ Profile[r].remote) /\ t.owner[r] # NoApp
      byPid   == IF Profile[r].remote \/ Profile[r].pid = Unknown THEN {} ELSE ByPid(t, r)
      byGroup == IF Profile[r].group = Unknown THEN {} ELSE ByGroup(t, r)
  IN  CASE known                           -> {t.owner[r]}
        [] ~known /\ Profile[r].remote  -> NewFake(t, r)
        [] ~known /\ ~Profile[r].remote ->
                    IF env.match[r] # NoApp THEN {env.match[r]}
                    ELSE IF byPid # {} THEN byPid
                    ELSE IF byGroup # {} THEN byGroup
                    ELSE NewFake(t, r)

\* get_app_for_window: a transient window belongs where the window at the top belongs.
AppsFor(t, env, w) == UNION {AppsForRoot(t, env, r) : r \in Roots(env, w)}

-----------------------------------------------------------------------------
(* The window tracker: what it does.                                       *)

TrackWindowConnectedLate(t, env, a, w) ==
  LET added == AddWindow([t EXCEPT !.owner[w] = a], env, a, w)
  IN  [added EXCEPT !.watched = @ \cup {a}, !.signals = @ \cup {"windows"}]
TrackWindow(t, env, a, w) ==
  AddWindow([t EXCEPT !.owner[w] = a, !.watched = @ \cup {a},
                      !.signals = @ \cup {"windows"}], env, a, w)
Tracked(t, env, w) == {TrackWindow(t, env, a, w) : a \in AppsFor(t, env, w)}

DisassociateWindowHalf(t, env, w) ==
  LET a == t.owner[w]
  IN  IF a = NoApp THEN t
      ELSE Collected(RemoveWindow([t EXCEPT !.signals = @ \cup {"windows"}], env, a, w))
DisassociateWindowQuietly(t, env, w) ==
  LET a == t.owner[w]
  IN  IF a = NoApp THEN t
      ELSE Collected(RemoveWindow([t EXCEPT !.owner[w] = NoApp], env, a, w))
DisassociateWindow(t, env, w) ==
  LET a == t.owner[w]
  IN  IF a = NoApp THEN t
      ELSE Collected(RemoveWindow([t EXCEPT !.owner[w] = NoApp,
                                            !.signals = @ \cup {"windows"}], env, a, w))

\* The first window on the way up that is shown in the taskbar, if any.
FocusOwners(env, focus) ==
  LET up == Up(env, focus)
  IN  {r \in Windows : /\ ~env.skip[r]
                       /\ \E n \in DOMAIN up :
                            up[n] = r /\ \A m \in 0..(n - 1) : env.skip[up[m]]}

FocusedApp(t, env, focus) ==
  LET owners == FocusOwners(env, focus)
  IN  IF owners = {} THEN NoApp ELSE t.owner[CHOOSE r \in owners : TRUE]

\* update_focused_app and set_focused_app.
UpdateFocusedApp(t, env, focus) ==
  LET a == FocusedApp(t, env, focus)
  IN  IF a = t.focused THEN t
      ELSE Collected([t EXCEPT !.focused = a,
                               !.signals = @ \cup {"applications"}])

\* A remove and an add.
TrackedWindowChangedUnfocused(t, env, focus, w) == Tracked(DisassociateWindow(t, env, w), env, w)
TrackedWindowChanged(t, env, focus, w) ==
  {UpdateFocusedApp(n, env, focus) : n \in Tracked(DisassociateWindow(t, env, w), env, w)}
=============================================================================
