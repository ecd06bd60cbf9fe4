---------------------------- MODULE WindowTracker ----------------------------
(***************************************************************************)
(* The window tracker at work, with mutter, which creates and unmanages    *)
(* windows, moves the focus and changes what it says of windows, and with  *)
(* a client of the introspection service                                   *)
(* (compositor/kiosk-shell-introspect-service.c) that asks again whenever  *)
(* it is told to. Each action is a signal of mutter with all the handlers  *)
(* it runs.                                                                *)
(***************************************************************************)
EXTENDS Applications

VARIABLES
  managed,     \* the windows there are
  says,        \* what mutter says of windows: see Says
  focus,       \* the focus window
  tracker,     \* the applications
  told         \* what the client was answered when it last asked

vars == <<managed, says, focus, tracker, told>>

\* match: the desktop file that the class, sandbox or application id of a window finds;
\* skip: its skip-taskbar; parent: the window it is transient for.
Says == [match  : [Windows -> Desktop \cup {NoApp}],
         skip   : [Windows -> BOOLEAN],
         parent : [Windows -> Windows \cup {NoWindow}]]

Init ==
  /\ managed = {}
  /\ says = [match |-> [w \in Windows |-> NoApp], skip |-> [w \in Windows |-> FALSE],
             parent |-> [w \in Windows |-> NoWindow]]
  /\ focus = NoWindow
  /\ tracker = NoWindows
  /\ told = [windows |-> {}, active |-> {}]

\* GetWindows has the eligible windows of the running applications, and of which they are;
\* of GetRunningApplications it is followed which application is active on the seat.
GetWindows(t) ==
  {x \in Windows \X t.running : x[1] \in t.members[x[2]] /\ Profile[x[1]].eligible}
ActiveOnSeats(t) == t.running \cap {t.focused}

\* WindowsChanged makes the client ask for the windows, RunningApplicationsChanged for the
\* applications. Both arrive when the handlers are done.
TrackerBecomes(t) ==
  /\ tracker' = [t EXCEPT !.signals = {}]
  /\ told' = [windows |-> IF "windows" \in t.signals THEN GetWindows(t) ELSE told.windows,
              active  |-> IF "applications" \in t.signals THEN ActiveOnSeats(t)
                                                          ELSE told.active]

-----------------------------------------------------------------------------
\* window-created, for a window that nothing refers to yet.
WindowCreated(w, d, s, p) ==
  /\ w \notin managed
  /\ \A v \in Windows : says.parent[v] # w
  /\ d \in Profile[w].found /\ s \in Profile[w].skips
  /\ p \in (managed \cap Profile[w].above) \cup {NoWindow}
  /\ managed' = managed \cup {w}
  /\ says' = [says EXCEPT !.match[w] = d, !.skip[w] = s, !.parent[w] = p]
  /\ \E t \in Tracked(tracker, [says EXCEPT !.match[w] = d, !.skip[w] = s, !.parent[w] = p], w) :
       TrackerBecomes(t)
  /\ UNCHANGED focus

\* unmanaged. By then the window has lost the focus; mutter leaves its transients with it,
\* with its own parent or with none. Nobody asks about it again.
WindowUnmanaged(w) ==
  /\ w \in managed
  /\ focus # w
  /\ managed' = managed \ {w}
  /\ \E p \in {w, says.parent[w], NoWindow} :
       says' = [says EXCEPT !.match[w] = NoApp, !.skip[w] = FALSE, !.parent =
                  [v \in Windows |-> IF v = w THEN NoWindow ELSE IF @[v] = w THEN p ELSE @[v]]]
  /\ TrackerBecomes(DisassociateWindow(tracker, says, w))
  /\ UNCHANGED focus

\* on_wm_class_changed, on_gtk_application_id_changed.
WindowChanged(w, d) ==
  /\ w \in managed /\ d \in Profile[w].found
  /\ says' = [says EXCEPT !.match[w] = d]
  /\ \E t \in TrackedWindowChanged(tracker, [says EXCEPT !.match[w] = d], focus, w) :
       TrackerBecomes(t)
  /\ UNCHANGED <<managed, focus>>

\* Only the application of the window listens.
SkipTaskbarChanged(w) ==
  /\ w \in managed /\ (~says.skip[w]) \in Profile[w].skips
  /\ says' = [says EXCEPT !.skip[w] = ~@]
  /\ TrackerBecomes(OnSkipTaskbarChanged(tracker, [says EXCEPT !.skip[w] = ~@],
                                         tracker.owner[w], w))
  /\ UNCHANGED <<managed, focus>>

\* Nobody listens to this one.
TransientForChanged(w, p) ==
  /\ w \in managed /\ p \in (managed \cap Profile[w].above) \cup {NoWindow}
  /\ p # says.parent[w]
  /\ \A n \in DOMAIN Up(says, p) : Up(says, p)[n] # w
  /\ says' = [says EXCEPT !.parent[w] = p]
  /\ UNCHANGED <<managed, focus, tracker, told>>

FocusWindowChanged(w) ==
  /\ w \in managed \cup {NoWindow}
  /\ w # focus
  /\ focus' = w
  /\ TrackerBecomes(UpdateFocusedApp(tracker, says, w))
  /\ UNCHANGED <<managed, says>>

Next ==
  \/ \E w \in Windows, d \in Desktop \cup {NoApp}, s \in BOOLEAN, p \in Windows \cup {NoWindow} :
       WindowCreated(w, d, s, p)
  \/ \E w \in Windows : WindowUnmanaged(w)
  \/ \E w \in Windows, d \in Desktop \cup {NoApp} : WindowChanged(w, d)
  \/ \E w \in Windows : SkipTaskbarChanged(w)
  \/ \E w \in Windows, p \in Windows \cup {NoWindow} : TransientForChanged(w, p)
  \/ \E w \in Windows \cup {NoWindow} : FocusWindowChanged(w)

Spec == Init /\ [][Next]_vars

-----------------------------------------------------------------------------
\* The types; the counts of interesting windows never wrap below zero.
TypeOK ==
  /\ tracker \in Trackers /\ tracker.signals = {}
  /\ managed \subseteq Windows
  /\ says \in Says
  /\ focus \in Windows \cup {NoWindow}
  /\ told.windows \subseteq Windows \X Apps /\ told.active \subseteq Apps

\* Each window there is belongs to one application, which has it among its windows, and
\* no application keeps a window that has gone, whatever order windows come, change
\* their class and go in.
OwnedOnce ==
  /\ \A w \in Windows : w \in managed <=> tracker.owner[w] # NoApp
  /\ \A a \in Apps : tracker.members[a] = {w \in Windows : tracker.owner[w] = a}

\* The unsigned counter is the number of windows in the taskbar, the applications with
\* such windows are the running ones, and the app system knows them.
Tallied ==
  \A a \in Apps :
    LET interesting == {w \in tracker.members[a] : ~says.skip[w]}
    IN  /\ tracker.count[a] = Cardinality(interesting)
        /\ tracker.state[a] = "running" <=> interesting # {}
        /\ a \in tracker.running <=> interesting # {}

\* "Notifies when any window opens or closes": a client that asks again whenever it is told
\* to has the list as it is after every window that opens, closes or passes to another
\* application, and it stays so until an application starts or stops, which a change of
\* skip-taskbar may do to it with no signal. It always knows the application with the focus,
\* also when that one stops, for RunningApplicationsChanged follows nothing but the focus.
ClientsTold ==
  /\ [](told.active = {tracker.focused} \ {NoApp})
  /\ [][\/ managed' # managed
        \/ tracker'.owner # tracker.owner
        \/ told.windows = GetWindows(tracker) /\ tracker'.running = tracker.running
        => told'.windows = GetWindows(tracker')]_vars

\* The focused application follows the focus and the classes of windows: only when the window
\* in the taskbar that the focus window stands for becomes another one or goes, while the
\* focus stays, does the tracker not look again.
FocusKept ==
  [][/\ tracker.focused = FocusedApp(tracker, says, focus)
     /\ focus' = focus => /\ FocusOwners(says', focus) = FocusOwners(says, focus)
                          /\ FocusOwners(says, focus) \subseteq managed'
     => tracker'.focused = FocusedApp(tracker', says', focus')]_vars
=============================================================================
