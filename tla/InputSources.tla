----------------------------- MODULE InputSources -----------------------------
(***************************************************************************)
(* The input sources manager with everything it talks to: its D-Bus        *)
(* clients, the session's settings, localed, the keymap lock of the        *)
(* backend, the engine manager (compositor/kiosk-input-engine-manager.c)   *)
(* and the IBus daemon behind it.                                          *)
(*                                                                         *)
(* The compositor runs one main loop, so every action is one callback that *)
(* runs to its end. What makes the system concurrent is what the callbacks *)
(* leave behind: work put off by 250ms (kiosk_gobject_utils_queue_defer_   *)
(* callback), a call to IBus whose answer comes later, and the signals of  *)
(* IBus, which wait in the order they were sent while the state they       *)
(* speak of moves on.                                                      *)
(***************************************************************************)
EXTENDS InputSourcesManager, FiniteSets

CONSTANTS
  Installed,     \* the engines that the IBus daemon lists
  Configs,       \* the input sources that the session and callers configure
  SystemConfigs, \* the X11 layouts localed may report
  NoSource,      \* SelectedInputSource before it is first set
  Happens,       \* bound: the kinds of outside event that happen
  MaxEvents      \* bound: how many outside events happen

EventKinds == {"select", "cycle", "configure", "locales", "session", "localed",
               "lock", "daemon", "restart", "engine"}

ASSUME SystemAssumption ==
  /\ Installed \subseteq Engines
  /\ Configs \subseteq Seq(Source)
  /\ SystemConfigs \subseteq Seq(Source)
  /\ NoConfig \notin Seq(Source)
  /\ NoSource \notin Source
  /\ Happens \subseteq EventKinds
  /\ MaxEvents \in Nat

VARIABLES
  groups, index, source, keymap,                \* the manager
  syncPending, sessionPending, systemPending,   \* its deferred callbacks
  dbus,                                         \* the D-Bus properties
  locked,                                       \* the backend's keymap lock
  session, system,                              \* gsettings and localed
  loaded, known, active, fetchPending, fetches, \* the engine manager
  up, global, events,                           \* IBus and its signals
  left                                          \* outside events left

managerVars == <<groups, index, source, keymap, syncPending>>
configVars  == <<session, system, sessionPending, systemPending>>
engineVars  == <<loaded, known, active, fetchPending, fetches>>
ibusVars    == <<up, global, events>>
vars == <<managerVars, configVars, engineVars, ibusVars, dbus, locked, left>>

-----------------------------------------------------------------------------
(* The manager's record, and what becomes of the system when a handler     *)
(* leaves it as m.                                                         *)

Manager == [groups |-> groups, index |-> index, source |-> source, keymap |-> keymap,
            sync |-> syncPending, asked |-> NoEngine, ok |-> FALSE]
Env     == [locked |-> locked, loaded |-> loaded, known |-> known, up |-> up]

BackendKeymap == [layouts |-> <<>>, index |-> 0, by |-> "backend"]
EmptyManager  == [groups |-> <<>>, index |-> 0, source |-> "session",
                  keymap |-> BackendKeymap, sync |-> FALSE, asked |-> NoEngine, ok |-> FALSE]

Event(k)       == [kind |-> k, engine |-> NoEngine]
EngineEvent(n) == [kind |-> "engine", engine |-> n]

ManagerBecomes(m) ==
  /\ groups' = m.groups
  /\ index' = m.index
  /\ source' = m.source
  /\ keymap' = m.keymap
  /\ syncPending' = m.sync

\* ibus_bus_set_global_engine: IBus switches, and its signal joins the others.
\* Setting the engine that is already set may or may not be signalled.
Asked(n, queue) ==
  IF n = NoEngine
  THEN global' = global /\ events' = queue
  ELSE /\ global' = n
       /\ \/ events' = Append(queue, EngineEvent(n))
          \/ n = global /\ events' = queue

\* A handler leaves the manager as m. (The quantifier binds m to the value of
\* the expression it is given.)
Handle(result) ==
  \E m \in {result} : ManagerBecomes(m) /\ Asked(m.asked, events) /\ UNCHANGED up

Outside(kind) == kind \in Happens /\ left > 0 /\ left' = left - 1

-----------------------------------------------------------------------------
(* kiosk_input_sources_manager_constructed: the session's configuration is *)
(* loaded before IBus is there.                                            *)

Init ==
  /\ session \in Configs
  /\ system \in SystemConfigs \cup {NoConfig}
  /\ locked = FALSE
  /\ loaded = FALSE /\ known = {} /\ active = NoEngine
  /\ fetchPending = FALSE /\ fetches = 0
  /\ up = FALSE /\ global = NoEngine /\ events = <<>>
  /\ LET m == SetFromSession(EmptyManager, Env, session, system)
     IN  /\ groups = m.groups /\ index = m.index /\ source = m.source
         /\ keymap = m.keymap /\ syncPending = m.sync
  /\ sessionPending = FALSE /\ systemPending = FALSE
  /\ dbus = [sources |-> <<>>, selected |-> NoSource]
  /\ left = MaxEvents

-----------------------------------------------------------------------------
(* Calls of D-Bus clients, and the keys that switch input sources. The     *)
(* calls that select are dropped while the keymap is locked.               *)

SelectInputSource(s) ==
  /\ Outside("select")
  /\ ~locked
  /\ \E k \in DOMAIN dbus.sources : dbus.sources[k] = s
  /\ Handle(SelectSource(Manager, Env, s))
  /\ UNCHANGED <<configVars, engineVars, dbus, locked>>

SelectNextInputSource ==
  /\ Outside("cycle")
  /\ ~locked
  /\ Handle(SwitchToNextSource(Manager, Env))
  /\ UNCHANGED <<configVars, engineVars, dbus, locked>>

SelectPreviousInputSource ==
  /\ Outside("cycle")
  /\ ~locked
  /\ Handle(SwitchToPreviousSource(Manager, Env))
  /\ UNCHANGED <<configVars, engineVars, dbus, locked>>

SetInputSourcesCall(c) ==
  /\ Outside("configure")
  /\ Handle(SetInputSources(Manager, Env, c))
  /\ UNCHANGED <<configVars, engineVars, dbus, locked>>

SetInputSourcesFromLocalesCall(c) ==
  /\ Outside("locales")
  /\ Handle(SetFromLocales(Manager, Env, c))
  /\ UNCHANGED <<configVars, engineVars, dbus, locked>>

SetInputSourcesFromSessionCall ==
  /\ Outside("configure")
  /\ Handle(SetFromSession(Manager, Env, session, system))
  /\ UNCHANGED <<configVars, engineVars, dbus, locked>>

-----------------------------------------------------------------------------
(* Configuration that changes under the manager is read 250ms later.       *)

SessionSettingsChange(c) ==
  /\ Outside("session")
  /\ session' = c
  /\ sessionPending' = TRUE
  /\ UNCHANGED <<managerVars, system, systemPending, engineVars, ibusVars, dbus, locked>>

LocaledChanges(c) ==
  /\ Outside("localed")
  /\ system' = c
  /\ systemPending' = TRUE
  /\ UNCHANGED <<managerVars, session, sessionPending, engineVars, ibusVars, dbus, locked>>

OnSessionConfigurationChangedAlways ==
  /\ sessionPending
  /\ sessionPending' = FALSE
  /\ Handle(SetFromSession(Manager, Env, session, system))
  /\ UNCHANGED <<session, system, systemPending, engineVars, dbus, locked, left>>
OnSessionConfigurationChanged ==
  /\ sessionPending
  /\ sessionPending' = FALSE
  /\ Handle(IF source = "override" THEN Manager
            ELSE SetFromSession(Manager, Env, session, system))
  /\ UNCHANGED <<session, system, systemPending, engineVars, dbus, locked, left>>

OnSystemConfigurationChanged ==
  /\ systemPending
  /\ systemPending' = FALSE
  /\ Handle(IF system = NoConfig \/ source # "system" THEN Manager
            ELSE SetFromSystem(Manager, Env, system))
  /\ UNCHANGED <<session, system, sessionPending, engineVars, dbus, locked, left>>

-----------------------------------------------------------------------------
(* The D-Bus properties follow the manager 250ms behind.                   *)

SyncDBusService ==
  /\ syncPending
  /\ syncPending' = FALSE
  /\ dbus' = [sources  |-> SourcesOf(groups),
              selected |-> IF HasGroups(Manager) THEN SelectedSource(Manager)
                           ELSE dbus.selected]
  /\ UNCHANGED <<groups, index, source, keymap, configVars, engineVars, ibusVars, locked, left>>

-----------------------------------------------------------------------------
(* The keymap lock belongs to the backend. When it goes the backend asks   *)
(* the groups what to load; which one answers is not the manager's choice. *)

KeymapLocks ==
  /\ Outside("lock")
  /\ ~locked
  /\ locked' = TRUE
  /\ keymap' = BackendKeymap
  /\ UNCHANGED <<groups, index, source, syncPending, configVars, engineVars, ibusVars, dbus>>

KeymapUnlocks ==
  /\ Outside("lock")
  /\ locked
  /\ locked' = FALSE
  /\ UNCHANGED <<managerVars, configVars, engineVars, ibusVars, dbus>>

-----------------------------------------------------------------------------
(* The IBus daemon: it may come up with an engine it remembers, go away,   *)
(* and be told by others to switch.                                        *)

DaemonStarts(n) ==
  /\ Outside("daemon")
  /\ ~up
  /\ up' = TRUE
  /\ global' = n
  /\ events' = Append(events, Event("connected"))
  /\ UNCHANGED <<managerVars, configVars, engineVars, dbus, locked>>

DaemonStops ==
  /\ Outside("restart")
  /\ up
  /\ up' = FALSE
  /\ global' = NoEngine
  /\ events' = Append(events, Event("disconnected"))
  /\ UNCHANGED <<managerVars, configVars, engineVars, dbus, locked>>

EngineSetElsewhere(n) ==
  /\ Outside("engine")
  /\ up
  /\ n # global
  /\ global' = n
  /\ events' = Append(events, EngineEvent(n))
  /\ UNCHANGED <<managerVars, configVars, engineVars, up, dbus, locked>>

-----------------------------------------------------------------------------
(* The engine manager, as the signals of IBus reach it.                    *)

Arrives(kind) == events # <<>> /\ Head(events).kind = kind

\* Handle for a handler that takes the first signal off the queue.
HandleSignal(result) ==
  \E m \in {result} : ManagerBecomes(m) /\ Asked(m.asked, Tail(events)) /\ UNCHANGED up

\* kiosk_input_engine_manager_set_active_engine: listeners hear of changes only.
ActiveEngineSet(m, e, n) ==
  IF n = active THEN m ELSE OnActiveEngineChanged(m, e, n)

OnConnected ==
  /\ Arrives("connected")
  /\ known' = IF up THEN known \cup Installed ELSE known
  /\ fetchPending' = TRUE
  /\ HandleSignal(Manager)
  /\ UNCHANGED <<loaded, active, fetches, configVars, dbus, locked, left>>

OnDisconnected ==
  /\ Arrives("disconnected")
  /\ known' = {}
  /\ loaded' = FALSE
  /\ active' = NoEngine
  /\ LET e == [Env EXCEPT !.known = {}, !.loaded = FALSE]
         m == IF loaded THEN OnIsLoadedChanged(Manager, e) ELSE Manager
     IN  HandleSignal(ActiveEngineSet(m, e, NoEngine))
  /\ UNCHANGED <<fetchPending, fetches, configVars, dbus, locked, left>>

OnGlobalEngineChanged ==
  /\ Arrives("engine")
  /\ active' = Head(events).engine
  /\ HandleSignal(ActiveEngineSet(Manager, Env, Head(events).engine))
  /\ UNCHANGED <<loaded, known, fetchPending, fetches, configVars, dbus, locked, left>>

FetchActiveEngine ==
  /\ fetchPending
  /\ fetchPending' = FALSE
  /\ fetches' = fetches + 1
  /\ UNCHANGED <<managerVars, configVars, loaded, known, active, ibusVars, dbus, locked, left>>

\* The answer: the engine it names is not used, only that it came. It may come
\* after IBus has gone, and a failure counts as loaded as well.
OnActiveEngineFetchedOnce(failed) ==
  /\ fetches > 0
  /\ fetches' = fetches - 1
  /\ active' = IF failed THEN NoEngine ELSE active
  /\ loaded' = (loaded \/ ~failed)
  /\ LET m == IF failed THEN ActiveEngineSet(Manager, Env, NoEngine) ELSE Manager
         e == [Env EXCEPT !.loaded = TRUE]
     IN  Handle(IF loaded \/ failed THEN m ELSE OnIsLoadedChanged(m, e))
  /\ UNCHANGED <<known, fetchPending, configVars, dbus, locked, left>>
OnActiveEngineFetched(failed) ==
  /\ fetches > 0
  /\ fetches' = fetches - 1
  /\ active' = IF failed THEN NoEngine ELSE active
  /\ loaded' = TRUE
  /\ LET m == IF failed THEN ActiveEngineSet(Manager, Env, NoEngine) ELSE Manager
         e == [Env EXCEPT !.loaded = TRUE]
     IN  Handle(IF loaded THEN m ELSE OnIsLoadedChanged(m, e))
  /\ UNCHANGED <<known, fetchPending, configVars, dbus, locked, left>>

-----------------------------------------------------------------------------
Callers ==
  \/ \E s \in Source : SelectInputSource(s)
  \/ SelectNextInputSource
  \/ SelectPreviousInputSource
  \/ \E c \in Configs : SetInputSourcesCall(c) \/ SetInputSourcesFromLocalesCall(c)
  \/ SetInputSourcesFromSessionCall

Surroundings ==
  \/ \E c \in Configs : SessionSettingsChange(c)
  \/ \E c \in SystemConfigs \cup {NoConfig} : LocaledChanges(c)
  \/ KeymapLocks \/ KeymapUnlocks
  \/ \E n \in Installed \cup {NoEngine} : DaemonStarts(n)
  \/ DaemonStops
  \/ \E n \in Installed : EngineSetElsewhere(n)

MainLoop ==
  \/ OnSessionConfigurationChanged
  \/ OnSystemConfigurationChanged
  \/ SyncDBusService
  \/ OnConnected
  \/ OnDisconnected
  \/ OnGlobalEngineChanged
  \/ FetchActiveEngine
  \/ \E failed \in BOOLEAN : OnActiveEngineFetched(failed)

Next == Callers \/ Surroundings \/ MainLoop

Spec == Init /\ [][Next]_vars

\* The main loop dispatches every source that stays ready: each expired timer,
\* the answer that IBus owes, and the signals of IBus in turn. A timer, or an
\* answer, is ready exactly while its flag stands and is only ever taken off by
\* the action that dispatches it, so its fairness is stated on the flag.
Cleared(flag) == flag /\ flag' = FALSE

Fairness ==
  /\ WF_sessionPending(Cleared(sessionPending))
  /\ WF_systemPending(Cleared(systemPending))
  /\ WF_syncPending(Cleared(syncPending))
  /\ WF_fetchPending(Cleared(fetchPending))
  /\ WF_fetches(fetches > 0 /\ fetches' = fetches - 1)
  /\ WF_vars(OnConnected \/ OnDisconnected \/ OnGlobalEngineChanged)

FairSpec == Spec /\ Fairness

-----------------------------------------------------------------------------
KeymapType == [layouts : Seq(Layouts), index : Nat, by : {"kiosk", "backend"}]
EventType  == [kind : {"connected", "disconnected", "engine"}, engine : Engines \cup {NoEngine}]

TypeOK ==
  /\ groups \in Seq(Group) /\ index \in Nat
  /\ source \in {"system", "session", "override"}
  /\ keymap \in KeymapType
  /\ syncPending \in BOOLEAN /\ sessionPending \in BOOLEAN /\ systemPending \in BOOLEAN
  /\ locked \in BOOLEAN
  /\ dbus \in [sources : Seq(Source), selected : Source \cup {NoSource}]
  /\ session \in Seq(Source) /\ system \in Seq(Source) \cup {NoConfig}
  /\ loaded \in BOOLEAN /\ known \subseteq Installed
  /\ active \in Engines \cup {NoEngine}
  /\ fetchPending \in BOOLEAN /\ fetches \in Nat
  /\ up \in BOOLEAN /\ global \in Engines \cup {NoEngine}
  /\ events \in Seq(EventType)
  /\ left \in 0..MaxEvents

-----------------------------------------------------------------------------
(* Safety.                                                                 *)

\* The selected position always names a group, and every group keeps its
\* shape, whatever callers, settings, IBus and the lock do in between: the code
\* indexes its arrays with both without looking (get_selected_input_source_group,
\* get_selected_layout), after cycling in both directions over lists that other
\* handlers replace.
SelectionInBounds ==
  /\ \A k \in DOMAIN groups : WellFormedGroup(groups[k])
  /\ index < Len(groups) \/ index = 0

\* D-Bus clients are never left with stale properties: what the service shows is
\* what the manager has, or a synchronisation is on its way. Every path that
\* changes the groups or the selection must queue one (sync_dbus_service), the
\* failing ones included.
PublishedOrPending ==
  \/ syncPending
  \/ /\ dbus.sources = SourcesOf(groups)
     /\ groups # <<>> => dbus.selected = SelectedSource(Manager)

\* The keyboard types what the manager says is selected: while the backend has
\* the keymap the manager gave it and a layout group is selected, that keymap is
\* the group's, with the group's layout. The one way out is the restart of an
\* engine ahead of it, which
\* maybe_activate_higher_priority_input_engine starts without selecting.
KeymapFollowsSelection ==
  keymap.by = "kiosk" /\ groups # <<>> /\ Selected(Manager).engine = NoEngine
    => \/ keymap = Keymap(Selected(Manager))
       \/ \E k \in 1..index : groups[k].engine # NoEngine /\ keymap = Keymap(groups[k])

\* A locked keymap is not the manager's to change: no handler, no deferred
\* callback and no signal of IBus loads another one before the lock goes.
LockedKeymapKept == [][locked /\ locked' => keymap' = keymap]_vars

\* The override of a caller that named its locales holds against the session's
\* settings and localed for as long as no caller asks for another configuration.
OverrideHolds ==
  [][source = "override" /\ SourcesOf(groups') # SourcesOf(groups)
       => \/ \E c \in Configs : SetInputSourcesCall(c) \/ SetInputSourcesFromLocalesCall(c)
          \/ SetInputSourcesFromSessionCall]_vars

-----------------------------------------------------------------------------
(* Liveness.                                                               *)

\* The D-Bus properties catch up again and again, even if signals of IBus keep
\* the selection moving.
DBusCatchesUp ==
  []<>(/\ dbus.sources = SourcesOf(groups)
       /\ groups # <<>> => dbus.selected = SelectedSource(Manager))

\* Once IBus stays up the engine manager becomes and stays ready, whatever IBus
\* did before, and has its engines.
EngineManagerLoads == <>[]up => <>[](loaded /\ known = Installed)

\* The engine that IBus runs and the source the manager reports end up the same:
\* when things calm down and an engine's group is selected, IBus runs it.
EngineFollowsSelection ==
  <>[]up => <>[](groups # <<>> /\ Selected(Manager).engine # NoEngine
                   => global = Selected(Manager).engine)

\* "Selects which input source from the current list of set input sources is
\* active": when callers stop selecting, the selection comes to rest.
SelectionSettles == <>[][index' = index]_vars

=============================================================================
