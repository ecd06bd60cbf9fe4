-------------------------- MODULE InputSourcesProofs --------------------------
(***************************************************************************)
(* What holds in every behaviour of InputSources, for any layouts,         *)
(* engines, configurations and number of outside events. TypeOK and        *)
(* SelectionInBounds are inductive together: the handlers index the groups *)
(* with a position that only SelectionInBounds keeps inside them, and the  *)
(* groups stay well formed only because what is added to them is typed.    *)
(* LockedKeymapKept, PublishedOrPending and OverrideHolds rest on the two, *)
(* KeymapFollowsSelection also on what the manager loads (LoadInv).        *)
(***************************************************************************)
EXTENDS InputSources, InputSourcesManagerProofs

IInv == TypeOK /\ SelectionInBounds

\* IInv, by the part of the system it speaks of.
ManagerOK == Sound(Manager)
ConfigOK ==
  /\ session \in Seq(Source) /\ system \in Seq(Source) \cup {NoConfig}
  /\ sessionPending \in BOOLEAN /\ systemPending \in BOOLEAN
EngineOK ==
  /\ loaded \in BOOLEAN /\ known \subseteq Installed
  /\ active \in Engines \cup {NoEngine}
  /\ fetchPending \in BOOLEAN /\ fetches \in Nat
IbusOK ==
  /\ up \in BOOLEAN /\ global \in Engines \cup {NoEngine}
  /\ events \in Seq(EventType)
RestOK ==
  /\ dbus \in [sources : Seq(Source), selected : Source \cup {NoSource}]
  /\ locked \in BOOLEAN /\ left \in 0..MaxEvents
Parts == ManagerOK /\ ConfigOK /\ EngineOK /\ IbusOK /\ RestOK

-----------------------------------------------------------------------------
LEMMA PartsOfIInv == IInv <=> Parts
<1>1. ASSUME groups \in Seq(Group)
      PROVE  groups \in Seq(WellFormedGroups)
               <=> \A k \in DOMAIN groups : WellFormedGroup(groups[k])
  <2>1. DOMAIN groups = 1..Len(groups) /\ Len(groups) \in Nat
        /\ \A k \in DOMAIN groups : groups[k] \in Group
    BY <1>1
  <2>2. ASSUME \A k \in DOMAIN groups : WellFormedGroup(groups[k])
        PROVE  groups \in Seq(WellFormedGroups)
    <3>1. \A k \in 1..Len(groups) : groups[k] \in WellFormedGroups
      BY <2>1, <2>2 DEF WellFormedGroups
    <3>2. groups \in [1..Len(groups) -> WellFormedGroups]
      BY <1>1, <2>1, <3>1
    <3> QED BY <2>1, <3>2
  <2>3. ASSUME groups \in Seq(WellFormedGroups)
        PROVE  \A k \in DOMAIN groups : WellFormedGroup(groups[k])
    <3>1. \A k \in DOMAIN groups : groups[k] \in WellFormedGroups
      BY <2>3
    <3> QED BY <3>1 DEF WellFormedGroups
  <2> QED BY <2>2, <2>3
<1>2. groups \in Seq(WellFormedGroups) => groups \in Seq(Group)
  <2>1. WellFormedGroups \subseteq Group
    BY DEF WellFormedGroups
  <2>2. SUFFICES ASSUME groups \in Seq(WellFormedGroups) PROVE groups \in Seq(Group)
    OBVIOUS
  <2>3. Len(groups) \in Nat /\ groups \in [1..Len(groups) -> WellFormedGroups]
    BY <2>2
  <2>4. groups \in [1..Len(groups) -> Group]
    BY <2>1, <2>3
  <2> QED BY <2>3, <2>4
<1>3. ManagerOK <=> /\ groups \in Seq(WellFormedGroups) /\ index \in Nat
                    /\ source \in {"system", "session", "override"}
                    /\ keymap \in KeymapType /\ syncPending \in BOOLEAN
                    /\ index < Len(groups) \/ index = 0
  BY DEF ManagerOK, Sound, Manager, Managers, KeymapType, Keymaps
<1> QED BY <1>1, <1>2, <1>3
        DEF IInv, Parts, TypeOK, SelectionInBounds, ConfigOK, EngineOK, IbusOK, RestOK

\* What the handlers see of their surroundings.
LEMMA EnvTyped ==
  ASSUME Parts
  PROVE  /\ Env \in Envs
         /\ [Env EXCEPT !.loaded = TRUE] \in Envs
         /\ [Env EXCEPT !.known = {}, !.loaded = FALSE] \in Envs
  BY SystemAssumption DEF Parts, EngineOK, IbusOK, RestOK, Env, Envs

\* A handler that leaves the manager sound leaves the manager and IBus typed.
LEMMA AskedTyped ==
  ASSUME IbusOK, NEW n \in Engines \cup {NoEngine}, NEW q \in Seq(EventType),
         Asked(n, q), UNCHANGED up
  PROVE  IbusOK'
<1>1. CASE n = NoEngine
  BY <1>1 DEF Asked, IbusOK
<1>2. CASE n # NoEngine
  <2>1. EngineEvent(n) \in EventType
    BY DEF EngineEvent, EventType
  <2>2. Append(q, EngineEvent(n)) \in Seq(EventType)
    BY <2>1
  <2> QED BY <1>2, <2>2 DEF Asked, IbusOK
<1> QED BY <1>1, <1>2

LEMMA BecomesSound ==
  ASSUME NEW m, Sound(m), ManagerBecomes(m)
  PROVE  ManagerOK'
  BY DEF ManagerBecomes, ManagerOK, Sound, Manager, Managers

LEMMA HandleTyped ==
  ASSUME IbusOK, NEW r, Sound(r), Handle(r)
  PROVE  ManagerOK' /\ IbusOK'
<1>1. ManagerBecomes(r) /\ Asked(r.asked, events) /\ UNCHANGED up
  BY DEF Handle
<1>2. r.asked \in Engines \cup {NoEngine}
  BY DEF Sound, Managers
<1> QED BY <1>1, <1>2, BecomesSound, AskedTyped DEF IbusOK

LEMMA HandleSignalTyped ==
  ASSUME IbusOK, events # <<>>, NEW r, Sound(r), HandleSignal(r)
  PROVE  ManagerOK' /\ IbusOK'
<1>1. ManagerBecomes(r) /\ Asked(r.asked, Tail(events)) /\ UNCHANGED up
  BY DEF HandleSignal
<1>2. r.asked \in Engines \cup {NoEngine}
  BY DEF Sound, Managers
<1>3. Tail(events) \in Seq(EventType)
  BY DEF IbusOK
<1> QED BY <1>1, <1>2, <1>3, BecomesSound, AskedTyped

-----------------------------------------------------------------------------
LEMMA InitParts == Init => Parts
<1> SUFFICES ASSUME Init PROVE Parts
  OBVIOUS
<1> USE DEF Init
<1>1. session \in Seq(Source) /\ system \in Seq(Source) \cup {NoConfig}
  BY SystemAssumption
<1>2. Env \in Envs
  BY DEF Env, Envs
<1>3. Sound(EmptyManager)
  <2>1. <<>> \in Seq(WellFormedGroups) /\ <<>> \in Seq(Layouts)
    OBVIOUS
  <2> QED BY <2>1 DEF EmptyManager, BackendKeymap, Sound, Managers, Keymaps
<1> DEFINE m == SetFromSession(EmptyManager, Env, session, system)
<1>4. Sound(m)
  BY <1>1, <1>2, <1>3, SetFromSessionSound
<1>5. /\ groups = m.groups /\ index = m.index /\ source = m.source
      /\ keymap = m.keymap /\ syncPending = m.sync
  OBVIOUS
<1> HIDE DEF m
<1>6. ManagerOK
  BY <1>4, <1>5 DEF ManagerOK, Sound, Manager, Managers
<1>7. ConfigOK
  BY <1>1 DEF ConfigOK
<1>8. EngineOK
  BY DEF EngineOK
<1>9. IbusOK
  <2>1. <<>> \in Seq(EventType)
    OBVIOUS
  <2> QED BY <2>1 DEF IbusOK
<1>10. RestOK
  <2>1. <<>> \in Seq(Source)
    OBVIOUS
  <2>2. dbus \in [sources : Seq(Source), selected : Source \cup {NoSource}]
    BY <2>1
  <2>3. left \in 0..MaxEvents
    BY SystemAssumption
  <2> QED BY <2>2, <2>3 DEF RestOK
<1> QED BY <1>6, <1>7, <1>8, <1>9, <1>10 DEF Parts

-----------------------------------------------------------------------------
(* Calls and keys.                                                         *)

LEMMA OutsideTyped ==
  ASSUME RestOK, NEW kind, Outside(kind)
  PROVE  left' \in 0..MaxEvents
  BY SystemAssumption DEF RestOK, Outside

\* A call whose handler leaves the manager sound.
LEMMA CallParts ==
  ASSUME Parts, NEW kind, Outside(kind), NEW r, Sound(r), Handle(r),
         UNCHANGED <<configVars, engineVars, dbus, locked>>
  PROVE  Parts'
<1>1. ManagerOK' /\ IbusOK'
  BY HandleTyped DEF Parts
<1>2. ConfigOK' /\ EngineOK'
  BY DEF Parts, ConfigOK, EngineOK, configVars, engineVars
<1>3. RestOK'
  BY OutsideTyped DEF Parts, RestOK
<1> QED BY <1>1, <1>2, <1>3 DEF Parts

LEMMA CallersParts == Parts /\ Callers => Parts'
<1> SUFFICES ASSUME Parts, Callers PROVE Parts'
  OBVIOUS
<1>1. Sound(Manager) /\ Env \in Envs
  BY EnvTyped DEF Parts, ManagerOK
<1>2. ASSUME NEW s \in Source, SelectInputSource(s) PROVE Parts'
  BY <1>1, <1>2, SelectSourceSound, CallParts DEF SoundLike, SelectInputSource
<1>3. CASE SelectNextInputSource
  BY <1>1, <1>3, SwitchToNextSourceSound, CallParts DEF SelectNextInputSource
<1>4. CASE SelectPreviousInputSource
  BY <1>1, <1>4, SwitchToPreviousSourceSound, CallParts DEF SelectPreviousInputSource
<1>5. ASSUME NEW c \in Configs, SetInputSourcesCall(c) PROVE Parts'
  <2>1. c \in Seq(Source)
    BY SystemAssumption
  <2> QED BY <1>1, <1>5, <2>1, SetInputSourcesSound, CallParts DEF SetInputSourcesCall
<1>6. ASSUME NEW c \in Configs, SetInputSourcesFromLocalesCall(c) PROVE Parts'
  <2>1. c \in Seq(Source)
    BY SystemAssumption
  <2> QED BY <1>1, <1>6, <2>1, SetFromLocalesSound, CallParts DEF SetInputSourcesFromLocalesCall
<1>7. CASE SetInputSourcesFromSessionCall
  <2>1. session \in Seq(Source) /\ system \in Seq(Source) \cup {NoConfig}
    BY DEF Parts, ConfigOK
  <2> QED BY <1>1, <1>7, <2>1, SetFromSessionSound, CallParts DEF SetInputSourcesFromSessionCall
<1> QED BY <1>2, <1>3, <1>4, <1>5, <1>6, <1>7 DEF Callers

-----------------------------------------------------------------------------
(* What happens around the manager.                                        *)

LEMMA ManagerUnchanged ==
  ASSUME ManagerOK, UNCHANGED managerVars
  PROVE  ManagerOK'
  BY DEF ManagerOK, Manager, managerVars

LEMMA EventTyped ==
  ASSUME NEW k \in {"connected", "disconnected"}, NEW q \in Seq(EventType)
  PROVE  Append(q, Event(k)) \in Seq(EventType)
<1>1. Event(k) \in EventType
  BY DEF Event, EventType
<1> QED BY <1>1

LEMMA SurroundingsParts == Parts /\ Surroundings => Parts'
<1> SUFFICES ASSUME Parts, Surroundings PROVE Parts'
  OBVIOUS
<1> USE DEF Parts
<1>1. ASSUME NEW c \in Configs, SessionSettingsChange(c) PROVE Parts'
  <2>1. c \in Seq(Source)
    BY SystemAssumption
  <2>2. ManagerOK' /\ left' \in 0..MaxEvents
    BY <1>1, ManagerUnchanged, OutsideTyped DEF SessionSettingsChange
  <2> QED BY <1>1, <2>1, <2>2
          DEF SessionSettingsChange, ConfigOK, EngineOK, IbusOK, RestOK, engineVars, ibusVars
<1>2. ASSUME NEW c \in SystemConfigs \cup {NoConfig}, LocaledChanges(c) PROVE Parts'
  <2>1. c \in Seq(Source) \cup {NoConfig}
    BY SystemAssumption
  <2>2. ManagerOK' /\ left' \in 0..MaxEvents
    BY <1>2, ManagerUnchanged, OutsideTyped DEF LocaledChanges
  <2> QED BY <1>2, <2>1, <2>2
          DEF LocaledChanges, ConfigOK, EngineOK, IbusOK, RestOK, engineVars, ibusVars
<1>3. CASE KeymapLocks
  <2>1. BackendKeymap \in Keymaps
    BY DEF BackendKeymap, Keymaps
  <2>2. ManagerOK'
    BY <1>3, <2>1 DEF KeymapLocks, ManagerOK, Manager, Sound, Managers
  <2>3. left' \in 0..MaxEvents
    BY <1>3, OutsideTyped DEF KeymapLocks
  <2> QED BY <1>3, <2>2, <2>3
          DEF KeymapLocks, ConfigOK, EngineOK, IbusOK, RestOK, configVars, engineVars, ibusVars
<1>4. CASE KeymapUnlocks
  <2>1. ManagerOK' /\ left' \in 0..MaxEvents
    BY <1>4, ManagerUnchanged, OutsideTyped DEF KeymapUnlocks
  <2> QED BY <1>4, <2>1
          DEF KeymapUnlocks, ConfigOK, EngineOK, IbusOK, RestOK, configVars, engineVars, ibusVars
<1>5. ASSUME NEW n \in Installed \cup {NoEngine}, DaemonStarts(n) PROVE Parts'
  <2>1. ManagerOK' /\ left' \in 0..MaxEvents
    BY <1>5, ManagerUnchanged, OutsideTyped DEF DaemonStarts
  <2>2. IbusOK'
    BY <1>5, EventTyped, SystemAssumption DEF DaemonStarts, IbusOK
  <2> QED BY <1>5, <2>1, <2>2
          DEF DaemonStarts, ConfigOK, EngineOK, RestOK, configVars, engineVars
<1>6. CASE DaemonStops
  <2>1. ManagerOK' /\ left' \in 0..MaxEvents
    BY <1>6, ManagerUnchanged, OutsideTyped DEF DaemonStops
  <2>2. IbusOK'
    BY <1>6, EventTyped DEF DaemonStops, IbusOK
  <2> QED BY <1>6, <2>1, <2>2
          DEF DaemonStops, ConfigOK, EngineOK, RestOK, configVars, engineVars
<1>7. ASSUME NEW n \in Installed, EngineSetElsewhere(n) PROVE Parts'
  <2>1. ManagerOK' /\ left' \in 0..MaxEvents
    BY <1>7, ManagerUnchanged, OutsideTyped DEF EngineSetElsewhere
  <2>2. IbusOK'
    <3>1. n \in Engines /\ EngineEvent(n) \in EventType
      BY SystemAssumption DEF EngineEvent, EventType
    <3>2. \A q \in Seq(EventType) : Append(q, EngineEvent(n)) \in Seq(EventType)
      BY <3>1
    <3> QED BY <1>7, <3>1, <3>2 DEF EngineSetElsewhere, IbusOK
  <2> QED BY <1>7, <2>1, <2>2
          DEF EngineSetElsewhere, ConfigOK, EngineOK, RestOK, configVars, engineVars
<1> QED BY <1>1, <1>2, <1>3, <1>4, <1>5, <1>6, <1>7 DEF Surroundings

-----------------------------------------------------------------------------
(* The main loop.                                                          *)

LEMMA MainLoopParts == Parts /\ MainLoop => Parts'
<1> SUFFICES ASSUME Parts, MainLoop PROVE Parts'
  OBVIOUS
<1> USE DEF Parts
<1> DEFINE unloaded == [Env EXCEPT !.known = {}, !.loaded = FALSE]
           ready    == [Env EXCEPT !.loaded = TRUE]
<1>1. Sound(Manager) /\ Env \in Envs /\ ready \in Envs /\ unloaded \in Envs
  BY EnvTyped DEF ManagerOK
<1> HIDE DEF unloaded, ready
<1>2. session \in Seq(Source) /\ system \in Seq(Source) \cup {NoConfig}
  BY DEF ConfigOK
<1>3. CASE OnSessionConfigurationChanged
  <2> DEFINE r == IF source = "override" THEN Manager
                  ELSE SetFromSession(Manager, Env, session, system)
  <2>1. Sound(r)
    BY <1>1, <1>2, SetFromSessionSound
  <2>2. Handle(r)
    BY <1>3 DEF OnSessionConfigurationChanged
  <2> HIDE DEF r
  <2>3. ManagerOK' /\ IbusOK'
    BY <2>1, <2>2, HandleTyped
  <2> QED BY <1>3, <2>3
          DEF OnSessionConfigurationChanged, ConfigOK, EngineOK, RestOK, engineVars
<1>4. CASE OnSystemConfigurationChanged
  <2> DEFINE r == IF system = NoConfig \/ source # "system" THEN Manager
                  ELSE SetFromSystem(Manager, Env, system)
  <2>1. Sound(r)
    BY <1>1, <1>2, SetFromSystemSound
  <2>2. Handle(r)
    BY <1>4 DEF OnSystemConfigurationChanged
  <2> HIDE DEF r
  <2>3. ManagerOK' /\ IbusOK'
    BY <2>1, <2>2, HandleTyped
  <2> QED BY <1>4, <2>3
          DEF OnSystemConfigurationChanged, ConfigOK, EngineOK, RestOK, engineVars
<1>5. CASE SyncDBusService
  <2>1. SourcesOf(groups) \in Seq(Source)
    BY SourcesOfTyped DEF ManagerOK, Sound, Manager, Managers
  <2>2. HasGroups(Manager) => SelectedSource(Manager) \in Source
    BY <1>1, SelectedSourceTyped
  <2>3. RestOK'
    BY <1>5, <2>1, <2>2 DEF SyncDBusService, RestOK
  <2>4. ManagerOK'
    BY <1>5 DEF SyncDBusService, ManagerOK, Manager, Sound, Managers
  <2> QED BY <1>5, <2>3, <2>4
          DEF SyncDBusService, ConfigOK, EngineOK, IbusOK, configVars, engineVars, ibusVars
<1>6. CASE OnConnected
  <2>1. ManagerOK' /\ IbusOK'
    BY <1>1, <1>6, HandleSignalTyped DEF OnConnected, Arrives
  <2> QED BY <1>6, <2>1
          DEF OnConnected, ConfigOK, EngineOK, RestOK, configVars
<1>7. CASE OnDisconnected
  <2> DEFINE m == IF loaded THEN OnIsLoadedChanged(Manager, unloaded) ELSE Manager
             r == ActiveEngineSet(m, unloaded, NoEngine)
  <2>1. Sound(m)
    BY <1>1, OnIsLoadedChangedSound DEF SoundLike
  <2>2. HandleSignal(r)
    BY <1>7 DEF OnDisconnected, unloaded
  <2> HIDE DEF m
  <2>3. Sound(r)
    BY <1>1, <2>1, OnActiveEngineChangedSound DEF SoundLike, ActiveEngineSet
  <2> HIDE DEF r
  <2>4. ManagerOK' /\ IbusOK'
    BY <1>7, <2>2, <2>3, HandleSignalTyped DEF OnDisconnected, Arrives
  <2> QED BY <1>7, <2>4
          DEF OnDisconnected, ConfigOK, EngineOK, RestOK, configVars
<1>8. CASE OnGlobalEngineChanged
  <2> DEFINE n == Head(events).engine
             r == ActiveEngineSet(Manager, Env, n)
  <2>1. n \in Engines \cup {NoEngine}
    <3>1. Head(events) \in EventType
      BY <1>8 DEF OnGlobalEngineChanged, Arrives, IbusOK
    <3> QED BY <3>1 DEF EventType
  <2>2. HandleSignal(r) /\ active' = n
    BY <1>8 DEF OnGlobalEngineChanged
  <2> HIDE DEF n
  <2>3. Sound(r)
    BY <1>1, OnActiveEngineChangedSound DEF SoundLike, ActiveEngineSet
  <2> HIDE DEF r
  <2>4. ManagerOK' /\ IbusOK'
    BY <1>8, <2>2, <2>3, HandleSignalTyped DEF OnGlobalEngineChanged, Arrives
  <2> QED BY <1>8, <2>1, <2>2, <2>4
          DEF OnGlobalEngineChanged, ConfigOK, EngineOK, RestOK, configVars
<1>9. CASE FetchActiveEngine
  <2>1. ManagerOK'
    BY <1>9, ManagerUnchanged DEF FetchActiveEngine
  <2>2. fetches' = fetches + 1 /\ fetches \in Nat
    BY <1>9 DEF FetchActiveEngine, EngineOK
  <2>3. fetches' \in Nat
    BY <2>2, SMT
  <2>4. fetchPending' = FALSE /\ UNCHANGED <<loaded, known, active>>
    BY <1>9 DEF FetchActiveEngine
  <2>5. EngineOK'
    BY <2>3, <2>4 DEF EngineOK
  <2>6. UNCHANGED <<session, system, sessionPending, systemPending, up, global, events,
                    dbus, locked, left>>
    BY <1>9 DEF FetchActiveEngine, configVars, ibusVars
  <2> QED BY <2>1, <2>5, <2>6 DEF ConfigOK, IbusOK, RestOK
<1>10. ASSUME NEW failed \in BOOLEAN, OnActiveEngineFetched(failed) PROVE Parts'
  <2> DEFINE m == IF failed THEN ActiveEngineSet(Manager, Env, NoEngine) ELSE Manager
             r == IF loaded THEN m ELSE OnIsLoadedChanged(m, ready)
  <2>1. Sound(m)
    BY <1>1, OnActiveEngineChangedSound DEF SoundLike, ActiveEngineSet
  <2>2. Handle(r)
    BY <1>10 DEF OnActiveEngineFetched, ready
  <2> HIDE DEF m
  <2>3. Sound(r)
    BY <1>1, <2>1, OnIsLoadedChangedSound DEF SoundLike
  <2> HIDE DEF r
  <2>4. ManagerOK' /\ IbusOK'
    BY <2>2, <2>3, HandleTyped
  <2>5. /\ fetches' = fetches - 1 /\ fetches > 0 /\ fetches \in Nat
        /\ active' = (IF failed THEN NoEngine ELSE active) /\ active \in Engines \cup {NoEngine}
        /\ loaded' = TRUE
        /\ known' = known /\ known \subseteq Installed
        /\ fetchPending' = fetchPending /\ fetchPending \in BOOLEAN
    BY <1>10 DEF OnActiveEngineFetched, EngineOK
  <2>6. fetches' \in Nat
    BY <2>5, SMT
  <2>7. active' \in Engines \cup {NoEngine}
    BY <2>5
  <2>8. loaded' \in BOOLEAN /\ known' \subseteq Installed /\ fetchPending' \in BOOLEAN
    BY <2>5, Zenon
  <2>9. EngineOK'
    BY <2>6, <2>7, <2>8, Zenon DEF EngineOK
  <2>10. ConfigOK' /\ RestOK'
    <3>1. UNCHANGED <<session, system, sessionPending, systemPending, dbus, locked, left>>
      BY <1>10 DEF OnActiveEngineFetched, configVars
    <3> QED BY <3>1 DEF ConfigOK, RestOK
  <2> QED BY <2>4, <2>9, <2>10
<1> QED BY <1>3, <1>4, <1>5, <1>6, <1>7, <1>8, <1>9, <1>10 DEF MainLoop

LEMMA IInvInductive == IInv /\ [Next]_vars => IInv'
<1>0. (IInv <=> Parts) /\ (IInv <=> Parts)'
  BY PartsOfIInv, PTL
<1> SUFFICES ASSUME Parts, [Next]_vars PROVE Parts'
  BY <1>0
<1>1. CASE Next
  BY <1>1, CallersParts, SurroundingsParts, MainLoopParts DEF Next
<1>2. CASE UNCHANGED vars
  BY <1>2 DEF vars, managerVars, configVars, engineVars, ibusVars, Parts, ManagerOK,
              Manager, ConfigOK, EngineOK, IbusOK, RestOK
<1> QED BY <1>1, <1>2

\* Whatever callers, settings, IBus and the lock do, the state stays typed: the
\* groups stay lists of layouts and engines, what is published stays sources.
THEOREM TypeCorrect == Spec => []TypeOK
<1>1. Init => IInv
  BY InitParts, PartsOfIInv
<1>2. IInv => TypeOK
  BY DEF IInv
<1> QED BY <1>1, <1>2, IInvInductive, PTL DEF Spec

\* The selected position names a group, and every group is well formed, after
\* any calls, reloads, locks and signals of IBus.
THEOREM SelectionStaysInBounds == Spec => []SelectionInBounds
<1>1. Init => IInv
  BY InitParts, PartsOfIInv
<1>2. IInv => SelectionInBounds
  BY DEF IInv
<1> QED BY <1>1, <1>2, IInvInductive, PTL DEF Spec

-----------------------------------------------------------------------------
(* The locked keymap.                                                      *)

LEMMA HandleKeeps ==
  ASSUME NEW r, Keeps(r, Manager), Handle(r)
  PROVE  keymap' = keymap
  BY DEF Keeps, Handle, ManagerBecomes, Manager

LEMMA SignalKeeps ==
  ASSUME HandleSignal(Manager)
  PROVE  keymap' = keymap
  BY DEF HandleSignal, ManagerBecomes, Manager

LEMMA CallersKeepKeymap == Parts /\ locked /\ Callers => keymap' = keymap
<1> SUFFICES ASSUME Parts, locked, Callers PROVE keymap' = keymap
  OBVIOUS
<1>1. Sound(Manager) /\ Env \in Envs /\ Env.locked
  BY EnvTyped DEF Parts, ManagerOK, Env
<1>2. \A c \in Configs : c \in Seq(Source)
  BY SystemAssumption
<1>3. ~ \/ \E s \in Source : SelectInputSource(s)
        \/ SelectNextInputSource \/ SelectPreviousInputSource
  BY DEF SelectInputSource, SelectNextInputSource, SelectPreviousInputSource
<1>4. ASSUME NEW c \in Configs, SetInputSourcesCall(c) PROVE keymap' = keymap
  BY <1>1, <1>2, <1>4, SetInputSourcesLocked, HandleKeeps DEF SetInputSourcesCall
<1>5. ASSUME NEW c \in Configs, SetInputSourcesFromLocalesCall(c) PROVE keymap' = keymap
  BY <1>1, <1>2, <1>5, SetFromLocalesLocked, HandleKeeps DEF SetInputSourcesFromLocalesCall
<1>6. CASE SetInputSourcesFromSessionCall
  <2>1. session \in Seq(Source) /\ system \in Seq(Source) \cup {NoConfig}
    BY DEF Parts, ConfigOK
  <2> QED BY <1>1, <1>6, <2>1, SetFromSessionLocked, HandleKeeps
          DEF SetInputSourcesFromSessionCall
<1> QED BY <1>3, <1>4, <1>5, <1>6 DEF Callers

LEMMA MainLoopKeepsKeymap == Parts /\ locked /\ MainLoop => keymap' = keymap
<1> SUFFICES ASSUME Parts, locked, MainLoop PROVE keymap' = keymap
  OBVIOUS
<1> DEFINE unloaded == [Env EXCEPT !.known = {}, !.loaded = FALSE]
           ready    == [Env EXCEPT !.loaded = TRUE]
<1>1. Sound(Manager) /\ Env \in Envs /\ Keeps(Manager, Manager)
  BY EnvTyped DEF Parts, ManagerOK, Keeps
<1>2. Env.locked /\ unloaded.locked /\ ready.locked
  BY DEF Env
<1> HIDE DEF unloaded, ready
<1>3. session \in Seq(Source) /\ system \in Seq(Source) \cup {NoConfig}
  BY DEF Parts, ConfigOK
<1>4. CASE OnSessionConfigurationChanged
  <2>1. Keeps(SetFromSession(Manager, Env, session, system), Manager)
    BY <1>1, <1>2, <1>3, SetFromSessionLocked
  <2> QED BY <1>1, <1>4, <2>1, HandleKeeps DEF OnSessionConfigurationChanged
<1>5. CASE OnSystemConfigurationChanged
  <2>1. Keeps(SetFromSystem(Manager, Env, system), Manager)
    BY <1>1, <1>2, <1>3, SetFromSystemLocked
  <2> QED BY <1>1, <1>5, <2>1, HandleKeeps DEF OnSystemConfigurationChanged
<1>6. CASE SyncDBusService \/ FetchActiveEngine
  BY <1>6 DEF SyncDBusService, FetchActiveEngine, managerVars
<1>7. CASE OnConnected
  BY <1>7, SignalKeeps DEF OnConnected
<1>8. CASE OnDisconnected
  <2> DEFINE m == IF loaded THEN OnIsLoadedChanged(Manager, unloaded) ELSE Manager
  <2>1. m = Manager
    BY <1>2, SignalsLocked
  <2>2. HandleSignal(ActiveEngineSet(m, unloaded, NoEngine))
    BY <1>8 DEF OnDisconnected, unloaded
  <2> HIDE DEF m
  <2>3. ActiveEngineSet(m, unloaded, NoEngine) = Manager
    BY <1>2, <2>1, SignalsLocked DEF ActiveEngineSet
  <2> QED BY <2>2, <2>3, SignalKeeps
<1>9. CASE OnGlobalEngineChanged
  <2>1. ActiveEngineSet(Manager, Env, Head(events).engine) = Manager
    BY <1>2, SignalsLocked DEF ActiveEngineSet
  <2>2. HandleSignal(ActiveEngineSet(Manager, Env, Head(events).engine))
    BY <1>9 DEF OnGlobalEngineChanged
  <2> QED BY <2>1, <2>2, SignalKeeps
<1>10. ASSUME NEW failed \in BOOLEAN, OnActiveEngineFetched(failed) PROVE keymap' = keymap
  <2> DEFINE m == IF failed THEN ActiveEngineSet(Manager, Env, NoEngine) ELSE Manager
             r == IF loaded THEN m ELSE OnIsLoadedChanged(m, ready)
  <2>1. m = Manager
    BY <1>2, SignalsLocked DEF ActiveEngineSet
  <2>2. Handle(r)
    BY <1>10 DEF OnActiveEngineFetched, ready
  <2> HIDE DEF m
  <2>3. r = Manager
    BY <1>2, <2>1, SignalsLocked
  <2> HIDE DEF r
  <2> QED BY <1>1, <2>2, <2>3, HandleKeeps
<1> QED BY <1>4, <1>5, <1>6, <1>7, <1>8, <1>9, <1>10 DEF MainLoop

LEMMA LockedStep == Parts /\ [Next]_vars => (locked /\ locked' => keymap' = keymap)
<1> SUFFICES ASSUME Parts, [Next]_vars, locked, locked' PROVE keymap' = keymap
  OBVIOUS
<1>1. CASE Surroundings
  BY <1>1 DEF Surroundings, SessionSettingsChange, LocaledChanges, KeymapLocks, KeymapUnlocks,
              DaemonStarts, DaemonStops, EngineSetElsewhere, managerVars
<1>2. CASE UNCHANGED vars
  BY <1>2 DEF vars, managerVars
<1> QED BY <1>1, <1>2, CallersKeepKeymap, MainLoopKeepsKeymap DEF Next

\* While the keymap is locked no call, no deferred reload and no signal of IBus
\* loads another one, although reloads still replace the groups and the selection.
\* It rests on the type invariant: the operations find the parts of the manager
\* they keep.
THEOREM LockedKeymapStays == Spec => LockedKeymapKept
<1>1. Init => IInv
  BY InitParts, PartsOfIInv
<1>2. IInv /\ [Next]_vars => [locked /\ locked' => keymap' = keymap]_vars
  BY LockedStep, PartsOfIInv
<1> QED BY <1>1, <1>2, IInvInductive, PTL DEF Spec, LockedKeymapKept

-----------------------------------------------------------------------------
(* What D-Bus clients are shown.                                           *)

\* A handler that publishes, or that queues a synchronisation whatever it did.
LEMMA BecomesPublished ==
  ASSUME ManagerOK, PublishedOrPending, NEW r, Sound(r), ManagerBecomes(r),
         r.sync \/ Publishes(r, Manager), UNCHANGED dbus
  PROVE  PublishedOrPending'
<1>1. groups' = r.groups /\ index' = r.index /\ syncPending' = r.sync
  BY DEF ManagerBecomes
<1>2. CASE r.sync
  BY <1>1, <1>2 DEF PublishedOrPending
<1>3. CASE ~ r.sync
  <2>1. SoundLike(r, Manager) /\ r.sync = syncPending /\ Shows(r, Manager)
    BY <1>3 DEF Publishes, Manager
  <2>2. dbus.sources = SourcesOf(groups)
        /\ (groups # <<>> => dbus.selected = SelectedSource(Manager))
    BY <1>3, <2>1 DEF PublishedOrPending
  <2>3. groups \in Seq(WellFormedGroups) /\ r.groups \in Seq(WellFormedGroups)
        /\ SameSources(r.groups, groups)
    BY <2>1 DEF ManagerOK, SoundLike, Sound, Managers, Manager
  <2>4. SourcesOf(r.groups) = SourcesOf(groups)
    BY <2>3, SameGroupsSameSources DEF SameSources
  <2>5. ASSUME groups' # <<>> PROVE dbus.selected = SelectedSource(r)
    <3>1. HasGroups(r)
      BY <1>1, <2>5 DEF HasGroups
    <3>2. DOMAIN groups # {}
      BY <2>3, <3>1, SelectedExists DEF SameSources
    <3>3. groups # <<>>
      BY <3>2
    <3>4. SelectedSource(r) = SelectedSource(Manager)
      BY <2>1, <3>2 DEF Shows, Manager
    <3> QED BY <2>2, <3>3, <3>4
  <2>6. SelectedSource(Manager)' = SelectedSource(r)
    BY <1>1 DEF SelectedSource, Selected, Manager
  <2> QED BY <1>1, <2>2, <2>4, <2>5, <2>6 DEF PublishedOrPending
<1> QED BY <1>2, <1>3

LEMMA HandlePublished ==
  ASSUME ManagerOK, PublishedOrPending, NEW r, Sound(r), Handle(r) \/ HandleSignal(r),
         r.sync \/ Publishes(r, Manager), UNCHANGED dbus
  PROVE  PublishedOrPending'
<1>1. ManagerBecomes(r)
  BY DEF Handle, HandleSignal
<1> QED BY <1>1, BecomesPublished

LEMMA StaysPublished ==
  ASSUME PublishedOrPending, UNCHANGED <<groups, index, syncPending, dbus>>
  PROVE  PublishedOrPending'
<1>1. SelectedSource(Manager)' = SelectedSource(Manager)
  BY DEF SelectedSource, Selected, Manager
<1> QED BY <1>1 DEF PublishedOrPending

LEMMA InitPublished == Init => PublishedOrPending
<1> SUFFICES ASSUME Init PROVE syncPending
  BY DEF PublishedOrPending
<1>1. session \in Seq(Source) /\ system \in Seq(Source) \cup {NoConfig}
  BY SystemAssumption DEF Init
<1>2. Env \in Envs
  BY DEF Env, Envs, Init
<1>3. Sound(EmptyManager)
  <2>1. <<>> \in Seq(WellFormedGroups) /\ <<>> \in Seq(Layouts)
    OBVIOUS
  <2> QED BY <2>1 DEF EmptyManager, BackendKeymap, Sound, Managers, Keymaps
<1>4. SetFromSession(EmptyManager, Env, session, system).sync = TRUE
  BY <1>1, <1>2, <1>3, SetFromSessionQueues
<1> QED BY <1>4 DEF Init

LEMMA CallersPublished == Parts /\ PublishedOrPending /\ Callers => PublishedOrPending'
<1> SUFFICES ASSUME Parts, PublishedOrPending, Callers PROVE PublishedOrPending'
  OBVIOUS
<1>1. Sound(Manager) /\ Env \in Envs /\ ManagerOK
  BY EnvTyped DEF Parts, ManagerOK
<1>2. \A c \in Configs : c \in Seq(Source)
  BY SystemAssumption
<1>3. ASSUME NEW s \in Source, SelectInputSource(s) PROVE PublishedOrPending'
  <2>1. Publishes(SelectSource(Manager, Env, s), Manager)
    BY <1>1, ActivateBestPublishes DEF SelectSource
  <2>2. Sound(SelectSource(Manager, Env, s))
    BY <1>1, SelectSourceSound DEF SoundLike
  <2> QED BY <1>1, <1>3, <2>1, <2>2, HandlePublished DEF SelectInputSource
<1>4. CASE SelectNextInputSource
  <2>1. Publishes(Manager, Manager)
    BY <1>1, FlagsPublish
  <2>2. Sound(SwitchToNextSource(Manager, Env))
    BY <1>1, SwitchToNextSourceSound
  <2>3. \/ SwitchToNextSource(Manager, Env).sync
        \/ Publishes(SwitchToNextSource(Manager, Env), Manager)
    BY <1>1, <2>1, SwitchToNextSourceQueues
  <2> QED BY <1>1, <1>4, <2>2, <2>3, HandlePublished DEF SelectNextInputSource
<1>5. CASE SelectPreviousInputSource
  <2>1. Publishes(Manager, Manager)
    BY <1>1, FlagsPublish
  <2>2. Sound(SwitchToPreviousSource(Manager, Env))
    BY <1>1, SwitchToPreviousSourceSound
  <2>3. \/ SwitchToPreviousSource(Manager, Env).sync
        \/ Publishes(SwitchToPreviousSource(Manager, Env), Manager)
    BY <1>1, <2>1, SwitchToPreviousSourceQueues
  <2> QED BY <1>1, <1>5, <2>2, <2>3, HandlePublished DEF SelectPreviousInputSource
<1>6. ASSUME NEW c \in Configs, SetInputSourcesCall(c) PROVE PublishedOrPending'
  BY <1>1, <1>2, <1>6, SetInputSourcesSound, SetInputSourcesQueues, HandlePublished
     DEF SetInputSourcesCall
<1>7. ASSUME NEW c \in Configs, SetInputSourcesFromLocalesCall(c) PROVE PublishedOrPending'
  BY <1>1, <1>2, <1>7, SetFromLocalesSound, SetFromLocalesQueues, HandlePublished
     DEF SetInputSourcesFromLocalesCall
<1>8. CASE SetInputSourcesFromSessionCall
  <2>1. session \in Seq(Source) /\ system \in Seq(Source) \cup {NoConfig}
    BY DEF Parts, ConfigOK
  <2> QED BY <1>1, <1>8, <2>1, SetFromSessionSound, SetFromSessionQueues, HandlePublished
          DEF SetInputSourcesFromSessionCall
<1> QED BY <1>3, <1>4, <1>5, <1>6, <1>7, <1>8 DEF Callers

LEMMA MainLoopPublished == Parts /\ PublishedOrPending /\ MainLoop => PublishedOrPending'
<1> SUFFICES ASSUME Parts, PublishedOrPending, MainLoop PROVE PublishedOrPending'
  OBVIOUS
<1> DEFINE unloaded == [Env EXCEPT !.known = {}, !.loaded = FALSE]
           ready    == [Env EXCEPT !.loaded = TRUE]
<1>1. /\ Sound(Manager) /\ ManagerOK /\ Publishes(Manager, Manager)
      /\ Env \in Envs /\ ready \in Envs /\ unloaded \in Envs
  <2>1. Sound(Manager) /\ ManagerOK
    BY DEF Parts, ManagerOK
  <2> QED BY <2>1, EnvTyped, FlagsPublish
<1> HIDE DEF unloaded, ready
<1>2. session \in Seq(Source) /\ system \in Seq(Source) \cup {NoConfig}
  BY DEF Parts, ConfigOK
<1>3. CASE OnSessionConfigurationChanged
  <2> DEFINE r == IF source = "override" THEN Manager
                  ELSE SetFromSession(Manager, Env, session, system)
  <2>1. Sound(r) /\ (r.sync \/ Publishes(r, Manager))
    BY <1>1, <1>2, SetFromSessionSound, SetFromSessionQueues
  <2>2. Handle(r) /\ UNCHANGED dbus
    BY <1>3 DEF OnSessionConfigurationChanged
  <2> HIDE DEF r
  <2> QED BY <1>1, <2>1, <2>2, HandlePublished
<1>4. CASE OnSystemConfigurationChanged
  <2> DEFINE r == IF system = NoConfig \/ source # "system" THEN Manager
                  ELSE SetFromSystem(Manager, Env, system)
  <2>1. Sound(r) /\ (r.sync \/ Publishes(r, Manager))
    BY <1>1, <1>2, SetFromSystemSound, SetFromSystemQueues
  <2>2. Handle(r) /\ UNCHANGED dbus
    BY <1>4 DEF OnSystemConfigurationChanged
  <2> HIDE DEF r
  <2> QED BY <1>1, <2>1, <2>2, HandlePublished
<1>5. CASE SyncDBusService
  <2>1. dbus'.sources = SourcesOf(groups')
    BY <1>5 DEF SyncDBusService
  <2>2. groups' # <<>> => dbus'.selected = SelectedSource(Manager)
    BY <1>5 DEF SyncDBusService, HasGroups, Manager
  <2>3. SelectedSource(Manager)' = SelectedSource(Manager)
    BY <1>5 DEF SyncDBusService, SelectedSource, Selected, Manager
  <2> QED BY <2>1, <2>2, <2>3 DEF PublishedOrPending
<1>6. CASE FetchActiveEngine
  BY <1>6, StaysPublished DEF FetchActiveEngine, managerVars
<1>7. CASE OnConnected
  BY <1>1, <1>7, HandlePublished DEF OnConnected
<1>8. CASE OnDisconnected
  <2> DEFINE m == IF loaded THEN OnIsLoadedChanged(Manager, unloaded) ELSE Manager
             r == ActiveEngineSet(m, unloaded, NoEngine)
  <2>1. Publishes(m, Manager)
    BY <1>1, OnIsLoadedChangedPublishes
  <2>2. HandleSignal(r) /\ UNCHANGED dbus
    BY <1>8 DEF OnDisconnected, unloaded
  <2> HIDE DEF m
  <2>3. Publishes(r, m)
    <3>1. Sound(m)
      BY <2>1 DEF Publishes, SoundLike
    <3> QED BY <1>1, <3>1, OnActiveEngineChangedPublishes, FlagsPublish DEF ActiveEngineSet
  <2> HIDE DEF r
  <2>4. Publishes(r, Manager) /\ Sound(r)
    BY <2>1, <2>3, PublishesTransitive DEF Publishes, SoundLike
  <2> QED BY <1>1, <2>2, <2>4, HandlePublished
<1>9. CASE OnGlobalEngineChanged
  <2> DEFINE r == ActiveEngineSet(Manager, Env, Head(events).engine)
  <2>1. Publishes(r, Manager)
    BY <1>1, OnActiveEngineChangedPublishes DEF ActiveEngineSet
  <2>2. HandleSignal(r) /\ UNCHANGED dbus
    BY <1>9 DEF OnGlobalEngineChanged
  <2> HIDE DEF r
  <2>3. Sound(r)
    BY <2>1 DEF Publishes, SoundLike
  <2> QED BY <1>1, <2>1, <2>2, <2>3, HandlePublished
<1>10. ASSUME NEW failed \in BOOLEAN, OnActiveEngineFetched(failed) PROVE PublishedOrPending'
  <2> DEFINE m == IF failed THEN ActiveEngineSet(Manager, Env, NoEngine) ELSE Manager
             r == IF loaded THEN m ELSE OnIsLoadedChanged(m, ready)
  <2>1. Publishes(m, Manager)
    BY <1>1, OnActiveEngineChangedPublishes DEF ActiveEngineSet
  <2>2. Handle(r) /\ UNCHANGED dbus
    BY <1>10 DEF OnActiveEngineFetched, ready
  <2> HIDE DEF m
  <2>3. Publishes(r, m)
    <3>1. Sound(m)
      BY <2>1 DEF Publishes, SoundLike
    <3> QED BY <1>1, <3>1, OnIsLoadedChangedPublishes, FlagsPublish
  <2> HIDE DEF r
  <2>4. Publishes(r, Manager) /\ Sound(r)
    BY <2>1, <2>3, PublishesTransitive DEF Publishes, SoundLike
  <2> QED BY <1>1, <2>2, <2>4, HandlePublished
<1> QED BY <1>3, <1>4, <1>5, <1>6, <1>7, <1>8, <1>9, <1>10 DEF MainLoop

LEMMA PublishedStep == Parts /\ PublishedOrPending /\ [Next]_vars => PublishedOrPending'
<1> SUFFICES ASSUME Parts, PublishedOrPending, [Next]_vars PROVE PublishedOrPending'
  OBVIOUS
<1>1. CASE Surroundings
  <2>1. UNCHANGED <<groups, index, syncPending, dbus>>
    BY <1>1 DEF Surroundings, SessionSettingsChange, LocaledChanges, KeymapLocks, KeymapUnlocks,
                DaemonStarts, DaemonStops, EngineSetElsewhere, managerVars
  <2> QED BY <2>1, StaysPublished
<1>2. CASE UNCHANGED vars
  BY <1>2, StaysPublished DEF vars, managerVars
<1> QED BY <1>1, <1>2, CallersPublished, MainLoopPublished DEF Next

\* D-Bus clients never keep stale properties: after every handler, failing ones
\* included, the properties are the manager's or a synchronisation is queued.
\* It rests on what the operations show (Publishes) and on their soundness.
THEOREM NeverStaleForGood == Spec => []PublishedOrPending
<1>1. Init => IInv /\ PublishedOrPending
  BY InitParts, InitPublished, PartsOfIInv
<1>2. IInv /\ PublishedOrPending /\ [Next]_vars => PublishedOrPending'
  BY PublishedStep, PartsOfIInv
<1> QED BY <1>1, <1>2, IInvInductive, PTL DEF Spec

-----------------------------------------------------------------------------
(* The keymap and the selection.                                           *)

\* What KeymapFollowsSelection needs to be inductive: what the manager loaded
\* has a layout, and under the lock the keymap is the backend's, so that nothing
\* is asked of it when the lock goes.
LoadInv == Loaded(Manager) /\ (locked => keymap.by = "backend")

LEMMA LoadInvFollows == LoadInv => KeymapFollowsSelection
  BY DEF LoadInv, Loaded, Follows, KeymapFollowsSelection, HasGroups, Manager

LEMMA BackendLoads ==
  ASSUME keymap'.by = "backend"
  PROVE  LoadInv'
  BY DEF LoadInv, Loaded, KeymapTyped, Follows, Manager

LEMMA StaysLoaded ==
  ASSUME LoadInv, ~ locked, ~ locked', UNCHANGED <<groups, index, keymap>>
  PROVE  LoadInv'
  BY DEF LoadInv, Loaded, KeymapTyped, Follows, HasGroups, Selected, Manager

LEMMA HandleLoads ==
  ASSUME ~ locked', NEW r, Loaded(r), Handle(r) \/ HandleSignal(r)
  PROVE  LoadInv'
<1>1. groups' = r.groups /\ index' = r.index /\ keymap' = r.keymap
  BY DEF Handle, HandleSignal, ManagerBecomes
<1> QED BY <1>1 DEF LoadInv, Loaded, KeymapTyped, Follows, HasGroups, Selected, Manager

LEMMA InitLoads == Init => LoadInv
<1> SUFFICES ASSUME Init PROVE LoadInv
  OBVIOUS
<1>1. session \in Seq(Source) /\ system \in Seq(Source) \cup {NoConfig} /\ locked = FALSE
  BY SystemAssumption DEF Init
<1>2. Env \in Envs /\ ~ Env.locked
  BY DEF Env, Envs, Init
<1>3. Sound(EmptyManager) /\ KeymapTyped(EmptyManager)
  <2>1. <<>> \in Seq(WellFormedGroups) /\ <<>> \in Seq(Layouts)
    OBVIOUS
  <2> QED BY <2>1 DEF EmptyManager, BackendKeymap, Sound, Managers, Keymaps, KeymapTyped
<1> DEFINE m == SetFromSession(EmptyManager, Env, session, system)
<1>4. Loaded(m)
  BY <1>1, <1>2, <1>3, SetFromSessionLoads
<1>5. groups = m.groups /\ index = m.index /\ keymap = m.keymap
  BY DEF Init
<1> HIDE DEF m
<1>6. Loaded(Manager)
  BY <1>4, <1>5 DEF Loaded, KeymapTyped, Follows, HasGroups, Selected, Manager
<1> QED BY <1>1, <1>6 DEF LoadInv

LEMMA CallersLoad == Parts /\ LoadInv /\ ~ locked /\ Callers => LoadInv'
<1> SUFFICES ASSUME Parts, LoadInv, ~ locked, Callers PROVE LoadInv'
  OBVIOUS
<1>1. /\ Sound(Manager) /\ Loaded(Manager) /\ KeymapTyped(Manager)
      /\ Env \in Envs /\ ~ Env.locked
  BY EnvTyped DEF Parts, ManagerOK, LoadInv, Loaded, Env
<1>2. \A c \in Configs : c \in Seq(Source)
  BY SystemAssumption
<1>3. ASSUME NEW s \in Source, SelectInputSource(s) PROVE LoadInv'
  <2>1. Loaded(SelectSource(Manager, Env, s))
    BY <1>1, ActivateBestLoads DEF SelectSource
  <2> QED BY <1>3, <2>1, HandleLoads DEF SelectInputSource
<1>4. CASE SelectNextInputSource
  BY <1>1, <1>4, SwitchToNextSourceLoads, HandleLoads DEF SelectNextInputSource
<1>5. CASE SelectPreviousInputSource
  BY <1>1, <1>5, SwitchToPreviousSourceLoads, HandleLoads DEF SelectPreviousInputSource
<1>6. ASSUME NEW c \in Configs, SetInputSourcesCall(c) PROVE LoadInv'
  BY <1>1, <1>2, <1>6, SetInputSourcesLoads, HandleLoads DEF SetInputSourcesCall
<1>7. ASSUME NEW c \in Configs, SetInputSourcesFromLocalesCall(c) PROVE LoadInv'
  BY <1>1, <1>2, <1>7, SetFromLocalesLoads, HandleLoads DEF SetInputSourcesFromLocalesCall
<1>8. CASE SetInputSourcesFromSessionCall
  <2>1. session \in Seq(Source) /\ system \in Seq(Source) \cup {NoConfig}
    BY DEF Parts, ConfigOK
  <2> QED BY <1>1, <1>8, <2>1, SetFromSessionLoads, HandleLoads
          DEF SetInputSourcesFromSessionCall
<1> QED BY <1>3, <1>4, <1>5, <1>6, <1>7, <1>8 DEF Callers

LEMMA MainLoopLoads == Parts /\ LoadInv /\ ~ locked /\ MainLoop => LoadInv'
<1> SUFFICES ASSUME Parts, LoadInv, ~ locked, MainLoop PROVE LoadInv'
  OBVIOUS
<1> DEFINE unloaded == [Env EXCEPT !.known = {}, !.loaded = FALSE]
           ready    == [Env EXCEPT !.loaded = TRUE]
<1>1. /\ Sound(Manager) /\ Loaded(Manager) /\ KeymapTyped(Manager)
      /\ Env \in Envs /\ ready \in Envs /\ unloaded \in Envs /\ ~ Env.locked
  BY EnvTyped DEF Parts, ManagerOK, LoadInv, Loaded, Env
<1> HIDE DEF unloaded, ready
<1>2. session \in Seq(Source) /\ system \in Seq(Source) \cup {NoConfig}
  BY DEF Parts, ConfigOK
<1>3. CASE OnSessionConfigurationChanged
  <2> DEFINE r == IF source = "override" THEN Manager
                  ELSE SetFromSession(Manager, Env, session, system)
  <2>1. Loaded(r)
    BY <1>1, <1>2, SetFromSessionLoads
  <2>2. Handle(r) /\ ~ locked'
    BY <1>3 DEF OnSessionConfigurationChanged
  <2> HIDE DEF r
  <2> QED BY <2>1, <2>2, HandleLoads
<1>4. CASE OnSystemConfigurationChanged
  <2> DEFINE r == IF system = NoConfig \/ source # "system" THEN Manager
                  ELSE SetFromSystem(Manager, Env, system)
  <2>1. Loaded(r)
    BY <1>1, <1>2, SetFromSystemLoads
  <2>2. Handle(r) /\ ~ locked'
    BY <1>4 DEF OnSystemConfigurationChanged
  <2> HIDE DEF r
  <2> QED BY <2>1, <2>2, HandleLoads
<1>5. CASE SyncDBusService \/ FetchActiveEngine
  BY <1>5, StaysLoaded DEF SyncDBusService, FetchActiveEngine, managerVars
<1>6. CASE OnConnected
  BY <1>1, <1>6, HandleLoads DEF OnConnected
<1>7. CASE OnDisconnected
  <2> DEFINE m == IF loaded THEN OnIsLoadedChanged(Manager, unloaded) ELSE Manager
             r == ActiveEngineSet(m, unloaded, NoEngine)
  <2>1. Sound(m) /\ Loaded(m)
    BY <1>1, OnIsLoadedChangedSound, OnIsLoadedChangedLoads DEF SoundLike
  <2>2. HandleSignal(r) /\ ~ locked'
    BY <1>7 DEF OnDisconnected, unloaded
  <2> HIDE DEF m
  <2>3. Loaded(r)
    BY <1>1, <2>1, OnActiveEngineChangedLoads DEF SoundLike, ActiveEngineSet
  <2> HIDE DEF r
  <2> QED BY <2>2, <2>3, HandleLoads
<1>8. CASE OnGlobalEngineChanged
  <2> DEFINE r == ActiveEngineSet(Manager, Env, Head(events).engine)
  <2>1. Loaded(r)
    BY <1>1, OnActiveEngineChangedLoads DEF SoundLike, ActiveEngineSet
  <2>2. HandleSignal(r) /\ ~ locked'
    BY <1>8 DEF OnGlobalEngineChanged
  <2> HIDE DEF r
  <2> QED BY <2>1, <2>2, HandleLoads
<1>9. ASSUME NEW failed \in BOOLEAN, OnActiveEngineFetched(failed) PROVE LoadInv'
  <2> DEFINE m == IF failed THEN ActiveEngineSet(Manager, Env, NoEngine) ELSE Manager
             r == IF loaded THEN m ELSE OnIsLoadedChanged(m, ready)
  <2>1. Sound(m) /\ Loaded(m)
    BY <1>1, OnActiveEngineChangedSound, OnActiveEngineChangedLoads DEF SoundLike, ActiveEngineSet
  <2>2. Handle(r) /\ ~ locked'
    BY <1>9 DEF OnActiveEngineFetched, ready
  <2> HIDE DEF m
  <2>3. Loaded(r)
    BY <1>1, <2>1, OnIsLoadedChangedLoads
  <2> HIDE DEF r
  <2> QED BY <2>2, <2>3, HandleLoads
<1> QED BY <1>3, <1>4, <1>5, <1>6, <1>7, <1>8, <1>9 DEF MainLoop

LEMMA LoadStep == Parts /\ LoadInv /\ [Next]_vars => LoadInv'
<1> SUFFICES ASSUME Parts, LoadInv, [Next]_vars PROVE LoadInv'
  OBVIOUS
<1>1. CASE locked /\ locked'
  <2>1. keymap' = keymap
    BY <1>1, LockedStep
  <2> QED BY <1>1, <2>1, BackendLoads DEF LoadInv
<1>2. CASE KeymapLocks
  BY <1>2, BackendLoads DEF KeymapLocks, BackendKeymap
<1>3. CASE KeymapUnlocks
  BY <1>3, BackendLoads DEF KeymapUnlocks, managerVars, LoadInv
<1>4. CASE Surroundings /\ ~ locked /\ ~ KeymapLocks /\ ~ KeymapUnlocks
  BY <1>4, StaysLoaded
     DEF Surroundings, SessionSettingsChange, LocaledChanges, DaemonStarts, DaemonStops,
         EngineSetElsewhere, managerVars
<1>5. CASE UNCHANGED vars /\ ~ locked
  BY <1>5, StaysLoaded DEF vars, managerVars
<1>6. ASSUME locked, ~ locked', ~ KeymapUnlocks PROVE FALSE
  BY <1>6 DEF Next, Callers, Surroundings, MainLoop, vars, SelectInputSource,
       SelectNextInputSource, SelectPreviousInputSource, SetInputSourcesCall,
       SetInputSourcesFromLocalesCall, SetInputSourcesFromSessionCall,
       SessionSettingsChange, LocaledChanges, KeymapLocks, DaemonStarts, DaemonStops,
       EngineSetElsewhere, OnSessionConfigurationChanged, OnSystemConfigurationChanged,
       SyncDBusService, OnConnected, OnDisconnected, OnGlobalEngineChanged,
       FetchActiveEngine, OnActiveEngineFetched
<1> QED BY <1>1, <1>2, <1>3, <1>4, <1>5, <1>6, CallersLoad, MainLoopLoads DEF Next

\* The keyboard types what the manager says is selected: after any calls, reloads,
\* locks and signals of IBus, a selected layout group has its own keymap loaded,
\* unless an engine ahead of it was restarted without being selected.
THEOREM KeyboardFollowsSelection == Spec => []KeymapFollowsSelection
<1>1. Init => IInv /\ LoadInv
  BY InitParts, InitLoads, PartsOfIInv
<1>2. IInv /\ LoadInv /\ [Next]_vars => LoadInv'
  BY LoadStep, PartsOfIInv
<1> QED BY <1>1, <1>2, IInvInductive, LoadInvFollows, PTL DEF Spec

-----------------------------------------------------------------------------
(* The override.                                                           *)

\* What a caller does that asks for another configuration.
Reconfigures ==
  \/ \E c \in Configs : SetInputSourcesCall(c) \/ SetInputSourcesFromLocalesCall(c)
  \/ SetInputSourcesFromSessionCall

\* A handler that selects, switches or answers IBus leaves the sources.
LEMMA HandleKeepsSources ==
  ASSUME ManagerOK, NEW r, SoundLike(r, Manager), Handle(r) \/ HandleSignal(r)
  PROVE  SourcesOf(groups') = SourcesOf(groups)
<1>1. groups' = r.groups
  BY DEF Handle, HandleSignal, ManagerBecomes
<1>2. groups \in Seq(WellFormedGroups) /\ r.groups \in Seq(WellFormedGroups)
      /\ SameSources(r.groups, groups)
  BY DEF ManagerOK, SoundLike, Sound, Managers, Manager
<1> QED BY <1>1, <1>2, SameGroupsSameSources DEF SameSources

LEMMA CallersKeepSources ==
  Parts /\ Callers /\ ~ Reconfigures => SourcesOf(groups') = SourcesOf(groups)
<1> SUFFICES ASSUME Parts, Callers, ~ Reconfigures
             PROVE  SourcesOf(groups') = SourcesOf(groups)
  OBVIOUS
<1>1. Sound(Manager) /\ Env \in Envs /\ ManagerOK
  BY EnvTyped DEF Parts, ManagerOK
<1>2. ASSUME NEW s \in Source, SelectInputSource(s)
      PROVE  SourcesOf(groups') = SourcesOf(groups)
  BY <1>1, <1>2, SelectSourceSound, HandleKeepsSources DEF SelectInputSource
<1>3. CASE SelectNextInputSource
  <2>1. SoundLike(SwitchToNextSource(Manager, Env), Manager)
    BY <1>1, SwitchToNextSourceSound DEF SoundLike
  <2> QED BY <1>1, <1>3, <2>1, HandleKeepsSources DEF SelectNextInputSource
<1>4. CASE SelectPreviousInputSource
  <2>1. SoundLike(SwitchToPreviousSource(Manager, Env), Manager)
    BY <1>1, SwitchToPreviousSourceSound DEF SoundLike
  <2> QED BY <1>1, <1>4, <2>1, HandleKeepsSources DEF SelectPreviousInputSource
<1> QED BY <1>2, <1>3, <1>4 DEF Callers, Reconfigures

\* Under an override the deferred reloads do nothing, and the signals of IBus
\* only activate and select.
LEMMA MainLoopKeepsSources ==
  Parts /\ source = "override" /\ MainLoop => SourcesOf(groups') = SourcesOf(groups)
<1> SUFFICES ASSUME Parts, source = "override", MainLoop
             PROVE  SourcesOf(groups') = SourcesOf(groups)
  OBVIOUS
<1> DEFINE unloaded == [Env EXCEPT !.known = {}, !.loaded = FALSE]
           ready    == [Env EXCEPT !.loaded = TRUE]
<1>1. /\ Sound(Manager) /\ ManagerOK /\ SoundLike(Manager, Manager)
      /\ Env \in Envs /\ ready \in Envs /\ unloaded \in Envs
  BY EnvTyped, FlagsSound DEF Parts, ManagerOK
<1> HIDE DEF unloaded, ready
<1>2. CASE OnSessionConfigurationChanged \/ OnSystemConfigurationChanged
  <2>1. Handle(Manager)
    BY <1>2 DEF OnSessionConfigurationChanged, OnSystemConfigurationChanged
  <2> QED BY <1>1, <2>1, HandleKeepsSources
<1>3. CASE SyncDBusService \/ FetchActiveEngine
  BY <1>3 DEF SyncDBusService, FetchActiveEngine, managerVars
<1>4. CASE OnConnected
  BY <1>1, <1>4, HandleKeepsSources DEF OnConnected
<1>5. CASE OnDisconnected
  <2> DEFINE m == IF loaded THEN OnIsLoadedChanged(Manager, unloaded) ELSE Manager
             r == ActiveEngineSet(m, unloaded, NoEngine)
  <2>1. SoundLike(m, Manager)
    BY <1>1, OnIsLoadedChangedSound
  <2>2. HandleSignal(r)
    BY <1>5 DEF OnDisconnected, unloaded
  <2> HIDE DEF m
  <2>3. SoundLike(r, m)
    <3>1. Sound(m)
      BY <2>1 DEF SoundLike
    <3> QED BY <1>1, <3>1, OnActiveEngineChangedSound, FlagsSound DEF ActiveEngineSet
  <2> HIDE DEF r
  <2> QED BY <1>1, <2>1, <2>2, <2>3, SoundLikeTransitive, HandleKeepsSources
<1>6. CASE OnGlobalEngineChanged
  <2> DEFINE r == ActiveEngineSet(Manager, Env, Head(events).engine)
  <2>1. SoundLike(r, Manager)
    BY <1>1, OnActiveEngineChangedSound DEF ActiveEngineSet
  <2>2. HandleSignal(r)
    BY <1>6 DEF OnGlobalEngineChanged
  <2> HIDE DEF r
  <2> QED BY <1>1, <2>1, <2>2, HandleKeepsSources
<1>7. ASSUME NEW failed \in BOOLEAN, OnActiveEngineFetched(failed)
      PROVE  SourcesOf(groups') = SourcesOf(groups)
  <2> DEFINE m == IF failed THEN ActiveEngineSet(Manager, Env, NoEngine) ELSE Manager
             r == IF loaded THEN m ELSE OnIsLoadedChanged(m, ready)
  <2>1. SoundLike(m, Manager)
    BY <1>1, OnActiveEngineChangedSound DEF ActiveEngineSet
  <2>2. Handle(r)
    BY <1>7 DEF OnActiveEngineFetched, ready
  <2> HIDE DEF m
  <2>3. SoundLike(r, m)
    <3>1. Sound(m)
      BY <2>1 DEF SoundLike
    <3> QED BY <1>1, <3>1, OnIsLoadedChangedSound, FlagsSound
  <2> HIDE DEF r
  <2> QED BY <1>1, <2>1, <2>2, <2>3, SoundLikeTransitive, HandleKeepsSources
<1> QED BY <1>2, <1>3, <1>4, <1>5, <1>6, <1>7 DEF MainLoop

LEMMA OverrideStep ==
  Parts /\ source = "override" /\ [Next]_vars /\ ~ Reconfigures
    => SourcesOf(groups') = SourcesOf(groups)
<1> SUFFICES ASSUME Parts, source = "override", [Next]_vars, ~ Reconfigures
             PROVE  SourcesOf(groups') = SourcesOf(groups)
  OBVIOUS
<1>1. CASE Surroundings
  BY <1>1 DEF Surroundings, SessionSettingsChange, LocaledChanges, KeymapLocks, KeymapUnlocks,
              DaemonStarts, DaemonStops, EngineSetElsewhere, managerVars
<1>2. CASE UNCHANGED vars
  BY <1>2 DEF vars, managerVars
<1> QED BY <1>1, <1>2, CallersKeepSources, MainLoopKeepsSources DEF Next

\* The sources that a caller's locales chose stay until a caller asks for others:
\* no change of the session's settings or of localed that is still to be read,
\* no failed activation and no restart of IBus replaces them.
THEOREM OverrideStays == Spec => OverrideHolds
<1>1. Init => IInv
  BY InitParts, PartsOfIInv
<1>2. IInv /\ [Next]_vars
        => [source = "override" /\ SourcesOf(groups') # SourcesOf(groups)
              => \/ \E c \in Configs : SetInputSourcesCall(c)
                                       \/ SetInputSourcesFromLocalesCall(c)
                 \/ SetInputSourcesFromSessionCall]_vars
  BY OverrideStep, PartsOfIInv DEF Reconfigures
<1> QED BY <1>1, <1>2, IInvInductive, PTL DEF Spec, OverrideHolds

=============================================================================
