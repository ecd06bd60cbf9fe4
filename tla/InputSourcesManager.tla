-------------------------- MODULE InputSourcesManager --------------------------
(***************************************************************************)
(* The operations of KioskInputSourcesManager                              *)
(* (compositor/kiosk-input-sources-manager.c), as functions on a record of *)
(* what one handler can change:                                            *)
(*   groups, index  the input source groups and the selected one (from 0)  *)
(*   source         where the groups came from: session, system, override  *)
(*   keymap         the keymap and layout last asked of the backend        *)
(*   sync           whether a D-Bus synchronisation is queued              *)
(*   asked          the IBus engine the handler activates, if any          *)
(*   ok             whether the last attempt to activate a group succeeded *)
(* and of an environment that holds still while the handler runs:          *)
(*   locked         the backend's keymap is locked                         *)
(*   loaded, known  the engine manager is ready, the engines it has listed *)
(*   up             the IBus daemon answers                                *)
(***************************************************************************)
EXTENDS InputSourceGroup

CONSTANTS
  DefaultEngine,   \* the engine that passes keys through, "xkb:us::eng"
  NoConfig,        \* localed has no owner, or no X11 layouts
  LocaleSources    \* the sources of the locales that localed reports

ASSUME ManagerAssumption ==
  /\ DefaultEngine \in Engines
  /\ LocaleSources \in Seq(Source)

Keymap(g) == [layouts |-> g.layouts, index |-> g.index, by |-> "kiosk"]

HasGroups(m) == m.groups # <<>>
Selected(m)  == m.groups[m.index + 1]
Least(S)     == CHOOSE k \in S : \A j \in S : k <= j

-----------------------------------------------------------------------------
(* Activation.                                                             *)

\* kiosk_input_engine_manager_activate_engine
EngineStarts(e, n) == e.loaded /\ n \in e.known /\ e.up

CanActivate(e, g) ==
  /\ EnsureLayout(g, e.known).layouts # <<>>
  /\ g.engine # NoEngine => EngineStarts(e, g.engine)

\* kiosk_input_source_group_activate of group k: for a layout group the default
\* engine is asked for and whether it starts is ignored.
Activate(m, e, k) ==
  LET g == EnsureLayout(m.groups[k], e.known)
      n == IF g.engine = NoEngine THEN DefaultEngine ELSE g.engine
      tried == [m EXCEPT !.groups[k] = g]
  IN  IF CanActivate(e, g)
      THEN [tried EXCEPT !.ok = TRUE,
                         !.keymap = Keymap(g),
                         !.asked = IF EngineStarts(e, n) THEN n ELSE @]
      ELSE [tried EXCEPT !.ok = FALSE]

\* The groups at S after activate was called on each of them and failed.
Tried(m, e, S) ==
  [m EXCEPT !.groups = [k \in DOMAIN @ |->
                          IF k \in S THEN EnsureLayout(@[k], e.known) ELSE @[k]]]

Able(m, e, S) == {k \in S : CanActivate(e, m.groups[k])}

\* Activate the preferred group if it is one of S and can be, the first group of
\* S that can be otherwise, and select it.
ActivateOneOf(m, e, S, preferred) ==
  LET able == Able(m, e, S)
      k    == IF preferred \in able THEN preferred ELSE Least(able)
      passed == IF k = preferred THEN {} ELSE {j \in S : j < k}
  IN  IF able = {}
      THEN [Tried(m, e, S) EXCEPT !.ok = FALSE]
      ELSE [Activate(Tried(m, e, passed), e, k) EXCEPT !.index = k - 1, !.sync = TRUE]

ActivateFirstEvenLocked(m, e) == ActivateOneOf(m, e, DOMAIN m.groups, 0)
ActivateFirst(m, e) ==
  IF e.locked THEN [m EXCEPT !.ok = FALSE]
  ELSE ActivateOneOf(m, e, DOMAIN m.groups, 0)

ActivateWithEngine(m, e, n) ==
  ActivateOneOf(m, e, {k \in DOMAIN m.groups : m.groups[k].engine = n}, m.index + 1)

\* The group that is activated has layout l selected; an engine's group counts
\* as having the one layout its engine asked for.
ActivateWithLayout(m, e, l) ==
  LET holders == {k \in DOMAIN m.groups : HoldsLayout(m.groups[k], l)}
      able    == Able(m, e, holders)
      k       == IF m.index + 1 \in able THEN m.index + 1 ELSE Least(able)
  IN  IF e.locked \/ able = {}
      THEN [m EXCEPT !.ok = FALSE]
      ELSE ActivateOneOf([m EXCEPT !.groups[k] = SwitchToLayout(@, l)], e, {k}, k)

ActivateBest(m, e, n, l) ==
  LET wanted == IF n # NoEngine THEN ActivateWithEngine(m, e, n)
                ELSE IF l # NoLayout THEN ActivateWithLayout(m, e, l)
                ELSE [m EXCEPT !.ok = FALSE]
  IN  IF e.locked THEN [m EXCEPT !.ok = FALSE]
      ELSE IF wanted.ok THEN wanted
      ELSE ActivateFirst(wanted, e)

\* kiosk_input_sources_manager_activate_input_sources
ActivateSelected(m, e) ==
  IF e.locked \/ ~HasGroups(m) THEN m
  ELSE LET done == Activate(m, e, m.index + 1)
       IN  [done EXCEPT !.sync = @ \/ done.ok]

-----------------------------------------------------------------------------
(* Configuration.                                                          *)

ReplacedInPlace(m, c) == [m EXCEPT !.groups = GroupsOf(c)]
Replaced(m, c) == [m EXCEPT !.groups = GroupsOf(c), !.index = 0]

\* Keep the source that was selected before, when the new list still has it.
SetInputSources(m, e, c) ==
  LET old == IF HasGroups(m) THEN Selected(m) ELSE NewGroup
  IN  [ActivateBest(Replaced(m, c), e, old.engine, SelectedLayout(old))
         EXCEPT !.sync = TRUE]

SetFromLocalesUnpublished(m, e, c) ==
  LET new == Replaced(m, c)
      set == IF e.locked THEN [new EXCEPT !.ok = TRUE] ELSE ActivateFirst(new, e)
  IN  [set EXCEPT !.source = "override"]
SetFromLocales(m, e, c) ==
  LET new == Replaced(m, c)
      set == IF e.locked THEN [new EXCEPT !.ok = TRUE] ELSE ActivateFirst(new, e)
  IN  [set EXCEPT !.source = "override", !.sync = TRUE]

\* Layouts that cannot be activated are given up for those of the locale.
SetFromSystem(m, e, system) ==
  LET set == ActivateFirst(Replaced(m, system), e)
      own == IF set.ok THEN set ELSE SetFromLocales(set, e, LocaleSources)
  IN  IF system = NoConfig
      THEN [m EXCEPT !.ok = FALSE]
      ELSE [own EXCEPT !.source = "system", !.sync = TRUE]

SetFromSession(m, e, session, system) ==
  LET set == SetInputSources(m, e, session)
  IN  IF set.ok
      THEN [set EXCEPT !.source = "session"]
      ELSE SetFromSystem([set EXCEPT !.source = "system"], e, system)

-----------------------------------------------------------------------------
(* Switching.                                                              *)

\* Group k after one of its switch_to_..._layout methods made it g.
SwitchedUnloaded(m, k, g) == [m EXCEPT !.groups[k] = g]
Switched(m, k, g) ==
  [m EXCEPT !.groups[k] = g, !.keymap = IF g.layouts = <<>> THEN @ ELSE Keymap(g)]

CycleForward(m, e) ==
  ActivateSelected(
    IF m.index + 1 < Len(m.groups)
    THEN [m EXCEPT !.index = @ + 1]
    ELSE Switched([m EXCEPT !.index = 0], 1, SwitchToFirst(m.groups[1])), e)

CycleBackwardToFirst(m, e) ==
  LET last == Len(m.groups)
  IN  ActivateSelected(
        IF m.index > 0
        THEN [m EXCEPT !.index = @ - 1]
        ELSE Switched([m EXCEPT !.index = last - 1], last, SwitchToFirst(m.groups[last])), e)
CycleBackward(m, e) ==
  LET last == Len(m.groups)
  IN  ActivateSelected(
        IF m.index > 0
        THEN [m EXCEPT !.index = @ - 1]
        ELSE Switched([m EXCEPT !.index = last - 1], last, SwitchToLast(m.groups[last])), e)

SwitchToNextSourceUnpublished(m, e) ==
  LET g == Selected(m)
  IN  IF ~HasGroups(m) THEN m
      ELSE IF HasNext(g) THEN Switched(m, m.index + 1, SwitchToNext(g))
                         ELSE CycleForward(m, e)
SwitchToNextSource(m, e) ==
  LET g == Selected(m)
      moved == IF HasNext(g) THEN Switched(m, m.index + 1, SwitchToNext(g))
                             ELSE CycleForward(m, e)
  IN  IF HasGroups(m) THEN [moved EXCEPT !.sync = TRUE] ELSE m

SwitchToPreviousSource(m, e) ==
  LET g == Selected(m)
      moved == IF HasPrevious(g) THEN Switched(m, m.index + 1, SwitchToPrevious(g))
                                 ELSE CycleBackward(m, e)
  IN  IF HasGroups(m) THEN [moved EXCEPT !.sync = TRUE] ELSE m

\* SelectInputSource on an exported input source object.
SelectSource(m, e, s) ==
  ActivateBest(m, e, IF s.type = "ibus" THEN s.id ELSE NoEngine,
                     IF s.type = "xkb"  THEN s.id ELSE NoLayout)

-----------------------------------------------------------------------------
(* What the engine manager reports.                                        *)

\* Only the engine groups ahead of the first layout group, and ahead of the
\* selected group, have priority; the one that starts is not made the selected
\* group.
OnlyActivateHigherPriority(m, e) ==
  LET leading == {k \in 1..m.index : \A j \in 1..k : m.groups[j].engine # NoEngine}
  IN  IF Able(m, e, leading) # {}
      THEN [ActivateOneOf(m, e, leading, 0) EXCEPT !.index = m.index]
      ELSE Tried(m, e, leading)
MaybeActivateHigherPriority(m, e) ==
  LET leading == {k \in 1..m.index : \A j \in 1..k : m.groups[j].engine # NoEngine}
  IN  IF Able(m, e, leading) # {}
      THEN [ActivateOneOf(m, e, leading, 0) EXCEPT !.index = m.index]
      ELSE ActivateSelected(Tried(m, e, leading), e)

OnIsLoadedChanged(m, e) ==
  IF e.locked THEN m
  ELSE IF e.loaded THEN MaybeActivateHigherPriority(m, e)
  ELSE ActivateFirst(m, e)

OnActiveEngineChanged(m, e, n) ==
  IF ~e.loaded \/ e.locked THEN m
  ELSE IF n = NoEngine THEN ActivateFirst(m, e)
  ELSE ActivateWithEngine(m, e, n)

-----------------------------------------------------------------------------
(* What the D-Bus service shows.                                           *)

SelectedSource(m) ==
  LET g == Selected(m)
  IN  IF g.engine # NoEngine THEN Ibus(g.engine) ELSE Xkb(SelectedLayout(g))

=============================================================================
