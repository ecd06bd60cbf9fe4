------------------------------ MODULE WindowConfig ------------------------------
(***************************************************************************)
(* The configuration of windows (compositor/kiosk-window-config.c): a key  *)
(* file, read again when it changes, says where windows are put, to which  *)
(* monitor or area they are locked and which of them reserve a strip of    *)
(* the screen. It is asked when a window is created, once again when it is *)
(* first configured, and when it is mapped; afterwards windows follow the  *)
(* monitors, and the struts follow both.                                   *)
(***************************************************************************)
EXTENDS WindowConstraints, Sequences

CONSTANTS Windows,       \* the windows there may be, each of them once
          InitialType,   \* the type each of them is created with
          Rigid,         \* those that cannot be resized or are override-redirect
          Layouts,       \* where the monitors may be: connectors to geometries
          Places,        \* rectangles mutter or the application may choose
          Reach,         \* bound: how far a person drags a window or an edge at once
          MaxEvents,     \* bound: drags, and changes of files, monitors and places, in all
          Configs,       \* contents of window-config.ini that parse
          SystemFile,    \* the file of the system, or Unreadable
          Unreadable,    \* a file that is not there or does not parse
          Invalid        \* a value that is not of the type its key has

\* A key file is a sequence of sections. Which titles, classes, ids and tags a section
\* matches is the set of windows it may apply to.
Types == {"normal", "dialog", "desktop", "dock", "splash"}
ASSUME ConfigurationOfWindows ==
  /\ InitialType \in [Windows -> Types]
  /\ \A l \in Layouts : DOMAIN l # {} /\ \A c \in DOMAIN l : l[c] \in Rect /\ ~IsEmpty(l[c])
  /\ Places \subseteq Rect
  /\ Reach \in Nat /\ MaxEvents \in Nat
  /\ Unreadable \notin Configs
  /\ SystemFile \in Configs \cup {Unreadable}

\* What GLib's key file finds for a key is of the type asked for, or is refused.
ASSUME ConfigsAreTyped ==
  \A c \in Configs :
    /\ Len(c) \in Nat /\ DOMAIN c = 1..Len(c)
    /\ \A i \in DOMAIN c : \A key \in DOMAIN c[i].set :
         \/ c[i].set[key] = Invalid
         \/ /\ key \in {"set-x", "set-y"} => c[i].set[key] \in Int
            /\ key \in {"set-width", "set-height"} => c[i].set[key] \in Nat
            /\ key \in {"lock-on-area", "lock-on-monitor-area"} => c[i].set[key] \in Rect
            /\ key = "set-fullscreen" => c[i].set[key] \in BOOLEAN
            /\ key = "set-window-type" => c[i].set[key] \in Types

VARIABLES
  disk, unread, watched,      \* the user's file; a change to be told of; the monitor of it
  config,                     \* config_key_file
  layout,                     \* the monitors
  phase,                      \* each window: "new", "created", "mapped", "gone"
  type, frame, fullscreen, above, hidden, locks,   \* what mutter knows of each
  initial,                    \* window_initial_config
  output,                     \* windows_on_monitors
  lockedMonitors, lockedAreas, lockedMoves, lockedResizes,  \* the tables of constraints
  strutSides,                 \* window_struts
  struts,                     \* the struts in effect on every workspace
  events                      \* how much has happened so far

fileVars   == <<disk, unread, watched, config>>
mutterVars == <<phase, type, frame, fullscreen, above, hidden, locks>>
tableVars  == <<initial, output, lockedMonitors, lockedAreas, lockedMoves, lockedResizes,
                strutSides>>
vars == <<fileVars, layout, mutterVars, tableVars, struts, events>>

NoLocks == [monitor |-> FALSE, relative |-> Nowhere, absolute |-> Nowhere,
            move |-> FALSE, resize |-> FALSE]

Live == {w \in Windows : phase[w] \in {"created", "mapped"}}

With(f, w, value) == [x \in DOMAIN f \cup {w} |-> IF x = w THEN value ELSE f[x]]
Without(f, w) == [x \in DOMAIN f \ {w} |-> f[x]]

-----------------------------------------------------------------------------
(* What the configuration says of a window, given the type it has by then. *)

\* match_window: a section without match-window-type matches every type.
Matches(w, t, section) ==
  /\ w \in section.windows
  /\ section.type \in {"any", t}

\* Sections that have the key, and the last of them.
Asked(w, t, key) == {i \in DOMAIN config : Matches(w, t, config[i]) /\ key \in DOMAIN config[i].set}
Final(S) == CHOOSE i \in S : \A j \in S : j <= i
Says(w, t, key) == config[Final(Asked(w, t, key))].set[key]

\* Once any section has a value for the key, one that is invalid counts as FALSE.
BooleanFor(w, t, key, default) ==
  IF \A i \in Asked(w, t, key) : config[i].set[key] = Invalid THEN default
  ELSE Says(w, t, key) = TRUE

\* A value that does not parse is as good as none; an earlier section does not help.
ValueFor(w, t, key, default) ==
  IF Asked(w, t, key) = {} \/ Says(w, t, key) = Invalid THEN default ELSE Says(w, t, key)

\* apply_config, where each section overrides the one before by what is valid in it.
Applied(w, t, key, default) ==
  LET valid == {i \in Asked(w, t, key) : config[i].set[key] # Invalid}
  IN  IF valid = {} THEN default ELSE config[Final(valid)].set[key]

MonitorSized(w) == fullscreen[w] \/ \E c \in DOMAIN layout : frame[w] = layout[c]

CanMakeFullscreen(w) == w \notin Rigid /\ type[w] = "normal"

\* Another window of the tab list that fills a monitor keeps this one from doing so.
WantsWindowFullscreen(w) ==
  CanMakeFullscreen(w) /\ \A v \in Live \ {w} : ~MonitorSized(v)

InitialFullscreen(w) == Applied(w, type[w], "set-fullscreen", WantsWindowFullscreen(w))

InitialRect(w) ==
  [x      |-> Applied(w, type[w], "set-x", frame[w].x),
   y      |-> Applied(w, type[w], "set-y", frame[w].y),
   width  |-> Applied(w, type[w], "set-width", frame[w].width),
   height |-> Applied(w, type[w], "set-height", frame[w].height)]

\* External: the screen is as large as its monitors reach.
IsScreenSized(r) ==
  /\ r.x = 0 /\ r.y = 0
  /\ r.width \in {layout[c].x + layout[c].width : c \in DOMAIN layout}
  /\ r.height \in {layout[c].y + layout[c].height : c \in DOMAIN layout}
  /\ \A c \in DOMAIN layout : /\ layout[c].x + layout[c].width <= r.width
                               /\ layout[c].y + layout[c].height <= r.height

WantsWindowAbove(w, now) ==
  BooleanFor(w, type[w], "set-above",
             ~IsScreenSized(now) /\ \A c \in DOMAIN layout : now # layout[c])

WantedType(w) == ValueFor(w, type[w], "set-window-type", type[w])

-----------------------------------------------------------------------------
(* Monitors and struts.                                                    *)

HomeIn(w, monitors) ==
  IF w \in DOMAIN output /\ output[w] \in DOMAIN monitors THEN monitors[output[w]] ELSE Nowhere

Home(w) == HomeIn(w, layout)

\* Mutated: forgets windows locked to an area.
IsLockedOnMonitor(w) == w \in lockedMonitors

IsLocked(w) == w \in lockedMonitors \cup DOMAIN lockedAreas

\* External: meta_window_move_to_monitor keeps the distance from the corner of the
\* monitor the window was on. (Mutter may then move it once more: see Moved.)
MovedTo(r, to) ==
  LET from == {g \in {layout[c] : c \in DOMAIN layout} : Overlap(g, r)}
      old  == IF from = {} THEN to ELSE CHOOSE g \in from : TRUE
  IN  [r EXCEPT !.x = @ + to.x - old.x, !.y = @ + to.y - old.y]

\* External: where a fullscreen window is, on its monitor or on any.
Filled(w) == IF Home(w) # Nowhere THEN {Home(w)} ELSE {layout[c] : c \in DOMAIN layout}

StrutIsTooLarge(side, r, monitor) ==
  IF side \in {"top", "bottom"}
  THEN r.height > (monitor.height * 75) \div 100
  ELSE r.width > (monitor.width * 75) \div 100

\* One for each monitor the window overlaps; the thick ones are left out.
StrutsOf(sides, frames, monitors) ==
  { [side |-> sides[p[1]], rect |-> Intersect(frames[p[1]], monitors[p[2]])] :
      p \in {q \in (DOMAIN sides) \X (DOMAIN monitors) :
               /\ Overlap(frames[q[1]], monitors[q[2]])
               /\ ~StrutIsTooLarge(sides[q[1]], Intersect(frames[q[1]], monitors[q[2]]),
                                   monitors[q[2]])} }

\* Mutated: connected to size-changed only.
OnWindowStrutsChangedSize(w, frames) ==
  LET Size(r) == <<r.width, r.height>>
  IN  struts' = IF w \in DOMAIN strutSides /\ Size(frames[w]) # Size(frame[w])
                THEN StrutsOf(strutSides, frames, layout) ELSE struts

\* position-changed and size-changed are listened to on windows with a strut.
OnWindowStrutsChanged(w, frames) ==
  struts' = IF w \in DOMAIN strutSides THEN StrutsOf(strutSides, frames, layout) ELSE struts

-----------------------------------------------------------------------------
(* The file.                                                               *)

\* Mutated: takes the new key file although nothing was read into it.
LoadAnyway(before) == IF disk \in Configs THEN disk ELSE SystemFile

Load(before) ==
  IF disk \in Configs THEN disk
  ELSE IF SystemFile \in Configs THEN SystemFile
  ELSE before

FileChanges(new) ==
  /\ disk' = new
  /\ unread' = watched
  /\ UNCHANGED <<watched, config, layout, mutterVars, tableVars, struts>>

\* on_file_changed is not interested in a file that is removed.
FileGoes ==
  /\ disk' = Unreadable
  /\ UNCHANGED <<unread, watched, config, layout, mutterVars, tableVars, struts>>

\* The file as it is by now; without any that can be read the old configuration stays.
OnFileChanged ==
  /\ unread
  /\ unread' = FALSE
  /\ config' = Load(config)
  /\ UNCHANGED <<disk, watched, layout, mutterVars, tableVars, struts>>

-----------------------------------------------------------------------------
(* A window's life.                                                        *)

WantedLocks(w, t) ==
  [monitor  |-> BooleanFor(w, t, "lock-on-monitor", FALSE),
   relative |-> ValueFor(w, t, "lock-on-monitor-area", Nowhere),
   absolute |-> ValueFor(w, t, "lock-on-area", Nowhere),
   move     |-> BooleanFor(w, t, "lock-move", FALSE),
   resize   |-> BooleanFor(w, t, "lock-resize", FALSE)]

\* The second area takes the place of the first in the table, but not on the window.
OnWindowCreated(w, r) ==
  LET t      == InitialType[w]
      wanted == WantedLocks(w, t)
  IN  /\ phase[w] = "new"
      /\ phase' = [phase EXCEPT ![w] = "created"]
      /\ frame' = [frame EXCEPT ![w] = r]
      /\ initial' = initial \cup {w}
      /\ output' = IF Asked(w, t, "set-on-monitor") = {} THEN output
                   ELSE With(output, w, Says(w, t, "set-on-monitor"))
      /\ locks' = [locks EXCEPT ![w] = wanted]
      /\ lockedMonitors' = lockedMonitors \cup {v \in {w} : wanted.monitor}
      /\ lockedAreas' = IF wanted.absolute # Nowhere THEN With(lockedAreas, w, "absolute")
                        ELSE IF wanted.relative # Nowhere THEN With(lockedAreas, w, "relative")
                        ELSE lockedAreas
      /\ lockedMoves' = lockedMoves \cup {v \in {w} : wanted.move}
      /\ lockedResizes' = lockedResizes \cup {v \in {w} : wanted.resize}
      /\ UNCHANGED <<fileVars, layout, type, fullscreen, above, hidden, strutSides, struts>>

\* The first configure only; mutter takes over what the configuration makes of it.
OnWindowConfigure(w) ==
  /\ w \in Live /\ w \in initial
  /\ initial' = initial \ {w}
  /\ fullscreen' = [fullscreen EXCEPT ![w] = InitialFullscreen(w)]
  /\ \E r \in IF InitialFullscreen(w) THEN Filled(w) ELSE {InitialRect(w)} :
       frame' = [frame EXCEPT ![w] = r]
  /\ OnWindowStrutsChanged(w, frame')
  /\ UNCHANGED <<fileVars, layout, phase, type, above, hidden, locks, output,
                 lockedMonitors, lockedAreas, lockedMoves, lockedResizes, strutSides>>

\* setup_window_struts, which looks for the type the window has been given.
SetupWindowStruts(w, t, frames) ==
  LET side == ValueFor(w, t, "set-strut", Nowhere)
  IN  IF side # Nowhere /\ t = "dock"
      THEN /\ strutSides' = With(strutSides, w, side)
           /\ struts' = StrutsOf(strutSides', frames, layout)
      ELSE UNCHANGED <<strutSides, struts>>

\* ensure_window_state: what cannot be made fullscreen stays as it is.
Ensured(w) ==
  LET wants == IF w \in initial THEN InitialFullscreen(w) ELSE fullscreen[w]
  IN  wants /\ (fullscreen[w] \/ CanMakeFullscreen(w))

\* Where that leaves the window: create_from_window starts from its own rectangle.
EnsuredPlaces(w) ==
  IF Ensured(w) THEN Filled(w)
  ELSE IF w \in initial THEN {InitialRect(w)}
  ELSE {frame[w]}

\* A window that was never configured is configured now. It goes to its monitor if
\* that is there; if it is not, the window is left as it is, shown or hidden.
ApplyInitialConfig(w) ==
  /\ initial' = initial \ {w}
  /\ fullscreen' = [fullscreen EXCEPT ![w] = Ensured(w)]
  /\ \E r \in EnsuredPlaces(w) :
       /\ above' = [above EXCEPT ![w] = @ \/ (~Ensured(w) /\ WantsWindowAbove(w, r))]
       /\ frame' = [frame EXCEPT ![w] = IF Home(w) = Nowhere \/ Ensured(w) THEN r
                                        ELSE MovedTo(r, Home(w))]
  /\ hidden' = IF Home(w) # Nowhere /\ IsLocked(w) THEN hidden \ {w} ELSE hidden
  /\ type' = [type EXCEPT ![w] = WantedType(w)]
  /\ SetupWindowStruts(w, type'[w], frame')
  /\ UNCHANGED <<fileVars, layout, locks, output, lockedMonitors, lockedAreas,
                 lockedMoves, lockedResizes>>

\* The compositor maps a window once; one that is hidden is not put on the stage.
MapWindow(w) ==
  /\ phase[w] = "created"
  /\ phase' = [phase EXCEPT ![w] = "mapped"]
  /\ ApplyInitialConfig(w)

StrutsWithout(w) ==
  IF w \in DOMAIN strutSides
  THEN /\ strutSides' = Without(strutSides, w)
       /\ struts' = StrutsOf(strutSides', frame, layout)
  ELSE UNCHANGED <<strutSides, struts>>

\* Mutated: takes off what the file asks for by now.
LocksLeftByConfig(w) ==
  LET known == WantedLocks(w, type[w])
  IN  [monitor  |-> locks[w].monitor /\ ~known.monitor,
       relative |-> IF known.relative # Nowhere THEN Nowhere ELSE locks[w].relative,
       absolute |-> IF known.absolute # Nowhere THEN Nowhere ELSE locks[w].absolute,
       move     |-> locks[w].move /\ ~known.move,
       resize   |-> locks[w].resize /\ ~known.resize]

\* Only what the tables know is taken off.
LocksLeft(w) ==
  LET Known(kind) == w \in DOMAIN lockedAreas /\ lockedAreas[w] = kind
  IN  [monitor  |-> locks[w].monitor /\ w \notin lockedMonitors,
       relative |-> IF Known("relative") THEN Nowhere ELSE locks[w].relative,
       absolute |-> IF Known("absolute") THEN Nowhere ELSE locks[w].absolute,
       move     |-> locks[w].move /\ w \notin lockedMoves,
       resize   |-> locks[w].resize /\ w \notin lockedResizes]

OnWindowUnmanaged(w) ==
  /\ w \in Live
  /\ phase' = [phase EXCEPT ![w] = "gone"]
  /\ output' = Without(output, w)
  /\ locks' = [locks EXCEPT ![w] = LocksLeft(w)]
  /\ lockedMonitors' = lockedMonitors \ {w}
  /\ lockedAreas' = Without(lockedAreas, w)
  /\ lockedMoves' = lockedMoves \ {w}
  /\ lockedResizes' = lockedResizes \ {w}
  /\ StrutsWithout(w)
  /\ initial' = initial \ {w}
  /\ frame' = [frame EXCEPT ![w] = Nowhere]
  /\ hidden' = hidden \ {w}
  /\ UNCHANGED <<fileVars, layout, type, fullscreen, above>>

-----------------------------------------------------------------------------
(* Monitors, mutter and the person.                                        *)

\* update_window_on_monitor, for every window locked to a monitor or to an area.
OnMonitorsChanged(monitors) ==
  LET HasOutput(w) == IsLocked(w) /\ w \in DOMAIN output
      Found(w)     == HasOutput(w) /\ HomeIn(w, monitors) # Nowhere
  IN  /\ monitors # layout
      /\ layout' = monitors
      /\ frame' = [w \in Windows |->
                     IF ~Found(w) THEN frame[w]
                     ELSE IF fullscreen[w] THEN HomeIn(w, monitors)
                     ELSE MovedTo(frame[w], HomeIn(w, monitors))]
      /\ hidden' = (hidden \ {w \in Windows : Found(w)})
                   \cup {w \in Windows : HasOutput(w) /\ ~Found(w)}
      /\ struts' = StrutsOf(strutSides, frame', monitors)
      /\ UNCHANGED <<fileVars, phase, type, fullscreen, above, locks, tableVars>>

\* External: the application or mutter chooses another place for the window.
Moved(w, r) ==
  /\ w \in Live /\ ~fullscreen[w]
  /\ frame' = [frame EXCEPT ![w] = r]
  /\ OnWindowStrutsChanged(w, frame')
  /\ UNCHANGED <<fileVars, layout, phase, type, fullscreen, above, hidden, locks, tableVars>>

\* What a person may ask for: another place, or another extent on one axis or both,
\* by dragging the edge at its end or the one at its start.
Drags == (-Reach)..Reach

Dragged(current) ==
  { [x |-> current.x + dx, y |-> current.y + dy,
     width |-> current.width, height |-> current.height] : dx \in Drags, dy \in Drags }

Spans(start, length) ==
  { span \in { <<start, length + d>> : d \in Drags }
             \cup { <<start + d, length - d>> : d \in Drags } : span[2] > 0 }

Resized(current) ==
  { [x |-> h[1], y |-> v[1], width |-> h[2], height |-> v[2]] :
      h \in Spans(current.x, current.width), v \in Spans(current.y, current.height) }

UserChanges(w, r, flags) ==
  /\ phase[w] = "mapped" /\ w \notin hidden /\ ~fullscreen[w]
  /\ frame' = [frame EXCEPT ![w] = Constrained(r, locks[w], frame[w], Home(w), flags)]
  /\ OnWindowStrutsChanged(w, frame')
  /\ UNCHANGED <<fileVars, layout, phase, type, fullscreen, above, hidden, locks, tableVars>>

UserMoves(w) ==
  phase[w] = "mapped" /\ \E r \in Dragged(frame[w]) : UserChanges(w, r, {"move"})

UserResizes(w) ==
  /\ phase[w] = "mapped"
  /\ \E r \in Resized(frame[w]), flags \in {{"resize"}, {"move", "resize"}} :
       UserChanges(w, r, flags)

-----------------------------------------------------------------------------
Init ==
  /\ disk \in Configs \cup {Unreadable}
  /\ unread = FALSE
  /\ watched = (disk \in Configs)
  /\ config = Load(<<>>)
  /\ layout \in Layouts
  /\ phase = [w \in Windows |-> "new"]
  /\ type = InitialType
  /\ frame = [w \in Windows |-> Nowhere]
  /\ fullscreen = [w \in Windows |-> FALSE]
  /\ above = [w \in Windows |-> FALSE]
  /\ hidden = {}
  /\ locks = [w \in Windows |-> NoLocks]
  /\ initial = {}
  /\ output = [w \in {} |-> 0]
  /\ lockedMonitors = {}
  /\ lockedAreas = [w \in {} |-> 0]
  /\ lockedMoves = {}
  /\ lockedResizes = {}
  /\ strutSides = [w \in {} |-> 0]
  /\ struts = {}
  /\ events = 0

Outside ==
  /\ events < MaxEvents /\ events' = events + 1
  /\ \/ \E new \in Configs \cup {Unreadable} : FileChanges(new)
     \/ FileGoes
     \/ \E monitors \in Layouts : OnMonitorsChanged(monitors)
     \/ \E w \in Windows : \/ \E r \in Places : Moved(w, r)
                           \/ UserMoves(w)
                           \/ UserResizes(w)

Inside ==
  /\ \/ OnFileChanged
     \/ \E w \in Windows : \/ \E r \in Places : OnWindowCreated(w, r)
                           \/ OnWindowConfigure(w)
                           \/ MapWindow(w)
                           \/ OnWindowUnmanaged(w)
  /\ UNCHANGED events

Next == Outside \/ Inside

Spec == Init /\ [][Next]_vars

-----------------------------------------------------------------------------
(* Properties.                                                             *)

Connectors == UNION {DOMAIN l : l \in Layouts}

TypeOK ==
  /\ disk \in Configs \cup {Unreadable} /\ unread \in BOOLEAN /\ watched \in BOOLEAN
  /\ config \in Configs \cup {<<>>}
  /\ layout \in Layouts
  /\ phase \in [Windows -> {"new", "created", "mapped", "gone"}]
  /\ type \in [Windows -> Types]
  /\ frame \in [Windows -> Rect \cup {Nowhere}]
  /\ \A w \in Live : frame[w] # Nowhere
  /\ fullscreen \in [Windows -> BOOLEAN] /\ above \in [Windows -> BOOLEAN]
  /\ hidden \subseteq Live
  /\ locks \in [Windows -> Locks]
  /\ events \in 0..MaxEvents

\* The tables are keyed by the address of a window, so none may mention one that has
\* gone. And a window that goes keeps none of the constraints it was created with,
\* whatever the file says by then and whatever type the window has been given, unless
\* it was locked to areas of both kinds: then the table knows the second only, and the
\* first stays on the window (on_window_created, on_window_unmanaged).
LockedToBothAreas(w) == locks[w].relative # Nowhere /\ locks[w].absolute # Nowhere

ConstraintsGo ==
  /\ [](initial \cup DOMAIN output \cup lockedMonitors \cup DOMAIN lockedAreas
          \cup lockedMoves \cup lockedResizes \cup DOMAIN strutSides \subseteq Live)
  /\ [][\A w \in Live \ Live' : ~LockedToBothAreas(w) => locks'[w] = NoLocks]_vars

\* The struts in effect are always those of the docks there are, where they are and on
\* the monitors there are: whoever moves a dock, whatever becomes of a monitor, and
\* whichever of several docks goes (update_workspace_struts and what calls it).
StrutsCurrent == struts = StrutsOf(strutSides, frame, layout)

\* A window locked on the monitor it is set on, or on an area of that monitor, "will be
\* hidden if the monitor is removed and shown again when the monitor is reconnected"
\* (CONFIG.md), whenever that is, before or after it is mapped, and no other window is
\* hidden. Two things are left out. A window that is created while its monitor is away
\* is not hidden before the next change of the monitors (update_window_on_monitor). Of
\* windows with lock-on-area alone nothing is asked here: see AreaLeavesShown.
LockedOnMonitor(w) == locks[w].monitor \/ locks[w].relative # Nowhere
LockedOnAreaOnly(w) == locks[w].absolute # Nowhere /\ ~LockedOnMonitor(w)

IsAway(w) == LockedOnMonitor(w) /\ w \in DOMAIN output /\ Home(w) = Nowhere

HiddenWhileAway ==
  [][\A w \in Live \cap Live' : ~LockedOnAreaOnly(w) =>
       /\ w \in hidden' => IsAway(w)'
       /\ IsAway(w)' /\ (~IsAway(w) \/ w \in hidden) => w \in hidden']_vars

\* "Unlike lock-on-monitor-area, this option does not require set-on-monitor and the
\* window will not be hidden when monitors are added or removed" (CONFIG.md, of
\* lock-on-area). update_window_on_monitor looks the window up in a table that holds
\* areas of either kind.
AreaLeavesShown == \A w \in Live : LockedOnAreaOnly(w) => w \notin hidden

\* What a person does to a window with a mouse stays within its locks: lock-move keeps
\* the place, lock-resize the size, and a window inside all it is locked to stays inside
\* the last of these, however the constraints follow one another and whatever the monitors
\* did. (With lock-resize but not lock-move, dragging the left edge inwards moves the
\* window out of the area at the right; a window outside one of its areas may be resized
\* to nothing: hence the premises.)
Binds(area) == area # Nowhere /\ ~IsEmpty(area)

OwnMonitor(w) == IF locks[w].monitor THEN Home(w) ELSE Nowhere
OwnArea(w) == OnMonitor(locks[w].relative, Home(w))

LastBound(w) ==
  IF Binds(locks[w].absolute) THEN locks[w].absolute
  ELSE IF Binds(OwnArea(w)) THEN OwnArea(w)
  ELSE OwnMonitor(w)

IsInside(w) ==
  /\ ~IsEmpty(frame[w])
  /\ \A area \in {OwnMonitor(w), OwnArea(w), locks[w].absolute} :
       Binds(area) => Contains(area, frame[w])

StaysLocked(w) ==
  /\ locks[w].move => frame'[w].x = frame[w].x /\ frame'[w].y = frame[w].y
  /\ locks[w].resize => /\ frame'[w].width = frame[w].width
                        /\ frame'[w].height = frame[w].height
  /\ IsInside(w) /\ Binds(LastBound(w)) /\ (locks[w].resize => locks[w].move)
     => Contains(LastBound(w), frame'[w])

LocksHold ==
  [][\A w \in Live \cap Live' : StaysLocked(w) \/ ~(UserMoves(w) \/ UserResizes(w))]_vars
=============================================================================
