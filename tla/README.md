# GNOME Kiosk in TLA+

GNOME Kiosk is a compositor for single-application sessions: a mutter plugin
(`compositor/`, C on GLib) with a handful of D-Bus services, and some small programs around
it. Nearly everything in the compositor runs on one main loop.
What interleaves are the callbacks: D-Bus calls, gsettings and backend signals, timers, and the
answers of asynchronous calls to IBus, localed, GNOME Session and the disk; beside them two kinds of threads read and write
pictures. This directory models
the parts of it where the order of those steps decides whether the program is right: **the input sources** (keyboard layouts and
input method engines), **the screen lock**, **the window tracker** with the applications it finds, **the services for clients of
GNOME Shell** (accelerators and screenshots), **the window configuration**, and **the desktop**: backgrounds, brightness,
magnifier and automounting.

## 1. Inventory

"State" is what survives a callback, "correct" is what the component owes the others.

### Input sources: modelled

`kiosk-input-sources-manager.c`, `kiosk-input-source-group.c`, `kiosk-input-engine-manager.c`,
`kiosk-gobject-utils.c`, `dbus-interfaces/org.gnome.Kiosk.xml`.

- *State.* The manager: an array of groups, the selected index, where the configuration came from
  (session, system, override), deferred callbacks. A group: an IBus engine or up to three XKB layouts with
  one selected. The engine manager: its connection to IBus, the engine table, is-loaded, active-engine.
- *Operations.* The six D-Bus methods, the two key bindings, reload on gsettings and localed changes,
  D-Bus synchronisation, and handlers for is-loaded and active-engine.
- *Interaction.* The manager asks a group to activate; the group gives the keymap to the backend and the
  engine to the engine manager; the engine manager sets the global engine of IBus; IBus signals it back,
  later; the manager takes that signal as a request to activate the group of the engine. The backend's keymap lock
  may be taken and released around all of it.
- *Hard.* Reloads and D-Bus synchronisation run 250 ms after what caused them; IBus signals arrive
  behind the state they report; IBus restarts while an answer is on its way; activation of a group can fail half way
  through a reload; list and index are replaced by one handler while others have work pending.
- *Correct.* The index stays inside the list and groups stay what XKB can hold. Clients see the
  manager's list and selection or will. The keymap is the selected group's. A locked keymap is left
  alone. An override holds. After IBus comes back, the engine manager is ready and IBus runs
  the selected engine. Callers see the ordered list of the interface description.

### Screen lock and screensaver: modelled

`kiosk-screensaver.c`, `kiosk-screensaver-service.c`, `kiosk-session-presence.c`.

- *State.* The screensaver: active, locked, a group of actors with one per monitor, the grab of the stage, the opacity transition and
  the handlers connected to it. The service: the lock timer. The session presence: a proxy and a status.
- *Operations.* Lock, SetActive, input events, monitors-changed, presence changes, the lock timeout, the end of a
  transition, the settings for locking and animations.
- *Interaction.* The screensaver's status-changed signal, emitted when a fade has ended, drives ActiveChanged and the timer. Presence
  activates and deactivates through the service.
- *Hard.* Showing and hiding cut each other's fades short: hiding redirects the running transition, so that two completion handlers fire on it;
  showing ends it, and its handler never fires. The timer may outlive the showing that started it. Animations may be switched during a fade.
- *Correct.* What is active covers every monitor and holds the input; only an unlocking gesture or a caller unlocks; a shown
  screensaver locks if it should; a dismissed one leaves nothing behind; ActiveChanged ends up telling the truth.

### Window tracker, applications, introspection: modelled

`kiosk-window-tracker.c`, `kiosk-app.c`, `kiosk-app-system.c`, and of `kiosk-shell-introspect-service.c` the signals and what clients are answered.

- *State.* Window-to-application map, the focused application; per application its windows, the count of
  interesting ones (those in the taskbar) and its state; the app system's set of running ones; who listens to whom.
- *Operations.* A window is created, changes its class or application id, its place in the taskbar, its transient parent, is unmanaged; focus
  moves. A window finds its application by parent, class, sandbox, application id, process, X11 group, or gets one of its own.
- *Interaction.* An application that starts or stops running tells the tracker, which tells the app system; the tracker tells the
  introspection service, which tells its clients, who ask back.
- *Hard.* `tracked_window_changed` takes a window from one application and gives it to another while
  signals of both are connected; a state handler is connected at each tracking; the focused application is looked up
  in some handlers and not in others; the counter of interesting windows is unsigned.
- *Correct.* A window belongs to one application; the count is the number of interesting windows;
  an application is running exactly while it is in the running set and has an interesting window; the focused application is
  the focus window's; clients that ask when told know the windows and the focus.

### Screenshots and accelerators: modelled

`kiosk-screenshot.c`, `kiosk-shell-screenshot-service.c`, `kiosk-shell-service.c`.

- *State.* One `KioskScreenshot` with the stream and the picture of the call it serves; the task of the thread that writes; errors to be reported
  from idle callbacks. The table of grabbed accelerators with the client of each, a watch on the bus name of every such client; mutter's own table.
- *Operations.* Screenshots of the stage, an area, the window with the focus; the thread; the answer. Grabs and ungrabs, single and in lists; a client vanishes.
- *Interaction.* A call creates its file and hands the stream over; the thread takes stream and picture from the shared object, not from its call.
- *Hard.* A second call while the first is being written; captures and writes that fail; a client that leaves with calls on their way; lists that fail half way.
- *Correct.* Each call is answered, once; a file holds its own call's picture and is left alone afterwards; no call keeps the next from being
  taken. A key has one owner, whom the service knows and watches, and no other client can take it off.

### Window configuration: modelled

`kiosk-window-config.c`, `kiosk-area-constraint.c`, `kiosk-monitor-constraint.c`, `kiosk-lock-move-constraint.c`, `kiosk-lock-resize-constraint.c`.

- *State.* The key file; tables from windows to what was set up for them: waiting for the first configure, monitor, the four constraints, strut.
- *Operations.* A window is created, configured, mapped, unmanaged; monitors change; the file changes; a dock moves. Mutter asks the constraints what to
  make of every move and resize.
- *Hard.* The file may be another one, or the window of another type, at each of these; the tables are keyed by address; the constraints follow one another,
  each correcting what the last one left, for moves, resizes and resizes that move; monitors go and come back before and after a window is mapped.
- *Correct.* The tables know no window that has gone, and one that goes keeps no constraint; struts are those of the docks there are; windows locked to an absent monitor are hidden, no others; locks hold.

### Backgrounds, brightness, magnifier, automount: modelled

`kiosk-backgrounds.c`, `kiosk-brightness.c`, `kiosk-magnifier.c`, `kiosk-automount-manager.c`, and `kiosk-gobject-utils.c` for deferred callbacks.

- *State.* A background per monitor and the pictures being read for it; target, dimming and whether there is a backlight; the scale of the stage; whether volumes are listened to.
- *Operations.* Monitors change; settings change and are noticed later; callbacks run 250 ms after that; threads end; callers set target and dimming; volumes come, go, are mounted.
- *Hard.* A picture may be ready after its background was replaced, twice; one setting's notice reads the other setting as well; a volume appears between
  the switch that wants it mounted and the callback that starts listening.
- *Correct.* What is shown, lit, zoomed and listened to is what the settings say once they have been served; no volume is forgotten.

### Not modelled

- `kiosk-compositor.c`, `main.c`: wiring, start-up and window effects; that a window is mapped once, and configured then, is in the window configuration.
- `input-selector/`, `accessibility-panel/`, `kiosk-menu/`, `search-app/`, `kiosk-script/`: client programs
  and user interface. `data/`, `po/`, `scripts/`: packaging. `notification-daemon/` (Python): a client of its own, with no state shared with the compositor.

## 2. Plan

| order | modules | of | composed with | abstract specification |
|---|---|---|---|---|
| 1 | InputSourceGroup, InputSourcesManager, InputSources | input sources | engine manager, IBus, localed, lock | InputSourceList |
| 2 | Screensaver, ScreenLock | screensaver, its service, presence | Clutter, settings, monitors | |
| 3 | Applications, WindowTracker | tracker, app, app system | mutter, introspection service | |
| 4 | Screenshots, Accelerators, ShellServices | the services under names of GNOME Shell | D-Bus, threads | PictureFiles |
| 5 | MainLoop, Backgrounds, Brightness, Magnifier, Automount, Desktop | what follows monitors, settings and volumes | each other, by the main loop | |
| 6 | WindowConstraints, WindowConfig | placement and locking of windows | mutter, monitors, a person | |

All of these are written, checked and proved about; every invariant, action property and refinement that a run checks is a theorem as well. What could come next: what `set_input_sources`
and `select` keep for lists that are not simple (next and previous do not hold for them, see 6); the order of an application's windows; the notification daemon; D-Bus replies of the input sources; window effects of the compositor.

## 3. The modules

| module | models |
|---|---|
| `InputSourceGroup` | a group's methods and the loops that pack sources into groups, as functions |
| `InputSourceGrouping` | the add loops one iteration at a time, over every list of sources |
| `InputSourcesManager` | the manager's operations as functions on a record: what one handler may change |
| `InputSources` | the system: manager, callers, gsettings, localed, keymap lock, engine manager, IBus |
| `InputSourceList` | abstract: the ordered list with a selection of `org.gnome.Kiosk.xml` |
| `InputSourceCycle` | the manager on a quiet system, where it can be compared with that list |
| `Screensaver` | the screensaver's methods, and the service's handlers they run, as functions |
| `ScreenLock` | the system: callers, presence, the person, monitors, settings, fades, the lock timer |
| `Applications` | what the tracker, an application and the app system do with a window, as functions |
| `WindowTracker` | the system: mutter's signals about windows and focus, and a client that asks when told |
| `Accelerators` | grabs: the service's tables, mutter's, and clients that leave the bus |
| `Screenshots` | calls, the one `KioskScreenshot`, the thread that writes, and the answers |
| `PictureFiles` | abstract: what a caller may rely on of the file it names |
| `ShellServices` | both services and the clients they share |
| `MainLoop` | monitors, notices of settings, deferred callbacks |
| `Backgrounds`, `Brightness`, `Magnifier`, `Automount` | one part of the desktop each |
| `Desktop` | these four on one main loop |
| `WindowConstraints` | what each constraint makes of a rectangle, and all of them in their order |
| `WindowConfig` | the system: the file, windows, monitors, struts, and a person with a mouse |
| `MC...` | the instances that TLC checks |
| `InputSourcesManagerProofs`, `InputSourcesProofs`, `InputSourceListProofs` | the proofs about the input sources: the operations, the system, the list |
| `ScreenLockProofs`, `WindowTrackerProofs`, `ShellServicesProofs`, `DesktopProofs`, `WindowConfigProofs` | the proofs about the other systems |

`PROJECT.json` maps every definition to lines of the source.

**State of the input sources.** `groups`, `index` and `source` are `input_source_groups`, `input_source_groups_index` and
`configuration_source` of `KioskInputSourcesManager`; positions are zero-based as in the code, so `groups[index + 1]` is the selected
group. `keymap` is what `meta_backend_set_keymap_async` and `meta_backend_set_keymap_layout_group_async` were last told, and `by`
says whether it still stands or the owner of a lock has set another. `loaded`, `known`, `active` are is-loaded,
the engine table and the active engine of the engine manager; `fetches` counts its calls of
`ibus_bus_get_global_engine_async` that have no answer. `syncPending`, `sessionPending`, `systemPending` and `fetchPending` are
the deferred callbacks: queueing sets the flag (again), running clears it. `events` are IBus' signals in order.

**Actions.** One per D-Bus method, key binding, timer, signal handler and asynchronous answer, and each is the whole handler: the
nested calls (`SetInputSources` calls `activate_best_available`, which tries an engine, a layout, the first group, each of which may set the layout,
load the keymap, set the engine and queue a synchronisation) are composed as functions on a
record and assigned once. `asked` in that record is the engine that the handler gives to IBus at its end;
setting an engine that is already set may or may not be signalled by IBus, so both are possible.
The environment (`Env`) does not move while a handler runs. What the code leaves to others is external: the lock,
the IBus daemon and its signals.

**Abstractions.** Layouts, engines and locales are model values; a source's descriptions, XKB options and models and D-Bus
object paths are left out; the locale-to-layout table of gnome-desktop is `LocaleSources`. IBus' component list is the set
`Installed`. D-Bus replies are not modelled (see 7).

**The screen lock.** `shield` is the `KioskScreensaver` with the actor group it owns, the service's timer and the last ActiveChanged. `fade` is the
set of handlers connected to the running opacity transition. Of Clutter it is assumed that setting an opacity with no
easing ends the transition without "completed", that setting it with easing redirects the transition there is, and that hiding an actor leaves its
transition running. `timer` tells a timeout that the present showing started ("current") from an older one ("earlier"): the code does not, and the property
EarlierTimerEnds is about that. `switched` is a history variable, read by no action: animations were switched while a fade ran. The methods that warn and return
in the wrong state (`g_return_if_fail`) leave the record as it is. `is_unlock_event` is abstracted to two kinds of event.
GetActiveTime, the bus name, and the tear-down (`dispose` hides once more) are left out.

**The window tracker.** `tracker` is the record of `window_to_app` (`owner`), each application's windows, counter and state, `running_apps` (`running`) and the focused
application. GObject signals run their handlers at once, so an action is one signal of mutter with all it causes. `watched` are the applications to whose `notify::state` the
tracker has connected: only their changes reach `running_apps`. A fake application, made for a window nothing else claims, is freed with its last
reference (`Collected`), its connections with it; a window may get another one, hence the numbers. Where the code takes the first hit of a hash table or of a list whose order mutter decides,
every hit is possible (`ByPid`, `ByGroup`). `says` is what mutter says of windows: that `match` is a desktop file or none stands for the lookups by class, sandbox and
application id, whose tables do not change. Mutter is external: a window loses the focus before "unmanaged", chains of transients have no loops, and the transients of a window that goes keep it, lose it or
move up to its own parent. `signals` are the D-Bus signals of a handler, and `told` is what a client knows that asks again at each of them: `windows`, the answer of GetWindows (the windows of the running applications, of the types that may be in a taskbar:
`eligible` in `Profile`, which the code asks of the window when it answers), and `active`, the application that GetRunningApplications says has the focus.

**The services.** `bound` and `lastAction` are mutter's table of grabs, `grabber` and `watched` are `grabbed_accelerators` and `client_bus_watch_ids`; calls that take a list are loops on the four as one value,
with two entries. `presence` tells a client that has left from one whose leaving the compositor has been told of: the bus delivers in order, so its last calls may still come in between. Unique names are not used again.
`shot` is the `KioskScreenshot`; `tasks` are the threads, which read `shot` and not their own call, as in the code; `reports` are the errors that `g_task_report_new_error` delivers from an idle callback.
A picture is named by the call that painted it, so that a file shows whose picture it holds. `up` becomes FALSE where the code dereferences NULL, and nothing happens any more.

**The desktop.** A setting can be read as soon as it changes; its signal comes later (`notices`), and several changes are one notice. A deferred callback is a key in `deferred`: queueing twice is queueing once, and the key is cleared
*after* the callback ran (`Ran`). `loads` are the threads that read pictures, with a note of whether the background they read for is still in use; `fresh` is a history variable: monitors that came after the last change of brightness, and so kept their own level.
Levels are computed in whole hundredths; the code uses floating point and cuts off.

**The window configuration.** A section of the file is the set of windows its title, class, id and tag patterns match, the type it asks for, and what it sets. The code resolves keys in three ways, kept apart here: `Applied` (each section overrides what is valid before it),
`BooleanFor` (once any section has a valid value the last one decides, and an invalid one counts as FALSE) and `ValueFor` (the last one decides, and if it does not parse there is none). `locks` are the constraints mutter has, the five tables are what the code believes of them;
what one that goes is left with (`LocksLeft`) is where the two differ, and ConstraintsGo is about that. Constraints are functions from the rectangle asked for, the present one and the flags of the operation to a rectangle. `Moved` stands for all the ways in which mutter and applications place windows themselves.

**Variants.** Definitions such as `AcceptsAny` or `ReplacedInPlace`, next to the one they resemble, are the mistakes with which each property
was tried out: put in place of the original, each makes its property fail. No action uses one.

## 4. The runs

| run | instance | shows |
|---|---|---|
| `grouping` | lists of up to 6 of 3 layouts (one unknown) and 2 engines | NothingLost, Packed |
| `manager` | 3 configurations, 2 layouts, 3 engines, 3 outside events of all 10 kinds; fair | TypeOK, SelectionInBounds, PublishedOrPending, KeymapFollowsSelection, LockedKeymapKept, OverrideHolds, DBusCatchesUp, EngineManagerLoads |
| `engine_follows` | configurations with one engine, no lock, no restart, 4 events, fair | EngineFollowsSelection |
| `list_implemented` | lists of up to 4 of 3 layouts, 2 engines that are `Simple`: they fit in one group or have one source per group | ImplementsList (refinement) |
| `screen_lock` | 2 monitors, any of them connected; unbounded, fair | TypeOK, Shielded, EarlierTimerEnds, OnlyUnlocking, LocksInTheEnd, GoneInTheEnd, AnnouncedInTheEnd |
| `window_tracker` | 3 windows, a desktop file; unbounded | TypeOK, OwnedOnce, Tallied, ClientsTold, FocusKept |
| `shell_services` | 2 clients, 2 keys, 2 grabs granted, 2 calls, 2 files; fair | TypeOK, GrabsAccounted, GrabsLast, WritesItsFileOnce (refinement), AnsweredInTheEnd |
| `desktop` | 2 monitors, one with a backlight, 3 looks (one of a file that cannot be read), 2 factors, 1 volume, 3 outside events | TypeOK, BackgroundsFollow, BacklightsAgree, ZoomFollowsSettings, ListeningFollowsSetting, VolumesGetTheirTurn |
| `window_config` | 2 windows, 2 layouts of the monitors, 2 configurations and none, 3 outside events | TypeOK, StrutsCurrent, ConstraintsGo, HiddenWhileAway, LocksHold |
| `selection_unsettled`, `success_untrue` | as above | disagreements, see 6 |
| `area_hidden` | as `window_config`, with one configuration | a disagreement, see 6 |

**Bounds.** `MaxLayouts = 3` is the code's. Six sources fill two groups of three and leave an engine
between them. `MaxEvents` bounds the *outside* events (calls, settings, lock, IBus); what they leave behind is not bounded
and interleaves freely. Each hazard needs two or three outside events (IBus starts, a
selection, a reload; a lock between a change and its deferred handler). That nothing worse waits behind a fourth is what the proofs are for:
each safety property of this run is a theorem for any number of events. Three configurations suffice for a group to
vanish, to appear and to change place, and a list may get shorter under a selected index. Two engines are what it takes for signals to
overtake each other.

The window tracker is bounded by its windows: a normal window with or without a desktop file, a dialog of its process and a window of the same X11 group only. They
can be transient for each other in a chain of three (what is on top, between and below of a chain is all that the code tells apart), there are enough to
have two in an application and one outside, and the number of changes is not bounded. What may change of each is in `Profile`; `Wrap` is small, so that a count that passes zero shows.

The services are bounded by `MaxGrabs` (grants of mutter in all) and by their calls: two clients that each grab, and two calls, are what it takes for one to be in the other's way; a longer list of keys takes the same step once more for each.
In the desktop, three outside events allow a setting to change, change back, and the monitors to change between: one more than any of the properties needs to be broken. A volume and a monitor with a backlight are enough, since none looks at another.
In the window configuration, the two configurations between them use every key, an invalid value, both kinds of areas, and sections that override each other, one of them only for a type; the second monitor is not at the origin, so that relative and absolute areas differ; `Reach` is how far an edge is dragged
at once, on a screen of four by four, and three outside events let a file, a monitor and a drag come in any order.

**Deadlock.** It is not checked where outside events are bounded, since a system that nobody uses and that has done its
work is at rest: every callback it owed has run. The services may also stop because the compositor has come down. The cycle model, the screen lock and the window tracker never rest, and there it is checked.
The screen lock has no bound but the number of monitors: none, one, another or both connected is what a handler can tell apart.

**Fairness.** The main loop dispatches every source that stays ready. A timer, an answer and a pending signal
is ready until it is dispatched, so each has weak fairness, stated on its flag (`Cleared`); the signals of IBus are one
queue and have one condition together. Nothing outside is fair: callers, settings, the lock and IBus may stop at any
time, and `EngineManagerLoads` assumes `<>[]up`. Safety properties do not depend on fairness, and their theorems are about `Spec`. No symmetry is
used.

In the screen lock, the transition and the timer are fair: frames are drawn as long as something changes, and a GLib timeout fires.

In the services, threads and idle callbacks are fair, and the bus tells of clients that left; callers are not fair. AnsweredInTheEnd excludes only the compositor that has come down.

The window tracker, the desktop and the window configuration have no liveness property and no fairness.

**Where a run leaves something out.** `engine_follows` has no lock, no restart, no engines set by other clients, and one
engine per configuration, because EngineFollowsSelection does not hold otherwise: nothing re-evaluates engines when
a lock goes; the other ways are the findings below. `list_implemented` takes `Simple` lists: without unknown layouts and repetitions, and with groups of one source each,
or with one group only. Of the former, those that offer neither the engine that passes keys through nor a layout that one of their engines uses. With the others the code does not walk the list (section 6):
a group of several layouts is entered where it was left, and a layout finds an engine.
 `screen_lock` leaves nothing out, but
GoneInTheEnd and AnnouncedInTheEnd have the premise that animations are never switched during a fade (`[]~switched`). Without it they fail: activate with animations, switch them
off during the fade-in, dismiss. The screensaver hides at once, and half a second later the end of the fade-in shows the group again and
announces an active screensaver, which GetActive denies. No document of the repository speaks of it, so it is not listed under 6.
Shielded and OnlyUnlocking need no such premise. EarlierTimerEnds is the most that holds of the timer: an old timer may fire, and lock, before
`lock-delay` has passed since the last showing, but only during its fade-in.
ClientsTold holds a client to what the signals say: the list of windows is right after every window that opens, closes or passes to another application, and stays right until an application starts or stops running, which skip-taskbar
can bring about in silence (section 6); of GetRunningApplications it takes only which application is the active one.
GrabsLast asks nothing about the grabs of a client that has gone: the code keeps them, its log says that it takes them off (section 6). HiddenWhileAway leaves out the windows with `lock-on-area` alone, which `area_hidden` is about, and a window that is created
while its monitor is away, until the monitors change again. ConstraintsGo leaves out windows locked to areas of both kinds, one of which the table does not know.
FocusKept speaks of the steps after which the focus window still stands for the same window in the taskbar. When it comes to stand for another one
without a change of focus (skip-taskbar or transient-for changes, its parent goes), no handler looks again, and the focused application may even be a
stopped one until the focus moves.

## 5. The proofs

TLAPS checks, for all constants that satisfy the assumptions (`GroupAssumption`, `ManagerAssumption`,
`SystemAssumption`, `CycleAssumption`: typing of the constants, sentinels outside their sets, `MaxLayouts` positive, `Installed` some of the engines, no list of a caller empty):

- `GroupsOfWellFormed`, `ListIsShown`: any list of sources is packed into well-formed groups that show what the system knows of it, in its order, in as few groups as the order allows.
- `SourcesKeepTheirPlace`, `GroupsAreFull`: `GroupingSpec => []NothingLost`, `GroupingSpec => []Packed`.
- `SetInputSourcesSound`, `SwitchToNextSourceSound`, `SwitchToPreviousSourceSound` (and a lemma for each other operation): a sound
  manager stays sound in any environment.
- `TypeCorrect`, `SelectionStaysInBounds`: `Spec => []TypeOK`, `Spec => []SelectionInBounds`.
- `LockedKeymapStays`: `Spec => LockedKeymapKept`.
- `NeverStaleForGood`: `Spec => []PublishedOrPending`.
- `KeyboardFollowsSelection`: `Spec => []KeymapFollowsSelection`.
- `OverrideStays`: `Spec => OverrideHolds`.
- `ListIsImplemented`: `Spec => ImplementsList`, if every list is `Simple`.

**The argument.** `IInv == TypeOK /\ SelectionInBounds` is inductive; neither half is: a handler reads
`groups[index + 1]`, which has a type only in bounds, and an index is in bounds only if lengths are known. `WellFormedGroup`
is part of it because a layout group without layouts would have no selected layout to publish. The proof has three levels:
methods of a group keep it well formed; operations keep a record `Sound` (most of them, `SoundLike`, also its groups, but for layouts of engines and selected layouts,
which is why activation can move the index); actions keep `IInv`, split into
`ManagerOK`, `ConfigOK`, `EngineOK`, `IbusOK` and `RestOK`, so that an action is followed only in the parts it touches.
`GroupsOf`, `SourcesOf` and `KnownSources` are recursive functions; that they exist is shown by building them step by step with `Induction`, which is a least-element argument
on sets, since the induction rule of the library is out of reach.

`PublishedOrPending` needs more than soundness: each operation `Publishes`, that is, it queues a synchronisation or leaves
every group's sources and the selected source as they were. The delicate ones are the failing ones: groups that were tried learn their engine's layout
(which does not show, `EnsureLayoutShows`), and a layout that was selected in a group must end in an activation (`ActivateWithLayoutPublishes`:
the group is able to before it is touched). `SameGroupsSameSources` then gives equal lists for groups that are equal source by source.
`OverrideHolds` follows from what `SoundLike` keeps of the groups, action by action: only the three calls that configure the manager, and a reload that finds the source to be settings, replace them.

`KeymapFollowsSelection` says that a selected layout group's keymap is the one last given to the backend, or that of an engine ahead of it. It is kept by `Loaded`: each operation leaves
the keymap with the selection or with such an engine. Activation that fails leaves both as they were; a layout that is selected is loaded with its group; and moving to another group loads that group, unless it is an engine's and cannot
be activated, and then the property asks nothing. A lock takes the keymap away, and nothing gives it back to a manager that has not loaded one since: `KeymapTyped` says that a keymap the manager loaded has layouts.

**The list.** `ListIsShown` follows the add loops: `Packs(gs, c)` (well formed, new, showing `c`, packed) is kept by each source (`AddSourcePacks`). On that rests the refinement of `InputSourceList`. `Before(gs, i)` are the sources of the first `i` groups, and the position
clients count is its length plus the layout that the selected group remembers (`Positioned`); the source there is the selected one. A quiet system can activate any group
(`ReadyActivates`), so each operation ends in the group it looks for (`Reaches`), and the others remember what they did (`Kept`). What an operation asks of IBus comes back as
a signal that finds the same group (`SettledKeeps`), because the engine it names is the one of the selected group, or no group has it (`Apart`): that is what `Simple` is for, and
that no engine's group holds a layout of the list (`LayoutsApart`). Next and previous move by one because no group can be entered in its middle (`Narrow`; `NextPosition`, `PreviousPosition`). Without repetition a source has one position, so to select the source is to
select the position. `ListInv` is only that the groups are those of some list and that IBus owes no answer.

**The screen lock** (`ScreenLockProofs`, for any set of monitors): `ActiveIsShielded` (`Spec => []Shielded`), `EarlierTimersEnd`
(`Spec => []EarlierTimerEnds`) and `OnlyUnlockingUnlocks` (`Spec => OnlyUnlocking`). `IInv == TypeOK /\ Shielded /\ EarlierTimerEnds` is inductive:
the handlers are connected at most once because Shielded has them disconnected whenever `kiosk_screensaver_show` runs. A lemma for each method says that it leaves
a sound screensaver and what it does to `locked`; `NextInvariant` applies them action by action and yields the action property as well. `[]~switched` is not assumed.

**The window tracker** (`WindowTrackerProofs`, for any finite set of windows, any desktop files and any `Wrap` above the number of windows): `TypeCorrect`,
`WindowsAreOwnedOnce`, `RunningIsTallied`, `ClientsAreTold`, `FocusFollows`. `IInv` is these together with `Connected`: the tracker listens to the state of every
application that has windows, without which a change of state could pass the running set by (Tallied alone is not inductive), and with OwnedOnce, without which
nothing says that the window of a skip-taskbar signal is counted where it is. Every change of an application's windows ends in `kiosk_app_sync_running_state`, so the
lemma `Resynced` carries the weight: a record that is counted right and otherwise as before is in order once synced. The bound
`Cardinality(Windows) < Wrap` is the only thing asked of the counter's width. Which application a window finds does not matter to the proof, only that it is one (`AppsForType`).
`ClientsAreTold` says that each handler either emits tracked-windows-changed when it is done moving windows or leaves owners and running set, and so the answer of GetWindows, as they were; and that `set_focused_app` never moves on in silence (`Informed`).
`FocusFollows` (`Spec => FocusKept`) rests on two facts about a step that does not look the focused application up: the window the focus stands for keeps its application (a window that goes, or leaves the taskbar, is another one: `NotTheFocus`), and the focus
stands for the same window as before. The second is about chains of transients, of any length: the recursion that climbs them is unrolled by induction (`UpExists`, `UpIsUp`).

**The services** (`ShellServicesProofs`, for any clients, keys, calls and files): `TypeCorrect`, `GrabsAlwaysAccounted`, `GrabsLastUntilUngrabbed`, and `FilesAreWrittenOnce`: `Spec => WritesItsFileOnce`, the refinement of PictureFiles. Its invariant says what the code keeps nowhere: while the stream
is set, exactly one unanswered call has it, that call's thread or report is the only one under way, and every other waiting call has a refusal coming and an empty file; only then does a thread that reads the shared object write its own call's picture. `Writer` is a CHOOSE over the calls that wait; that there is
one for each file is part of the invariant. `CallsAreNoContents` keeps pictures apart from the marks of files without one.

**The desktop** (`DesktopProofs`, for any monitors, looks, factors and volumes): each of the five properties, from one invariant that is the conjunction of them and the types. ListeningFollowsSetting is needed for VolumesGetTheirTurn (a volume that appears is queued only if it is listened for), and that what is read for a live background is what
is wanted, or will be asked for again, for BackgroundsFollow; that the zoom is tracked exactly while the magnifier is enabled is the part added for ZoomFollowsSettings. `VolumesAreNoKeys` keeps the keys of deferred callbacks apart, `BlankIsNoLook` the looks.

**The window configuration** (`WindowConfigProofs`, for any windows, layouts, configurations, places and drags): `TypeCorrect`, `ConstraintsAlwaysGo`, `StrutsAlwaysCurrent`, `HiddenWhileAwayHolds`, `LocksAlwaysHold`. `Kept` is the conjunction of the types, `TablesAgree` (the tables mention the windows there are, with the constraints they have), StrutsCurrent and "the hidden windows are those whose monitor is away": TablesAgree keeps the struts
right when a window is created or mapped (it has none yet), and shows the windows a change of the monitors hides to be those with a lock of any kind (`LockedAway`, of which `HiddenWhileAway` takes the windows the documentation says are hidden). It also says that of two areas the table has the
second, so that a window with one area, or none, is left with nothing when it goes (`UnmanagedFree`). Types need `ConfigsAreTyped`: what GLib reads for a key is of its type or is refused. `LocksAlwaysHold` rests on `ConstrainedKeeps`, which follows a rectangle through the five constraints: each keeps that it has something of the
window (for a resize) or the window's size (for a move), so that the next can fit it into an area the window was in; the two locks then take back per axis, which leaves nothing outside an area that held both. The premises of LocksHold are what that argument needs, and section 6 has what happens without them.

**Only model-checked**: the liveness properties (DBusCatchesUp, EngineManagerLoads, EngineFollowsSelection, LocksInTheEnd, GoneInTheEnd, AnnouncedInTheEnd, AnsweredInTheEnd), which are out of the reach of TLAPS.
Everything else that a passing run checks is a theorem, listed in `PROJECT.json`.

## 6. Disagreements between the code and what it says

Three have a run that TLC must find violated:

- `selection_unsettled`: select one engine and then another before IBus has answered. Each signal re-activates the engine it names, which
  sends another signal, and the selection alternates forever ("Selects which input source from the current list of set input sources is active", `org.gnome.Kiosk.xml`).
- `success_untrue`: a write that fails, or a window that cannot be captured, is answered with success TRUE (`on_screenshot_written` drops the error; "whether the screenshot was captured", `org.gnome.Shell.Screenshot.xml`).
- `area_hidden`: a window with `set-on-monitor` and `lock-on-area` is hidden when its monitor is removed: `update_window_on_monitor` asks whether the window is in the table of areas, of either kind ("the
  window will not be hidden when monitors are added or removed", `CONFIG.md` of `lock-on-area`).

Others were met while modelling and are kept here only; the models contain the behaviour.

Input sources:

- "Selects the next input source in the list": entering a group from the one before leaves the layout last used
  there; the wrap around the end alone resets it (`cycle_input_sources_forward`).
- Selecting a layout that an engine listed earlier uses too selects the engine (`activate_input_source_group_with_layout`
  compares layouts of engine groups as well).
- IBus restarts while the first answer is on its way: the answer declares the engine manager loaded with an
  empty engine table, and on reconnection is-loaded does not change, so nobody activates the configured engine.
- A session configuration that *has* sources but cannot be activated, because of the lock, say, falls back
  to localed as well, though the interface describes that for "no configured input sources"; the description of
  SelectPreviousInputSource says "next".

Window tracker:

- "RunningApplicationsChanged: Notifies when the running applications changes". It is emitted when the focused application
  changes and at no other time; nobody listens to `app-state-changed`.
- GetWindows lists the windows of running applications, so a window that leaves or enters the taskbar may take its application's windows off the list, or put them on it, with
  no signal (WindowsChanged is for windows that open and close).

Services:

- A refused screenshot of an area or a window gets NULL for its `user_data`, which its callback dereferences ("the data to pass to callback function", `kiosk-screenshot.c`): the compositor comes down (`up`). The same when painting the stage fails: the thread starts without a picture.
- A client that vanishes keeps its grabs: the loop in `on_client_vanished` logs "Ungrabbing accelerator" for each and does no more.

Desktop:

- A backlight that appears while the screen is dimmed keeps its own level until target or dimming change, and asking for the target there is changes nothing.
- A volume that is queued is mounted although automount was switched off meanwhile.
- The cache of pictures goes by name: a file with new contents shows the old ones.

Window configuration (`CONFIG.md`):

- A window created while its monitor is away is not hidden before the monitors change again.
- With both kinds of areas, the second takes the first one's place in the table, and the first constraint stays on the window when it is unmanaged.
- `lock-resize` without `lock-move`: dragging the left edge inwards moves the window, out of its area at the right.
- Resizing a window that is outside its area, or whose monitor and area have nothing in common, leaves it an empty rectangle.
- `set-window-type` changes the type that `match-window-type` is compared with: a section that made a window a dock because it was normal no longer applies when its strut is set up.
- An invalid boolean in a later section makes FALSE of a valid one before it, where numbers and areas differ again (`BooleanFor`, `ValueFor`, `Applied`).
- A window is configured by the file as it is at each step, half by the old one and half by the new one if it changed between.

## 7. Not modelled in these components

- Replies to D-Bus calls. While the keymap is locked, the select calls return TRUE without completing the invocation.
- `reset-keymap-description`, `reset-keymap-layout-index` after an unlock: handlers of replaced groups stay connected and which one
  answers is not determined by this code. Until the manager loads a keymap again, `keymap.by` is "backend".
- Starting `ibus-daemon`, and losing a D-Bus name (of any of the services).
- Reads that fail at start-up (no localed, no GNOME desktop tables).
- In the window tracker: the order of an application's windows (user time, workspaces, `windows-changed` of `KioskApp`), which no modelled state depends on;
  the windows that exist before the tracker (they are tracked one by one like created ones); `notify::title`, which emits WindowsChanged once more; the service's access check, properties and bus name.
- In the services: the signal that an accelerator was activated, which changes nothing; the access check, whose outcome is free; flash, cursor and geometry of pictures.
- In the desktop: drawing; float rounding of brightness; where the magnified stage is centred; reference counts of volumes and mounts.
- In the window configuration: key-file syntax and patterns; titles and tags that change after a window was created; workspaces that are added later (they have no struts until the next update);
  stacking, and the size hints of applications.
- The compositor's own window effects, tile previews, key bindings and start-up, and all client programs: see section 1.
