----------------------------- MODULE Screensaver -----------------------------
(***************************************************************************)
(* The screensaver (compositor/kiosk-screensaver.c): a group of black      *)
(* actors, one per monitor, that takes the input while it is active and    *)
(* that only some gestures dismiss while it is locked. It fades in and out *)
(* by an implicit transition of Clutter, whose "completed" signal finishes *)
(* the job. Its status-changed signal is handled at once by the service    *)
(* (compositor/kiosk-screensaver-service.c), which announces the change on *)
(* D-Bus and runs the lock timer.                                          *)
(*                                                                         *)
(* A screensaver is a record, a method a function from a record to the     *)
(* next, given what the method reads of its surroundings in env.           *)
(***************************************************************************)
EXTENDS Naturals

CONSTANT Monitors    \* the monitors that may be connected

Statuses == {"available", "invisible", "busy", "idle"}   \* GsmPresenceStatus

\* fade is the set of handlers connected to the running opacity transition,
\* and empty when none runs. "in" is always connected before "out": showing
\* removes the transition and starts another, hiding redirects the one there is.
\* timer says whether the lock timeout is pending, and whether it was started by
\* an earlier showing than the present one.
Shields == [active    : BOOLEAN,
            locked    : BOOLEAN,
            handlers  : {0, 1},       \* how often on_input_event is connected
            grabbed   : BOOLEAN,      \* stage_grab
            visible   : BOOLEAN,      \* the group is shown
            opaque    : BOOLEAN,      \* its opacity is 255
            covers    : SUBSET Monitors,
            fade      : SUBSET {"in", "out"},
            announced : BOOLEAN,      \* the last ActiveChanged on D-Bus
            timer     : {"off", "current", "earlier"}]

Envs == [monitors : SUBSET Monitors, animations : BOOLEAN, lockEnabled : BOOLEAN]

Constructed ==
  [active |-> FALSE, locked |-> FALSE, handlers |-> 0, grabbed |-> FALSE,
   visible |-> FALSE, opaque |-> TRUE, covers |-> {}, fade |-> {},
   announced |-> FALSE, timer |-> "off"]

\* Mutated: the timeout is dropped only where another is started.
StatusChangedKeepsTimer(s, env, active) ==
  [s EXCEPT !.announced = active,
            !.timer = IF ~active THEN "off" ELSE IF env.lockEnabled THEN "current" ELSE @]

\* The service's handler: ActiveChanged, then start_lock_timeout, which first
\* drops the timeout there was, or cancel_lock_timeout.
StatusChanged(s, env, active) ==
  [s EXCEPT !.announced = active,
            !.timer = IF active /\ env.lockEnabled THEN "current" ELSE "off"]

\* Mutated: signals only what was not visible before.
ShowNowOnce(s, env) ==
  LET shown == [s EXCEPT !.opaque = TRUE, !.visible = TRUE, !.fade = {}]
  IN  IF s.visible THEN shown ELSE StatusChanged(shown, env, TRUE)

\* Setting the opacity outside an easing state ends a transition of it, without
\* "completed".
ShowNow(s, env) ==
  StatusChanged([s EXCEPT !.opaque = TRUE, !.visible = TRUE, !.fade = {}], env, TRUE)

HideNow(s, env) ==
  StatusChanged([s EXCEPT !.visible = FALSE, !.covers = {}], env, FALSE)

\* New actors for the monitors there are, and the grab unless it is held.
ReinitializeScreensavers(s, env) ==
  [s EXCEPT !.covers = env.monitors, !.grabbed = TRUE]

\* Mutated: redirects the transition there is instead of ending it.
ShowRedirected(s, env) ==
  LET shown == ReinitializeScreensavers(
                 [s EXCEPT !.active = TRUE, !.handlers = @ + 1,
                           !.timer = IF @ = "off" THEN "off" ELSE "earlier"], env)
  IN  IF env.animations
      THEN [shown EXCEPT !.opaque = FALSE, !.visible = TRUE, !.fade = @ \cup {"in"}]
      ELSE ShowNow(shown, env)

Show(s, env) ==
  LET shown == ReinitializeScreensavers(
                 [s EXCEPT !.active = TRUE, !.handlers = @ + 1,
                           !.timer = IF @ = "off" THEN "off" ELSE "earlier"], env)
  IN  IF env.animations
      THEN [shown EXCEPT !.opaque = FALSE, !.visible = TRUE, !.fade = {"in"}]
      ELSE ShowNow(shown, env)

Hide(s, env) ==
  LET hidden == [s EXCEPT !.active = FALSE, !.locked = FALSE,
                          !.grabbed = FALSE, !.handlers = 0]
  IN  IF env.animations
      THEN [hidden EXCEPT !.opaque = FALSE, !.fade = @ \cup {"out"}]
      ELSE HideNow(hidden, env)

\* Mutated: the end of the fade-in is not signalled.
FadeCompletedQuietly(s, env) ==
  LET hidden == IF "out" \in s.fade THEN HideNow(s, env) ELSE s
  IN  [hidden EXCEPT !.opaque = TRUE, !.fade = {}]

\* Mutated: the handlers run in the opposite order.
FadeCompletedReversed(s, env) ==
  LET hidden == IF "out" \in s.fade THEN HideNow(s, env) ELSE s
      shown  == IF "in" \in s.fade THEN ShowNow(hidden, env) ELSE hidden
  IN  [shown EXCEPT !.fade = {}]

\* on_fade_in_complete and on_fade_out_complete, in the order they were connected.
FadeCompleted(s, env) ==
  LET shown  == IF "in" \in s.fade THEN ShowNow(s, env) ELSE s
      hidden == IF "out" \in s.fade THEN HideNow(shown, env) ELSE shown
  IN  [hidden EXCEPT !.fade = {}]

-----------------------------------------------------------------------------
(* The methods, which do nothing but warn in the wrong state.              *)

\* Mutated: without the check of active.
ActivateAgain(s, env) == Show(s, env)

Activate(s, env)   == IF s.active THEN s ELSE Show(s, env)
Deactivate(s, env) == IF s.active THEN Hide(s, env) ELSE s

Lock(s, env) ==
  LET locked == [s EXCEPT !.locked = TRUE]
  IN  IF s.locked THEN s ELSE IF s.active THEN locked ELSE Show(locked, env)

\* What is_unlock_event tells apart: clicks, touches and four keys unlock.
InputEvents == {"unlocking", "other"}

OnInputEvent(s, env, event) ==
  IF (s.locked \/ s.active) /\ (s.locked => event = "unlocking")
  THEN Deactivate(s, env)
  ELSE s

OnLockTimeout(s, env) ==
  LET fired == [s EXCEPT !.timer = "off"]
  IN  IF s.active /\ ~s.locked THEN Lock(fired, env) ELSE fired

\* Mutated: a session that is not idle dismisses the screensaver, locked or not.
OnPresenceStatusChangedUnlocks(s, env, status) ==
  IF status = "idle" THEN Activate(s, env) ELSE Deactivate(s, env)

\* The session became idle, or stopped being so.
OnPresenceStatusChanged(s, env, status) ==
  IF status = "idle" THEN Activate(s, env)
  ELSE IF s.locked THEN s ELSE Deactivate(s, env)
=============================================================================
