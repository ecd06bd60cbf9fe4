------------------------------ MODULE ScreenLock ------------------------------
(***************************************************************************)
(* The screensaver with all that drives it: callers of                     *)
(* org.gnome.ScreenSaver, the session's presence as                        *)
(* compositor/kiosk-session-presence.c follows it, the person at the       *)
(* device, monitors that come and go, the settings for locking and         *)
(* animations, the lock timer and Clutter's transition. Each action is one *)
(* callback of the compositor's main loop. Nothing is bounded: the system  *)
(* has finitely many states for a finite set of monitors.                  *)
(***************************************************************************)
EXTENDS Screensaver

VARIABLES
  shield,         \* the screensaver
  monitors,       \* those connected
  animations,     \* KioskCompositor's animations_enabled
  lockEnabled,    \* lock-enabled of org.gnome.desktop.screensaver
  proxy,          \* the session presence's proxy: starting, ready or failed
  sessionStatus,  \* the status gnome-session publishes
  status,         \* KioskSessionPresence's copy of it
  switched        \* history: animations were switched while a fade ran

settings == <<monitors, animations, lockEnabled, switched>>
presence == <<proxy, sessionStatus, status>>
vars     == <<shield, settings, presence>>

Env == [monitors |-> monitors, animations |-> animations, lockEnabled |-> lockEnabled]

Init ==
  /\ shield = Constructed
  /\ monitors \in SUBSET Monitors
  /\ animations \in BOOLEAN
  /\ lockEnabled \in BOOLEAN
  /\ proxy = "starting"
  /\ sessionStatus \in Statuses
  /\ status = "available"
  /\ switched = FALSE

-----------------------------------------------------------------------------
(* Callers of org.gnome.ScreenSaver.                                       *)

HandleLock ==
  /\ ~shield.locked
  /\ shield' = Lock(shield, Env)
  /\ UNCHANGED <<settings, presence>>

HandleSetActive(on) ==
  /\ shield' = IF on THEN Activate(shield, Env) ELSE Deactivate(shield, Env)
  /\ UNCHANGED <<settings, presence>>

-----------------------------------------------------------------------------
(* The device.                                                             *)

InputEvent(event) ==
  /\ shield.handlers > 0
  /\ shield' = OnInputEvent(shield, Env, event)
  /\ UNCHANGED <<settings, presence>>

\* reinitialize_screensavers is connected to it as long as the input handlers are.
MonitorsChange(now) ==
  /\ now # monitors
  /\ monitors' = now
  /\ shield' = IF shield.handlers > 0
               THEN ReinitializeScreensavers(shield, [Env EXCEPT !.monitors = now])
               ELSE shield
  /\ UNCHANGED <<animations, lockEnabled, switched, presence>>

-----------------------------------------------------------------------------
(* What the main loop calls later.                                         *)

FadeCompletes ==
  /\ shield.fade # {}
  /\ shield' = FadeCompleted(shield, Env)
  /\ UNCHANGED <<settings, presence>>

LockTimeout ==
  /\ shield.timer # "off"
  /\ shield' = OnLockTimeout(shield, Env)
  /\ UNCHANGED <<settings, presence>>

-----------------------------------------------------------------------------
(* The session's presence.                                                 *)

\* The status property of KioskSessionPresence notifies only of a change.
SetStatus(now) ==
  /\ status' = now
  /\ shield' = IF now = status THEN shield ELSE OnPresenceStatusChanged(shield, Env, now)

\* on_proxy_ready: binding the property copies the status at once.
ProxyReady ==
  /\ proxy = "starting"
  /\ proxy' = "ready"
  /\ SetStatus(sessionStatus)
  /\ UNCHANGED <<settings, sessionStatus>>

ProxyFails ==
  /\ proxy = "starting"
  /\ proxy' = "failed"
  /\ UNCHANGED <<shield, settings, sessionStatus, status>>

SessionStatusChanges(now) ==
  /\ now # sessionStatus
  /\ sessionStatus' = now
  /\ IF proxy = "ready" THEN SetStatus(now) ELSE UNCHANGED <<shield, status>>
  /\ UNCHANGED <<settings, proxy>>

-----------------------------------------------------------------------------
(* The settings.                                                           *)

EnableAnimationsChanged ==
  /\ animations' = ~animations
  /\ switched' = (switched \/ shield.fade # {})
  /\ UNCHANGED <<shield, monitors, lockEnabled, presence>>

LockEnabledChanged ==
  /\ lockEnabled' = ~lockEnabled
  /\ UNCHANGED <<shield, monitors, animations, switched, presence>>

Next ==
  \/ HandleLock
  \/ \E on \in BOOLEAN : HandleSetActive(on)
  \/ \E event \in InputEvents : InputEvent(event)
  \/ \E now \in SUBSET Monitors : MonitorsChange(now)
  \/ FadeCompletes
  \/ LockTimeout
  \/ ProxyReady
  \/ ProxyFails
  \/ \E now \in Statuses : SessionStatusChanges(now)
  \/ EnableAnimationsChanged
  \/ LockEnabledChanged

Spec == Init /\ [][Next]_vars

\* Frames go on being drawn, so a transition ends, and a timeout of GLib fires.
Fairness == WF_vars(FadeCompletes) /\ WF_vars(LockTimeout)
FairSpec == Spec /\ Fairness

-----------------------------------------------------------------------------
\* The types.
TypeOK ==
  /\ shield \in Shields
  /\ monitors \subseteq Monitors
  /\ animations \in BOOLEAN
  /\ lockEnabled \in BOOLEAN
  /\ proxy \in {"starting", "ready", "failed"}
  /\ sessionStatus \in Statuses
  /\ status \in Statuses
  /\ switched \in BOOLEAN

\* While the screensaver is active it covers every monitor there is and holds the
\* input, and once no fade runs nothing can be seen through it; it is locked only
\* while it is active, and it lets go of the input as soon as it is not. Callers,
\* fades of earlier showings, monitors and settings may get in between.
Shielded ==
  /\ shield.locked => shield.active
  /\ shield.active <=> shield.grabbed
  /\ shield.handlers = IF shield.active THEN 1 ELSE 0
  /\ shield.active => /\ shield.visible
                      /\ shield.covers = monitors
                      /\ "out" \notin shield.fade
                      /\ shield.fade = {} => shield.opaque

\* A locked screen is unlocked only by an unlocking gesture or by a caller that
\* deactivates it: not by the pointer, not by a session that is no longer idle, a
\* late fade or a late timeout. Nothing locked is seen uncovered meanwhile.
OnlyUnlocking ==
  [][shield.locked /\ ~shield'.locked
       => InputEvent("unlocking") \/ HandleSetActive(FALSE)]_vars

\* The lock timer of an earlier showing outlives it by no more than a fade. (While
\* the new fade runs the old timer can lock the screen before lock-delay.)
EarlierTimerEnds == shield.timer = "earlier" => shield.fade # {}

\* With locking enabled, a screensaver that is not dismissed locks.
LocksInTheEnd == []lockEnabled /\ <>[](shield.active) => <>[](shield.locked)

\* A dismissed screensaver leaves nothing on screen, no actors and no lock timer,
\* also when fades were cut short by other fades. (Hiding while animations are off
\* leaves a fade-in that they began when they were on. It ends later and shows the
\* screensaver that was dismissed: hence the premise, here and below.)
GoneInTheEnd ==
  /\ []~switched
  /\ <>[](~shield.active)
  => <>[](~shield.visible /\ shield.covers = {} /\ shield.fade = {} /\ shield.timer = "off")

\* The last ActiveChanged tells what GetActive answers, once the screensaver
\* stays as it is.
AnnouncedInTheEnd ==
  \A on \in BOOLEAN :
    []~switched /\ <>[](shield.active = on) => <>[](shield.announced = on)
=============================================================================
