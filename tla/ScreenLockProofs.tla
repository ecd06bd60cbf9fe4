--------------------------- MODULE ScreenLockProofs ---------------------------
(***************************************************************************)
(* What holds of the screensaver for any monitors: the types, that what is *)
(* active is covered and held (Shielded), how long an old lock timer lives *)
(* (EarlierTimerEnds), and what alone unlocks (OnlyUnlocking). The first   *)
(* three are inductive together: showing connects the handlers once only   *)
(* because Shielded has them disconnected while the screensaver is not     *)
(* active. The lemmas say what each method of the screensaver makes of a   *)
(* screensaver that is sound; the theorems go through the actions.         *)
(***************************************************************************)
EXTENDS ScreenLock, TLAPS

IInv == TypeOK /\ Shielded /\ EarlierTimerEnds

\* IInv as the methods see it: a screensaver s in the surroundings e.
Sound(s, e) ==
  /\ s \in Shields
  /\ s.locked => s.active
  /\ s.active <=> s.grabbed
  /\ s.handlers = IF s.active THEN 1 ELSE 0
  /\ s.active => /\ s.visible
                 /\ s.covers = e.monitors
                 /\ "out" \notin s.fade
                 /\ s.fade = {} => s.opaque
  /\ s.timer = "earlier" => s.fade # {}

PresenceOK ==
  /\ proxy \in {"starting", "ready", "failed"}
  /\ sessionStatus \in Statuses
  /\ status \in Statuses
  /\ switched \in BOOLEAN

LEMMA PartsOfIInv == IInv <=> Sound(shield, Env) /\ Env \in Envs /\ PresenceOK
  BY DEF IInv, TypeOK, Shielded, EarlierTimerEnds, Sound, PresenceOK, Env, Envs

-----------------------------------------------------------------------------
(* The methods. Each step unfolds one level, as the code calls.            *)

LEMMA ShowNowSound ==
  ASSUME NEW e \in Envs, NEW s \in Shields,
         s.active, s.grabbed, s.handlers = 1, s.covers = e.monitors
  PROVE  /\ Sound(ShowNow(s, e), e)
         /\ ShowNow(s, e).locked = s.locked
         /\ ShowNow(s, e).active = s.active
  BY DEF ShowNow, StatusChanged, Sound, Shields, Envs

LEMMA HideNowSound ==
  ASSUME NEW e \in Envs, NEW s \in Shields,
         ~s.active, ~s.locked, ~s.grabbed, s.handlers = 0
  PROVE  Sound(HideNow(s, e), e)
  BY DEF HideNow, StatusChanged, Sound, Shields, Envs

LEMMA FacesTyped ==
  ASSUME NEW s \in Shields, NEW o \in BOOLEAN, NEW v \in BOOLEAN, NEW f \in SUBSET {"in", "out"}
  PROVE  [s EXCEPT !.opaque = o, !.visible = v, !.fade = f] \in Shields
  BY DEF Shields

LEMMA FadeEnds ==
  ASSUME NEW s \in Shields
  PROVE  LET r == [s EXCEPT !.fade = {}]
         IN  /\ r \in Shields /\ r.fade = {} /\ r.active = s.active /\ r.locked = s.locked
             /\ r.grabbed = s.grabbed /\ r.handlers = s.handlers /\ r.timer = s.timer
             /\ r.visible = s.visible /\ r.covers = s.covers /\ r.opaque = s.opaque
  BY DEF Shields

LEMMA ShowSound ==
  ASSUME NEW e \in Envs, NEW s \in Shields, s.handlers = 0
  PROVE  /\ Sound(Show(s, e), e)
         /\ Show(s, e).active
         /\ Show(s, e).locked = s.locked
<1> DEFINE timer == IF s.timer = "off" THEN "off" ELSE "earlier"
           u == [s EXCEPT !.active = TRUE, !.handlers = @ + 1, !.timer = timer]
           t == ReinitializeScreensavers(u, e)
<1>1. /\ t \in Shields /\ t.active /\ t.grabbed /\ t.handlers = 1
      /\ t.covers = e.monitors /\ t.locked = s.locked
  <2>1. timer \in {"off", "earlier"}
    OBVIOUS
  <2> HIDE DEF timer
  <2>2. u \in Shields /\ u.active /\ u.handlers = 1 /\ u.locked = s.locked
    <3>1. u = [s EXCEPT !.active = TRUE, !.handlers = 1, !.timer = timer]
      OBVIOUS
    <3> HIDE DEF u
    <3> QED BY <2>1, <3>1 DEF Shields
  <2> HIDE DEF u
  <2> QED BY <2>2 DEF ReinitializeScreensavers, Shields, Envs
<1>2. CASE ~e.animations
  <2>1. Show(s, e) = ShowNow(t, e)
    BY <1>2 DEF Show
  <2> QED BY <1>1, <2>1, ShowNowSound
<1>3. CASE e.animations
  <2>1. Show(s, e) = [t EXCEPT !.opaque = FALSE, !.visible = TRUE, !.fade = {"in"}]
    BY <1>3 DEF Show
  <2> HIDE DEF t
  <2>2. {"in"} \in SUBSET {"in", "out"}
    OBVIOUS
  <2>3. Show(s, e) \in Shields
    <3> DEFINE fade == {"in"}
    <3>1. Show(s, e) = [t EXCEPT !.opaque = FALSE, !.visible = TRUE, !.fade = fade]
      BY <2>1
    <3> HIDE DEF fade
    <3>2. fade \in SUBSET {"in", "out"}
      BY DEF fade
    <3>3. t \in Shields /\ FALSE \in BOOLEAN /\ TRUE \in BOOLEAN
      BY <1>1
    <3> HIDE DEF t
    <3>4. [t EXCEPT !.opaque = FALSE, !.visible = TRUE, !.fade = fade] \in Shields
      BY <3>2, <3>3, FacesTyped
    <3> QED BY <3>1, <3>4, Zenon
  <2>4. /\ Show(s, e).active = t.active /\ Show(s, e).locked = t.locked
        /\ Show(s, e).grabbed = t.grabbed /\ Show(s, e).handlers = t.handlers
        /\ Show(s, e).timer = t.timer
    BY <1>1, <2>1 DEF Shields
  <2>5. /\ Show(s, e).covers = t.covers
        /\ Show(s, e).visible /\ Show(s, e).fade = {"in"}
    BY <1>1, <2>1 DEF Shields
  <2> QED BY <1>1, <2>3, <2>4, <2>5 DEF Sound
<1> QED BY <1>2, <1>3

LEMMA HideSound ==
  ASSUME NEW e \in Envs, NEW s \in Shields
  PROVE  Sound(Hide(s, e), e)
<1> DEFINE h == [s EXCEPT !.active = FALSE, !.locked = FALSE,
                          !.grabbed = FALSE, !.handlers = 0]
<1>1. h \in Shields /\ ~h.active /\ ~h.locked /\ ~h.grabbed /\ h.handlers = 0
  BY DEF Shields
<1>2. CASE ~e.animations
  <2>1. Hide(s, e) = HideNow(h, e)
    BY <1>2 DEF Hide
  <2> QED BY <1>1, <2>1, HideNowSound
<1>3. CASE e.animations
  <2>1. Hide(s, e) = [h EXCEPT !.opaque = FALSE, !.fade = @ \cup {"out"}]
    BY <1>3 DEF Hide
  <2> HIDE DEF h
  <2>2. h.fade \cup {"out"} \in SUBSET {"in", "out"}
    BY <1>1 DEF Shields
  <2>3. Hide(s, e) \in Shields
    BY <1>1, <2>1, <2>2 DEF Shields
  <2>4. /\ Hide(s, e).active = h.active /\ Hide(s, e).locked = h.locked
        /\ Hide(s, e).grabbed = h.grabbed /\ Hide(s, e).handlers = h.handlers
    BY <1>1, <2>1 DEF Shields
  <2>5. Hide(s, e).fade = h.fade \cup {"out"}
    BY <1>1, <2>1 DEF Shields
  <2> QED BY <1>1, <2>3, <2>4, <2>5 DEF Sound
<1> QED BY <1>2, <1>3

LEMMA ActivateSound ==
  ASSUME NEW e \in Envs, NEW s, Sound(s, e)
  PROVE  Sound(Activate(s, e), e) /\ (s.locked => Activate(s, e).locked)
  BY ShowSound DEF Activate, Sound

LEMMA DeactivateSound ==
  ASSUME NEW e \in Envs, NEW s, Sound(s, e)
  PROVE  Sound(Deactivate(s, e), e)
  BY HideSound DEF Deactivate, Sound

LEMMA LockSound ==
  ASSUME NEW e \in Envs, NEW s, Sound(s, e)
  PROVE  Sound(Lock(s, e), e) /\ Lock(s, e).locked
<1> DEFINE l == [s EXCEPT !.locked = TRUE]
<1>1. l \in Shields /\ l.locked /\ l.handlers = s.handlers
  BY DEF Sound, Shields
<1>2. CASE s.locked
  BY <1>2 DEF Lock
<1>3. CASE ~s.locked /\ s.active
  BY <1>3 DEF Lock, Sound, Shields
<1>4. CASE ~s.locked /\ ~s.active
  <2>1. Lock(s, e) = Show(l, e) /\ s.handlers = 0
    BY <1>4 DEF Lock, Sound
  <2> QED BY <1>1, <2>1, ShowSound
<1> QED BY <1>2, <1>3, <1>4

LEMMA OnInputEventSound ==
  ASSUME NEW e \in Envs, NEW s, Sound(s, e), NEW event
  PROVE  /\ Sound(OnInputEvent(s, e, event), e)
         /\ s.locked /\ event # "unlocking" => OnInputEvent(s, e, event).locked
  BY DeactivateSound DEF OnInputEvent

LEMMA OnLockTimeoutSound ==
  ASSUME NEW e \in Envs, NEW s, Sound(s, e)
  PROVE  Sound(OnLockTimeout(s, e), e) /\ (s.locked => OnLockTimeout(s, e).locked)
<1> DEFINE f == [s EXCEPT !.timer = "off"]
<1>1. Sound(f, e) /\ f.locked = s.locked
  BY DEF Sound, Shields
<1>2. OnLockTimeout(s, e) = IF s.active /\ ~s.locked THEN Lock(f, e) ELSE f
  BY DEF OnLockTimeout
<1> QED BY <1>1, <1>2, LockSound

LEMMA OnPresenceStatusChangedSound ==
  ASSUME NEW e \in Envs, NEW s, Sound(s, e), NEW st
  PROVE  /\ Sound(OnPresenceStatusChanged(s, e, st), e)
         /\ s.locked => OnPresenceStatusChanged(s, e, st).locked
  BY ActivateSound, DeactivateSound DEF OnPresenceStatusChanged

LEMMA FadeCompletedSound ==
  ASSUME NEW e \in Envs, NEW s, Sound(s, e)
  PROVE  Sound(FadeCompleted(s, e), e) /\ FadeCompleted(s, e).locked = s.locked
<1> DEFINE shown  == IF "in" \in s.fade THEN ShowNow(s, e) ELSE s
           hidden == IF "out" \in s.fade THEN HideNow(shown, e) ELSE shown
<1>1. FadeCompleted(s, e) = [hidden EXCEPT !.fade = {}]
  BY DEF FadeCompleted
<1>2. CASE "out" \in s.fade
  <2>1. ~ s.active /\ ~ s.locked /\ ~ s.grabbed /\ s.handlers = 0 /\ s \in Shields
    BY <1>2 DEF Sound, Shields
  <2>2. /\ shown \in Shields /\ ~ shown.active /\ ~ shown.locked /\ ~ shown.grabbed
        /\ shown.handlers = 0
    BY <2>1 DEF ShowNow, StatusChanged, Shields, Envs
  <2>3. hidden = HideNow(shown, e)
    BY <1>2
  <2> HIDE DEF shown, hidden
  <2>4. Sound(hidden, e)
    BY <2>2, <2>3, HideNowSound
  <2>5. ~ hidden.active /\ hidden.timer = "off"
    BY <2>2, <2>3 DEF HideNow, StatusChanged, Shields
  <2>6. hidden \in Shields
    BY <2>4 DEF Sound
  <2>7. ~ hidden.locked /\ ~ hidden.grabbed /\ hidden.handlers = 0
    BY <2>4, <2>5 DEF Sound
  <2> DEFINE r == [hidden EXCEPT !.fade = {}]
  <2>8. /\ r \in Shields /\ ~ r.active /\ ~ r.locked /\ ~ r.grabbed
        /\ r.handlers = 0 /\ r.timer = "off"
    BY <2>5, <2>6, <2>7, FadeEnds
  <2> HIDE DEF r
  <2>9. Sound(r, e) /\ r.locked = s.locked
    BY <2>1, <2>8 DEF Sound, Shields
  <2> QED BY <1>1, <2>9 DEF r
<1>3. CASE "out" \notin s.fade /\ "in" \in s.fade
  <2>1. hidden = ShowNow(s, e)
    BY <1>3
  <2> HIDE DEF shown, hidden
  <2>2. hidden \in Shields /\ hidden.opaque /\ hidden.visible
    BY <2>1 DEF ShowNow, StatusChanged, Sound, Shields, Envs
  <2>3. /\ hidden.active = s.active /\ hidden.locked = s.locked
        /\ hidden.grabbed = s.grabbed /\ hidden.handlers = s.handlers
        /\ hidden.covers = s.covers /\ hidden.timer # "earlier"
    BY <2>1 DEF ShowNow, StatusChanged, Sound, Shields, Envs
  <2> DEFINE r == [hidden EXCEPT !.fade = {}]
  <2>4. /\ r \in Shields /\ r.fade = {} /\ r.opaque /\ r.visible /\ r.timer # "earlier"
        /\ r.active = s.active /\ r.locked = s.locked /\ r.grabbed = s.grabbed
        /\ r.handlers = s.handlers /\ r.covers = s.covers
    BY <2>2, <2>3, FadeEnds
  <2> HIDE DEF r
  <2>5. Sound(r, e)
    BY <2>4 DEF Sound
  <2> QED BY <1>1, <2>4, <2>5 DEF r
<1>4. CASE s.fade = {}
  BY <1>1, <1>4 DEF Sound, Shields
<1>5. s.fade \in SUBSET {"in", "out"}
  BY DEF Sound, Shields
<1> QED BY <1>2, <1>3, <1>4, <1>5

LEMMA ReinitializeSound ==
  ASSUME NEW e \in Envs, NEW s, NEW now \in SUBSET Monitors, Sound(s, e),
         NEW r, r = [e EXCEPT !.monitors = now]
  PROVE  /\ r \in Envs
         /\ s.active => Sound(ReinitializeScreensavers(s, r), r)
         /\ ~s.active => Sound(s, r)
         /\ ReinitializeScreensavers(s, r).locked = s.locked
  BY DEF ReinitializeScreensavers, Sound, Shields, Envs

-----------------------------------------------------------------------------
(* The actions.                                                            *)

LEMMA ConstructedSound ==
  ASSUME NEW e \in Envs
  PROVE  Sound(Constructed, e)
  BY DEF Constructed, Sound, Shields

LEMMA InitInvariant == Init => IInv
<1> SUFFICES ASSUME Init PROVE IInv
  OBVIOUS
<1>1. Env \in Envs
  BY DEF Init, Env, Envs
<1>2. Sound(shield, Env)
  BY <1>1, ConstructedSound DEF Init
<1>3. PresenceOK
  BY DEF Init, PresenceOK, Statuses
<1> QED BY <1>1, <1>2, <1>3, PartsOfIInv

\* What only the settings depend on survives what leaves them alone.
LEMMA SettingsUnchanged ==
  ASSUME UNCHANGED settings
  PROVE  Env' = Env /\ switched' = switched
  BY DEF settings, Env

\* SetStatus in a sound state.
LEMMA SetStatusSound ==
  ASSUME Env \in Envs, Sound(shield, Env), NEW now \in Statuses, SetStatus(now)
  PROVE  /\ Sound(shield', Env)
         /\ status' \in Statuses
         /\ shield.locked => shield'.locked
  BY OnPresenceStatusChangedSound DEF SetStatus

\* Every step keeps IInv, and keeps a locked screen locked unless it unlocks.
LEMMA NextInvariant ==
  ASSUME IInv, [Next]_vars
  PROVE  /\ IInv'
         /\ shield.locked /\ ~shield'.locked
              => InputEvent("unlocking") \/ HandleSetActive(FALSE)
<1> DEFINE Kept == /\ Sound(shield', Env') /\ Env' \in Envs /\ PresenceOK'
                   /\ shield.locked /\ ~shield'.locked
                        => InputEvent("unlocking") \/ HandleSetActive(FALSE)
<1> USE PartsOfIInv
<1>0. SUFFICES Kept
  <2>1. IInv' <=> Sound(shield', Env') /\ Env' \in Envs /\ PresenceOK'
    BY DEF IInv, TypeOK, Shielded, EarlierTimerEnds, Sound, PresenceOK, Env, Envs
  <2> QED BY <2>1
<1>1. CASE HandleLock
  BY <1>1, LockSound, SettingsUnchanged DEF HandleLock, presence, PresenceOK
<1>2. ASSUME NEW on \in BOOLEAN, HandleSetActive(on) PROVE Kept
  BY <1>2, ActivateSound, DeactivateSound, SettingsUnchanged
     DEF HandleSetActive, presence, PresenceOK
<1>3. ASSUME NEW event \in InputEvents, InputEvent(event) PROVE Kept
  BY <1>3, OnInputEventSound, SettingsUnchanged DEF InputEvent, presence, PresenceOK
<1>4. ASSUME NEW now \in SUBSET Monitors, MonitorsChange(now) PROVE Kept
  <2> DEFINE r == [Env EXCEPT !.monitors = now]
  <2>1. Env' = r
    BY <1>4 DEF MonitorsChange, Env
  <2>2. /\ r \in Envs
        /\ shield.active => Sound(ReinitializeScreensavers(shield, r), r)
        /\ ~shield.active => Sound(shield, r)
        /\ ReinitializeScreensavers(shield, r).locked = shield.locked
    BY ReinitializeSound
  <2>3. shield' = IF shield.active THEN ReinitializeScreensavers(shield, r) ELSE shield
    BY <1>4 DEF MonitorsChange, Sound
  <2>4. PresenceOK'
    BY <1>4 DEF MonitorsChange, presence, PresenceOK
  <2> QED BY <2>1, <2>2, <2>3, <2>4
<1>5. CASE FadeCompletes
  BY <1>5, FadeCompletedSound, SettingsUnchanged DEF FadeCompletes, presence, PresenceOK
<1>6. CASE LockTimeout
  BY <1>6, OnLockTimeoutSound, SettingsUnchanged DEF LockTimeout, presence, PresenceOK
<1>7. CASE ProxyReady
  BY <1>7, SetStatusSound, SettingsUnchanged DEF ProxyReady, PresenceOK
<1>8. CASE ProxyFails
  BY <1>8, SettingsUnchanged DEF ProxyFails, PresenceOK
<1>9. ASSUME NEW now \in Statuses, SessionStatusChanges(now) PROVE Kept
  BY <1>9, SetStatusSound, SettingsUnchanged DEF SessionStatusChanges, PresenceOK
<1>10. CASE EnableAnimationsChanged
  <2>1. Env' \in Envs /\ Env'.monitors = Env.monitors /\ PresenceOK'
    BY <1>10 DEF EnableAnimationsChanged, Env, Envs, presence, PresenceOK
  <2> QED BY <1>10, <2>1 DEF EnableAnimationsChanged, Sound
<1>11. CASE LockEnabledChanged
  <2>1. Env' \in Envs /\ Env'.monitors = Env.monitors /\ PresenceOK'
    BY <1>11 DEF LockEnabledChanged, Env, Envs, presence, PresenceOK
  <2> QED BY <1>11, <2>1 DEF LockEnabledChanged, Sound
<1>12. CASE UNCHANGED vars
  BY <1>12, SettingsUnchanged DEF vars, presence, PresenceOK
<1> QED BY <1>1, <1>2, <1>3, <1>4, <1>5, <1>6, <1>7, <1>8, <1>9, <1>10, <1>11, <1>12
        DEF Next

\* The inductive invariant: no callback ever leaves the screensaver unsound.
THEOREM AlwaysSound == Spec => []IInv
<1>1. IInv /\ [Next]_vars => IInv'
  BY NextInvariant
<1> QED BY InitInvariant, <1>1, PTL DEF Spec

\* Every variable has its type, and the handlers are never connected twice.
THEOREM TypeCorrect == Spec => []TypeOK
<1>1. IInv => TypeOK
  BY DEF IInv
<1> QED BY AlwaysSound, <1>1, PTL

\* For any monitors, what is active covers all of them and holds the input, in any
\* order of callers, fades, monitors and settings (kiosk_screensaver_show and
\* reinitialize_screensavers against kiosk_screensaver_hide).
THEOREM ActiveIsShielded == Spec => []Shielded
<1>1. IInv => Shielded
  BY DEF IInv
<1> QED BY AlwaysSound, <1>1, PTL

\* The lock timer of an earlier showing is dropped or replaced when the fade of the
\* present one ends (on_screensaver_status_changed).
THEOREM EarlierTimersEnd == Spec => []EarlierTimerEnds
<1>1. IInv => EarlierTimerEnds
  BY DEF IInv
<1> QED BY AlwaysSound, <1>1, PTL

\* No handler but those of an unlocking gesture and of SetActive(FALSE) takes back
\* the lock, switching animations in the middle of a fade included.
THEOREM OnlyUnlockingUnlocks == Spec => OnlyUnlocking
<1>1. IInv /\ [Next]_vars
        => [shield.locked /\ ~shield'.locked
              => InputEvent("unlocking") \/ HandleSetActive(FALSE)]_vars
  BY NextInvariant
<1> QED BY AlwaysSound, <1>1, PTL DEF Spec, OnlyUnlocking
=============================================================================
