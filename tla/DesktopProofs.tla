----------------------------- MODULE DesktopProofs -----------------------------
(***************************************************************************)
(* What holds of backgrounds, backlights, the magnifier and the automount  *)
(* manager for any monitors, settings and volumes, and however much        *)
(* happens. Each part has an invariant of its own, over its own variables  *)
(* and its own notices and deferred callbacks; a step of another part      *)
(* leaves all of these alone. The backgrounds need to know, beyond what    *)
(* is promised, what the pictures being read are for; the magnifier, that  *)
(* it tracks the pointer exactly while it is enabled and has read the      *)
(* factor of every notice it was given.                                    *)
(***************************************************************************)
EXTENDS Desktop, TLAPS

MainLoopOK ==
  /\ monitors \subseteq Monitors
  /\ notices \subseteq {"background", "magnify", "factor", "automount"}
  /\ deferred \subseteq {"reinitialize", "automount"} \cup Volumes

BackInv ==
  /\ BackTypeOK
  /\ BackgroundsFollow
  /\ BackgroundsServed => \A l \in loads : l.live => l.look = wanted

BrightInv == BrightTypeOK /\ BacklightsAgree

MagInv ==
  /\ MagTypeOK
  /\ tracking = enabled
  /\ "magnify" \notin notices => enabled = magnify
  /\ ~enabled => zoom = NoZoom
  /\ enabled /\ "factor" \notin notices => zoom = factor /\ magFactor = factor

MountInv == MountTypeOK /\ ListeningFollowsSetting /\ VolumesGetTheirTurn

IInv == MainLoopOK /\ BackInv /\ BrightInv /\ MagInv /\ MountInv

-----------------------------------------------------------------------------
(* Backgrounds.                                                            *)

\* What another part does leaves the backgrounds as they are.
BackUntouched ==
  /\ UNCHANGED <<backVars, monitors>>
  /\ BackgroundsServed' = BackgroundsServed

LEMMA BackUntouchedKept == BackInv /\ BackUntouched => BackInv'
  BY DEF BackInv, BackUntouched, BackTypeOK, BackgroundsFollow, backVars

LEMMA FreshLooks ==
  ASSUME NEW look \in Looks, NEW cached
  PROVE  /\ Fresh(look, cached) \in {look, Blank}
         /\ Fresh(look, cached) = Blank => look \in Pictures
  BY BlankIsNoLook DEF Fresh, Looks

LEMMA ReinitializedBackgrounds ==
  ASSUME BackTypeOK, NEW active \in SUBSET Monitors,
         ReinitializeBackgrounds(active, wanted), wanted' = wanted, monitors' = active
  PROVE  BackInv'
<1> DEFINE Stale == { [l EXCEPT !.live = FALSE] : l \in loads }
           look  == Fresh(wanted, cache)
           New   == { [monitor |-> m, look |-> wanted, live |-> TRUE] : m \in active }
           Loads == [monitor : Monitors, look : Pictures, live : BOOLEAN]
<1>1. wanted \in Looks /\ look \in {wanted, Blank} /\ (look = Blank => wanted \in Pictures)
  BY FreshLooks DEF BackTypeOK
<1>2. shown' = [m \in active |-> look] /\ cache' = cache
      /\ loads' = Stale \cup IF look = Blank THEN New ELSE {}
  BY DEF ReinitializeBackgrounds
<1>3. Stale \subseteq Loads /\ \A l \in Stale : ~l.live
  BY DEF BackTypeOK
<1>4. ASSUME look = Blank, NEW m \in active
      PROVE  [monitor |-> m, look |-> wanted, live |-> TRUE] \in Loads
  <2>1. m \in Monitors /\ wanted \in Pictures
    BY <1>1, <1>4
  <2> QED BY <2>1
<1>5. BackTypeOK'
  BY <1>1, <1>2, <1>3, <1>4 DEF BackTypeOK
<1>6. \A l \in loads' : l.live => l.look = wanted
  BY <1>2, <1>3
<1>7. \A m \in active : look = Blank => [monitor |-> m, look |-> wanted, live |-> TRUE] \in loads'
  BY <1>2
<1> QED
  <2> HIDE DEF look, New, Stale
  <2> QED BY <1>1, <1>2, <1>5, <1>6, <1>7 DEF BackInv, BackgroundsFollow

LEMMA LoadedTextures ==
  ASSUME BackInv, NEW l \in loads, OnTextureLoaded(l),
         wanted' = wanted, monitors' = monitors, BackgroundsServed' = BackgroundsServed
  PROVE  BackInv'
<1>1. l.look \in Pictures /\ l.look.file \in Files
  BY DEF BackInv, BackTypeOK, Pictures
<1>2. BackTypeOK'
  BY <1>1 DEF BackInv, BackTypeOK, OnTextureLoaded, Looks
<1>3. BackgroundsServed => \A k \in loads' : k.live => k.look = wanted
  BY DEF BackInv, OnTextureLoaded
<1>4. ASSUME BackgroundsServed, NEW m \in monitors
      PROVE  \/ shown'[m] = wanted
             \/ /\ shown'[m] = Blank
                /\ \/ wanted.file \in Unreadable
                   \/ [monitor |-> m, look |-> wanted, live |-> TRUE] \in loads'
  <2>1. \/ shown[m] = wanted
        \/ /\ shown[m] = Blank
           /\ \/ wanted.file \in Unreadable
              \/ [monitor |-> m, look |-> wanted, live |-> TRUE] \in loads
    BY <1>4 DEF BackInv, BackgroundsFollow
  <2>2. l.live => l.look = wanted
    BY <1>4 DEF BackInv
  <2>3. CASE l.look.file \in Unreadable
    <3>1. shown' = shown /\ loads' = loads \ {l}
      BY <2>3 DEF OnTextureLoaded
    <3>2. l = [monitor |-> m, look |-> wanted, live |-> TRUE] => wanted.file \in Unreadable
      BY <2>3
    <3> QED BY <2>1, <3>1, <3>2
  <2>4. CASE l.look.file \notin Unreadable
    <3>1. loads' = loads \ {l}
          /\ shown'[m] = IF l.live /\ m = l.monitor THEN l.look ELSE shown[m]
      BY <2>4 DEF OnTextureLoaded
    <3>2. l = [monitor |-> m, look |-> wanted, live |-> TRUE] => l.live /\ m = l.monitor
      OBVIOUS
    <3> QED BY <2>1, <2>2, <3>1, <3>2
  <2> QED BY <2>3, <2>4
<1> QED BY <1>2, <1>3, <1>4 DEF BackInv, BackgroundsFollow

-----------------------------------------------------------------------------
(* Brightness.                                                             *)

LEMMA BrightUntouchedKept ==
  BrightInv /\ UNCHANGED <<brightVars, monitors>> => BrightInv'
  BY DEF BrightInv, BrightTypeOK, BacklightsAgree, brightVars, HasControl

LEMMA Levels ==
  ASSUME NEW m \in Backlit, NEW t \in Int, NEW dim \in BOOLEAN
  PROVE  LevelOf(m, t, dim) \in Int
<1> DEFINE least == Backlight[m][1]
           most  == Backlight[m][2]
           frac  == t * IF dim THEN 30 ELSE 100
           part  == (frac * (most - least)) \div 10000
<1>1. least \in Nat /\ most \in Nat
  BY BacklightRanges DEF Backlit
<1>2. frac \in Int
  OBVIOUS
<1>3. frac * (most - least) \in Int
  <2> HIDE DEF frac, least, most
  <2> QED BY <1>1, <1>2
<1>4. part \in Int
  <2> DEFINE product == frac * (most - least)
  <2>1. product \in Int
    BY <1>3
  <2>2. part = product \div 10000
    OBVIOUS
  <2> HIDE DEF product, part
  <2> QED BY <2>1, <2>2
<1>5. LevelOf(m, t, dim) = IF least + part > most THEN most
                          ELSE IF least + part < least THEN least ELSE least + part
  BY DEF LevelOf, Fraction
<1> QED
  <2> HIDE DEF part, least, most
  <2> QED BY <1>1, <1>4, <1>5

LEMMA BrightMonitors ==
  ASSUME BrightInv, monitors \subseteq Monitors, NEW active \in SUBSET Monitors,
         BrightMonitorsChanged(active), monitors' = active
  PROVE  BrightInv'
  BY DEF BrightInv, BrightTypeOK, BacklightsAgree, BrightMonitorsChanged, HasControl

\* Whatever the target and the dimming are now, they have been applied.
LEMMA Applied ==
  ASSUME BrightInv, NEW t \in 0..100, NEW dim \in BOOLEAN, ApplyBrightness(t, dim),
         target' = t, dimming' = dim, fresh' = {}, control' = control, monitors' = monitors
  PROVE  BrightInv'
<1>1. \A m \in Backlit : LevelOf(m, t, dim) \in Int
  BY Levels
<1>2. level' \in [Backlit -> Int \cup {Own}]
  BY <1>1 DEF ApplyBrightness, BrightInv, BrightTypeOK
<1>3. control = HasControl(monitors)
  BY DEF BrightInv, BacklightsAgree
<1>4. ASSUME NEW m \in monitors \cap Backlit PROVE level'[m] = LevelOf(m, t, dim)
  BY <1>3 DEF ApplyBrightness, HasControl
<1>5. BrightTypeOK'
  BY <1>2 DEF BrightInv, BrightTypeOK
<1>6. BacklightsAgree'
  BY <1>3, <1>4 DEF BacklightsAgree, HasControl, LevelOf, Fraction
<1> QED BY <1>5, <1>6 DEF BrightInv

LEMMA BrightnessCalls ==
  ASSUME BrightInv, BrightnessCall
  PROVE  BrightInv'
<1>1. monitors' = monitors
  BY DEF BrightnessCall, loopVars
<1>2. ASSUME NEW enable \in BOOLEAN, SetDimming(enable) PROVE BrightInv'
  <2>1. CASE dimming # enable
    <3>1. target \in 0..100
      BY DEF BrightInv, BrightTypeOK
    <3> QED BY <1>1, <1>2, <2>1, <3>1, Applied DEF SetDimming
  <2>2. CASE dimming = enable
    BY <1>1, <1>2, <2>2, BrightUntouchedKept DEF SetDimming, brightVars
  <2> QED BY <2>1, <2>2
<1>3. ASSUME NEW t \in Targets, SetAutoBrightnessTarget(t) PROVE BrightInv'
  <2>1. CASE t \in 0..100 /\ t # target
    <3>1. dimming \in BOOLEAN
      BY DEF BrightInv, BrightTypeOK
    <3> QED BY <1>1, <1>3, <2>1, <3>1, Applied DEF SetAutoBrightnessTarget
  <2>2. CASE ~(t \in 0..100 /\ t # target)
    BY <1>1, <1>3, <2>2, BrightUntouchedKept DEF SetAutoBrightnessTarget, brightVars
  <2> QED BY <2>1, <2>2
<1> QED BY <1>2, <1>3 DEF BrightnessCall

-----------------------------------------------------------------------------
(* The magnifier.                                                          *)

MagUntouched ==
  /\ UNCHANGED magVars
  /\ ("magnify" \in notices') = ("magnify" \in notices)
  /\ ("factor" \in notices') = ("factor" \in notices)

LEMMA MagUntouchedKept == MagInv /\ MagUntouched => MagInv'
<1> SUFFICES ASSUME MagInv, MagUntouched PROVE MagInv'
  OBVIOUS
<1> QED BY DEF MagInv, MagUntouched, MagTypeOK, magVars

LEMMA MagnifierSettings ==
  ASSUME MagInv, MagnifierSetting
  PROVE  MagInv'
<1>1. CASE MagnifySettingChanges
  BY <1>1 DEF MagInv, MagTypeOK, MagnifySettingChanges, Notify
<1>2. ASSUME NEW f \in Factors, FactorSettingChanges(f) PROVE MagInv'
  BY <1>2 DEF MagInv, MagTypeOK, FactorSettingChanges, Notify
<1> QED BY <1>1, <1>2 DEF MagnifierSetting

LEMMA MagnifierSteps ==
  ASSUME MagInv, MagnifierStep
  PROVE  MagInv'
<1>1. CASE OnMagnifierEnabledChanged
  BY <1>1 DEF MagInv, MagTypeOK, OnMagnifierEnabledChanged, Noticed
<1>2. CASE OnMagFactorChanged
  BY <1>2 DEF MagInv, MagTypeOK, OnMagFactorChanged, Noticed
<1>3. CASE CursorMoves
  BY <1>3 DEF MagInv, MagTypeOK, CursorMoves
<1> QED BY <1>1, <1>2, <1>3 DEF MagnifierStep

-----------------------------------------------------------------------------
(* The automount manager.                                                  *)

\* What another part does queues and serves nothing of the automount manager.
MountUntouched ==
  /\ UNCHANGED mountVars
  /\ ("automount" \in notices') = ("automount" \in notices)
  /\ \A k \in Volumes \cup {"automount"} : (k \in deferred') = (k \in deferred)

LEMMA MountUntouchedKept == MountInv /\ MountUntouched => MountInv'
<1> SUFFICES ASSUME MountInv, MountUntouched PROVE MountInv'
  OBVIOUS
<1>1. MountTypeOK'
  BY DEF MountInv, MountUntouched, MountTypeOK, mountVars
<1>2. ListeningFollowsSetting'
  BY DEF MountInv, MountUntouched, ListeningFollowsSetting, mountVars
<1>3. VolumesGetTheirTurn'
  BY VolumesAreNoKeys DEF MountInv, MountUntouched, VolumesGetTheirTurn, mountVars
<1> QED BY <1>1, <1>2, <1>3 DEF MountInv

LEMMA MountEvents ==
  ASSUME MountInv, MountEvent
  PROVE  MountInv'
<1> USE DEF MountInv, MountTypeOK, ListeningFollowsSetting, VolumesGetTheirTurn
<1>1. CASE AutomountSettingChanges
  BY <1>1 DEF AutomountSettingChanges, Notify
<1>2. ASSUME NEW v \in Volumes, VolumeAppears(v) PROVE MountInv'
  BY <1>2, VolumesAreNoKeys DEF VolumeAppears, Queued
<1>3. ASSUME NEW v \in Volumes, VolumeGoes(v) PROVE MountInv'
  BY <1>3, VolumesAreNoKeys DEF VolumeGoes
<1>4. ASSUME NEW v \in Volumes, PersonMounts(v) PROVE MountInv'
  BY <1>4, VolumesAreNoKeys DEF PersonMounts
<1> QED BY <1>1, <1>2, <1>3, <1>4 DEF MountEvent

LEMMA MountSteps ==
  ASSUME MountInv, NEW v \in Volumes, MountStep(v)
  PROVE  MountInv'
<1> USE DEF MountInv, MountTypeOK, ListeningFollowsSetting, VolumesGetTheirTurn
<1>1. CASE OnVolumeAdded(v)
  BY <1>1, VolumesAreNoKeys DEF OnVolumeAdded, Ran
<1>2. CASE MountEnds(v)
  BY <1>2, VolumesAreNoKeys DEF MountEnds, Present
<1> QED BY <1>1, <1>2 DEF MountStep

LEMMA MountSettingSteps ==
  ASSUME MountInv, MountSettingStep
  PROVE  MountInv'
<1> USE DEF MountInv, MountTypeOK, ListeningFollowsSetting, VolumesGetTheirTurn
<1>1. CASE OnAutomountSettingChanged
  BY <1>1 DEF OnAutomountSettingChanged, Queued, Noticed
<1>2. CASE OnMediaAutomountChanged
  BY <1>2, VolumesAreNoKeys DEF OnMediaAutomountChanged, Ran, Present
<1> QED BY <1>1, <1>2 DEF MountSettingStep

-----------------------------------------------------------------------------
(* All of them.                                                            *)

LEMMA MainLoopKept ==
  ASSUME MainLoopOK, [Next]_vars
  PROVE  MainLoopOK'
<1> USE DEF MainLoopOK
<1>1. CASE MonitorsChange
  BY <1>1 DEF MonitorsChange
<1>2. CASE BrightnessCall
  BY <1>2 DEF BrightnessCall, loopVars
<1>3. CASE BackgroundSetting
  BY <1>3 DEF BackgroundSetting, BackSettingChanges, Notify
<1>4. CASE MagnifierSetting
  BY <1>4 DEF MagnifierSetting, MagnifySettingChanges, FactorSettingChanges, Notify
<1>5. CASE MountEvent
  BY <1>5 DEF MountEvent, AutomountSettingChanges, VolumeAppears, VolumeGoes, PersonMounts,
              Notify, Queued
<1>6. CASE BackgroundStep
  BY <1>6 DEF BackgroundStep, OnBackSettingChanged, DeferredReinitialize, TextureLoaded,
              Noticed, Queued, Ran
<1>7. CASE MagnifierStep
  BY <1>7 DEF MagnifierStep, OnMagnifierEnabledChanged, OnMagFactorChanged, CursorMoves, Noticed
<1>8. CASE MountSettingStep
  BY <1>8 DEF MountSettingStep, OnAutomountSettingChanged, OnMediaAutomountChanged,
              Noticed, Queued, Ran, Present
<1>9. ASSUME NEW v \in Volumes, MountStep(v) PROVE MainLoopOK'
  BY <1>9 DEF MountStep, OnVolumeAdded, MountEnds, Ran
<1>10. CASE UNCHANGED vars
  BY <1>10 DEF vars, loopVars
<1> QED BY <1>1, <1>2, <1>3, <1>4, <1>5, <1>6, <1>7, <1>8, <1>9, <1>10
        DEF Next, Outside, Inside

LEMMA BackKept ==
  ASSUME MainLoopOK, BackInv, [Next]_vars
  PROVE  BackInv'
<1> USE DEF BackgroundsServed
<1>1. CASE MonitorsChange
  <2>1. PICK active \in SUBSET Monitors :
          monitors' = active /\ ReinitializeBackgrounds(active, wanted)
    BY <1>1 DEF MonitorsChange
  <2> QED BY <1>1, <2>1, ReinitializedBackgrounds DEF BackInv, MonitorsChange
<1>2. CASE BackgroundSetting
  <2>1. PICK look \in Looks : BackSettingChanges(look)
    BY <1>2 DEF BackgroundSetting
  <2> QED BY <2>1 DEF BackSettingChanges, Notify, BackInv, BackTypeOK, BackgroundsFollow
<1>3. CASE BrightnessCall
  BY <1>3, BackUntouchedKept DEF BrightnessCall, loopVars, BackUntouched
<1>4. CASE MagnifierSetting
  BY <1>4, BackUntouchedKept DEF MagnifierSetting, MagnifySettingChanges,
     FactorSettingChanges, Notify, BackUntouched
<1>5. CASE MountEvent
  BY <1>5, BackUntouchedKept, VolumesAreNoKeys DEF MountEvent, AutomountSettingChanges,
     VolumeAppears, VolumeGoes, PersonMounts, Notify, Queued, BackUntouched
<1>6. CASE BackgroundStep
  <2>1. CASE OnBackSettingChanged
    BY <2>1 DEF OnBackSettingChanged, Queued, BackInv, BackTypeOK, BackgroundsFollow
  <2>2. CASE DeferredReinitialize
    BY <2>2, ReinitializedBackgrounds DEF DeferredReinitialize, BackInv, MainLoopOK
  <2>3. ASSUME NEW l \in loads, TextureLoaded(l) PROVE BackInv'
    BY <2>3, LoadedTextures DEF TextureLoaded
  <2> QED BY <1>6, <2>1, <2>2, <2>3 DEF BackgroundStep
<1>7. CASE MagnifierStep
  BY <1>7, BackUntouchedKept DEF MagnifierStep, OnMagnifierEnabledChanged,
     OnMagFactorChanged, CursorMoves, Noticed, BackUntouched
<1>8. CASE MountSettingStep
  BY <1>8, BackUntouchedKept, VolumesAreNoKeys DEF MountSettingStep, OnAutomountSettingChanged,
     OnMediaAutomountChanged, Noticed, Queued, Ran, Present, BackUntouched
<1>9. ASSUME NEW v \in Volumes, MountStep(v) PROVE BackInv'
  BY <1>9, BackUntouchedKept, VolumesAreNoKeys DEF MountStep, OnVolumeAdded, MountEnds, Ran,
     BackUntouched
<1>10. CASE UNCHANGED vars
  BY <1>10, BackUntouchedKept DEF vars, loopVars, BackUntouched
<1> QED BY <1>1, <1>2, <1>3, <1>4, <1>5, <1>6, <1>7, <1>8, <1>9, <1>10
        DEF Next, Outside, Inside

LEMMA BrightKept ==
  ASSUME MainLoopOK, BrightInv, [Next]_vars
  PROVE  BrightInv'
<1>1. CASE MonitorsChange
  BY <1>1, BrightMonitors DEF MonitorsChange, MainLoopOK
<1>2. CASE BrightnessCall
  BY <1>2, BrightnessCalls
<1>3. CASE BackgroundSetting
  BY <1>3, BrightUntouchedKept DEF BackgroundSetting, BackSettingChanges
<1>4. CASE MagnifierSetting
  BY <1>4, BrightUntouchedKept DEF MagnifierSetting, MagnifySettingChanges, FactorSettingChanges
<1>5. CASE MountEvent
  BY <1>5, BrightUntouchedKept DEF MountEvent, AutomountSettingChanges, VolumeAppears,
     VolumeGoes, PersonMounts
<1>6. CASE BackgroundStep
  BY <1>6, BrightUntouchedKept DEF BackgroundStep, OnBackSettingChanged, DeferredReinitialize,
     TextureLoaded
<1>7. CASE MagnifierStep
  BY <1>7, BrightUntouchedKept DEF MagnifierStep, OnMagnifierEnabledChanged,
     OnMagFactorChanged, CursorMoves
<1>8. CASE MountSettingStep
  BY <1>8, BrightUntouchedKept DEF MountSettingStep, OnAutomountSettingChanged,
     OnMediaAutomountChanged
<1>9. ASSUME NEW v \in Volumes, MountStep(v) PROVE BrightInv'
  BY <1>9, BrightUntouchedKept DEF MountStep, OnVolumeAdded, MountEnds
<1>10. CASE UNCHANGED vars
  BY <1>10, BrightUntouchedKept DEF vars, loopVars
<1> QED BY <1>1, <1>2, <1>3, <1>4, <1>5, <1>6, <1>7, <1>8, <1>9, <1>10
        DEF Next, Outside, Inside

LEMMA MagKept ==
  ASSUME MagInv, [Next]_vars
  PROVE  MagInv'
<1>1. CASE MonitorsChange
  BY <1>1, MagUntouchedKept DEF MonitorsChange, MagUntouched
<1>2. CASE BrightnessCall
  BY <1>2, MagUntouchedKept DEF BrightnessCall, loopVars, MagUntouched
<1>3. CASE BackgroundSetting
  BY <1>3, MagUntouchedKept DEF BackgroundSetting, BackSettingChanges, Notify, MagUntouched
<1>4. CASE MagnifierSetting
  BY <1>4, MagnifierSettings
<1>5. CASE MountEvent
  BY <1>5, MagUntouchedKept DEF MountEvent, AutomountSettingChanges, VolumeAppears,
     VolumeGoes, PersonMounts, Notify, MagUntouched
<1>6. CASE BackgroundStep
  BY <1>6, MagUntouchedKept DEF BackgroundStep, OnBackSettingChanged, DeferredReinitialize,
     TextureLoaded, Noticed, MagUntouched
<1>7. CASE MagnifierStep
  BY <1>7, MagnifierSteps
<1>8. CASE MountSettingStep
  BY <1>8, MagUntouchedKept DEF MountSettingStep, OnAutomountSettingChanged,
     OnMediaAutomountChanged, Noticed, MagUntouched
<1>9. ASSUME NEW v \in Volumes, MountStep(v) PROVE MagInv'
  BY <1>9, MagUntouchedKept DEF MountStep, OnVolumeAdded, MountEnds, MagUntouched
<1>10. CASE UNCHANGED vars
  BY <1>10, MagUntouchedKept DEF vars, loopVars, MagUntouched
<1> QED BY <1>1, <1>2, <1>3, <1>4, <1>5, <1>6, <1>7, <1>8, <1>9, <1>10
        DEF Next, Outside, Inside

LEMMA MountKept ==
  ASSUME MountInv, [Next]_vars
  PROVE  MountInv'
<1>1. CASE MonitorsChange
  BY <1>1, MountUntouchedKept DEF MonitorsChange, MountUntouched
<1>2. CASE BrightnessCall
  BY <1>2, MountUntouchedKept DEF BrightnessCall, loopVars, MountUntouched
<1>3. CASE BackgroundSetting
  BY <1>3, MountUntouchedKept DEF BackgroundSetting, BackSettingChanges, Notify, MountUntouched
<1>4. CASE MagnifierSetting
  BY <1>4, MountUntouchedKept DEF MagnifierSetting, MagnifySettingChanges,
     FactorSettingChanges, Notify, MountUntouched
<1>5. CASE MountEvent
  BY <1>5, MountEvents
<1>6. CASE BackgroundStep
  BY <1>6, MountUntouchedKept, VolumesAreNoKeys DEF BackgroundStep, OnBackSettingChanged,
     DeferredReinitialize, TextureLoaded, Noticed, Queued, Ran, MountUntouched
<1>7. CASE MagnifierStep
  BY <1>7, MountUntouchedKept DEF MagnifierStep, OnMagnifierEnabledChanged,
     OnMagFactorChanged, CursorMoves, Noticed, MountUntouched
<1>8. CASE MountSettingStep
  BY <1>8, MountSettingSteps
<1>9. ASSUME NEW v \in Volumes, MountStep(v) PROVE MountInv'
  BY <1>9, MountSteps
<1>10. CASE UNCHANGED vars
  BY <1>10, MountUntouchedKept DEF vars, loopVars, MountUntouched
<1> QED BY <1>1, <1>2, <1>3, <1>4, <1>5, <1>6, <1>7, <1>8, <1>9, <1>10
        DEF Next, Outside, Inside

-----------------------------------------------------------------------------
(* The invariant, and what follows.                                        *)

LEMMA InitInvariant == Init => IInv
<1> SUFFICES ASSUME Init PROVE IInv
  OBVIOUS
<1>1. MainLoopOK
  BY DEF Init, MainLoopOK
<1>2. BackInv
  <2> DEFINE New == { [monitor |-> m, look |-> wanted, live |-> TRUE] : m \in monitors }
             look == Fresh(wanted, {})
  <2>1. /\ wanted \in Looks /\ cache = {} /\ shown = [m \in monitors |-> look]
        /\ loads = IF wanted \in Colors THEN {} ELSE New
    BY DEF Init, BackInit
  <2>2. look = IF wanted \in Colors THEN wanted ELSE Blank
    BY DEF Fresh
  <2>3. monitors \subseteq Monitors
    BY DEF Init
  <2>4. ASSUME wanted \notin Colors, NEW m \in monitors
        PROVE  [monitor |-> m, look |-> wanted, live |-> TRUE]
                 \in [monitor : Monitors, look : Pictures, live : BOOLEAN]
    <3>1. m \in Monitors /\ wanted \in Pictures
      BY <2>1, <2>3, <2>4 DEF Looks
    <3> QED BY <3>1
  <2>5. BackTypeOK
    BY <2>1, <2>2, <2>4 DEF BackTypeOK
  <2>6. BackgroundsFollow /\ \A l \in loads : l.look = wanted
    BY <2>1, <2>2 DEF BackgroundsFollow
  <2> QED BY <2>5, <2>6 DEF BackInv
<1>3. BrightInv
  <2>1. level \in [Backlit -> Int \cup {Own}]
    BY DEF Init, BrightInit
  <2>2. BrightTypeOK
    <3>1. control \in BOOLEAN
      BY DEF Init, BrightInit, HasControl
    <3>2. target = 100 /\ dimming = FALSE /\ fresh = monitors /\ monitors \subseteq Monitors
      BY DEF Init, BrightInit
    <3>3. target \in 0..100
      BY <3>2
    <3> QED BY <2>1, <3>1, <3>2, <3>3 DEF BrightTypeOK
  <2>3. BacklightsAgree
    BY DEF Init, BrightInit, BacklightsAgree
  <2> QED BY <2>2, <2>3 DEF BrightInv
<1>4. MagInv
  BY DEF Init, MagInit, MagInv, MagTypeOK
<1>5. MountInv
  BY DEF Init, MountInit, MountInv, MountTypeOK, ListeningFollowsSetting, VolumesGetTheirTurn
<1> QED BY <1>1, <1>2, <1>3, <1>4, <1>5 DEF IInv

LEMMA NextInvariant == IInv /\ [Next]_vars => IInv'
  BY MainLoopKept, BackKept, BrightKept, MagKept, MountKept DEF IInv

\* The invariant of the desktop holds in every state, for any monitors, settings and
\* volumes and however much happens.
THEOREM DesktopInvariant == Spec => []IInv
  BY InitInvariant, NextInvariant, PTL DEF Spec

\* The events counted stay within their bound.
LEMMA EventsBounded == Spec => [](events \in 0..MaxEvents)
<1>1. Init => events \in 0..MaxEvents
  BY MaxEventsNat DEF Init
<1>2. events \in 0..MaxEvents /\ [Next]_vars => (events \in 0..MaxEvents)'
  <2> SUFFICES ASSUME events \in 0..MaxEvents, [Next]_vars PROVE events' \in 0..MaxEvents
    OBVIOUS
  <2>1. \/ events < MaxEvents /\ events' = events + 1
        \/ events' = events
    BY DEF Next, Outside, Inside, vars
  <2> QED BY <2>1, MaxEventsNat
<1> QED BY <1>1, <1>2, PTL DEF Spec

\* Every variable of the four parts has its type in every state.
THEOREM TypeCorrect == Spec => []TypeOK
<1>1. IInv /\ events \in 0..MaxEvents => TypeOK
  BY DEF IInv, MainLoopOK, BackInv, BrightInv, MagInv, MountInv, TypeOK
<1> QED BY <1>1, DesktopInvariant, EventsBounded, PTL

\* A background never shows what the settings said before they were last served,
\* whichever thread finishes reading when (on_texture_loaded).
THEOREM BackgroundsAlwaysFollow == Spec => []BackgroundsFollow
<1>1. IInv => BackgroundsFollow
  BY DEF IInv, BackInv
<1> QED BY <1>1, DesktopInvariant, PTL

\* Backlights there were at the last change are at the level of the target and the
\* dimming, for any ranges and targets (apply_brightness).
THEOREM BacklightsAlwaysAgree == Spec => []BacklightsAgree
<1>1. IInv => BacklightsAgree
  BY DEF IInv, BrightInv
<1> QED BY <1>1, DesktopInvariant, PTL

\* The zoom is that of the settings whenever both were noticed
\* (kiosk_magnifier_update_state, on_mag_factor_changed).
THEOREM ZoomAlwaysFollows == Spec => []ZoomFollowsSettings
<1>1. IInv => ZoomFollowsSettings
  BY DEF IInv, MagInv, ZoomFollowsSettings
<1> QED BY <1>1, DesktopInvariant, PTL

\* The automount manager listens exactly while the session wants volumes mounted
\* (on_media_automount_changed).
THEOREM ListeningAlwaysFollows == Spec => []ListeningFollowsSetting
<1>1. IInv => ListeningFollowsSetting
  BY DEF IInv, MountInv
<1> QED BY <1>1, DesktopInvariant, PTL

\* Whenever a volume appears, it gets its turn (on_volume_added).
THEOREM VolumesAlwaysGetTheirTurn == Spec => []VolumesGetTheirTurn
<1>1. IInv => VolumesGetTheirTurn
  BY DEF IInv, MountInv
<1> QED BY <1>1, DesktopInvariant, PTL
=============================================================================
