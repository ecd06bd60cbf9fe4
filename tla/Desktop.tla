-------------------------------- MODULE Desktop --------------------------------
(***************************************************************************)
(* The parts of the compositor that follow monitors, settings and volumes: *)
(* backgrounds, backlights, the magnifier and the automount manager. They  *)
(* share the main loop: a change of the monitors is handled by each of     *)
(* them at once, a change of a setting some time after it can be read.     *)
(***************************************************************************)
EXTENDS Backgrounds, Brightness, Magnifier, Automount

CONSTANT MaxEvents       \* bound: what happens from outside, in all

ASSUME MaxEventsNat == MaxEvents \in Nat

VARIABLE events          \* how much has happened so far

loopVars == <<monitors, notices, deferred>>
vars == <<loopVars, backVars, brightVars, magVars, mountVars, events>>

TypeOK ==
  /\ monitors \subseteq Monitors
  /\ notices \subseteq {"background", "magnify", "factor", "automount"}
  /\ deferred \subseteq {"reinitialize", "automount"} \cup Volumes
  /\ BackTypeOK /\ BrightTypeOK /\ MagTypeOK /\ MountTypeOK
  /\ events \in 0..MaxEvents

Init ==
  /\ monitors \in SUBSET Monitors
  /\ notices = {}
  /\ deferred = {"automount"}
  /\ BackInit /\ BrightInit /\ MagInit /\ MountInit
  /\ events = 0

\* Backgrounds and brightness are connected to monitors-changed.
MonitorsChange ==
  /\ \E active \in SUBSET Monitors :
       /\ monitors' = active
       /\ ReinitializeBackgrounds(active, wanted)
       /\ BrightMonitorsChanged(active)
  /\ UNCHANGED <<wanted, notices, deferred, magVars, mountVars>>

BrightnessCall ==
  /\ \/ \E enable \in BOOLEAN : SetDimming(enable)
     \/ \E t \in Targets : SetAutoBrightnessTarget(t)
  /\ UNCHANGED <<loopVars, backVars, magVars, mountVars>>

BackgroundSetting ==
  /\ \E look \in Looks : BackSettingChanges(look)
  /\ UNCHANGED <<brightVars, magVars, mountVars>>

MagnifierSetting ==
  /\ MagnifySettingChanges \/ \E f \in Factors : FactorSettingChanges(f)
  /\ UNCHANGED <<backVars, brightVars, mountVars>>

MountEvent ==
  /\ \/ AutomountSettingChanges
     \/ \E v \in Volumes : VolumeAppears(v) \/ VolumeGoes(v) \/ PersonMounts(v)
  /\ UNCHANGED <<backVars, brightVars, magVars>>

Outside ==
  /\ events < MaxEvents /\ events' = events + 1
  /\ \/ MonitorsChange
     \/ BrightnessCall
     \/ BackgroundSetting
     \/ MagnifierSetting
     \/ MountEvent

\* What the main loop, the threads and the volume monitor still have to do.
BackgroundStep ==
  /\ OnBackSettingChanged \/ DeferredReinitialize \/ \E l \in loads : TextureLoaded(l)
  /\ UNCHANGED <<brightVars, magVars, mountVars>>

MagnifierStep ==
  /\ OnMagnifierEnabledChanged \/ OnMagFactorChanged \/ CursorMoves
  /\ UNCHANGED <<backVars, brightVars, mountVars>>

MountStep(v) ==
  /\ OnVolumeAdded(v) \/ MountEnds(v)
  /\ UNCHANGED <<backVars, brightVars, magVars>>

MountSettingStep ==
  /\ OnAutomountSettingChanged \/ OnMediaAutomountChanged
  /\ UNCHANGED <<backVars, brightVars, magVars>>

Inside ==
  /\ BackgroundStep \/ MagnifierStep \/ MountSettingStep \/ \E v \in Volumes : MountStep(v)
  /\ UNCHANGED events

Next == Outside \/ Inside

Spec == Init /\ [][Next]_vars

-----------------------------------------------------------------------------
(* Properties.                                                             *)

\* Whatever loads finish late, once a change of the settings has been served every
\* background holds what they say or, while the picture is being read or if it
\* cannot be, nothing: never what they said before, and never nothing for good
\* (on_texture_loaded, reinitialize_backgrounds).
BackgroundsServed == "background" \notin notices /\ "reinitialize" \notin deferred

BackgroundsFollow ==
  BackgroundsServed =>
    \A m \in monitors :
      \/ shown[m] = wanted
      \/ /\ shown[m] = Blank
         /\ \/ wanted.file \in Unreadable
            \/ [monitor |-> m, look |-> wanted, live |-> TRUE] \in loads

\* Backlights that were there at the last change are set for the target and the
\* dimming there are now, whichever of the two changed and whichever monitors came
\* and went, and D-Bus says whether there is one (update_has_brightness_control
\* decides whether apply_brightness does anything).
BacklightsAgree ==
  /\ control = HasControl(monitors)
  /\ \A m \in (monitors \cap Backlit) \ fresh : level[m] = LevelOf(m, target, dimming)

\* The zoom is that of the settings as soon as both have been noticed, in whichever
\* order, although a factor may be read with the other setting's notice
\* (kiosk_magnifier_update_state, on_mag_factor_changed).
ZoomFollowsSettings ==
  notices \cap {"magnify", "factor"} = {} => zoom = IF magnify THEN factor ELSE NoZoom

\* Volumes are listened to if and only if the session wants them mounted, except
\* while a change of that setting has not been noticed or served
\* (on_media_automount_changed).
ListeningFollowsSetting ==
  \/ connected = automount
  \/ "automount" \in notices \cup deferred

\* No volume that is to be mounted is forgotten while automounting is on: one that
\* nobody has mounted yet is queued or being mounted, or the change of the setting
\* that will find it is still to be served, also when it appears between the switch
\* and the deferred callback (on_media_automount_changed, on_volume_added).
VolumesGetTheirTurn ==
  automount =>
    \A v \in Automatic :
      \/ volume[v] # "present"
      \/ v \in deferred \cup mounting
      \/ "automount" \in notices \cup deferred
=============================================================================
