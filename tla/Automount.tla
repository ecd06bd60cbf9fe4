------------------------------- MODULE Automount -------------------------------
(***************************************************************************)
(* Mounting of volumes as they appear (compositor/kiosk-automount-         *)
(* manager.c), as long as the session wants it. The setting is followed by *)
(* a deferred callback, and each volume is looked at in another.           *)
(***************************************************************************)
EXTENDS MainLoop

CONSTANTS Volumes,       \* volumes, each of which appears and goes once
          Automatic      \* those that are to be mounted and can be

ASSUME VolumesAreNoKeys ==
  /\ "automount" \notin Volumes /\ "reinitialize" \notin Volumes
  /\ Automatic \subseteq Volumes

VARIABLES
  automount,    \* the setting
  connected,    \* automount_id: volume-added is listened to
  volume,       \* where each volume is
  mounting      \* volumes with a mount operation under way

mountVars == <<automount, connected, volume, mounting>>

MountTypeOK ==
  /\ automount \in BOOLEAN
  /\ connected \in BOOLEAN
  /\ volume \in [Volumes -> {"coming", "present", "mounted", "kept", "gone"}]
  /\ mounting \subseteq Volumes

\* The constructor defers the first look at the setting and at the volumes.
MountInit ==
  /\ automount \in BOOLEAN
  /\ connected = FALSE
  /\ volume \in [Volumes -> {"coming", "present"}]
  /\ mounting = {}

\* "kept" is a volume that was there, unmounted, when a mount of it failed or a
\* person unmounted it: the manager has had its turn.
Present == {v \in Volumes : volume[v] \in {"present", "mounted", "kept"}}

AutomountSettingChanges ==
  /\ automount' = ~automount
  /\ Notify("automount")
  /\ UNCHANGED <<connected, volume, mounting, monitors, deferred>>

\* on_media_automount_setting_changed
OnAutomountSettingChanged ==
  /\ Noticed("automount")
  /\ deferred' = Queued("automount")
  /\ UNCHANGED <<automount, connected, volume, mounting, monitors>>

\* Mutated: listens for volumes, but leaves those there are.
OnMediaAutomountChangedLater ==
  /\ "automount" \in deferred
  /\ connected' = automount
  /\ deferred' = Ran("automount", deferred)
  /\ UNCHANGED <<automount, volume, mounting, monitors, notices>>

\* Mutated: returns before it disconnects.
OnMediaAutomountChangedDeaf ==
  /\ "automount" \in deferred
  /\ connected' = (connected \/ automount)
  /\ deferred' = Ran("automount", deferred \cup IF automount THEN Present ELSE {})
  /\ UNCHANGED <<automount, volume, mounting, monitors, notices>>

\* Reads the setting of the moment; every volume there is, mounted or not, is
\* queued for a look.
OnMediaAutomountChanged ==
  /\ "automount" \in deferred
  /\ connected' = automount
  /\ deferred' = Ran("automount", deferred \cup IF automount THEN Present ELSE {})
  /\ UNCHANGED <<automount, volume, mounting, monitors, notices>>

\* on_volume_monitor_changed
VolumeAppears(v) ==
  /\ volume[v] = "coming"
  /\ volume' = [volume EXCEPT ![v] = "present"]
  /\ deferred' = IF connected THEN Queued(v) ELSE deferred
  /\ UNCHANGED <<automount, connected, mounting, monitors, notices>>

VolumeGoes(v) ==
  /\ v \in Present
  /\ volume' = [volume EXCEPT ![v] = "gone"]
  /\ UNCHANGED <<automount, connected, mounting, monitors, notices, deferred>>

\* Looks at the volume, not at the setting: it is asked to be mounted even if
\* automount was switched off, or the volume taken away, since it was queued.
OnVolumeAdded(v) ==
  /\ v \in deferred
  /\ deferred' = Ran(v, deferred)
  /\ mounting' = IF v \in Automatic /\ volume[v] # "mounted"
                THEN mounting \cup {v} ELSE mounting
  /\ UNCHANGED <<automount, connected, volume, monitors, notices>>

\* External: the operation ends, and on_mount_ready logs how.
MountEnds(v) ==
  /\ v \in mounting
  /\ mounting' = mounting \ {v}
  /\ \/ /\ v \in Present
        /\ volume' = [volume EXCEPT ![v] = "mounted"]
     \/ volume' = [volume EXCEPT ![v] = IF @ = "present" THEN "kept" ELSE @]
  /\ UNCHANGED <<automount, connected, monitors, notices, deferred>>

\* External: a person mounts or unmounts the volume.
PersonMounts(v) ==
  /\ v \in Present
  /\ volume' = [volume EXCEPT ![v] = IF @ = "mounted" THEN "kept" ELSE "mounted"]
  /\ UNCHANGED <<automount, connected, mounting, monitors, notices, deferred>>
=============================================================================
