------------------------------- MODULE Magnifier -------------------------------
(***************************************************************************)
(* The magnifier (compositor/kiosk-magnifier.c): scales the stage by a     *)
(* factor while it is enabled, and around the pointer when that moves. The *)
(* two settings are read when either is noticed to have changed.           *)
(***************************************************************************)
EXTENDS MainLoop

CONSTANTS Factors,       \* the factors that may be set
          NoZoom         \* the scale of a stage that is not magnified

VARIABLES
  magnify,      \* the setting screen-magnifier-enabled
  factor,       \* the setting mag-factor
  enabled,      \* self->enabled
  magFactor,    \* self->mag_factor
  tracking,     \* cursor_moved_handler_id
  zoom          \* the scale of the stage

magVars == <<magnify, factor, enabled, magFactor, tracking, zoom>>

MagTypeOK ==
  /\ magnify \in BOOLEAN /\ enabled \in BOOLEAN /\ tracking \in BOOLEAN
  /\ factor \in Factors /\ magFactor \in Factors
  /\ zoom \in Factors \cup {NoZoom}

MagInit ==
  /\ magnify \in BOOLEAN /\ factor \in Factors
  /\ enabled = magnify
  /\ magFactor = factor
  /\ tracking = magnify
  /\ zoom = IF magnify THEN factor ELSE NoZoom

MagnifySettingChanges ==
  /\ magnify' = ~magnify
  /\ Notify("magnify")
  /\ UNCHANGED <<factor, enabled, magFactor, tracking, zoom, monitors, deferred>>

FactorSettingChanges(f) ==
  /\ f # factor
  /\ factor' = f
  /\ Notify("factor")
  /\ UNCHANGED <<magnify, enabled, magFactor, tracking, zoom, monitors, deferred>>

\* kiosk_magnifier_update_state: the zoom is applied when tracking starts, not when
\* it went on; the factor read may be one that is still to be noticed.
OnMagnifierEnabledChanged ==
  /\ Noticed("magnify")
  /\ enabled' = magnify
  /\ magFactor' = factor
  /\ tracking' = magnify
  /\ zoom' = IF magnify /\ ~tracking THEN factor
             ELSE IF enabled /\ ~magnify THEN NoZoom
             ELSE zoom
  /\ UNCHANGED <<magnify, factor, monitors, deferred>>

\* Mutated: does nothing about a factor that was read before.
OnMagFactorChangedOnce ==
  /\ Noticed("factor")
  /\ magFactor' = factor
  /\ zoom' = IF enabled /\ magFactor # factor THEN factor ELSE zoom
  /\ UNCHANGED <<magnify, factor, enabled, tracking, monitors, deferred>>

OnMagFactorChanged ==
  /\ Noticed("factor")
  /\ magFactor' = factor
  /\ zoom' = IF enabled THEN factor ELSE zoom
  /\ UNCHANGED <<magnify, factor, enabled, tracking, monitors, deferred>>

\* on_cursor_moved
CursorMoves ==
  /\ tracking
  /\ zoom' = magFactor
  /\ UNCHANGED <<magnify, factor, enabled, magFactor, tracking, monitors, notices, deferred>>
=============================================================================
