------------------------------ MODULE Brightness ------------------------------
(***************************************************************************)
(* The brightness of backlights (compositor/kiosk-brightness.c): a target  *)
(* and dimming, set by callers on D-Bus, applied to the backlights of the  *)
(* active monitors when one of the two changes. A monitor that appears     *)
(* later keeps the level its backlight has until the next change.          *)
(***************************************************************************)
EXTENDS Integers, MainLoop

CONSTANTS Backlight,     \* the range <<least, most>> of each backlight there is
          Targets,       \* the targets callers ask for, in hundredths
          Own            \* the level of a backlight that was never set

\* kiosk_brightness_handle_set_auto_brightness_target refuses anything else.
ASSUME BacklightRanges ==
  /\ DOMAIN Backlight \subseteq Monitors
  /\ \A m \in DOMAIN Backlight :
       Backlight[m] \in Nat \X Nat /\ Backlight[m][1] <= Backlight[m][2]
ASSUME TargetsAreNumbers == Targets \subseteq Int
ASSUME OwnIsNoLevel == Own \notin Int

VARIABLES
  target,       \* auto_brightness_target, in hundredths
  dimming,      \* dimming_enabled
  control,      \* has_backlight, and HasBrightnessControl on D-Bus
  level,        \* what each backlight was last set to
  fresh         \* monitors that appeared after the last change: seen by no code

brightVars == <<target, dimming, control, level, fresh>>

Backlit == DOMAIN Backlight

BrightTypeOK ==
  /\ target \in 0..100
  /\ dimming \in BOOLEAN
  /\ control \in BOOLEAN
  /\ level \in [Backlit -> Int \cup {Own}]
  /\ fresh \subseteq Monitors

HasControl(active) == active \cap Backlit # {}

BrightInit ==
  /\ target = 100
  /\ dimming = FALSE
  /\ control = HasControl(monitors)
  /\ level = [m \in Backlit |-> Own]
  /\ fresh = monitors

\* The target, or three tenths of it, mapped to the range of the backlight and
\* cut off to an integer within it. (In hundredths, squared.)
Fraction(t, dim) == t * IF dim THEN 30 ELSE 100

LevelOf(m, t, dim) ==
  LET least == Backlight[m][1]
      most  == Backlight[m][2]
      value == least + (Fraction(t, dim) * (most - least)) \div 10000
  IN  IF value > most THEN most ELSE IF value < least THEN least ELSE value

ApplyBrightness(t, dim) ==
  level' = [m \in Backlit |->
              IF control /\ m \in monitors THEN LevelOf(m, t, dim) ELSE level[m]]

\* Mutated: leaves the control as it was when the service started.
BrightMonitorsChangedDeaf(active) ==
  /\ fresh' = (fresh \cap active) \cup (active \ monitors)
  /\ UNCHANGED <<target, dimming, control, level>>

\* on_monitors_changed: nothing is applied. A backlight that was away may come
\* back with a level of its own.
BrightMonitorsChanged(active) ==
  /\ control' = HasControl(active)
  /\ fresh' = (fresh \cap active) \cup (active \ monitors)
  /\ UNCHANGED <<target, dimming, level>>

SetDimming(enable) ==
  /\ IF dimming # enable
     THEN dimming' = enable /\ ApplyBrightness(target, enable) /\ fresh' = {}
     ELSE UNCHANGED <<dimming, level, fresh>>
  /\ UNCHANGED <<target, control>>

SetAutoBrightnessTarget(t) ==
  /\ IF t \in 0..100 /\ t # target
     THEN target' = t /\ ApplyBrightness(t, dimming) /\ fresh' = {}
     ELSE UNCHANGED <<target, level, fresh>>
  /\ UNCHANGED <<dimming, control>>
=============================================================================
