------------------------------ MODULE Backgrounds ------------------------------
(***************************************************************************)
(* The backgrounds of the monitors (compositor/kiosk-backgrounds.c): one   *)
(* actor per monitor, made anew when the monitors change and, deferred,    *)
(* when a setting does. A picture that is not in the cache is read by a    *)
(* thread; when it is there, it is put on the background it was asked for, *)
(* which may have been replaced meanwhile.                                 *)
(***************************************************************************)
EXTENDS MainLoop

CONSTANTS Colors,        \* backgrounds without a picture
          Files,         \* picture files
          Unreadable,    \* those of them that cannot be loaded
          Styles,        \* picture-options other than "none"
          Blank          \* a background that nothing was put on yet

Pictures == [file : Files, style : Styles]
Looks == Colors \cup Pictures

ASSUME BlankIsNoLook == Blank \notin Looks

VARIABLES
  wanted,       \* what the settings say
  shown,        \* what the background of each monitor holds
  loads,        \* pictures being read, and whether their background is in use
  cache         \* files in texture_cache

backVars == <<wanted, shown, loads, cache>>

BackTypeOK ==
  /\ wanted \in Looks
  /\ shown \in [monitors -> Looks \cup {Blank}]
  /\ loads \subseteq [monitor : Monitors, look : Pictures, live : BOOLEAN]
  /\ cache \subseteq Files

\* create_background_for_monitor: a color, a picture from the cache, or nothing yet.
Fresh(look, cached) == IF look \in Colors \/ look.file \in cached THEN look ELSE Blank

\* Mutated: for the monitors there were before the change.
ReinitializeBackgroundsEarly(active, look) ==
  /\ shown' = [m \in monitors |-> Fresh(look, cache)]
  /\ loads' = { [l EXCEPT !.live = FALSE] : l \in loads } \cup
              IF Fresh(look, cache) = Blank
              THEN { [monitor |-> m, look |-> look, live |-> TRUE] : m \in monitors } ELSE {}
  /\ UNCHANGED cache

\* All actors are destroyed, and with them the use of what is being read for them.
ReinitializeBackgrounds(active, look) ==
  /\ shown' = [m \in active |-> Fresh(look, cache)]
  /\ loads' = { [l EXCEPT !.live = FALSE] : l \in loads } \cup
              IF Fresh(look, cache) = Blank
              THEN { [monitor |-> m, look |-> look, live |-> TRUE] : m \in active } ELSE {}
  /\ UNCHANGED cache

\* The constructor makes the first backgrounds, with nothing in the cache.
BackInit ==
  /\ wanted \in Looks
  /\ cache = {}
  /\ shown = [m \in monitors |-> Fresh(wanted, {})]
  /\ loads = IF wanted \in Colors THEN {}
             ELSE { [monitor |-> m, look |-> wanted, live |-> TRUE] : m \in monitors }

\* Mutated: puts the picture on the monitor's background of now.
OnTextureLoadedLate(l) ==
  /\ loads' = loads \ {l}
  /\ IF l.look.file \in Unreadable
     THEN UNCHANGED <<shown, cache>>
     ELSE /\ cache' = cache \cup {l.look.file}
          /\ shown' = [m \in monitors |-> IF m = l.monitor THEN l.look ELSE shown[m]]

\* A failure is logged, and the background stays as it is.
OnTextureLoaded(l) ==
  /\ loads' = loads \ {l}
  /\ IF l.look.file \in Unreadable
     THEN UNCHANGED <<shown, cache>>
     ELSE /\ cache' = cache \cup {l.look.file}
          /\ shown' = [m \in monitors |->
                         IF l.live /\ m = l.monitor THEN l.look ELSE shown[m]]

TextureLoaded(l) ==
  /\ l \in loads
  /\ OnTextureLoaded(l)
  /\ UNCHANGED <<wanted, monitors, notices, deferred>>

BackSettingChanges(look) ==
  /\ look # wanted
  /\ wanted' = look
  /\ Notify("background")
  /\ UNCHANGED <<shown, loads, cache, monitors, deferred>>

\* on_settings_changed
OnBackSettingChanged ==
  /\ Noticed("background")
  /\ deferred' = Queued("reinitialize")
  /\ UNCHANGED <<wanted, shown, loads, cache, monitors>>

DeferredReinitialize ==
  /\ "reinitialize" \in deferred
  /\ ReinitializeBackgrounds(monitors, wanted)
  /\ deferred' = Ran("reinitialize", deferred)
  /\ UNCHANGED <<wanted, monitors, notices>>
=============================================================================
