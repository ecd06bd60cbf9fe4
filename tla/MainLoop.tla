-------------------------------- MODULE MainLoop --------------------------------
(***************************************************************************)
(* What the parts of the desktop have in common: monitors that come and    *)
(* go, settings whose changes are noticed some time after they can be      *)
(* read, and deferred callbacks (compositor/kiosk-gobject-utils.c).        *)
(***************************************************************************)
CONSTANT Monitors        \* the monitors that may be active

VARIABLES
  monitors,     \* the active monitors
  notices,      \* settings with a "changed" signal still to come
  deferred      \* keys of the callbacks queued: callback and user data

\* Queueing what is queued already does nothing: the later caller's user data is
\* the same, so the callback serves both.
Queued(callback) == deferred \cup {callback}

\* The key is cleared after the callback ran, with it whatever the callback
\* queued under the same key meanwhile. The argument is what the callback left.
Ran(callback, left) == left \ {callback}

Notify(setting) == notices' = notices \cup {setting}

Noticed(setting) == setting \in notices /\ notices' = notices \ {setting}
=============================================================================
