---- MODULE MCScreenLock ----
(* ScreenLock on two monitors, any of which may be missing, and the forms that
   plausible mistakes in kiosk-screensaver.c and -service.c would give it. *)
EXTENDS ScreenLock
====
