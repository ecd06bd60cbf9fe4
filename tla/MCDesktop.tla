---- MODULE MCDesktop ----
(* Desktop with two monitors, one of them with a backlight, and a volume. *)
EXTENDS Desktop, TLC

CONSTANTS builtin, external

MCBacklight == builtin :> <<3, 20>>
====
