--------------------------- MODULE MCWindowConfig ---------------------------
(***************************************************************************)
(* WindowConfig with a panel and an application window, a monitor that     *)
(* stays and one that comes and goes, and two configurations.              *)
(***************************************************************************)
EXTENDS WindowConfig, TLC

CONSTANTS panel, app, builtin, external

R(x, y, w, h) == [x |-> x, y |-> y, width |-> w, height |-> h]

MCInitialType == [w \in {panel, app} |-> "normal"]

MCLayouts == { builtin :> R(0, 0, 4, 4),
               builtin :> R(0, 0, 4, 4) @@ external :> R(4, 0, 3, 3) }

MCPlaces == { R(0, 0, 4, 1), R(5, 1, 1, 1) }

Section(windows, t, set) == [windows |-> windows, type |-> t, set |-> set]

MCConfigs == {
  << Section({panel}, "any", "set-window-type" :> "dock" @@ "set-strut" :> "top"
                             @@ "set-fullscreen" :> FALSE),
     Section({app}, "any", "set-on-monitor" :> external
                           @@ "lock-on-monitor-area" :> R(0, 0, 2, 4)
                           @@ "lock-on-monitor" :> TRUE @@ "set-above" :> FALSE),
     Section({app}, "any", "lock-on-monitor" :> Invalid @@ "set-width" :> 2) >>,
  << Section({panel, app}, "normal", "lock-resize" :> TRUE @@ "lock-move" :> TRUE
                             @@ "set-on-monitor" :> external @@ "lock-on-monitor" :> TRUE),
     Section({app}, "any", "lock-on-area" :> R(1, 0, 3, 3) @@ "set-on-monitor" :> external
                           @@ "lock-resize" :> FALSE
                           @@ "lock-on-monitor-area" :> R(0, 0, 2, 2)),
     Section({app}, "any", "set-window-type" :> "dock" @@ "set-strut" :> "left") >> }

\* A window set on a monitor and locked to an area of the screen.
MCAreaConfigs == {
  << Section({app}, "any", "set-on-monitor" :> external @@ "lock-on-area" :> R(5, 1, 1, 1)) >> }
=============================================================================
