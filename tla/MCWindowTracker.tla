---- MODULE MCWindowTracker ----
(* Three windows and a desktop file. dialog is a dialog of the process of main; second has
   no known process, but is in the X11 group of the other two. *)
EXTENDS WindowTracker, TLC
CONSTANTS editor, main, dialog, second

MCWindow(normal, pid, found, skips, above) ==
  [normal |-> normal, eligible |-> TRUE, remote |-> FALSE, override |-> FALSE, pid |-> pid,
   group |-> 1, found |-> found, skips |-> skips, above |-> above]

MCProfile ==
  main   :> MCWindow(TRUE,  1, {NoApp, editor}, BOOLEAN, {}) @@
  dialog :> MCWindow(FALSE, 1, {NoApp}, BOOLEAN, {main, second}) @@
  second :> MCWindow(TRUE,  0, {NoApp}, {FALSE}, {main})
====
