---- MODULE MCShellServices ----
(* ShellServices with two clients, each of which asks for a screenshot once, and
   a file for each. *)
EXTENDS ShellServices, TLC

CONSTANTS app, helper, first, second

MCCaller == (first :> app) @@ (second :> helper)
====
