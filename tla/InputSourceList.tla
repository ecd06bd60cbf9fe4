--------------------------- MODULE InputSourceList ---------------------------
(***************************************************************************)
(* What org.gnome.Kiosk.InputSources promises its callers                  *)
(* (dbus-interfaces/org.gnome.Kiosk.xml): an ordered list of input sources *)
(* with one of them selected. A new list keeps the source that was         *)
(* selected if it has it, and "next" and "previous" walk the list and wrap *)
(* around its ends. Nothing is said of groups, keymaps or IBus.            *)
(***************************************************************************)
EXTENDS Naturals, Sequences

CONSTANT Lists   \* the lists of input sources that callers set

VARIABLES sources, position, request

vars == <<sources, position, request>>

Holds(c, s) == \E k \in DOMAIN c : c[k] = s
PositionIn(c, s) == CHOOSE k \in DOMAIN c : c[k] = s

Init ==
  /\ sources \in Lists
  /\ position = 1
  /\ request = <<"start">>

SetInputSources(c) ==
  /\ request' = <<"set", c>>
  /\ sources' = c
  /\ position' = IF Holds(c, sources[position])
                 THEN PositionIn(c, sources[position]) ELSE 1

SelectInputSource(s) ==
  /\ Holds(sources, s)
  /\ request' = <<"select", s>>
  /\ position' = PositionIn(sources, s)
  /\ UNCHANGED sources

SelectNextInputSource ==
  /\ request' = <<"next">>
  /\ position' = (position % Len(sources)) + 1
  /\ UNCHANGED sources

SelectPreviousInputSource ==
  /\ request' = <<"previous">>
  /\ position' = IF position = 1 THEN Len(sources) ELSE position - 1
  /\ UNCHANGED sources

Next ==
  \/ \E c \in Lists : SetInputSources(c)
  \/ \E k \in DOMAIN sources : SelectInputSource(sources[k])
  \/ SelectNextInputSource
  \/ SelectPreviousInputSource

Spec == Init /\ [][Next]_vars

=============================================================================
