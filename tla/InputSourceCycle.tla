--------------------------- MODULE InputSourceCycle ---------------------------
(***************************************************************************)
(* The input sources manager as its callers use it on a quiet system: the  *)
(* keymap is not locked, IBus has every engine, and what a call leaves     *)
(* behind (the answer of IBus to the engine it activated, the D-Bus        *)
(* synchronisation) is done before the next call. This is where the list   *)
(* that clients see and the groups that the manager keeps can be compared. *)
(***************************************************************************)
EXTENDS InputSourcesManager

CONSTANT Lists   \* the lists of input sources that callers set

ASSUME CycleAssumption == Lists \subseteq Seq(Source) \ {<<>>}

VARIABLES manager, request

vars == <<manager, request>>

Ready == [locked |-> FALSE, loaded |-> TRUE, known |-> Engines, up |-> TRUE]

Empty == [groups |-> <<>>, index |-> 0, source |-> "session",
          keymap |-> [layouts |-> <<>>, index |-> 0, by |-> "backend"],
          sync |-> FALSE, asked |-> NoEngine, ok |-> FALSE]

\* The state the next call finds: IBus has reported the engine it was asked for
\* and the D-Bus properties are in step.
Settled(m) ==
  LET heard == IF m.asked = NoEngine THEN m
               ELSE OnActiveEngineChanged(m, Ready, m.asked)
  IN  [heard EXCEPT !.asked = NoEngine, !.sync = FALSE, !.ok = FALSE]

Init ==
  /\ \E c \in Lists : manager = Settled(SetInputSources(Empty, Ready, c))
  /\ request = <<"start">>

SetInputSourcesCall(c) ==
  /\ request' = <<"set", c>>
  /\ manager' = Settled(SetInputSources(manager, Ready, c))

SelectInputSourceCall(s) ==
  /\ request' = <<"select", s>>
  /\ manager' = Settled(SelectSource(manager, Ready, s))

SelectNextInputSourceCall ==
  /\ request' = <<"next">>
  /\ manager' = Settled(SwitchToNextSource(manager, Ready))

SelectPreviousInputSourceCall ==
  /\ request' = <<"previous">>
  /\ manager' = Settled(SwitchToPreviousSource(manager, Ready))

Offered == SourcesOf(manager.groups)

Next ==
  \/ \E c \in Lists : SetInputSourcesCall(c)
  \/ \E k \in DOMAIN Offered : SelectInputSourceCall(Offered[k])
  \/ SelectNextInputSourceCall
  \/ SelectPreviousInputSourceCall

Spec == Init /\ [][Next]_vars

-----------------------------------------------------------------------------
\* Lists without unknown layouts and without repetition that fit in one group, or have a group
\* for each source. Of the latter, those that offer neither the engine that passes keys through
\* nor a layout that one of their engines uses: what such a group is asked for is found in
\* another group as well.
Simple(c) ==
  LET gs == GroupsOf(c)
  IN  /\ \A k \in DOMAIN c : c[k].type = "ibus" \/ c[k].id \in KnownLayouts
      /\ \A j, k \in DOMAIN c : c[j] = c[k] => j = k
      /\ \/ Len(gs) = 1
         \/ /\ \A k \in DOMAIN gs : Len(SourcesOfGroup(gs[k])) = 1
            /\ \A j \in DOMAIN c : c[j].type = "ibus" =>
                 /\ c[j].id # DefaultEngine
                 /\ \A k \in DOMAIN c : c[k] # Xkb(EngineLayout[c[j].id])

\* The selected position counted over all groups, as clients count.
PositionOf(m) ==
  Len(SourcesOf(SubSeq(m.groups, 1, m.index)))
    + IF Selected(m).engine = NoEngine THEN Selected(m).index + 1 ELSE 1
Position == PositionOf(manager)

List == INSTANCE InputSourceList WITH sources <- Offered, position <- Position

\* The groups implement the list: every call moves the selection of the list to
\* where the list's own operation moves it, whatever was called before and
\* whichever group the keymap has to cross to. This is what the wrap-around in
\* cycle_input_sources_forward and _backward, the reset to the first or the last
\* layout, and the search for the old selection in set_input_sources are for.
ImplementsList == List!Spec
=============================================================================
