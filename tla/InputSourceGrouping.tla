------------------------- MODULE InputSourceGrouping -------------------------
(***************************************************************************)
(* The add loops of kiosk-input-sources-manager.c one iteration at a time: *)
(* every list of input sources, up to MaxSources of them, is fed to the    *)
(* manager source by source, and the groups are compared after each with   *)
(* what the list promises.                                                 *)
(***************************************************************************)
EXTENDS InputSourceGroup

CONSTANT MaxSources   \* bound: the longest configuration explored

VARIABLES configured, groups

groupingVars == <<configured, groups>>

GroupingInit == configured = <<>> /\ groups = <<>>

AddLayoutCall(l) ==
  /\ Len(configured) < MaxSources
  /\ configured' = Append(configured, Xkb(l))
  /\ groups' = AddLayoutSource(groups, l)

AddEngineCall(n) ==
  /\ Len(configured) < MaxSources
  /\ configured' = Append(configured, Ibus(n))
  /\ groups' = AddEngineSource(groups, n)

GroupingNext ==
  \/ \E l \in Layouts : AddLayoutCall(l)
  \/ \E n \in Engines : AddEngineCall(n)

GroupingSpec == GroupingInit /\ [][GroupingNext]_groupingVars

-----------------------------------------------------------------------------
\* What the system knows of a list: all but the layouts that the XKB database does not
\* describe.
Known(s) == s.type = "ibus" \/ s.id \in KnownLayouts

KnownSources(c) ==
  LET upTo[k \in 0..Len(c)] ==
        IF k = 0 THEN <<>>
        ELSE IF Known(c[k]) THEN Append(upTo[k - 1], c[k]) ELSE upTo[k - 1]
  IN  upTo[Len(c)]

\* Every source the system knows keeps its place: reading the groups from the
\* first to the last gives back the configured list without the layouts that
\* the XKB database does not describe, nothing lost, repeated or reordered.
\* Guards the full-group and engine-group cases of add_layout, which start a
\* new group and must add the refused layout again.
NothingLost == SourcesOf(groups) = KnownSources(configured)

\* XKB gets as few keymaps as the order allows: a layout group is followed by
\* another layout group only when it is full. With more groups than needed, the
\* switch to the next source would load a keymap where a layout index suffices.
Packed ==
  \A k \in 1..(Len(groups) - 1) :
    groups[k].engine = NoEngine /\ groups[k + 1].engine = NoEngine
      => Len(groups[k].layouts) = MaxLayouts
=============================================================================
