--------------------------- MODULE InputSourceGroup ---------------------------
(***************************************************************************)
(* KioskInputSourceGroup (compositor/kiosk-input-source-group.c) and the   *)
(* loops of kiosk-input-sources-manager.c that fill a list of groups from  *)
(* a configuration.                                                        *)
(*                                                                         *)
(* XKB can hold only a few layouts at once, so the manager packs its       *)
(* configured input sources, in order, into groups: a group is either one  *)
(* IBus engine or a handful of XKB layouts with one of them selected.      *)
(* The operators below are the group's methods, as functions from a group  *)
(* to a group; positions in layouts are zero-based, as in the code.        *)
(*                                                                         *)
(* Next to some operators stands a variant, named for what it gets wrong   *)
(* (AddLayoutSourceOnce). Nothing uses the variants: they are              *)
(* mistakes the code could have made and that the properties must notice.  *)
(***************************************************************************)
EXTENDS Naturals, Sequences

CONSTANTS
  Layouts,        \* XKB layout ids, "us" or "us+dvorak"
  KnownLayouts,   \* the layouts that the XKB rules database describes
  Engines,        \* IBus engine names
  NoEngine,       \* a null engine name
  NoLayout,       \* a null layout name
  EngineLayout,   \* the keyboard layout each engine asks for
  MaxLayouts      \* KIOSK_INPUT_SOURCE_GROUP_MAX_LAYOUTS

ASSUME GroupAssumption ==
  /\ KnownLayouts \subseteq Layouts
  /\ NoEngine \notin Engines
  /\ NoLayout \notin Layouts
  /\ EngineLayout \in [Engines -> Layouts]
  /\ MaxLayouts \in Nat \ {0}

Source == [type : {"xkb"}, id : Layouts] \cup [type : {"ibus"}, id : Engines]
Xkb(l)  == [type |-> "xkb", id |-> l]
Ibus(n) == [type |-> "ibus", id |-> n]

Group == [engine : Engines \cup {NoEngine}, layouts : Seq(Layouts), index : Nat]

\* The state a group keeps between calls: a layout is selected whenever there
\* is one, an engine's group holds at most its engine's layout, and a layout
\* group is never empty and never holds more than XKB can.
WellFormedGroup(g) ==
  /\ g \in Group
  /\ g.index < Len(g.layouts) \/ g.index = 0
  /\ IF g.engine = NoEngine
     THEN Len(g.layouts) \in 1..MaxLayouts
     ELSE g.layouts = <<>> \/ g.layouts = <<EngineLayout[g.engine]>>

-----------------------------------------------------------------------------
(* The methods of a group.                                                 *)

NewGroup == [engine |-> NoEngine, layouts |-> <<>>, index |-> 0]

SelectedLayout(g) ==
  IF g.index < Len(g.layouts) THEN g.layouts[g.index + 1] ELSE NoLayout

\* kiosk_input_source_group_add_layout refuses a layout once the group is full
\* and for a group that has an engine.
AcceptsOneLess(g) == Len(g.layouts) + 1 < MaxLayouts /\ g.engine = NoEngine
Accepts(g) == Len(g.layouts) < MaxLayouts /\ g.engine = NoEngine
AddLayout(g, l) == [g EXCEPT !.layouts = Append(@, l)]

SetInputEngine(g, n) == [g EXCEPT !.engine = n, !.layouts = <<>>]

\* An engine's layout is only known once IBus has listed its engines: known is
\* the engine table of the engine manager.
EnsureLayout(g, known) ==
  IF g.engine = NoEngine \/ Len(g.layouts) = 1
  THEN g
  ELSE [g EXCEPT !.layouts = IF g.engine \in known
                             THEN <<EngineLayout[g.engine]>> ELSE <<>>]

HoldsLayout(g, l) == \E k \in DOMAIN g.layouts : g.layouts[k] = l

\* Select layout l: it stays where it is if it is selected already, and is
\* looked up from the front otherwise.
SwitchToLayout(g, l) ==
  IF SelectedLayout(g) = l
  THEN g
  ELSE [g EXCEPT !.index =
          CHOOSE k \in 0..(Len(g.layouts) - 1) :
            /\ g.layouts[k + 1] = l
            /\ \A j \in 0..(k - 1) : g.layouts[j + 1] # l]

SwitchToFirst(g) == [g EXCEPT !.index = IF g.layouts = <<>> THEN @ ELSE 0]
SwitchToLast(g)  ==
  [g EXCEPT !.index = IF g.layouts = <<>> THEN @ ELSE Len(g.layouts) - 1]

HasPreviousUnchecked(g) == g.layouts # <<>>
HasNext(g)     == g.index + 1 < Len(g.layouts)
HasPrevious(g) == g.layouts # <<>> /\ g.index # 0
SwitchToNext(g)     == [g EXCEPT !.index = @ + 1]
SwitchToPrevious(g) == [g EXCEPT !.index = @ - 1]

-----------------------------------------------------------------------------
(* The manager's lists of groups.                                          *)

\* kiosk_input_sources_manager_add_layout: the newest group takes the layout,
\* or a new one does when there is none or it refuses.
AddLayoutSourceOnce(gs, l) ==
  IF l \notin KnownLayouts THEN gs
  ELSE IF gs # <<>> /\ Accepts(gs[Len(gs)])
       THEN [gs EXCEPT ![Len(gs)] = AddLayout(@, l)]
       ELSE IF gs = <<>> THEN <<AddLayout(NewGroup, l)>> ELSE Append(gs, NewGroup)
AddLayoutSource(gs, l) ==
  IF l \notin KnownLayouts THEN gs
  ELSE IF gs # <<>> /\ Accepts(gs[Len(gs)])
       THEN [gs EXCEPT ![Len(gs)] = AddLayout(@, l)]
       ELSE Append(gs, AddLayout(NewGroup, l))

\* kiosk_input_sources_manager_add_input_engine: always a group of its own.
AddEngineSource(gs, n) == Append(gs, SetInputEngine(NewGroup, n))

AddSource(gs, s) ==
  IF s.type = "xkb" THEN AddLayoutSource(gs, s.id) ELSE AddEngineSource(gs, s.id)

\* The sources of a group and of a list of groups as the D-Bus service lists
\* them: an engine alone, or every layout.
SourcesOfGroup(g) ==
  IF g.engine # NoEngine THEN <<Ibus(g.engine)>>
  ELSE [k \in DOMAIN g.layouts |-> Xkb(g.layouts[k])]

SourcesOf(gs) ==
  LET upTo[k \in 0..Len(gs)] ==
        IF k = 0 THEN <<>> ELSE upTo[k - 1] \o SourcesOfGroup(gs[k])
  IN  upTo[Len(gs)]

\* The groups a cleared manager ends up with after it adds every source of c.
GroupsOf(c) ==
  LET after[k \in 0..Len(c)] ==
        IF k = 0 THEN <<>> ELSE AddSource(after[k - 1], c[k])
  IN  after[Len(c)]

=============================================================================
