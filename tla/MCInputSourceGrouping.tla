----------------------- MODULE MCInputSourceGrouping -----------------------
(***************************************************************************)
(* InputSourceGrouping for TLC: two layouts the XKB database describes and *)
(* one it does not, two engines, and groups of three layouts, as in the     *)
(* code.                                                                   *)
(***************************************************************************)
EXTENDS InputSourceGrouping

CONSTANTS us, fr, bogus, anthy, pinyin

MCLayouts      == {us, fr, bogus}
MCKnownLayouts == {us, fr}
MCEngines      == {anthy, pinyin}
MCEngineLayout == [n \in MCEngines |-> us]
=============================================================================
