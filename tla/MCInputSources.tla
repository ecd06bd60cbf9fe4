---------------------------- MODULE MCInputSources ----------------------------
(***************************************************************************)
(* InputSources for TLC.                                                   *)
(***************************************************************************)
EXTENDS InputSources

CONSTANTS us, fr, anthy, pinyin, passthrough

MCLayouts       == {us, fr}
MCEngines       == {anthy, pinyin, passthrough}
MCEngineLayout  == [n \in MCEngines |-> us]
MCInstalled     == {anthy, pinyin, passthrough}
MCLocaleSources == <<Xkb(us)>>

\* A layout after an engine, layouts that need two groups, engines alone.
MCConfigs == {<<Ibus(anthy), Xkb(us)>>, <<Xkb(us), Xkb(fr), Ibus(pinyin)>>, <<Ibus(anthy), Ibus(pinyin)>>}
MCSystemConfigs == {<<Xkb(fr)>>}

\* One engine at most in a configuration.
MCOneEngineConfigs == {<<Ibus(anthy), Xkb(us)>>, <<Xkb(fr), Ibus(pinyin)>>}
MCEngineFirst == {<<Ibus(anthy), Xkb(us)>>}
=============================================================================
