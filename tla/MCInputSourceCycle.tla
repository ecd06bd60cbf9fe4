-------------------------- MODULE MCInputSourceCycle --------------------------
(***************************************************************************)
(* InputSourceCycle for TLC: every list without repetitions of up to four  *)
(* of three layouts and two engines, whose own layout is "us".             *)
(***************************************************************************)
EXTENDS InputSourceCycle

CONSTANTS us, fr, de, anthy, pinyin, passthrough

MCLayouts      == {us, fr, de}
MCEngines      == {anthy, pinyin, passthrough}
MCEngineLayout == [n \in MCEngines |-> us]

Offers == {Xkb(us), Xkb(fr), Xkb(de), Ibus(anthy), Ibus(pinyin)}
MCLists ==
  {c \in UNION {[1..n -> Offers] : n \in 1..4} :
     \A j, k \in DOMAIN c : c[j] = c[k] => j = k}

MCSimpleLists == {c \in MCLists : Simple(c)}

MCLocaleSources == <<Xkb(us)>>
=============================================================================
