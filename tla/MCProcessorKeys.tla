-------------------------- MODULE MCProcessorKeys --------------------------
(* Instances of ProcessorKeys for TLC.                                     *)
EXTENDS ProcessorKeys, TLC

CONSTANTS e1, k1, k2, r1, r2, h1, h2

OneEvent == {e1}
OneKey == {k1}
TwoKeys == {k1, k2}
TwoRefs == {r1, r2}
TwoHandlers == {h1, h2}
RefSymmetry == Permutations(TwoRefs) \cup Permutations(TwoHandlers)

============================================================================
