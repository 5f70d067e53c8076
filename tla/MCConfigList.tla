---------------------------- MODULE MCConfigList ----------------------------
(* Instantiates ConfigList for TLC.                                        *)
EXTENDS ConfigList

CONSTANTS s1, s2, pOk, pMissing

\* s2 stands for the value pOk resolves to.
MCScalars == {s1, s2}
\* pOk: a placeholder that resolves; pMissing: one whose get() raises KeyError.
MCPlaceholders == {pOk, pMissing}
MCResolution == [p \in MCPlaceholders |-> IF p = pOk THEN Val(s2) ELSE Raise("KeyError")]

\* In range from both ends, and one past each end of a two-element list.
MCIndices == -3..2

AllMethods == {"getitem", "slice", "iter", "set", "del", "pop"}
MethodsButPop == AllMethods \ {"pop"}
=============================================================================
