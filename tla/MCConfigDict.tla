---------------------------- MODULE MCConfigDict ----------------------------
(* Instantiates ConfigDict for TLC.                                        *)
EXTENDS ConfigDict

CONSTANTS k1, k2, s1, s2, pOk, pMissing

MCKeys == {k1, k2}
\* s2 stands for the value pOk resolves to.
MCScalars == {s1, s2}
\* pOk: a placeholder that resolves; pMissing: "{{ env:UNSET }}" or an
\* element: filter naming an absent key, whose get() raises KeyError.
MCPlaceholders == {pOk, pMissing}
MCResolution == [p \in MCPlaceholders |-> IF p = pOk THEN Val(s2) ELSE Raise("KeyError")]

\* update(m) with one positional mapping, as config code calls it.
SingleArgUpdates ==
    { [args |-> << << <<k1, pOk>> >> >>, kw |-> <<>>],
      [args |-> << << <<k2, s1>>, <<k1, pMissing>> >> >>, kw |-> <<>>] }

=============================================================================
