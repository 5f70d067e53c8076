------------------------------- MODULE PyDict -------------------------------
(***************************************************************************)
(* The Python dict operations ConfigDict's _collection is changed with.   *)
(* A dict is a sequence of <<key, value>> pairs with distinct keys, in     *)
(* insertion order.                                                        *)
(***************************************************************************)
EXTENDS Sequences

KeysOf(od) == {od[i][1] : i \in DOMAIN od}

\* d[k] = v: an existing key keeps its position, a new one goes last.
Put(od, k, v) ==
    IF k \in KeysOf(od)
    THEN [i \in DOMAIN od |-> IF od[i][1] = k THEN <<k, v>> ELSE od[i]]
    ELSE Append(od, <<k, v>>)

\* del d[k] of a present key; an absent key leaves d as it is.
Drop(od, k) == SelectSeq(od, LAMBDA p : p[1] # k)
=============================================================================
