------------------------------ MODULE ConfigDict ------------------------------
(***************************************************************************)
(* class ConfigDict and the conversions of BaseConfig in                   *)
(* zentral/conf/config.py.  A ConfigDict keeps in _collection, in          *)
(* insertion order, either the plain value it was given or, for a string   *)
(* matching PROXY_VAR_RE, a Proxy that resolves it on every read           *)
(* (_from_python / _to_python).  Each method is one action; `out` is what  *)
(* the call returned or raised.                                            *)
(* Values, proxies and their resolution come from ConfigValues.  Nested   *)
(* dicts and lists stored as values are not modelled.                      *)
(***************************************************************************)
EXTENDS ConfigValues, Sequences, SequencesExt, FiniteSets

CONSTANTS
    Keys,          \* configuration keys
    UpdateCalls,   \* update(*args, **kwargs) calls: [args, kw] of pair sequences
    NoOut          \* model value: the step returned nothing

VARIABLES
    coll,   \* _collection: sequence of <<key, stored entry>>
    out,    \* [op, key, val] returned or raised by the last call, or NoOut
    call    \* the method last called and its arguments: [op, arg] (ghost: names the step in a trace)

vars == <<coll, out, call>>

Dict == INSTANCE PyDict
KeysOf(od) == Dict!KeysOf(od)
Entry(k) == (CHOOSE p \in ToSet(coll) : p[1] = k)[2]

\* Every pair an update call hands over, in the order a dict applies them.
AllPairs(c) == FlattenSeq(c.args) \o c.kw

Outcomes == {Val(x) : x \in Inputs \cup (Keys \X Scalars)} \cup Proxies \cup Errors

TypeOK ==
    /\ coll \in Seq(Keys \X ({Val(x) : x \in Scalars \cup Placeholders} \cup Proxies))
    /\ Len(coll) = Cardinality(KeysOf(coll))
    /\ out \in [op : STRING, key : Keys \cup {NoOut}, val : Outcomes] \cup {NoOut}

Result(op, k, v) == out' = [op |-> op, key |-> k, val |-> v]
Called(op, arg) == call' = [op |-> op, arg |-> arg]

-----------------------------------------------------------------------------
\* ConfigDict.__init__ (lines 238-242) from any small configuration dict.
Init ==
    /\ coll \in {[i \in DOMAIN od |-> <<od[i][1], FromPython(od[i][2])>>] :
                    od \in {d \in BoundedSeq(Keys \X Inputs, Cardinality(Keys)) :
                              Len(d) = Cardinality(KeysOf(d))}}
    /\ out = NoOut
    /\ call = [op |-> "init", arg |-> <<>>]

\* __getitem__ (lines 244-247).
GetItem(k) ==
    /\ Result("getitem", k, IF k \in KeysOf(coll) THEN ToPython(Entry(k)) ELSE Raise("KeyError"))
    /\ Called("getitem", k)
    /\ UNCHANGED coll

\* get (lines 249-254): a KeyError raised by self[key] (absent key, or a
\* proxy whose resolution raised KeyError) is answered with the default,
\* itself passed through _to_python.
Get(k, d) ==
    LET v == IF k \in KeysOf(coll) THEN ToPython(Entry(k)) ELSE Raise("KeyError") IN
    /\ Result("get", k, IF v = Raise("KeyError") THEN ToPython(Val(d)) ELSE v)
    /\ Called("get", k)
    /\ UNCHANGED coll

\* __setitem__ (lines 196-197).
SetItem(k, v) ==
    /\ coll' = Dict!Put(coll, k, FromPython(v))
    /\ out' = NoOut
    /\ Called("set", <<k, v>>)

\* __delitem__ (lines 193-194).
DelItem(k) ==
    /\ Called("del", k)
    /\ IF k \in KeysOf(coll)
       THEN coll' = Dict!Drop(coll, k) /\ out' = NoOut
       ELSE Result("delitem", k, Raise("KeyError")) /\ UNCHANGED coll

\* pop (lines 276-278): the pair is removed before the value is resolved.
Pop(k, d) ==
    /\ Called("pop", k)
    /\ coll' = Dict!Drop(coll, k)
    /\ Result("pop", k, IF k \in KeysOf(coll) THEN ToPython(Entry(k)) ELSE ToPython(Val(d)))

\* popitem (lines 280-282): LIFO, KeyError on an empty dict.
PopItem ==
    /\ Called("popitem", <<>>)
    /\ IF coll = <<>>
       THEN Result("popitem", NoOut, Raise("KeyError")) /\ UNCHANGED coll
       ELSE LET p == Last(coll) IN
            /\ coll' = Front(coll)
            /\ Result("popitem", p[1],
                      IF ToPython(p[2]) \in Errors THEN ToPython(p[2])
                      ELSE Val(<<p[1], ToPython(p[2]).v>>))

\* setdefault (lines 273-274): returns what _collection.setdefault returns.
SetDefault(k, d) ==
    /\ Called("setdefault", <<k, d>>)
    /\ coll' = IF k \in KeysOf(coll) THEN coll
               ELSE Append(coll, <<k, FromPython(d)>>)
    /\ Result("setdefault", k,
              IF k \in KeysOf(coll) THEN Entry(k) ELSE FromPython(d))

\* update (lines 287-295): the loop iterates `iterator`, the items of the
\* last positional argument only; with no positional argument `iterator`
\* is unbound.
Update(c) ==
    /\ Called("update", c)
    /\ IF c.args = <<>>
       THEN Result("update", NoOut, Raise("UnboundLocalError")) /\ UNCHANGED coll
       ELSE /\ coll' = FoldLeft(LAMBDA od, p : Dict!Put(od, p[1], FromPython(p[2])),
                                coll, Last(c.args))
            /\ out' = NoOut

\* clear (lines 270-271).
Clear == coll' = <<>> /\ out' = NoOut /\ Called("clear", <<>>)

Next ==
    \/ \E k \in Keys :
          \/ GetItem(k) \/ DelItem(k)
          \/ \E v \in Inputs : Get(k, v) \/ SetItem(k, v) \/ Pop(k, v) \/ SetDefault(k, v)
    \/ PopItem
    \/ \E c \in UpdateCalls : Update(c)
    \/ Clear

Spec == Init /\ [][Next]_vars

-----------------------------------------------------------------------------
(***************************************************************************)
(* Properties                                                              *)
(***************************************************************************)

\* Every read method (__getitem__, get, pop, popitem, setdefault) hands its
\* caller what resolving the stored entry gives: never the Proxy object
\* itself, and, for a present key whose placeholder fails to resolve, the
\* error and not the caller's default (spec section 7: resolution errors
\* are fatal to the read that triggered them, no silent fallback).
ReadsReturnResolution ==
    out # NoOut =>
        /\ out.val \notin Proxies
        /\ (/\ out.op \in {"getitem", "get"}
            /\ out.key \in KeysOf(coll)
            /\ ToPython(Entry(out.key)) \in Errors) => out.val \in Errors
=============================================================================
