------------------------------ MODULE ConfigList ------------------------------
(***************************************************************************)
(* class ConfigList of zentral/conf/config.py, with the methods it         *)
(* inherits from BaseConfig (__delitem__, __setitem__, pop).  _collection  *)
(* is a Python list of stored entries (ConfigValues); each method is one   *)
(* action, `out` what it returned or raised.  Python's list semantics for *)
(* indices and slices are part of the model: an int index in -n..n-1       *)
(* designates an element, any other raises IndexError; slice bounds are    *)
(* clamped.  Methods is the set of methods callers use.                    *)
(***************************************************************************)
EXTENDS ConfigValues, Integers, Sequences, SequencesExt

CONSTANTS
    MaxLen,     \* bound on the length of the configuration list
    Indices,    \* int indices and slice bounds callers pass
    Methods,    \* methods in use, among "getitem", "slice", "iter", "set", "del", "pop"
    NoBound,    \* model value: a slice bound left out (None)
    NoOut       \* model value: the step returned nothing

List(s) == [tag |-> "list", items |-> s]   \* a Python list a read builds
Entries == {Val(x) : x \in Inputs} \cup Proxies

VARIABLES
    lst,    \* _collection
    out,    \* what the last call returned or raised, or NoOut
    call    \* the method last called and its arguments: [op, arg] (ghost: names the step in a trace)

vars == <<lst, out, call>>

TypeOK ==
    /\ lst \in BoundedSeq(Entries, MaxLen)
    /\ out \in {Val(x) : x \in Scalars} \cup {List(s) : s \in BoundedSeq({Val(x) : x \in Scalars}, MaxLen)}
              \cup Errors \cup {NoOut}

Called(op, arg) == call' = [op |-> op, arg |-> arg]

\* The element list index i designates, or 0 (IndexError).
Position(i, n) == IF 0 <= i /\ i < n THEN i + 1
                  ELSE IF -n <= i /\ i < 0 THEN n + i + 1 ELSE 0

\* A slice bound as list slicing normalises it: None, negative, clamped.
Bound(x, n, dflt) ==
    IF x = NoBound THEN dflt
    ELSE IF x < 0 THEN (IF x + n < 0 THEN 0 ELSE x + n)
    ELSE IF x > n THEN n ELSE x

\* [self._to_python(item) for item in items]: a list of the resolved
\* values, or the first resolution error.
ResolveAll(items) ==
    LET vs == [j \in DOMAIN items |-> ToPython(items[j])]
        bad == {j \in DOMAIN vs : vs[j] \in Errors}
    IN IF bad = {} THEN List(vs) ELSE vs[CHOOSE j \in bad : \A m \in bad : j <= m]

-----------------------------------------------------------------------------
\* ConfigList.__init__ (lines 207-212) from any small configuration list.
Init ==
    /\ lst \in {[j \in DOMAIN l |-> FromPython(l[j])] : l \in BoundedSeq(Inputs, MaxLen)}
    /\ out = NoOut
    /\ call = [op |-> "init", arg |-> <<>>]

\* __getitem__ with an int (lines 214-215, 220-222).
GetItem(i) ==
    LET pos == Position(i, Len(lst)) IN
    /\ "getitem" \in Methods
    /\ out' = IF pos = 0 THEN Raise("IndexError") ELSE ToPython(lst[pos])
    /\ Called("getitem", i)
    /\ UNCHANGED lst

\* __getitem__ with a slice (lines 214-219).
GetSlice(a, b) ==
    LET n == Len(lst)  lo == Bound(a, n, 0)  hi == Bound(b, n, n) IN
    /\ "slice" \in Methods
    /\ out' = ResolveAll(IF lo < hi THEN SubSeq(lst, lo + 1, hi) ELSE <<>>)
    /\ Called("slice", <<a, b>>)
    /\ UNCHANGED lst

\* __iter__ (lines 224-226), consumed by list(...).
Iter ==
    /\ "iter" \in Methods
    /\ out' = ResolveAll(lst)
    /\ Called("iter", <<>>)
    /\ UNCHANGED lst

\* Mutant: a value stored as given, without _from_python.
SetItemRaw(i, v) ==
    LET pos == Position(i, Len(lst)) IN
    /\ "set" \in Methods
    /\ lst' = IF pos = 0 THEN lst ELSE [lst EXCEPT ![pos] = v]
    /\ out' = IF pos = 0 THEN Raise("IndexError") ELSE NoOut
    /\ Called("set", <<i, v>>)

\* BaseConfig.__setitem__ (lines 196-197).
SetItem(i, v) ==
    LET pos == Position(i, Len(lst)) IN
    /\ "set" \in Methods
    /\ lst' = IF pos = 0 THEN lst ELSE [lst EXCEPT ![pos] = FromPython(v)]
    /\ out' = IF pos = 0 THEN Raise("IndexError") ELSE NoOut
    /\ Called("set", <<i, v>>)

\* BaseConfig.__delitem__ (lines 193-194).
DelItem(i) ==
    LET pos == Position(i, Len(lst)) IN
    /\ "del" \in Methods
    /\ lst' = IF pos = 0 THEN lst ELSE RemoveAt(lst, pos)
    /\ out' = IF pos = 0 THEN Raise("IndexError") ELSE NoOut
    /\ Called("del", i)

\* BaseConfig.pop (lines 199-203): list.pop(key, default) is called with
\* two arguments, which list.pop refuses with TypeError before it changes
\* anything.
Pop(i) ==
    /\ "pop" \in Methods
    /\ out' = Raise("TypeError")
    /\ Called("pop", i)
    /\ UNCHANGED lst

Next ==
    \/ \E i \in Indices : GetItem(i) \/ DelItem(i) \/ Pop(i)
    \/ \E i \in Indices, v \in Inputs : SetItem(i, v)
    \/ \E a, b \in Indices \cup {NoBound} : GetSlice(a, b)
    \/ Iter

Spec == Init /\ [][Next]_vars

=============================================================================
