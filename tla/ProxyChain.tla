------------------------------ MODULE ProxyChain ------------------------------
(***************************************************************************)
(* Placeholder resolution of zentral/conf/config.py: PROXY_VAR_RE,         *)
(* BaseConfig._make_proxy, and the get() of EnvProxy, ResolverMethodProxy, *)
(* JSONDecodeFilter, Base64DecodeFilter and ElementFilter.                 *)
(*                                                                         *)
(* A placeholder string "{{ type:key | f1 | f2 }}" is given by its parts:  *)
(* [type, filters].  A filter is a record [name, arg] ("element" carries   *)
(* its key text as arg).  Texts and decoded JSON documents are model       *)
(* values whose content is described by the constants: JsonOf and B64Of    *)
(* are what json.loads and base64.b64decode make of a text (or Invalid),   *)
(* Kind and Members the shape of a document, IntOf what int() makes of an  *)
(* element key.  One Read step resolves one configuration leaf: `raw` is   *)
(* what the environment variable, file, secret, parameter or bucket file   *)
(* holds (Absent when missing), `out` the value or exception the read     *)
(* gives.                                                                  *)
(***************************************************************************)
EXTENDS Integers, Sequences, SequencesExt, FiniteSets

CONSTANTS
    TypeNames,      \* the type words placeholders use, known or not
    Filters,        \* the filter words they use: [name, arg] records
    MaxFilters,     \* bound on the length of a filter chain
    ElemKeyChars,   \* element keys made of [a-zA-Z_\-/0-9] only
    IntOf,          \* IntOf[k]: int(k), or NotInt when int() raises ValueError
    NotInt,
    Texts,          \* strings (and bytes) a source or a decode can yield
    TextLen,        \* their lengths
    Char,           \* the one-character string an index into a text yields
    Docs,           \* decoded JSON objects, arrays and numbers
    Kind,           \* Kind[d] \in {"obj", "arr", "num"}
    Members,        \* Members[d]: key -> value for "obj", sequence for "arr"
    JsonOf,         \* JsonOf[t]: json.loads(t), or Invalid
    B64Of,          \* B64Of[t]: base64.b64decode(t), or Invalid
    Invalid,
    Absent,         \* the environment variable / file / secret is missing
    NoOut

ErrorNames == {"KeyError", "OSError", "TypeError", "IndexError", "ValueError"}
Raise(e) == [raise |-> e]
IsRaise(v) == v \in {Raise(e) : e \in ErrorNames}

ASSUME Char \in Texts

Placeholders == [type : TypeNames, filters : BoundedSeq(Filters, MaxFilters)]
Raws == Texts \cup {Absent}

VARIABLES
    ph,     \* the placeholder being read
    raw,    \* what its source currently holds
    out     \* the value or exception the read returned, or NoOut

vars == <<ph, raw, out>>

-----------------------------------------------------------------------------
\* PROXY_VAR_RE (lines 142-147): a known type and only known filters, an
\* element key from the allowed characters.
ProxyTypeNames == {"bucket_file", "env", "file", "param", "secret"}
Matches(p) ==
    /\ p.type \in ProxyTypeNames
    /\ \A i \in DOMAIN p.filters :
          \/ p.filters[i].name \in {"jsondecode", "base64decode"}
          \/ p.filters[i].name = "element" /\ p.filters[i].arg \in ElemKeyChars

\* ElementFilter.__init__ (lines 63-68): the key as int() makes it, if it can.
IsIntKey(k) == IntOf[k] # NotInt

\* Mutant: each new filter is put under the chain built so far.
MakeProxyReversed(p) ==
    FoldRight(LAMBDA f, px : [filter |-> f, child |-> px], p.filters, [source |-> p.type])

\* The proxy _make_proxy builds (lines 156-174): the source proxy, each
\* filter of the chain wrapping the proxy built so far.
MakeProxy(p) ==
    FoldLeft(LAMBDA px, f : [filter |-> f, child |-> px], [source |-> p.type], p.filters)

\* Mutant: os.environ.get(name) instead of os.environ[name].
SourceGetEnvDefault(type, r) ==
    IF r # Absent \/ type = "env" THEN r ELSE Raise("OSError")

\* EnvProxy.get (line 25) raises KeyError for a missing variable; the
\* resolver getters (lines 104-136) raise from open() or the client.
SourceGet(type, r) ==
    IF r # Absent THEN r
    ELSE Raise(IF type = "env" THEN "KeyError" ELSE "OSError")

\* get()[self._key] (line 71) on a text, a JSON object, array or number.
Subscript(v, k) ==
    LET i == IntOf[k] IN
    IF v \in Texts
    THEN IF ~IsIntKey(k) THEN Raise("TypeError")
         ELSE IF -TextLen[v] <= i /\ i < TextLen[v] THEN Char ELSE Raise("IndexError")
    ELSE CASE Kind[v] = "obj" ->
                IF ~IsIntKey(k) /\ k \in DOMAIN Members[v]
                THEN Members[v][k] ELSE Raise("KeyError")
           [] Kind[v] = "arr" ->
                IF ~IsIntKey(k) THEN Raise("TypeError")
                ELSE LET n == Len(Members[v]) IN
                     IF -n <= i /\ i < n
                     THEN Members[v][IF i >= 0 THEN i + 1 ELSE n + i + 1]
                     ELSE Raise("IndexError")
           [] OTHER -> Raise("TypeError")

\* One filter's get() applied to its child's value (lines 50-71).
ApplyFilter(f, v) ==
    CASE f.name = "jsondecode" ->
           IF v \notin Texts THEN Raise("TypeError")
           ELSE IF JsonOf[v] = Invalid THEN Raise("ValueError") ELSE JsonOf[v]
      [] f.name = "base64decode" ->
           IF v \notin Texts THEN Raise("TypeError")
           ELSE IF B64Of[v] = Invalid THEN Raise("ValueError") ELSE B64Of[v]
      [] f.name = "element" -> Subscript(v, f.arg)

\* proxy.get(): each filter first gets its child's value; an exception
\* propagates out unchanged.
RECURSIVE Get(_, _)
Get(px, r) ==
    IF "source" \in DOMAIN px THEN SourceGet(px.source, r)
    ELSE LET c == Get(px.child, r) IN
         IF IsRaise(c) THEN c ELSE ApplyFilter(px.filter, c)

\* A leaf as a read returns it: _from_python (lines 182-184) makes a proxy
\* only of a matching string, _to_python (line 188) calls its get().
Resolve(p, r) ==
    IF Matches(p) THEN Get(MakeProxy(p), r) ELSE [literal |-> p]

Init ==
    /\ ph \in Placeholders
    /\ raw \in Raws
    /\ out = NoOut

\* A configuration leaf holding placeholder p is read while its source
\* holds r.
Read(p, r) ==
    /\ ph' = p
    /\ raw' = r
    /\ out' = Resolve(p, r)

Next == \E p \in Placeholders, r \in Raws : Read(p, r)

Spec == Init /\ [][Next]_vars

TypeOK ==
    /\ ph \in Placeholders
    /\ raw \in Raws
    /\ out \in Texts \cup Docs \cup {Raise(e) : e \in ErrorNames}
              \cup {[literal |-> p] : p \in Placeholders} \cup {NoOut}

-----------------------------------------------------------------------------
(***************************************************************************)
(* Properties                                                              *)
(***************************************************************************)

\* The filters of a placeholder take effect in the order they are written:
\* the wrapper chain _make_proxy builds, read through the recursive get()
\* calls, gives what applying the filters one after the other, left to
\* right, to the source's value gives, and the first exception stops it.
LeftToRight(p, r) ==
    FoldLeft(LAMBDA v, f : IF IsRaise(v) THEN v ELSE ApplyFilter(f, v),
             SourceGet(p.type, r), p.filters)

FiltersComposeLeftToRight ==
    out # NoOut /\ Matches(ph) => out = LeftToRight(ph, raw)

\* Spec section 4.2: element:<key> extracts key <key> of a JSON object or
\* index <key> of an array, and fails when that element is missing.
SpecSubscript(v, k) ==
    IF v \in Texts \/ Kind[v] = "num" THEN Subscript(v, k)
    ELSE IF Kind[v] = "obj"
         THEN IF k \in DOMAIN Members[v] THEN Members[v][k] ELSE Raise("KeyError")
         ELSE IF IsIntKey(k) /\ IntOf[k] \in 0..(Len(Members[v]) - 1)
              THEN Members[v][IntOf[k] + 1] ELSE Raise("IndexError")

SpecResolve(p, r) ==
    FoldLeft(LAMBDA v, f : IF IsRaise(v) THEN v
                           ELSE IF f.name = "element" THEN SpecSubscript(v, f.arg)
                           ELSE ApplyFilter(f, v),
             SourceGet(p.type, r), p.filters)

\* A read of a placeholder gives what spec section 4.2 describes: an
\* unknown proxy type or filter name is a resolution error (the code reads
\* a string PROXY_VAR_RE does not match back literally), and element:<key>
\* returns the element the key names, failing exactly when it is missing
\* (ElementFilter converts every integer-looking key with int()).
ResolvesAsSpecified ==
    out # NoOut =>
        IF ~Matches(ph) THEN IsRaise(out)
        ELSE LET s == SpecResolve(ph, raw) IN
             IF IsRaise(s) THEN IsRaise(out) ELSE out = s
=============================================================================
