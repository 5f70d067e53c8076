--------------------------- MODULE ConfigResolver ---------------------------
(***************************************************************************)
(* The lazy secret / parameter / file resolver of zentral/conf/config.py:  *)
(* class Resolver, its TTL cache _get_or_create_cached_value and the four  *)
(* getters that key it.                                                     *)
(*                                                                         *)
(* A read goes through one Resolver instance.  The code has no lock: a     *)
(* read that misses (or finds an expired entry) calls the getter, and only *)
(* after the getter returns computes the expiry and overwrites the slot    *)
(* (lines 93-96).  Threads of a threaded server therefore interleave       *)
(* between the upstream read and the cache write; the model splits a      *)
(* miss into Getter (the upstream read) and Store (expiry + write + return)*)
(* so that time, rotations and other threads can step in between.         *)
(*                                                                         *)
(* Time is kept per entry as its age in ticks, capped at TTL: the check    *)
(* "expiry is None or time.time() < expiry" only tells ages < TTL apart    *)
(* from the rest, so capping keeps the state space finite and exact.       *)
(* An upstream value is <<source key, version>>; Rotate is an operator      *)
(* changing a secret, parameter or file outside the process.              *)
(***************************************************************************)
EXTENDS Integers, FiniteSets

CONSTANTS
    Threads,      \* request-handling threads of one process
    Resolvers,    \* Resolver instances alive in the process
    Sources,      \* the resolver-backed proxy types in use
    Names,        \* the keys / paths / names placeholders refer to
    TTL,          \* 600 seconds, in ticks
    MaxVersion,   \* bound on upstream rotations per key
    NoEntry,      \* model value: no cache slot for this key
    NoValue       \* model value: no value returned in this step

\* The four proxy types that ResolverMethodProxy dispatches to a getter
\* (lines 30-37); "env" never reaches the resolver.
ProxyTypes == {"file", "param", "secret", "bucket_file"}

ASSUME Sources \subseteq ProxyTypes /\ Sources # {}
ASSUME TTL \in Nat \ {0} /\ MaxVersion \in Nat

\* The first component of each getter's cache_key (lines 102, 111, 121, 131).
CacheTag(s) == CASE s = "file"        -> "FILE"
                 [] s = "secret"      -> "SECRET"
                 [] s = "bucket_file" -> "BUCKET_FILE"
                 [] s = "param"       -> "PARAM"

CacheKey(s, n) == <<CacheTag(s), n>>

\* get_secret_value and get_parameter_value pass ttl=600, get_file_content
\* and get_bucket_file none (lines 108, 118, 128, 138).
HasTTL(s) == s \in {"secret", "param"}

SourceKeys == Sources \X Names
CacheKeys  == {CacheKey(s, n) : s \in Sources, n \in Names}
Versions   == 0..MaxVersion
Values     == SourceKeys \X Versions
Entries    == [val : Values, age : 0..TTL, ttl : BOOLEAN]

VARIABLES
    upstream,   \* upstream[k]: current version of the secret/param/file k
    cache,      \* cache[r][ck]: Resolver r's _cache slot, or NoEntry
    pc,         \* pc[t]: "idle", "fetch" (inside getter()) or "store"
    req,        \* req[t]: the read thread t is serving
    got,        \* got[t]: what getter() returned to thread t
    returned,   \* the read answered by this step: [key, val, floor], or NoValue
    hi,         \* hi[k]: highest version of k any read has returned (ghost)
    floor       \* floor[t]: hi of thread t's key when its read began (ghost)

vars == <<upstream, cache, pc, req, got, returned, hi, floor>>

Requests == [res : Resolvers, src : Sources, name : Names]

TypeOK ==
    /\ upstream \in [SourceKeys -> Versions]
    /\ cache \in [Resolvers -> [CacheKeys -> Entries \cup {NoEntry}]]
    /\ pc \in [Threads -> {"idle", "fetch", "store"}]
    /\ req \in [Threads -> Requests]
    /\ got \in [Threads -> Values]
    /\ returned \in [key : SourceKeys, val : Values, floor : Versions \cup {-1}] \cup {NoValue}
    /\ hi \in [SourceKeys -> Versions \cup {-1}]
    /\ floor \in [Threads -> Versions \cup {-1}]

-----------------------------------------------------------------------------
\* Mutant: the slot is returned as soon as it exists, its expiry never compared.
FreshExpiryIgnored(e) == TRUE

\* "expiry is None or time.time() < expiry" (line 88).
Fresh(e) == ~e.ttl \/ e.age < TTL

\* Answering a read for source key k with value v; f is the highest
\* version of k returned before the read began.
Answer(k, v, f) ==
    /\ returned' = [key |-> k, val |-> v, floor |-> f]
    /\ hi' = [hi EXCEPT ![k] = IF v[2] > @ THEN v[2] ELSE @]

Init ==
    /\ upstream = [k \in SourceKeys |-> 0]
    /\ cache = [r \in Resolvers |-> [ck \in CacheKeys |-> NoEntry]]
    /\ pc = [t \in Threads |-> "idle"]
    /\ req = [t \in Threads |-> CHOOSE q \in Requests : TRUE]
    /\ got = [t \in Threads |-> <<CHOOSE k \in SourceKeys : TRUE, 0>>]
    /\ returned = NoValue
    /\ hi = [k \in SourceKeys |-> -1]
    /\ floor = [t \in Threads |-> -1]

\* A getter call (get_file_content, get_secret_value, ...) that finds a
\* fresh slot: the happy path of _get_or_create_cached_value, lines 83-90.
CacheHit(t, r, s, n) ==
    LET e == cache[r][CacheKey(s, n)] IN
    /\ pc[t] = "idle"
    /\ e # NoEntry /\ Fresh(e)
    /\ Answer(<<s, n>>, e.val, hi[<<s, n>>])
    /\ UNCHANGED <<upstream, cache, pc, req, got, floor>>

\* The same call finding no slot (KeyError) or an expired one: fall through
\* to getter(), lines 84-94.
CacheMiss(t, r, s, n) ==
    LET e == cache[r][CacheKey(s, n)] IN
    /\ pc[t] = "idle"
    /\ ~(e # NoEntry /\ Fresh(e))
    /\ pc' = [pc EXCEPT ![t] = "fetch"]
    /\ req' = [req EXCEPT ![t] = [res |-> r, src |-> s, name |-> n]]
    /\ floor' = [floor EXCEPT ![t] = hi[<<s, n>>]]
    /\ returned' = NoValue
    /\ UNCHANGED <<upstream, cache, got, hi>>

\* getter() reads the current upstream value (open/read, secret client,
\* parameter client, bucket download).
Getter(t) ==
    LET k == <<req[t].src, req[t].name>> IN
    /\ pc[t] = "fetch"
    /\ got' = [got EXCEPT ![t] = <<k, upstream[k]>>]
    /\ pc' = [pc EXCEPT ![t] = "store"]
    /\ returned' = NoValue
    /\ UNCHANGED <<upstream, cache, req, hi, floor>>

\* getter() raises (missing file, secret store unreachable): the exception
\* propagates out of line 94 before the cache is touched.
GetterFails(t) ==
    /\ pc[t] = "fetch"
    /\ pc' = [pc EXCEPT ![t] = "idle"]
    /\ returned' = NoValue
    /\ UNCHANGED <<upstream, cache, req, got, hi, floor>>

\* Lines 95-99: expiry computed now, the slot overwritten unconditionally,
\* the fetched value returned.
Store(t) ==
    LET r  == req[t].res
        s  == req[t].src
        n  == req[t].name
    IN
    /\ pc[t] = "store"
    /\ cache' = [cache EXCEPT ![r][CacheKey(s, n)] =
                    [val |-> got[t], age |-> 0, ttl |-> HasTTL(s)]]
    /\ pc' = [pc EXCEPT ![t] = "idle"]
    /\ Answer(<<s, n>>, got[t], floor[t])
    /\ UNCHANGED <<upstream, req, got, floor>>

\* The secret, parameter or file changes outside the process.
Rotate(k) ==
    /\ upstream[k] < MaxVersion
    /\ upstream' = [upstream EXCEPT ![k] = @ + 1]
    /\ returned' = NoValue
    /\ UNCHANGED <<cache, pc, req, got, hi, floor>>

\* One tick of time.time(): every entry with an expiry ages, up to TTL.
Tick ==
    /\ cache' = [r \in Resolvers |-> [ck \in CacheKeys |->
                    LET e == cache[r][ck] IN
                    IF e # NoEntry /\ e.ttl /\ e.age < TTL
                    THEN [e EXCEPT !.age = @ + 1] ELSE e]]
    /\ returned' = NoValue
    /\ UNCHANGED <<upstream, pc, req, got, hi, floor>>

Next ==
    \/ \E t \in Threads, r \in Resolvers, s \in Sources, n \in Names :
          CacheHit(t, r, s, n) \/ CacheMiss(t, r, s, n)
    \/ \E t \in Threads : Getter(t) \/ GetterFails(t) \/ Store(t)
    \/ \E k \in SourceKeys : Rotate(k)
    \/ Tick

\* The clock keeps running, and a thread inside a getter call eventually
\* gets an answer from upstream (strong fairness: a failed call leaves the
\* fetch, so success is only intermittently enabled) and writes it.
Fairness ==
    /\ WF_vars(Tick)
    /\ \A t \in Threads : SF_vars(Getter(t)) /\ WF_vars(Store(t))

Spec == Init /\ [][Next]_vars /\ Fairness

-----------------------------------------------------------------------------
(***************************************************************************)
(* Properties                                                              *)
(***************************************************************************)

\* A Resolver slot holding a value with an expiry (secret, param) that is
\* older than upstream is eventually no longer served: the TTL check of
\* _get_or_create_cached_value makes a rotated secret reach the process,
\* whatever the interleaving of other threads refreshing the same slot.
StaleServable(r, ck) ==
    LET e == cache[r][ck] IN
    /\ e # NoEntry /\ e.ttl /\ Fresh(e)
    /\ e.val[2] < upstream[e.val[1]]

EventuallyFresh ==
    \A r \in Resolvers, ck \in CacheKeys :
        StaleServable(r, ck) ~> ~StaleServable(r, ck)

\* Within the process, a read of a secret that begins after another read
\* of it has returned never returns an older version (reads that overlap
\* may finish in either order): what the spec (section 5) relies on when
\* it calls concurrent refreshes "idempotent overwrites of the same cache
\* slot" of one process-local cache.  Broken when the slot is left
\* holding a value older than one already served (line 96).
ReadsNeverGoBack ==
    returned # NoValue => returned.val[2] >= returned.floor

=============================================================================
