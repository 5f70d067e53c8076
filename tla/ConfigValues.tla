----------------------------- MODULE ConfigValues -----------------------------
(***************************************************************************)
(* What BaseConfig (zentral/conf/config.py) stores for a value and what a  *)
(* read gives back: _from_python turns a placeholder string into a Proxy,  *)
(* _to_python calls the Proxy's get().  Shared by ConfigDict and           *)
(* ConfigList.  A placeholder is a member of Placeholders, and Resolution *)
(* gives what its proxy's get() yields: a value, or the exception it      *)
(* raises ("KeyError" for a missing environment variable or element,      *)
(* "ResolutionError" for any other failure).  ProxyChain models get()     *)
(* itself.  Python values, Proxy objects and raised exceptions are tagged *)
(* records.                                                                *)
(***************************************************************************)
EXTENDS Naturals

CONSTANTS
    Scalars,       \* plain values, including strings that are no placeholder
    Placeholders,  \* strings matching PROXY_VAR_RE
    Resolution     \* Resolution[p]: what the proxy built for p returns or raises

Val(x)   == [tag |-> "value", v |-> x]     \* a plain Python value
Proxy(p) == [tag |-> "proxy", v |-> p]     \* a Proxy object
Raise(e) == [tag |-> "raise", v |-> e]     \* an exception propagating

Inputs  == Scalars \cup Placeholders
Proxies == {Proxy(p) : p \in Placeholders}
Errors  == {Raise(e) : e \in {"KeyError", "ResolutionError", "UnboundLocalError",
                              "IndexError", "TypeError"}}

ASSUME Scalars \cap Placeholders = {}
ASSUME \A p \in Placeholders :
          Resolution[p] \in {Raise("KeyError"), Raise("ResolutionError")}
                            \cup {Val(x) : x \in Scalars}

\* _from_python (lines 176-185): a matching string becomes a Proxy.
FromPython(v) == IF v \in Placeholders THEN Proxy(v) ELSE Val(v)

\* _to_python (lines 187-188): a Proxy is resolved, anything else returned.
ToPython(e) == IF e.tag = "proxy" THEN Resolution[e.v] ELSE e
=============================================================================
