----------------------------- MODULE MCProxyChain -----------------------------
(***************************************************************************)
(* Small universe of placeholders and source contents for ProxyChain.     *)
(*                                                                         *)
(*   tObjJson = '{"0": "hunter2", "a": 1}'   (dObj)                        *)
(*   tArrJson = '[1, 2]'                     (dArr)                        *)
(*   tB64     = base64 of tObjJson                                         *)
(*   tPlain   = 'hunter2'                                                  *)
(*   tChar    = 'h'                                                        *)
(* None of tObjJson, tArrJson, tPlain, tChar decodes as base64: once       *)
(* b64decode drops the characters outside its alphabet their lengths are  *)
(* not multiples of 4, so binascii.Error (a ValueError) is raised.         *)
(***************************************************************************)
EXTENDS ProxyChain

CONSTANTS tObjJson, tArrJson, tB64, tPlain, tChar, dObj, dArr, n1, n2

MCTypeNames == {"env", "secret", "file", "vault"}

MCFilters ==
    {[name |-> "jsondecode", arg |-> ""], [name |-> "base64decode", arg |-> ""],
     [name |-> "gzip", arg |-> ""]}
    \cup {[name |-> "element", arg |-> k] : k \in {"0", "-1", "a", "x.y"}}

\* "x.y" has a character outside [a-zA-Z_\-/0-9].
MCElemKeyChars == {"0", "-1", "a"}

\* int() of each element key.
MCIntOf == [k \in {"0", "-1", "a", "x.y"} |->
               CASE k = "0" -> 0 [] k = "-1" -> -1 [] OTHER -> NotInt]

MCTexts == {tObjJson, tArrJson, tB64, tPlain, tChar}
MCTextLen == [t \in MCTexts |->
                 CASE t = tObjJson -> 24 [] t = tArrJson -> 6 [] t = tB64 -> 32
                   [] t = tPlain -> 7 [] t = tChar -> 1]

MCDocs == {dObj, dArr, n1, n2}
MCKind == [d \in MCDocs |-> CASE d = dObj -> "obj" [] d = dArr -> "arr" [] OTHER -> "num"]
MCMembers == [d \in MCDocs |->
                 CASE d = dObj -> [k \in {"0", "a"} |-> IF k = "0" THEN tPlain ELSE n1]
                   [] d = dArr -> <<n1, n2>>
                   [] OTHER -> <<>>]

MCJsonOf == [t \in MCTexts |->
                CASE t = tObjJson -> dObj [] t = tArrJson -> dArr [] OTHER -> Invalid]
MCB64Of == [t \in MCTexts |-> IF t = tB64 THEN tObjJson ELSE Invalid]
=============================================================================
