---------------------------- MODULE SantaRuleSet ----------------------------
(***************************************************************************)
(* RuleSetUpdateSerializer and RuleUpdateSerializer                        *)
(* (zentral/contrib/santa/serializers.py): the validation of a rule set    *)
(* update posted to the API, against the rules, configurations and         *)
(* bundles already in the database.                                        *)
(*                                                                         *)
(* Django REST framework validates in two stages.  First every field:      *)
(* `configurations` through validate_configurations, and each element of  *)
(* `rules` through the child serializer (its fields, then its validate()). *)
(* Only when no field failed does RuleSetUpdateSerializer.validate() run.  *)
(* A CharField rejects a blank string unless allow_blank, so a blank       *)
(* custom_msg fails at the field stage.                                    *)
(*                                                                         *)
(* A rule is [policy, type, sha, msg, incl, excl]: msg is "none" (key      *)
(* absent), "blank" or "text"; incl[a] and excl[a] are the values of list  *)
(* a and of excluded_a.  A request is [name, hasConfigs, configs, rules].  *)
(* A database is [configs, rules, uploaded]: configuration names, stored   *)
(* rules [ruleset, config, type, sha], and the sha256 of the bundles whose *)
(* upload is done.                                                         *)
(***************************************************************************)
EXTENDS Naturals, Sequences, FiniteSets, TLC

CONSTANTS
    BundleType,     \* Target.BUNDLE
    BlockList,      \* the "BLOCKLIST" policy
    BundlePolicies, \* Rule.BUNDLE_POLICIES
    ListAttrs,      \* serial_numbers, primary_users, tags
    NoRuleSet,      \* the ruleset of a rule created outside any rule set
    Requests,       \* the rule set updates posted
    Dbs             \* the database contents they are validated against

VARIABLES
    db,     \* the database the serializer queries
    req,    \* the rule set update posted
    result  \* the outcome of is_valid(), or None before any request

None == [stage |-> "none"]

vars == <<db, req, result>>

(***************************************************************************)
(* RuleUpdateSerializer                                                    *)
(***************************************************************************)

\* The field stage: custom_msg is a CharField with allow_blank False.
RuleFieldError(r) == r.msg = "blank"

\* What validate() makes of a rule it raises ValidationError for.
Rejected == [rejected |-> TRUE]

\* validate (lines 48-58), run on a rule whose fields are valid: the
\* cleaned rule, or Rejected.  A custom message on a rule that is not a
\* BLOCKLIST rule is an error when set and dropped when empty.
RuleValidate(r) ==
    IF r.type = BundleType /\ r.policy \notin BundlePolicies THEN Rejected
    ELSE IF r.policy # BlockList /\ r.msg # "none"
         THEN IF r.msg = "text" THEN Rejected ELSE [r EXCEPT !.msg = "none"]
    ELSE IF \E a \in ListAttrs : r.incl[a] \cap r.excl[a] # {} THEN Rejected
    ELSE r

RuleError(r) == RuleFieldError(r) \/ RuleValidate(r) = Rejected

(***************************************************************************)
(* RuleSetUpdateSerializer                                                 *)
(***************************************************************************)

\* validate_configurations (lines 71-81): the names no configuration has.
UnknownConfigs(d, q) == q.configs \ d.configs

\* self.configurations: the named ones, or all of them when the request
\* has no configurations key (lines 72 and 84-86).
SelectedConfigs(d, q) == IF q.hasConfigs THEN q.configs \cap d.configs ELSE d.configs

TargetOf(r) == <<r.type, r.sha>>

\* Mutant: the rules of the rule set being updated count as conflicts.
ConflictsOwnRuleSet(d, q, r) ==
    \E s \in d.rules :
        s.config \in SelectedConfigs(d, q) /\ <<s.type, s.sha>> = TargetOf(r)

\* Lines 98-102: a rule of another rule set (or of none) for the same
\* target in one of the selected configurations.
Conflicts(d, q, r) ==
    \E s \in d.rules :
        /\ s.ruleset # q.name
        /\ s.config \in SelectedConfigs(d, q)
        /\ <<s.type, s.sha>> = TargetOf(r)

\* Lines 106-110.
BundleMissing(d, r) == r.type = BundleType /\ r.sha \notin d.uploaded

\* The loop of lines 88-113: keys seen so far, and rule_errors, each later
\* error of a rule overwriting its earlier one.
RuleSetErrors(d, q) ==
    LET step(acc, i) ==
            LET r == q.rules[i]
                errs == IF TargetOf(r) \in acc.keys
                        THEN (i :> "duplicated") @@ acc.errors ELSE acc.errors
            IN [keys |-> acc.keys \cup {TargetOf(r)},
                errors |-> IF Conflicts(d, q, r) THEN (i :> "conflict") @@ errs
                           ELSE IF BundleMissing(d, r) THEN (i :> "bundle") @@ errs
                           ELSE errs]
        loop[n \in 0..Len(q.rules)] ==
            IF n = 0 THEN [keys |-> {}, errors |-> <<>>]
            ELSE step(loop[n - 1], n)
    IN loop[Len(q.rules)].errors

\* is_valid(): the field errors when any, else the errors of validate(),
\* else the cleaned rules.
IsValid(d, q) ==
    LET childErrors == {i \in DOMAIN q.rules : RuleError(q.rules[i])}
        configError == q.hasConfigs /\ UnknownConfigs(d, q) # {}
    IN IF configError \/ childErrors # {}
       THEN [stage |-> "fields", configs |-> configError, rules |-> childErrors]
       ELSE LET errs == RuleSetErrors(d, q) IN
            IF DOMAIN errs # {}
            THEN [stage |-> "validate", configs |-> FALSE, rules |-> DOMAIN errs]
            ELSE [stage |-> "ok",
                  rules |-> [i \in DOMAIN q.rules |-> RuleValidate(q.rules[i])]]

Init ==
    /\ db \in Dbs
    /\ req \in Requests
    /\ result = None

\* The posted update is validated: serializer.is_valid() runs once.
Validate ==
    /\ result = None
    /\ result' = IsValid(db, req)
    /\ UNCHANGED <<db, req>>

Next == Validate

Spec == Init /\ [][Next]_vars

TypeOK ==
    /\ db \in Dbs
    /\ req \in Requests
    /\ result.stage \in {"none", "fields", "validate", "ok"}
    /\ result.stage \in {"fields", "validate"} =>
           result.rules \subseteq DOMAIN req.rules /\ result.configs \in BOOLEAN

-----------------------------------------------------------------------------
(***************************************************************************)
(* Properties                                                              *)
(***************************************************************************)

\* A rule as the Santa rule model allows it: a BUNDLE rule with a bundle
\* policy, a custom message only on a BLOCKLIST rule, and no value both
\* included and excluded.
RuleAllowed(r) ==
    /\ r.type = BundleType => r.policy \in BundlePolicies
    /\ r.msg # "none" => r.policy = BlockList
    /\ \A a \in ListAttrs : r.incl[a] \cap r.excl[a] = {}

\* The configurations the update is applied to: the ones it names, or
\* every configuration when it names none.
AppliedTo(d, q) == IF q.hasConfigs THEN q.configs ELSE d.configs

\* The rules of other rule sets (or of none) configuration c holds for
\* target t.
ForeignRules(d, q, c, t) ==
    Cardinality({s \in d.rules : s.ruleset # q.name /\ s.config = c /\ <<s.type, s.sha>> = t})
\* The rules that break the rule model or carry a blank message.
FieldFaulty(q) ==
    {i \in DOMAIN q.rules : ~RuleAllowed(q.rules[i]) \/ q.rules[i].msg = "blank"}

\* The rules that repeat the target of an earlier one, clash with a rule
\* of another rule set in a configuration the update goes to, or name a
\* bundle not uploaded.
SetFaulty(d, q) ==
    {i \in DOMAIN q.rules :
        \/ \E j \in 1..(i - 1) : TargetOf(q.rules[j]) = TargetOf(q.rules[i])
        \/ \E c \in AppliedTo(d, q) : ForeignRules(d, q, c, TargetOf(q.rules[i])) > 0
        \/ BundleMissing(d, q.rules[i])}

\* The API rejects an update only for a reason and names the faulty
\* rules: an update with known configurations and no faulty rule is
\* accepted; a rejection at the field stage lists the rules the rule
\* serializer refuses, one from validate() the rules that repeat, clash
\* or lack their bundle.
RejectsExactlyTheFaultyRules ==
    result # None =>
        /\ result.stage = "ok" <=>
               /\ req.hasConfigs => req.configs \subseteq db.configs
               /\ FieldFaulty(req) = {}
               /\ SetFaulty(db, req) = {}
        /\ result.stage = "fields" => result.rules = FieldFaulty(req)
        /\ result.stage = "validate" => result.rules = SetFaulty(db, req)
=============================================================================
