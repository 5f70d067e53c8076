---------------------------- MODULE MCSantaRuleSet ----------------------------
(* Instantiates SantaRuleSet for TLC.                                       *)
EXTENDS SantaRuleSet

\* CERTIFICATE and TEAMID targets go through the same checks as BINARY.
MCRuleTypes == {"BINARY", "BUNDLE"}
MCPolicies == {"ALLOWLIST", "ALLOWLIST_COMPILER", "BLOCKLIST", "SILENT_BLOCKLIST"}
MCHashes == {"h1", "h2"}
MCListAttrs == {"serial_numbers", "primary_users", "tags"}

\* No list given, or one value in one list and/or in its excluded_ list.
Empty == [a \in MCListAttrs |-> {}]
ListChoices ==
    {<<Empty, Empty>>} \cup
    {<<[Empty EXCEPT ![a] = i], [Empty EXCEPT ![a] = e]>> :
        a \in MCListAttrs, <<i, e>> \in {<<{"v"}, {}>>, <<{}, {"v"}>>, <<{"v"}, {"v"}>>}}

Rule(p, t, h, m, l) ==
    [policy |-> p, type |-> t, sha |-> h, msg |-> m, incl |-> l[1], excl |-> l[2]]

\* Any single rule; pairs of rules that pass the rule serializer, so that
\* duplicates, conflicts and bundles meet in validate().
AnyRule == {Rule(p, t, h, m, l) : p \in MCPolicies, t \in MCRuleTypes, h \in MCHashes,
                                  m \in {"none", "blank", "text"}, l \in ListChoices}
PlainRule == {Rule(p, t, h, "none", <<Empty, Empty>>) :
                  p \in {"ALLOWLIST", "BLOCKLIST"}, t \in MCRuleTypes, h \in MCHashes}
RuleLists == {<<>>} \cup {<<r>> : r \in AnyRule} \cup {<<r, s>> : r, s \in PlainRule}

\* No configurations key, an empty list, known names, an unknown name.
ConfigChoices ==
    {[has |-> FALSE, names |-> {}]} \cup
    {[has |-> TRUE, names |-> n] : n \in {{}, {"c1"}, {"c1", "c2"}, {"cX"}}}

MCRequests ==
    {[name |-> n, hasConfigs |-> c.has, configs |-> c.names, rules |-> rs] :
        n \in {"rs1", "rs2"}, c \in ConfigChoices, rs \in RuleLists}

\* An empty database, and one where rule set rs2 has a BINARY h1 rule in
\* c1, a rule outside any rule set has BUNDLE h2 in c2, rs1 has BINARY h2
\* in c2, and only the h1 bundle is uploaded.
MCDbs ==
    {[configs |-> {"c1", "c2"}, rules |-> {}, uploaded |-> {}],
     [configs |-> {"c1", "c2"},
      rules |-> {[ruleset |-> "rs2", config |-> "c1", type |-> "BINARY", sha |-> "h1"],
                 [ruleset |-> NoRuleSet, config |-> "c2", type |-> "BUNDLE", sha |-> "h2"],
                 [ruleset |-> "rs1", config |-> "c2", type |-> "BINARY", sha |-> "h2"]},
      uploaded |-> {"h1"}]}
=============================================================================
