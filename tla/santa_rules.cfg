\* Every rule set update of the bounded universe, against two databases.
\* is_valid() runs once per posted update, so a behaviour ends after it.
CONSTANTS
    BundleType = "BUNDLE"
    BlockList = "BLOCKLIST"
    BundlePolicies = {"ALLOWLIST", "ALLOWLIST_COMPILER"}
    ListAttrs <- MCListAttrs
    NoRuleSet = NoRuleSet
    Requests <- MCRequests
    Dbs <- MCDbs
SPECIFICATION Spec
CHECK_DEADLOCK FALSE
INVARIANT RejectsExactlyTheFaultyRules
