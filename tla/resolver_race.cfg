\* Two threads of one process refreshing and reading the same expired
\* secret slot of a shared Resolver while the secret is rotated.
CONSTANTS
    Threads = {t1, t2}
    Resolvers = {r1}
    Sources = {"secret"}
    Names = {n1}
    TTL = 2
    MaxVersion = 1
    NoEntry = NoEntry
    NoValue = NoValue
SPECIFICATION Spec
INVARIANT ReadsNeverGoBack
