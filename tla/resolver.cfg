\* Two threads reading a secret and a file of the same name through one
\* Resolver while both are changed upstream.
CONSTANTS
    Threads = {t1, t2}
    Resolvers = {r1}
    Sources = {"secret", "file"}
    Names = {n1}
    TTL = 2
    MaxVersion = 2
    NoEntry = NoEntry
    NoValue = NoValue
SPECIFICATION Spec
PROPERTY EventuallyFresh
