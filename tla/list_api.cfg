\* ConfigList under every method.
CONSTANTS
    s1 = s1
    s2 = s2
    pOk = pOk
    pMissing = pMissing
    NoOut = NoOut
    NoBound = NoBound
    MaxLen = 2
    Indices <- MCIndices
    Scalars <- MCScalars
    Placeholders <- MCPlaceholders
    Resolution <- MCResolution
    Methods <- AllMethods
SPECIFICATION Spec
INVARIANT TypeOK
