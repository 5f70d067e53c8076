\* ConfigDict reads, updates with one positional mapping.
CONSTANTS
    k1 = k1
    k2 = k2
    s1 = s1
    s2 = s2
    pOk = pOk
    pMissing = pMissing
    NoOut = NoOut
    Keys <- MCKeys
    Scalars <- MCScalars
    Placeholders <- MCPlaceholders
    Resolution <- MCResolution
    UpdateCalls <- SingleArgUpdates
SPECIFICATION Spec
INVARIANT ReadsReturnResolution
