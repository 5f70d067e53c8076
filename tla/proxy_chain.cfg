CONSTANTS
    tObjJson = tObjJson
    tArrJson = tArrJson
    tB64 = tB64
    tPlain = tPlain
    tChar = tChar
    dObj = dObj
    dArr = dArr
    n1 = n1
    n2 = n2
    NotInt = NotInt
    Invalid = Invalid
    Absent = Absent
    NoOut = NoOut
    MaxFilters = 2
    TypeNames <- MCTypeNames
    Filters <- MCFilters
    ElemKeyChars <- MCElemKeyChars
    IntOf <- MCIntOf
    Texts <- MCTexts
    TextLen <- MCTextLen
    Char = tChar
    Docs <- MCDocs
    Kind <- MCKind
    Members <- MCMembers
    JsonOf <- MCJsonOf
    B64Of <- MCB64Of
SPECIFICATION Spec
INVARIANT TypeOK
INVARIANT FiltersComposeLeftToRight
