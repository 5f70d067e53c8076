\* Two concurrent first creates of a kernel extension policy for MBUs that
\* have none.
CONSTANTS
    r1 = r1
    r2 = r2
    m1 = m1
    m2 = m2
    k1 = k1
    k2 = k2
    k3 = k3
    e1 = e1
    c1 = c1
    NoRow = NoRow
    NoWrite = NoWrite
    Nobody = Nobody
    Requests <- MCRequests
    MBUs <- MCMBUs
    PolicyIds = {k1, k2, k3}
    PackageIds = {e1}
    ProfileIds = {c1}
    Views = {"create_kext"}
    InitDbs <- EmptyDbs
SPECIFICATION Spec
INVARIANT AtMostOnePolicy
