---------------------------- MODULE MCMbuArtifacts ----------------------------
(* Instantiates MbuArtifacts for TLC.                                      *)
EXTENDS MbuArtifacts

CONSTANTS r1, r2, m1, m2, k1, k2, k3, e1, c1

MCRequests == {r1, r2}
MCMBUs == {m1, m2}

\* No MBU has a policy yet.
EmptyDbs == {[id \in Rows |-> NoRow]}

=============================================================================
