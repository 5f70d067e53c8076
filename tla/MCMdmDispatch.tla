---------------------------- MODULE MCMdmDispatch ----------------------------
(* Instantiates MdmDispatch for TLC.                                       *)
EXTENDS MdmDispatch

CONSTANTS a1, a2

MCArtifacts == {a1, a2}
\* a1 comes first in the blueprint.
MCPriority == [a \in MCArtifacts |-> IF a = a1 THEN 1 ELSE 0]
=============================================================================
