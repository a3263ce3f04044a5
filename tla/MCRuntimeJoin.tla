---------------------------- MODULE MCRuntimeJoin ----------------------------
(***************************************************************************)
(* An instance of RuntimeJoin for TLC, for the run about time: one         *)
(* location with one node, and events that may arrive late.                *)
(***************************************************************************)
EXTENDS RuntimeJoin

CONSTANTS k1, f1

OneKey == {k1}
OneNode == {f1}
OneKeyOf == [f \in OneNode |-> k1]
=============================================================================
