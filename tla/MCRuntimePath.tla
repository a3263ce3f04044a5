---------------------------- MODULE MCRuntimePath ----------------------------
(***************************************************************************)
(* An instance of RuntimePath for TLC: one location with two Function      *)
(* nodes, of which the code ingester has yet to write the second.          *)
(***************************************************************************)
EXTENDS RuntimePath

CONSTANTS k1, f1, f2

MCKeys == {k1}
MCNodes == {f1, f2}
MCKeyOf == [f \in MCNodes |-> k1]
MCInitialNodes == {f1}
=============================================================================
