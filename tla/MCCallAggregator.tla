-------------------------- MODULE MCCallAggregator --------------------------
(***************************************************************************)
(* Instances of CallAggregator for TLC: two functions, two windows that    *)
(* count calls and one that closes the last of them.                       *)
(***************************************************************************)
EXTENDS CallAggregator
=============================================================================
