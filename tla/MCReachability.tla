---------------------------- MODULE MCReachability ----------------------------
(***************************************************************************)
(* Instance of Reachability for TLC: two endpoints, one of them with two   *)
(* handlers (one that moved is a second node), a vulnerable function which *)
(* the handlers call directly or one through the other, and an advisory    *)
(* that names it or, as many do, nothing.                                  *)
(***************************************************************************)
EXTENDS Reachability

CONSTANTS a, b, t, handler, target, e1, e2, v1, v2

MCNameOf == [f \in {a, b, t} |-> IF f = t THEN target ELSE handler]
MCCodeHandlers == {<<e1, a>>, <<e2, b>>}
MCCodeCalls == {<<a, b>>, <<a, t>>, <<b, t>>}
MCAdvisories ==
    [v \in {v1, v2} |-> IF v = v1 THEN {{target}, {}} ELSE {{handler}}]
=============================================================================
