------------------------- MODULE MCChangeCertificate -------------------------
(***************************************************************************)
(* Instances of ChangeCertificate for TLC: a handler h that calls f, f and *)
(* g that call each other's library function t, and two vulnerabilities.   *)
(***************************************************************************)
EXTENDS ChangeCertificate

CONSTANTS f, g, h, t, v1, v2, d1, d2, r1, r2

MCFunctions == {f, g, h, t}

\* The first commit changes f; the second changes f and g.
MCFilesAt == [c \in 0 .. MaxPush |-> IF c = 0 THEN {f} ELSE {f, g}]

MCCodeCalls == {<<h, f>>, <<h, g>>, <<g, f>>, <<f, g>>, <<f, t>>, <<g, t>>}

MCEpss == [v \in {v1, v2} |-> IF v = v1 THEN 1 ELSE 9]
MCVulnerable == [v \in {v1, v2} |-> IF v = v1 THEN {} ELSE {t}]

Labelled(l1, l2) == [v \in {v1, v2} |-> IF v = v1 THEN l1 ELSE l2]

\* A graph with no caller outside the second commit; one in which the two rows
\* of v2 hide v1; and one with PII below an endpoint.
MCGraphs ==
    {[known |-> {f, g}, calls |-> {<<g, f>>}, running |-> {}, flows |-> {},
      label |-> Labelled("LOW", "LOW")],
     [known |-> {f, g, t}, calls |-> {<<f, g>>, <<f, t>>, <<g, t>>},
      running |-> {g}, flows |-> {},
      label |-> Labelled("CRITICAL", "HIGH")],
     [known |-> {f, g, h}, calls |-> {<<h, g>>, <<g, f>>},
      running |-> {f}, flows |-> {f},
      label |-> Labelled("LOW", "LOW")]}
=============================================================================
