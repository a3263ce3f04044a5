----------------------------- MODULE CallGraph -----------------------------
(***************************************************************************)
(* The call graph as the queries of the repository look at it: a set of    *)
(* CALLS relationships <<caller, callee>> between Function nodes.          *)
(***************************************************************************)
EXTENDS Integers, Sequences

EdgeAt(p, i) == <<p[i], p[i + 1]>>

\* The matches of (f)-[:CALLS*0..depth]->() in the graph g, as sequences of
\* functions: no relationship occurs twice in one.
Trails(g, f, depth) ==
    LET Extended(p) ==
            {Append(p, e[2]) : e \in {c \in g :
                 /\ c[1] = p[Len(p)]
                 /\ \A i \in 1 .. Len(p) - 1 : EdgeAt(p, i) # c}}
        ofLength[n \in 0 .. depth] ==
            IF n = 0 THEN {<<f>>} ELSE UNION {Extended(p) : p \in ofLength[n - 1]}
    IN  UNION {ofLength[n] : n \in 0 .. depth}

\* A path of the graph g that starts at f, whatever calls it takes twice.
PathOf(g, f, p) ==
    p[1] = f /\ \A i \in 1 .. Len(p) - 1 : EdgeAt(p, i) \in g

\* The functions that call one of fs.
CallersOf(g, fs) == {c[1] : c \in {e \in g : e[2] \in fs}}

\* apoc.path.subgraphNodes along incoming calls, without fs themselves.
CallersWithin(g, fs, depth) ==
    LET near[n \in 0 .. depth] ==
            IF n = 0 THEN fs ELSE near[n - 1] \union CallersOf(g, near[n - 1])
    IN  {c[1] : c \in {e \in g : e[1] \in near[depth]}} \ fs
=============================================================================
