----------------------------- MODULE Reachability -----------------------------
(***************************************************************************)
(* Layer 3, the reachability engine (layer3/reachability.py) on one        *)
(* service: run_for_service takes the HAS_VULN edges of the service and,   *)
(* one after the other, asks the graph for static paths, runtime evidence  *)
(* and exposure, and writes the label.  Each question is a transaction of  *)
(* its own, so that the ingesters change the graph between them.           *)
(*                                                                         *)
(* The handler of the refresh endpoint does not await anything: the event  *)
(* loop of its process has one run at a time.                              *)
(***************************************************************************)
EXTENDS CallGraph, FiniteSets

CONSTANTS
    Functions,  \* Function nodes of the service
    Names,      \* function names
    NameOf,     \* the name of each function
    Endpoints,  \* APIEndpoint nodes of the service
    CodeHandlers, \* HANDLED_BY relationships <<endpoint, function>> the code
                \* may come to have
    CodeCalls,  \* CALLS relationships <<caller, callee>> it may come to have
    Vulns,      \* HAS_VULN edges the service may come to have
    Advisories, \* for each, the values vulnerable_functions may take
    Depth,      \* hops of the static query: 10
    RowLimit,   \* LIMIT of the static query: 50
    MaxChanges  \* bound: changes of the runtime evidence and of advisories

ASSUME FunctionsAssumption ==
    /\ NameOf \in [Functions -> Names]
    /\ CodeHandlers \subseteq Endpoints \X Functions
    /\ CodeCalls \subseteq Functions \X Functions
ASSUME AdvisoriesAssumption == Advisories \in [Vulns -> SUBSET SUBSET Names]
ASSUME BoundsAssumption ==
    Depth \in Nat /\ RowLimit \in Nat \ {0} /\ MaxChanges \in Nat

VARIABLES
    calls,     \* CALLS relationships in the graph
    handled,   \* HANDLED_BY relationships in the graph
    observed,  \* functions with RUNTIME_CALLS and call_count_24h > 0
    exposed,   \* endpoints an ExternalEndpoint MAPS_TO
    named,     \* Vulnerability.vulnerable_functions of the linked edges
    label,     \* HAS_VULN.reachability, "none" when there is no edge
    pc,        \* where the run is
    todo,      \* the edges fetched and not yet labelled, with their names
    current,   \* the edge at hand
    rows,      \* static_paths of the edge at hand
    unchecked, \* endpoints the loop of step 3 has not asked about
    result,    \* the label computed for the edge at hand
    changes,   \* changes made, for the bound
    quiet,     \* history: the graph has not changed since the run began
    exact      \* history: edges labelled by a run, the graph not having
               \* changed since that run began

graphVars == <<calls, handled, observed, exposed, named>>
runVars   == <<pc, todo, current, rows, unchecked, result>>
vars == <<graphVars, label, runVars, changes, quiet, exact>>

Labels == {"NOT_REACHABLE", "LOW", "HIGH", "CRITICAL"}

-----------------------------------------------------------------------------
(* The queries.                                                            *)

\* The matches of (f)-[:CALLS*0..Depth]->() in the graph g of calls.
PathsFrom(g, f) == Trails(g, f, Depth)

\* The rows of the static query without its LIMIT, for entries hs.
AllRows(g, hs, names) ==
    UNION {{[endpoint |-> h[1], path |-> p] :
                p \in {q \in PathsFrom(g, h[2]) :
                           NameOf[q[Len(q)]] \in names}} :
           h \in hs}

\* ORDER BY path_depth LIMIT RowLimit: rows of one length come in any order.
StaticResults(g, hs, names) ==
    LET all == AllRows(g, hs, names) IN
    IF Cardinality(all) <= RowLimit
    THEN {all}
    ELSE {r \in SUBSET all :
             /\ Cardinality(r) = RowLimit
             /\ \A x \in r, y \in all \ r : Len(x.path) <= Len(y.path)}

NodesOf(rs) == UNION {{r.path[i] : i \in 1 .. Len(r.path)} : r \in rs}

EndpointsOf(rs) == {r.endpoint : r \in rs}

-----------------------------------------------------------------------------
Item == [edge : Vulns, names : SUBSET Names]
NoItem == [edge |-> "none", names |-> {}]

Init ==
    /\ calls = {}
    /\ handled = {}
    /\ observed = {}
    /\ exposed = {}
    /\ named = [v \in Vulns |-> {}]
    /\ label = [v \in Vulns |-> "none"]
    /\ pc = "idle"
    /\ todo = {}
    /\ current = NoItem
    /\ rows = {}
    /\ unchecked = {}
    /\ result = "UNKNOWN"
    /\ changes = 0
    /\ quiet = TRUE
    /\ exact = {}

-----------------------------------------------------------------------------
(* The surroundings: what the other layers do to the graph.                *)

GraphChanges == quiet' = FALSE /\ exact' = {}

\* The code ingester finds a call.  It only ever merges relationships.
AddCall(c) ==
    /\ c \notin calls
    /\ calls' = calls \union {c}
    /\ GraphChanges
    /\ UNCHANGED <<handled, observed, exposed, named, label, runVars, changes>>

\* It finds an endpoint and its handler.
AddHandler(h) ==
    /\ h \notin handled
    /\ handled' = handled \union {h}
    /\ GraphChanges
    /\ UNCHANGED <<calls, observed, exposed, named, label, runVars, changes>>

\* The runtime join upserts a function's edge.
Observe(f) ==
    /\ f \notin observed
    /\ changes < MaxChanges
    /\ observed' = observed \union {f}
    /\ changes' = changes + 1
    /\ GraphChanges
    /\ UNCHANGED <<calls, handled, exposed, named, label, runVars>>

\* The runtime join resets or deletes it.
Forget(f) ==
    /\ f \in observed
    /\ changes < MaxChanges
    /\ observed' = observed \ {f}
    /\ changes' = changes + 1
    /\ GraphChanges
    /\ UNCHANGED <<calls, handled, exposed, named, label, runVars>>

\* A scan maps an external endpoint.  No scan takes a mapping back.
Expose(e) ==
    /\ e \notin exposed
    /\ exposed' = exposed \union {e}
    /\ GraphChanges
    /\ UNCHANGED <<calls, handled, observed, named, label, runVars, changes>>

\* The CVE ingester links a dependency to a vulnerability for the first time.
Link(v, names) ==
    /\ label[v] = "none"
    /\ label' = [label EXCEPT ![v] = "UNKNOWN"]
    /\ named' = [named EXCEPT ![v] = names]
    /\ GraphChanges
    /\ UNCHANGED <<calls, handled, observed, exposed, runVars, changes>>

\* It meets an advisory again: the functions it names are replaced, and
\* ON MATCH leaves the label as it is.
Revise(v, names) ==
    /\ label[v] # "none"
    /\ named[v] # names
    /\ changes < MaxChanges
    /\ named' = [named EXCEPT ![v] = names]
    /\ changes' = changes + 1
    /\ GraphChanges
    /\ UNCHANGED <<calls, handled, observed, exposed, label, runVars>>

-----------------------------------------------------------------------------
(* run_for_service and compute_reachability.                               *)

\* Mutant: edges that have a label are skipped.
StartUnlabelled ==
    /\ pc = "idle"
    /\ pc' = "next"
    /\ todo' = {[edge |-> v, names |-> named[v]] :
                    v \in {u \in Vulns : label[u] = "UNKNOWN"}}
    /\ quiet' = TRUE
    /\ UNCHANGED <<graphVars, label, current, rows, unchecked, result, changes,
                   exact>>

\* A request to refresh: the edges are fetched with their function names.
Start ==
    /\ pc = "idle"
    /\ pc' = "next"
    /\ todo' = {[edge |-> v, names |-> named[v]] :
                    v \in {u \in Vulns : label[u] # "none"}}
    /\ quiet' = TRUE
    /\ UNCHANGED <<graphVars, label, current, rows, unchecked, result, changes,
                   exact>>

\* The label is decided: what is left of compute_reachability is to return.
Decide(l) ==
    /\ result' = l
    /\ pc' = "write"
    /\ rows' = {}
    /\ unchecked' = {}

\* Step 1 for the next edge.  Without names there is no query and no row.
Static ==
    /\ pc = "next"
    /\ \E item \in todo :
          /\ current' = item
          /\ todo' = todo \ {item}
          /\ \E found \in StaticResults(calls, handled, item.names) :
                IF found = {}
                THEN Decide("NOT_REACHABLE")
                ELSE /\ rows' = found
                     /\ pc' = "runtime"
                     /\ UNCHANGED <<unchecked, result>>
    /\ UNCHANGED <<graphVars, label, changes, quiet, exact>>

\* Mutant: only the vulnerable functions themselves count as evidence.
RuntimeOfTargets ==
    /\ pc = "runtime"
    /\ IF {r.path[Len(r.path)] : r \in rows} \intersect observed = {}
       THEN Decide("LOW")
       ELSE /\ unchecked' = EndpointsOf(rows)
            /\ pc' = "surface"
            /\ UNCHANGED <<rows, result>>
    /\ UNCHANGED <<graphVars, label, todo, current, changes, quiet, exact>>

\* Step 2, about the functions of all the paths together.
Runtime ==
    /\ pc = "runtime"
    /\ IF NodesOf(rows) \intersect observed = {}
       THEN Decide("LOW")
       ELSE /\ unchecked' = EndpointsOf(rows)
            /\ pc' = "surface"
            /\ UNCHANGED <<rows, result>>
    /\ UNCHANGED <<graphVars, label, todo, current, changes, quiet, exact>>

\* Mutant: any endpoint of the service is asked about.
SurfaceFoundAnywhere(e) ==
    /\ pc = "surface"
    /\ e \in exposed
    /\ Decide("CRITICAL")
    /\ UNCHANGED <<graphVars, label, todo, current, changes, quiet, exact>>

\* Step 3 for one entry endpoint, in any order: it is exposed.
SurfaceFound(e) ==
    /\ pc = "surface"
    /\ e \in unchecked
    /\ e \in exposed
    /\ Decide("CRITICAL")
    /\ UNCHANGED <<graphVars, label, todo, current, changes, quiet, exact>>

\* Mutant: the label after the loop is forgotten.
SurfaceMissedUnlabelled(e) ==
    /\ pc = "surface"
    /\ e \in unchecked
    /\ e \notin exposed
    /\ IF unchecked = {e}
       THEN Decide(result)
       ELSE unchecked' = unchecked \ {e} /\ UNCHANGED <<pc, rows, result>>
    /\ UNCHANGED <<graphVars, label, todo, current, changes, quiet, exact>>

\* It is not; after the last one the label is HIGH.
SurfaceMissed(e) ==
    /\ pc = "surface"
    /\ e \in unchecked
    /\ e \notin exposed
    /\ IF unchecked = {e}
       THEN Decide("HIGH")
       ELSE unchecked' = unchecked \ {e} /\ UNCHANGED <<pc, rows, result>>
    /\ UNCHANGED <<graphVars, label, todo, current, changes, quiet, exact>>

\* _write_reachability, and on to the next edge with a new result.
Write ==
    /\ pc = "write"
    /\ label' = [label EXCEPT ![current.edge] = result]
    /\ exact' = IF quiet THEN exact \union {current.edge}
                         ELSE exact \ {current.edge}
    /\ pc' = "next"
    /\ current' = NoItem
    /\ result' = "UNKNOWN"
    /\ UNCHANGED <<graphVars, todo, rows, unchecked, changes, quiet>>

Finish ==
    /\ pc = "next"
    /\ todo = {}
    /\ pc' = "idle"
    /\ UNCHANGED <<graphVars, label, todo, current, rows, unchecked, result,
                   changes, quiet, exact>>

\* A query fails in all its attempts: the exception ends the run, and the
\* edges it has not come to keep the labels they had.
Fail ==
    /\ pc # "idle"
    /\ pc' = "idle"
    /\ todo' = {}
    /\ current' = NoItem
    /\ rows' = {}
    /\ unchecked' = {}
    /\ result' = "UNKNOWN"
    /\ UNCHANGED <<graphVars, label, changes, quiet, exact>>

-----------------------------------------------------------------------------
Surroundings ==
    \/ \E c \in CodeCalls : AddCall(c)
    \/ \E h \in CodeHandlers : AddHandler(h)
    \/ \E f \in Functions : Observe(f) \/ Forget(f)
    \/ \E e \in Endpoints : Expose(e)
    \/ \E v \in Vulns : \E names \in Advisories[v] :
           Link(v, names) \/ Revise(v, names)

Run ==
    \/ Static
    \/ Runtime
    \/ \E e \in Endpoints : SurfaceFound(e) \/ SurfaceMissed(e)
    \/ Write
    \/ Finish

Next == Surroundings \/ Start \/ Run \/ Fail

Spec == Init /\ [][Next]_vars

-----------------------------------------------------------------------------
(* Properties.                                                             *)

\* Types; and UNKNOWN, the label a result begins with, is never written.
TypeOK ==
    /\ calls \subseteq CodeCalls
    /\ handled \subseteq CodeHandlers
    /\ observed \subseteq Functions
    /\ exposed \subseteq Endpoints
    /\ named \in [Vulns -> SUBSET Names]
    /\ label \in [Vulns -> Labels \union {"none", "UNKNOWN"}]
    /\ pc \in {"idle", "next", "runtime", "surface", "write"}
    /\ todo \subseteq Item
    /\ current \in IF pc \in {"idle", "next"} THEN {NoItem} ELSE Item
    /\ EndpointsOf(rows) \subseteq Endpoints
    /\ unchecked \subseteq Endpoints
    /\ result \in IF pc = "write" THEN Labels ELSE {"UNKNOWN"}
    /\ changes \in 0 .. MaxChanges
    /\ quiet \in BOOLEAN
    /\ exact \subseteq Vulns

\* The label one look gives at a graph of calls g with the entries hs, in which
\* the functions of o were observed and the endpoints of x are exposed.
LabelOf(g, hs, o, x, names) ==
    LET all == AllRows(g, hs, names) IN
    CASE all = {} -> "NOT_REACHABLE"
      [] all # {} /\ NodesOf(all) \intersect o = {} -> "LOW"
      [] NodesOf(all) \intersect o # {} ->
             IF EndpointsOf(all) \intersect x = {} THEN "HIGH" ELSE "CRITICAL"

LabelNow(v) == LabelOf(calls, handled, observed, exposed, named[v])

Rank == [NOT_REACHABLE |-> 0, LOW |-> 1, HIGH |-> 2, CRITICAL |-> 3]

\* A label written by a run over a graph that did not change since the run
\* began never says more than one look at the graph, and says the same when
\* the static query is not cut by its LIMIT.
ExactLabels ==
    \A v \in exact :
        /\ Rank[label[v]] <= Rank[LabelNow(v)]
        /\ Cardinality(AllRows(calls, handled, named[v])) <= RowLimit =>
               label[v] = LabelNow(v)

\* Rows for any name an advisory of the edge has had.
AdvisedRows(v) == AllRows(calls, handled, UNION Advisories[v])

\* Whatever changed while the run looked, a label that claims a static path
\* has one to a function the advisory names or named, and CRITICAL has one
\* from an exposed endpoint.
LabelsGrounded ==
    \A v \in Vulns :
        /\ label[v] \in {"LOW", "HIGH", "CRITICAL"} => AdvisedRows(v) # {}
        /\ label[v] = "CRITICAL" =>
               EndpointsOf(AdvisedRows(v)) \intersect exposed # {}

\* A run that comes to its end over a graph that did not change has labelled
\* every edge of the service.
RunLabelsAll ==
    [][Finish /\ quiet =>
           \A v \in Vulns : label[v] # "none" => v \in exact]_vars
=============================================================================
