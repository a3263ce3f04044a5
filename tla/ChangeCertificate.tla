-------------------------- MODULE ChangeCertificate --------------------------
(***************************************************************************)
(* Layer 6: change impact certificates of one pull request of a service.   *)
(* generate_certificate (certificate_engine.py) asks the graph, query by   *)
(* query, what the change touches, and rates it.  Two entry points run it, *)
(* each certificate in a thread of its own:                                *)
(*   - a webhook delivery (github_webhook.py) opens a check run at GitHub, *)
(*     reads the files of the pull request, and reports on the check run;  *)
(*   - a request to the certificate API (certificate_api.py) stores the    *)
(*     certificate in the graph and answers with it.                       *)
(* Processes die, queries and GitHub fail, and the graph and the pull      *)
(* request change meanwhile.                                               *)
(***************************************************************************)
EXTENDS CallGraph, FiniteSets

CONSTANTS
    Functions,   \* functions of the service, its callers and its libraries
    FilesAt,     \* for each head of the pull request, the functions in its files
    MaxPush,     \* bound: the last head
    CodeCalls,   \* the CALLS relationships the code may come to have
    Handlers,    \* functions an APIEndpoint is HANDLED_BY
    Vulns,       \* HAS_VULN edges of the service
    Kev,         \* those whose vulnerability is in the KEV catalogue
    Epss,        \* epss_score of each, in any unit
    Vulnerable,  \* the functions each one's advisory names
    Depth,       \* hops of the queries: 5
    RowLimit,    \* LIMIT of the vulnerability query: 20
    Graphs,      \* the graphs there may be at first
    MaxChanges,  \* bound: changes of the graph
    MaxSecond,   \* bound: seconds of the clock
    Deliveries,  \* webhook deliveries
    Requests     \* requests to the API

Jobs == Deliveries \union Requests

\* Where a job is in generate_certificate.
Asking == {"resolve", "blast", "fallback", "vulns", "flows"}

\* HAS_VULN.reachability; LOW stands for all that the certificate takes alike.
Labels == {"LOW", "HIGH", "CRITICAL"}

\* Function nodes, CALLS relationships, functions with a RUNTIME_CALLS
\* relationship (from the function to itself), functions that touch a PII field
\* that flows elsewhere, and HAS_VULN.reachability.
Graph == [known : SUBSET Functions, calls : SUBSET CodeCalls,
          running : SUBSET Functions, flows : SUBSET Functions,
          label : [Vulns -> Labels]]

ASSUME FunctionsAssumption ==
    /\ MaxPush \in Nat
    /\ FilesAt \in [0 .. MaxPush -> SUBSET Functions]
    /\ CodeCalls \subseteq Functions \X Functions
    /\ Handlers \subseteq Functions
ASSUME VulnsAssumption ==
    /\ Kev \subseteq Vulns
    /\ Epss \in [Vulns -> Nat]
    /\ Vulnerable \in [Vulns -> SUBSET Functions]
ASSUME GraphsAssumption == Graphs \subseteq Graph
ASSUME JobsAssumption == Deliveries \intersect Requests = {}
ASSUME BoundsAssumption ==
    /\ Depth \in Nat \ {0}
    /\ RowLimit \in Nat \ {0}
    /\ MaxChanges \in Nat
    /\ MaxSecond \in Nat

VARIABLES
    graph,     \* what the other layers wrote
    changes,   \* changes of it, for the bound
    second,    \* the clock, of which a certificate id has the whole seconds
    head,      \* the head commit of the pull request
    check,     \* the check run each delivery made at GitHub, as GitHub has it
    commented, \* deliveries whose comment is on the pull request
    store,     \* Certificate nodes: whose certificate has the id of a second
    pc,        \* where each job is
    idKnown,   \* whether a delivery got the id of its check run
    files,     \* functions in the files the job was given
    ids,       \* function_ids
    callers,   \* caller_ids of the blast radius
    seen,      \* new_critical_vulns: pairs of edge and reachability
    risk,      \* risk_level of the certificate, "none" while there is none
    at,        \* the second in the certificate id
    orphaned,  \* history: deliveries whose check run nobody will complete
    span       \* history: the graphs there were from the first query of a job to
               \* its last

worldVars  == <<graph, changes, second, head>>
githubVars == <<check, commented>>
jobVars    == <<pc, files, ids, callers, seen, risk, at>>
vars == <<worldVars, githubVars, store, jobVars, idKnown, orphaned, span>>

-----------------------------------------------------------------------------
(* What the queries return.                                                *)

\* The rows of the vulnerability query: one for each match of its OPTIONAL
\* MATCH, a path from a changed function to a vulnerable one, and one without
\* a path for an edge that has no match.
VulnRows(g, fs) ==
    UNION {LET paths == {p \in UNION {Trails(g.calls, f, Depth) : f \in fs} :
                            Len(p) > 1 /\ p[Len(p)] \in Vulnerable[v]}
           IN  {[edge |-> v, label |-> g.label[v], path |-> p] :
                   p \in IF paths = {} THEN {<<>>} ELSE paths} :
           v \in {u \in Vulns : g.label[u] \in {"HIGH", "CRITICAL"}}}

SeenIn(rows) == {<<r.edge, r.label>> : r \in rows}

\* ORDER BY epss_score DESC LIMIT RowLimit: rows of one score in any order.
SeenVulns(g, fs) ==
    LET all == VulnRows(g, fs) IN
    IF Cardinality(all) <= RowLimit
    THEN {SeenIn(all)}
    ELSE {SeenIn(r) : r \in {q \in SUBSET all :
             /\ Cardinality(q) = RowLimit
             /\ \A x \in q, y \in all \ q : Epss[x.edge] >= Epss[y.edge]}}

\* What the blast radius follows: CALLS|RUNTIME_CALLS.
AnyCalls(g) == g.calls \union {<<f, f>> : f \in g.running}

\* _determine_risk_level, of the edges seen, whether there are PII flows, and
\* the callers.
RiskOf(vs, pii, cs) ==
    LET critical == {x \in vs : x[2] = "CRITICAL"} IN
    IF \E x \in critical : x[1] \in Kev THEN "CRITICAL"
    ELSE IF critical # {} \/ (pii /\ cs \intersect Handlers # {}) THEN "HIGH"
    ELSE IF vs # {} \/ pii THEN "MEDIUM"
    ELSE IF cs # {} THEN "LOW"
    ELSE "NONE"

Risks == {"CRITICAL", "HIGH", "MEDIUM", "LOW", "NONE"}

\* Mutant: MEDIUM counts as success.
ConclusionLenient(r) ==
    IF r \in {"CRITICAL", "HIGH"} THEN "failure" ELSE "success"

\* risk_to_conclusion.
Conclusion(r) ==
    CASE r \in {"CRITICAL", "HIGH"} -> "failure"
      [] r = "MEDIUM" -> "neutral"
      [] r \in {"LOW", "NONE"} -> "success"

Verdicts == {"failure", "neutral", "success"}

-----------------------------------------------------------------------------
Init ==
    /\ graph \in Graphs
    /\ changes = 0
    /\ second = 0
    /\ head = 0
    /\ check = [d \in Deliveries |-> "none"]
    /\ commented = {}
    /\ store = [s \in 0 .. MaxSecond |-> {}]
    /\ pc = [j \in Jobs |-> "new"]
    /\ idKnown = {}
    /\ files = [j \in Jobs |-> {}]
    /\ ids = [j \in Jobs |-> {}]
    /\ callers = [j \in Jobs |-> {}]
    /\ seen = [j \in Jobs |-> {}]
    /\ risk = [j \in Jobs |-> "none"]
    /\ at = [j \in Jobs |-> 0]
    /\ orphaned = {}
    /\ span = [j \in Jobs |-> {}]

-----------------------------------------------------------------------------
(* The surroundings.                                                       *)

ChangeGraph(g) ==
    /\ changes < MaxChanges
    /\ g # graph
    /\ graph' = g
    /\ changes' = changes + 1
    /\ span' = [j \in Jobs |-> IF pc[j] \in Asking \ {"resolve"}
                               THEN span[j] \union {g} ELSE span[j]]
    /\ UNCHANGED <<second, head, githubVars, store, jobVars, idKnown, orphaned>>

\* The code ingester writes a Function node or a CALLS relationship, and takes
\* none back.
Ingest(f) ==
    ChangeGraph([graph EXCEPT !.known = @ \union {f}])
AddCall(c) ==
    ChangeGraph([graph EXCEPT !.calls = @ \union {c}])

\* The runtime join hears of a function for the first time, or drops it.
SetRunning(f) ==
    \/ ChangeGraph([graph EXCEPT !.running = @ \union {f}])
    \/ ChangeGraph([graph EXCEPT !.running = @ \ {f}])

\* The taint tracker finds a flow out of a field the function touches; the PII
\* detector takes the field for PII no longer.
SetFlow(f) ==
    \/ ChangeGraph([graph EXCEPT !.flows = @ \union {f}])
    \/ ChangeGraph([graph EXCEPT !.flows = @ \ {f}])

\* The reachability engine labels an edge again.
Relabel(v, l) ==
    ChangeGraph([graph EXCEPT !.label[v] = l])

\* Somebody pushes to the branch of the pull request.
Push ==
    /\ head < MaxPush
    /\ head' = head + 1
    /\ UNCHANGED <<graph, changes, second, githubVars, store, jobVars, idKnown,
                   orphaned, span>>

Tick ==
    /\ second < MaxSecond
    /\ second' = second + 1
    /\ UNCHANGED <<graph, changes, head, githubVars, store, jobVars, idKnown,
                   orphaned, span>>

-----------------------------------------------------------------------------
(* The webhook's handler.  It calls GitHub without awaiting, so that the   *)
(* event loop runs one handler at a time.                                  *)

\* A delivery is received and the check run created: GitHub made it and its
\* id arrived, GitHub made it and the answer was lost, or there is none.
Receive(d) ==
    /\ pc[d] = "new"
    /\ \A e \in Deliveries : pc[e] # "fetch"
    /\ pc' = [pc EXCEPT ![d] = "fetch"]
    /\ \/ /\ check' = [check EXCEPT ![d] = "in_progress"]
          /\ idKnown' = idKnown \union {d}
          /\ UNCHANGED orphaned
       \/ /\ check' = [check EXCEPT ![d] = "in_progress"]
          /\ orphaned' = orphaned \union {d}
          /\ UNCHANGED idKnown
       \/ UNCHANGED <<check, idKnown, orphaned>>
    /\ UNCHANGED <<worldVars, commented, store, files, ids, callers, seen,
                   risk, at, span>>

\* Mutant: without files the job is not queued.
FetchOrIgnore(d) ==
    /\ pc[d] = "fetch"
    /\ \/ /\ files' = [files EXCEPT ![d] = FilesAt[head]]
          /\ pc' = [pc EXCEPT ![d] = "resolve"]
       \/ /\ pc' = [pc EXCEPT ![d] = "done"]
          /\ UNCHANGED files
    /\ UNCHANGED <<worldVars, githubVars, store, ids, callers, seen, risk, at,
                   idKnown, orphaned, span>>

\* _get_pr_changed_files: the files of the head there is now, whichever commit
\* the delivery is about; those of the first page, when a hundred do not hold
\* them all; none when GitHub fails.  The job is queued.
Fetch(d) ==
    /\ pc[d] = "fetch"
    /\ pc' = [pc EXCEPT ![d] = "resolve"]
    /\ \E listed \in SUBSET FilesAt[head] :
          files' = [files EXCEPT ![d] = listed]
    /\ UNCHANGED <<worldVars, githubVars, store, ids, callers, seen, risk, at,
                   idKnown, orphaned, span>>

\* POST /certificate/generate, by a client that knows the pull request.
Request(r) ==
    /\ pc[r] = "new"
    /\ pc' = [pc EXCEPT ![r] = "resolve"]
    /\ files' = [files EXCEPT ![r] = FilesAt[head]]
    /\ UNCHANGED <<worldVars, githubVars, store, ids, callers, seen, risk, at,
                   idKnown, orphaned, span>>

-----------------------------------------------------------------------------
(* generate_certificate.                                                   *)

\* The id is made, and step 1 resolves the changed functions.  Without any,
\* step 2 asks nothing.
Resolve(j) ==
    /\ pc[j] = "resolve"
    /\ at' = [at EXCEPT ![j] = second]
    /\ span' = [span EXCEPT ![j] = {graph}]
    /\ LET found == files[j] \intersect graph.known IN
       /\ ids' = [ids EXCEPT ![j] = found]
       /\ pc' = [pc EXCEPT ![j] = IF found = {} THEN "vulns" ELSE "blast"]
    /\ UNCHANGED <<worldVars, githubVars, store, files, callers, seen, risk,
                   idKnown, orphaned>>

\* Mutant: no second query.
AskCallersOnce(j) ==
    /\ pc[j] = "blast"
    /\ callers' = [callers EXCEPT ![j] =
                      CallersWithin(AnyCalls(graph), ids[j], Depth)]
    /\ pc' = [pc EXCEPT ![j] = "vulns"]
    /\ UNCHANGED <<worldVars, githubVars, store, files, ids, seen, risk, at,
                   idKnown, orphaned, span>>

\* Step 2, the query that uses apoc.  It has no row when it finds no caller.
AskCallers(j) ==
    /\ pc[j] = "blast"
    /\ LET found == CallersWithin(AnyCalls(graph), ids[j], Depth) IN
       /\ callers' = [callers EXCEPT ![j] = found]
       /\ pc' = [pc EXCEPT ![j] = IF found = {} THEN "fallback" ELSE "vulns"]
    /\ UNCHANGED <<worldVars, githubVars, store, files, ids, seen, risk, at,
                   idKnown, orphaned, span>>

\* Then a second query, one hop deep, which does not leave out the changed
\* functions: neither those that call another nor those seen running.
AskFallback(j) ==
    /\ pc[j] = "fallback"
    /\ pc' = [pc EXCEPT ![j] = "vulns"]
    /\ callers' = [callers EXCEPT ![j] = CallersOf(AnyCalls(graph), ids[j])]
    /\ UNCHANGED <<worldVars, githubVars, store, files, ids, seen, risk, at,
                   idKnown, orphaned, span>>

\* Step 3, the vulnerability query.
AskVulns(j) ==
    /\ pc[j] = "vulns"
    /\ pc' = [pc EXCEPT ![j] = "flows"]
    /\ \E s \in SeenVulns(graph, ids[j]) : seen' = [seen EXCEPT ![j] = s]
    /\ UNCHANGED <<worldVars, githubVars, store, files, ids, callers, risk, at,
                   idKnown, orphaned, span>>

\* The engine's frame is gone.
Forget(j) ==
    /\ ids' = [ids EXCEPT ![j] = {}]
    /\ callers' = [callers EXCEPT ![j] = {}]
    /\ seen' = [seen EXCEPT ![j] = {}]

\* What the job was given is of no more use.
Close(j) ==
    /\ files' = [files EXCEPT ![j] = {}]
    /\ span' = [span EXCEPT ![j] = {}]

\* Mutant: the risk level is left for later.
AskFlowsUnrated(j) ==
    /\ pc[j] = "flows"
    /\ pc' = [pc EXCEPT ![j] = "report"]
    /\ Forget(j)
    /\ UNCHANGED <<worldVars, githubVars, store, files, risk, at, idKnown,
                   orphaned, span>>

\* Step 3, the PII query, step 4, and what is left when it raises nothing: the
\* narrative, the signature and the metrics.
AskFlows(j) ==
    /\ pc[j] = "flows"
    /\ pc' = [pc EXCEPT ![j] = "report"]
    /\ risk' = [risk EXCEPT ![j] =
                   RiskOf(seen[j], ids[j] \intersect graph.flows # {}, callers[j])]
    /\ Forget(j)
    /\ UNCHANGED <<worldVars, githubVars, store, files, at, idKnown, orphaned,
                   span>>

\* A query fails in all its attempts; or, after the last of them, the prompt of
\* _generate_narrative is to name a vulnerability that has no CVE.  Only the
\* request to the language model falls back: the exception leaves the engine.
Raise(j) ==
    /\ pc[j] \in Asking
    /\ pc' = [pc EXCEPT ![j] = IF j \in Deliveries THEN "failed" ELSE "done"]
    /\ Forget(j) /\ Close(j)
    /\ UNCHANGED <<worldVars, githubVars, store, risk, at, idKnown, orphaned>>

-----------------------------------------------------------------------------
(* The rest of _run_certificate_job.                                       *)

\* PATCH of the check run, if its id is known.  _gh_request logs any error,
\* whether GitHub applied the request or not, and nobody tries again.
Patch(d, conclusion) ==
    \/ /\ d \notin idKnown
       /\ UNCHANGED <<check, orphaned>>
    \/ /\ d \in idKnown
       /\ check' = [check EXCEPT ![d] = conclusion]
       /\ UNCHANGED orphaned
    \/ /\ d \in idKnown
       /\ orphaned' = orphaned \union {d}
       /\ UNCHANGED check

\* _update_check_run.
Update(d) ==
    /\ pc[d] = "report"
    /\ pc' = [pc EXCEPT ![d] = "comment"]
    /\ Patch(d, Conclusion(risk[d]))
    /\ UNCHANGED <<worldVars, commented, store, files, ids, callers, seen, risk,
                   at, idKnown, span>>

\* Mutant: an error of GitHub is raised.
CommentRaises(d) ==
    /\ pc[d] = "comment"
    /\ \/ /\ commented' = commented \union {d}
          /\ pc' = [pc EXCEPT ![d] = "done"]
       \/ /\ pc' = [pc EXCEPT ![d] = "failed"]
          /\ UNCHANGED commented
    /\ Close(d)
    /\ UNCHANGED <<worldVars, check, store, ids, callers, seen, risk, at, idKnown,
                   orphaned>>

\* _post_pr_comment, whose errors are logged too.
Comment(d) ==
    /\ pc[d] = "comment"
    /\ pc' = [pc EXCEPT ![d] = "done"]
    /\ commented' \in {commented, commented \union {d}}
    /\ Close(d)
    /\ UNCHANGED <<worldVars, check, store, ids, callers, seen, risk, at, idKnown,
                   orphaned>>

\* Mutant: the except clause only logs.
ReportFailureSilent(d) ==
    /\ pc[d] = "failed"
    /\ pc' = [pc EXCEPT ![d] = "done"]
    /\ UNCHANGED <<worldVars, githubVars, store, files, ids, callers, seen,
                   risk, at, idKnown, orphaned, span>>

\* The except clause of the job.
ReportFailure(d) ==
    /\ pc[d] = "failed"
    /\ pc' = [pc EXCEPT ![d] = "done"]
    /\ Patch(d, "failure")
    /\ UNCHANGED <<worldVars, commented, store, files, ids, callers, seen, risk,
                   at, idKnown, span>>

\* The webhook's process dies, with its handler and all its jobs.
WebhookCrash ==
    LET lost == {d \in Deliveries : pc[d] \notin {"new", "done", "lost"}} IN
    /\ lost # {}
    /\ pc' = [j \in Jobs |-> IF j \in lost THEN "lost" ELSE pc[j]]
    /\ files' = [j \in Jobs |-> IF j \in lost THEN {} ELSE files[j]]
    /\ ids' = [j \in Jobs |-> IF j \in lost THEN {} ELSE ids[j]]
    /\ callers' = [j \in Jobs |-> IF j \in lost THEN {} ELSE callers[j]]
    /\ seen' = [j \in Jobs |-> IF j \in lost THEN {} ELSE seen[j]]
    /\ span' = [j \in Jobs |-> IF j \in lost THEN {} ELSE span[j]]
    /\ orphaned' = orphaned \union {d \in lost : check[d] = "in_progress"}
    /\ UNCHANGED <<worldVars, githubVars, store, risk, at, idKnown>>

-----------------------------------------------------------------------------
(* The rest of the API's handler.                                          *)

\* _store_certificate merges the node of the id and sets all its properties;
\* the handler answers with the certificate.
Store(r) ==
    /\ pc[r] = "report"
    /\ pc' = [pc EXCEPT ![r] = "answered"]
    /\ store' = [store EXCEPT ![at[r]] = {r}]
    /\ Close(r)
    /\ UNCHANGED <<worldVars, githubVars, ids, callers, seen, risk, at, idKnown,
                   orphaned>>

\* The node is not written, or it is and the handler does not learn of it:
\* error 500.
StoreFails(r) ==
    /\ pc[r] = "report"
    /\ pc' = [pc EXCEPT ![r] = "done"]
    /\ store' \in {store, [store EXCEPT ![at[r]] = {r}]}
    /\ Close(r)
    /\ UNCHANGED <<worldVars, githubVars, ids, callers, seen, risk, at, idKnown,
                   orphaned>>

\* The process of a request dies.
ApiCrash(r) ==
    /\ pc[r] \notin {"new", "done", "answered", "lost"}
    /\ pc' = [pc EXCEPT ![r] = "lost"]
    /\ Forget(r) /\ Close(r)
    /\ UNCHANGED <<worldVars, githubVars, store, risk, at, idKnown, orphaned>>

-----------------------------------------------------------------------------
Surroundings ==
    \/ \E f \in Functions : Ingest(f) \/ SetRunning(f) \/ SetFlow(f)
    \/ \E c \in CodeCalls : AddCall(c)
    \/ \E v \in Vulns, l \in Labels : Relabel(v, l)
    \/ Push
    \/ Tick

Generate(j) ==
    \/ Resolve(j)
    \/ AskCallers(j)
    \/ AskFallback(j)
    \/ AskVulns(j)
    \/ AskFlows(j)
    \/ Raise(j)

Deliver(d) ==
    Fetch(d) \/ Generate(d) \/ Update(d) \/ Comment(d) \/ ReportFailure(d)

Serve(r) == Generate(r) \/ Store(r) \/ StoreFails(r)

Next ==
    \/ Surroundings
    \/ \E d \in Deliveries : Receive(d) \/ Deliver(d)
    \/ WebhookCrash
    \/ \E r \in Requests : Request(r) \/ Serve(r) \/ ApiCrash(r)

Spec == Init /\ [][Next]_vars

\* A handler and a queued job go on: every query and every request to GitHub
\* or the language model ends or times out, and there is a thread for each.
FairSpec == Spec /\ \A d \in Deliveries : WF_vars(Deliver(d))

-----------------------------------------------------------------------------
(* Properties.                                                             *)

JobPcs ==
    {"new", "fetch", "report", "comment", "failed", "answered", "done", "lost"}
        \union Asking

\* Types; and a job reports only with a certificate that is rated.
TypeOK ==
    /\ graph \in Graph
    /\ changes \in 0 .. MaxChanges
    /\ second \in 0 .. MaxSecond
    /\ head \in 0 .. MaxPush
    /\ check \in [Deliveries -> Verdicts \union {"none", "in_progress"}]
    /\ commented \subseteq Deliveries
    /\ store \in [0 .. MaxSecond -> SUBSET Requests]
    /\ pc \in [Jobs -> JobPcs]
    /\ idKnown \subseteq Deliveries
    /\ files \in [Jobs -> SUBSET Functions]
    /\ ids \in [Jobs -> SUBSET Functions]
    /\ callers \in [Jobs -> SUBSET Functions]
    /\ seen \in [Jobs -> SUBSET (Vulns \X {"HIGH", "CRITICAL"})]
    /\ risk \in [Jobs -> Risks \union {"none"}]
    /\ at \in [Jobs -> 0 .. MaxSecond]
    /\ orphaned \subseteq Deliveries
    /\ span \in [Jobs -> SUBSET Graph]
    /\ \A j \in Jobs : pc[j] \in {"report", "comment"} => risk[j] # "none"

\* The callers one look at the graph finds for the functions fs.
BlastOf(g, fs) ==
    LET outside == CallersWithin(AnyCalls(g), fs, Depth) IN
    IF fs = {} THEN {}
    ELSE IF outside # {} THEN outside ELSE CallersOf(AnyCalls(g), fs)

\* The rating one look gives a change of the functions fs, without the LIMIT.
RiskOnLook(g, fs) ==
    LET found == fs \intersect g.known IN
    RiskOf(SeenIn(VulnRows(g, found)), found \intersect g.flows # {},
           BlastOf(g, found))

Level == [NONE |-> 0, LOW |-> 1, MEDIUM |-> 2, HIGH |-> 3, CRITICAL |-> 4]

\* A certificate made from one graph, whatever is pushed meanwhile and whichever
\* files GitHub listed, rates the functions in these files no higher than one
\* look at that graph would, and the same when the vulnerability query is not
\* cut by its LIMIT: five queries of their own add up to one look.
RiskExact ==
    \A j \in Jobs : pc[j] \in {"report", "comment"} =>
        \A g \in span[j] : span[j] = {g} =>
            /\ Level[risk[j]] <= Level[RiskOnLook(g, files[j])]
            /\ Cardinality(VulnRows(g, files[j] \intersect g.known)) <= RowLimit =>
                   risk[j] = RiskOnLook(g, files[j])

\* Nothing to report: in one of the graphs the service has no reachable
\* vulnerability, and each function the graphs all know has no PII flow in one.
Clean(graphs, fs) ==
    /\ \E g \in graphs : \A v \in Vulns : g.label[v] \notin {"HIGH", "CRITICAL"}
    /\ \A f \in fs : (\A g \in graphs : f \in g.known) =>
                       \E g \in graphs : f \notin g.flows

\* A check run is made green only if nothing had to be reported throughout: were
\* a vulnerability of the service reachable, or a flow out of a function in the
\* files there, from the first query of the job to the last, then some query
\* saw it, however the graph changed between them and where the LIMIT cut.
GreenIsEarned ==
    \A d \in Deliveries :
        pc[d] = "comment" /\ check[d] = "success" => Clean(span[d], files[d])

\* A check run that says "in progress" has a job that will complete it, unless
\* its id was lost, its PATCH was lost or the process died.
CheckOwned ==
    \A d \in Deliveries \ orphaned :
        check[d] = "in_progress" =>
            d \in idKnown /\ pc[d] \in {"fetch", "report", "failed"} \union Asking

\* The verdict of a check run is given once: no later failure of the job, in
\* posting its comment for one, turns it around.
VerdictsAreFinal ==
    [][\A d \in Deliveries : check[d] \in Verdicts => check'[d] = check[d]]_vars

\* A check run does not stay in progress while the job behind it lives.
ChecksComplete ==
    \A d \in Deliveries :
        check[d] = "in_progress" ~> check[d] # "in_progress" \/ d \in orphaned
=============================================================================
