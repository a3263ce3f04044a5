----------------------- MODULE ChangeCertificateProofs -----------------------
(***************************************************************************)
(* The safety of change certificates for every service, pull request,      *)
(* graph, LIMIT, and number of deliveries and requests: types, the rating  *)
(* of certificates, green verdicts, and the life of check runs.            *)
(***************************************************************************)
EXTENDS ChangeCertificate, FiniteSetTheorems, WellFoundedInduction, TLAPS

-----------------------------------------------------------------------------
(* The queries.                                                            *)

LEMMA CallerTypes ==
    ASSUME NEW g \in Graph, NEW fs
    PROVE  /\ CallersOf(AnyCalls(g), fs) \subseteq Functions
           /\ CallersWithin(AnyCalls(g), fs, Depth) \subseteq Functions
<1>1. AnyCalls(g) \subseteq Functions \X Functions
  BY FunctionsAssumption DEF Graph, AnyCalls
<1>2. CallersOf(AnyCalls(g), fs) \subseteq Functions
  BY <1>1 DEF CallersOf
<1>3. CallersWithin(AnyCalls(g), fs, Depth) \subseteq {c[1] : c \in AnyCalls(g)}
  BY DEF CallersWithin
<1> QED
  BY <1>1, <1>2, <1>3

LEMMA RowTypes ==
    ASSUME NEW g \in Graph, NEW fs, NEW r \in VulnRows(g, fs)
    PROVE  r.edge \in Vulns /\ r.label \in {"HIGH", "CRITICAL"}
BY DEF VulnRows, Graph

\* The limited query returns edges of the query, none only when there is none,
\* and all of them when its rows are no more than the limit.
LEMMA SeenOfRows ==
    ASSUME NEW g, NEW fs, NEW s \in SeenVulns(g, fs)
    PROVE  /\ s \subseteq SeenIn(VulnRows(g, fs))
           /\ s = {} => VulnRows(g, fs) = {}
           /\ Cardinality(VulnRows(g, fs)) <= RowLimit =>
                  s = SeenIn(VulnRows(g, fs))
<1> DEFINE all == VulnRows(g, fs)
<1>1. CASE Cardinality(all) <= RowLimit
  BY <1>1 DEF SeenVulns, SeenIn
<1>2. CASE ~(Cardinality(all) <= RowLimit)
  <2>1. PICK q \in SUBSET all : Cardinality(q) = RowLimit /\ s = SeenIn(q)
    BY <1>2 DEF SeenVulns
  <2>2. q # {}
    BY <2>1, FS_EmptySet, BoundsAssumption
  <2> QED
    BY <1>2, <2>1, <2>2 DEF SeenIn
<1> QED
  BY <1>1, <1>2

LEMMA SeenTypes ==
    ASSUME NEW g \in Graph, NEW fs, NEW s \in SeenVulns(g, fs)
    PROVE  s \in SUBSET (Vulns \X {"HIGH", "CRITICAL"})
<1>1. s \subseteq SeenIn(VulnRows(g, fs))
  BY SeenOfRows
<1>2. SeenIn(VulnRows(g, fs)) \subseteq Vulns \X {"HIGH", "CRITICAL"}
  BY RowTypes DEF SeenIn
<1> QED
  BY <1>1, <1>2

LEMMA RiskTypes == \A vs, pii, cs : RiskOf(vs, pii, cs) \in Risks
BY DEF RiskOf, Risks

LEMMA ConclusionTypes ==
    ASSUME NEW r \in Risks
    PROVE  /\ Conclusion(r) \in Verdicts
           /\ Conclusion(r) = "success" <=> r \in {"LOW", "NONE"}
BY DEF Risks, Conclusion, Verdicts

-----------------------------------------------------------------------------
(* Type correctness.                                                       *)

LEMMA InitTypeOK == Init => TypeOK
BY GraphsAssumption, FunctionsAssumption, BoundsAssumption
   DEF Init, TypeOK, JobPcs

\* What Forget leaves of the engine's frames.
LEMMA ForgetTypes ==
    ASSUME TypeOK, NEW j \in Jobs, Forget(j)
    PROVE  /\ ids' \in [Jobs -> SUBSET Functions]
           /\ callers' \in [Jobs -> SUBSET Functions]
           /\ seen' \in [Jobs -> SUBSET (Vulns \X {"HIGH", "CRITICAL"})]
BY DEF TypeOK, Forget

LEMMA CloseTypes ==
    ASSUME TypeOK, NEW j \in Jobs, Close(j)
    PROVE  /\ files' \in [Jobs -> SUBSET Functions]
           /\ span' \in [Jobs -> SUBSET Graph]
BY DEF TypeOK, Close

LEMMA NextTypeOK == TypeOK /\ [Next]_vars => TypeOK'
<1> SUFFICES ASSUME TypeOK, [Next]_vars PROVE TypeOK'
  OBVIOUS
<1> USE DEF worldVars, githubVars, jobVars
<1>b. MaxChanges \in Nat /\ MaxSecond \in Nat /\ MaxPush \in Nat
  BY BoundsAssumption, FunctionsAssumption
<1>f. FilesAt[head] \in SUBSET Functions
  BY FunctionsAssumption DEF TypeOK
<1>1. ASSUME NEW g \in Graph, ChangeGraph(g) PROVE TypeOK'
  <2>1. changes' \in 0 .. MaxChanges
    BY <1>1, <1>b DEF ChangeGraph, TypeOK
  <2>2. span' \in [Jobs -> SUBSET Graph]
    BY <1>1 DEF ChangeGraph, TypeOK
  <2> QED
    BY <1>1, <2>1, <2>2 DEF ChangeGraph, TypeOK
<1>2. ASSUME NEW f \in Functions, Ingest(f) \/ SetRunning(f) \/ SetFlow(f)
      PROVE  TypeOK'
  <2>1. /\ [graph EXCEPT !.known = @ \union {f}] \in Graph
        /\ [graph EXCEPT !.running = @ \union {f}] \in Graph
        /\ [graph EXCEPT !.running = @ \ {f}] \in Graph
        /\ [graph EXCEPT !.flows = @ \union {f}] \in Graph
        /\ [graph EXCEPT !.flows = @ \ {f}] \in Graph
    BY DEF TypeOK, Graph
  <2> QED
    BY <1>1, <1>2, <2>1 DEF Ingest, SetRunning, SetFlow
<1>3. ASSUME NEW c \in CodeCalls, AddCall(c) PROVE TypeOK'
  <2>1. [graph EXCEPT !.calls = @ \union {c}] \in Graph
    BY DEF TypeOK, Graph
  <2> QED
    BY <1>1, <1>3, <2>1 DEF AddCall
<1>4. ASSUME NEW v \in Vulns, NEW l \in Labels, Relabel(v, l) PROVE TypeOK'
  <2>1. [graph EXCEPT !.label[v] = l] \in Graph
    BY DEF TypeOK, Graph
  <2> QED
    BY <1>1, <1>4, <2>1 DEF Relabel
<1>5. CASE Push
  <2>1. head' \in 0 .. MaxPush
    BY <1>5, <1>b DEF Push, TypeOK
  <2> QED
    BY <1>5, <2>1 DEF Push, TypeOK
<1>6. CASE Tick
  <2>1. second' \in 0 .. MaxSecond
    BY <1>6, <1>b DEF Tick, TypeOK
  <2> QED
    BY <1>6, <2>1 DEF Tick, TypeOK
<1>7. ASSUME NEW d \in Deliveries, Receive(d) PROVE TypeOK'
  BY <1>7 DEF Receive, TypeOK, Jobs, JobPcs
<1>8. ASSUME NEW d \in Deliveries, Fetch(d) PROVE TypeOK'
  <2>1. PICK listed \in SUBSET FilesAt[head] :
            files' = [files EXCEPT ![d] = listed]
    BY <1>8 DEF Fetch
  <2>2. files' \in [Jobs -> SUBSET Functions]
    BY <2>1, <1>f DEF TypeOK
  <2> QED
    BY <1>8, <2>2 DEF Fetch, TypeOK, Jobs, JobPcs, Asking
<1>9. ASSUME NEW r \in Requests, Request(r) PROVE TypeOK'
  BY <1>9, <1>f DEF Request, TypeOK, Jobs, JobPcs, Asking
<1>10. ASSUME NEW j \in Jobs, Resolve(j) PROVE TypeOK'
  BY <1>10 DEF Resolve, TypeOK, JobPcs, Asking
<1>11. ASSUME NEW j \in Jobs, AskCallers(j) PROVE TypeOK'
  <2>1. CallersWithin(AnyCalls(graph), ids[j], Depth) \subseteq Functions
    BY CallerTypes DEF TypeOK
  <2>2. /\ callers' \in [Jobs -> SUBSET Functions]
        /\ pc' = [pc EXCEPT ![j] = "fallback"] \/ pc' = [pc EXCEPT ![j] = "vulns"]
    BY <1>11, <2>1 DEF AskCallers, TypeOK
  <2> QED
    BY <1>11, <2>2 DEF AskCallers, TypeOK, JobPcs, Asking
<1>12. ASSUME NEW j \in Jobs, AskFallback(j) PROVE TypeOK'
  <2>1. CallersOf(AnyCalls(graph), ids[j]) \subseteq Functions
    BY CallerTypes DEF TypeOK
  <2> QED
    BY <1>12, <2>1 DEF AskFallback, TypeOK, JobPcs, Asking
<1>13. ASSUME NEW j \in Jobs, AskVulns(j) PROVE TypeOK'
  <2>1. PICK s \in SeenVulns(graph, ids[j]) : seen' = [seen EXCEPT ![j] = s]
    BY <1>13 DEF AskVulns
  <2>2. s \in SUBSET (Vulns \X {"HIGH", "CRITICAL"})
    BY SeenTypes DEF TypeOK
  <2> QED
    BY <1>13, <2>1, <2>2 DEF AskVulns, TypeOK, JobPcs, Asking
<1>14. ASSUME NEW j \in Jobs, AskFlows(j) PROVE TypeOK'
  <2>1. RiskOf(seen[j], ids[j] \intersect graph.flows # {}, callers[j]) \in Risks
    BY RiskTypes
  <2>2. risk' \in [Jobs -> Risks \union {"none"}] /\ risk'[j] # "none"
    BY <1>14, <2>1 DEF AskFlows, TypeOK, Risks
  <2>3. \A i \in Jobs : pc'[i] \in {"report", "comment"} => risk'[i] # "none"
    BY <1>14, <2>2 DEF AskFlows, TypeOK
  <2> QED
    BY <1>14, <2>2, <2>3, ForgetTypes DEF AskFlows, TypeOK, JobPcs, Asking
<1>15. ASSUME NEW j \in Jobs, Raise(j) PROVE TypeOK'
  BY <1>15, ForgetTypes, CloseTypes DEF Raise, TypeOK, JobPcs
<1>16. ASSUME NEW d \in Deliveries, Update(d) PROVE TypeOK'
  <2>1. risk[d] \in Risks /\ Conclusion(risk[d]) \in Verdicts
    BY <1>16, ConclusionTypes DEF Update, TypeOK, Jobs
  <2> QED
    BY <1>16, <2>1 DEF Update, Patch, TypeOK, Jobs, JobPcs
<1>17. ASSUME NEW d \in Deliveries, Comment(d) PROVE TypeOK'
  BY <1>17, CloseTypes DEF Comment, TypeOK, Jobs, JobPcs
<1>18. ASSUME NEW d \in Deliveries, ReportFailure(d) PROVE TypeOK'
  BY <1>18 DEF ReportFailure, Patch, TypeOK, Jobs, JobPcs, Verdicts
<1>19. CASE WebhookCrash
  BY <1>19 DEF WebhookCrash, TypeOK, Jobs, JobPcs
<1>20. ASSUME NEW r \in Requests, Store(r) \/ StoreFails(r) PROVE TypeOK'
  <2>1. r \in Jobs /\ [store EXCEPT ![at[r]] = {r}] \in [0 .. MaxSecond -> SUBSET Requests]
    BY DEF TypeOK, Jobs
  <2>2. store' \in [0 .. MaxSecond -> SUBSET Requests]
    BY <1>20, <2>1 DEF Store, StoreFails, TypeOK
  <2>3. CASE Store(r)
    BY <2>1, <2>2, <2>3, CloseTypes DEF Store, TypeOK, JobPcs
  <2>4. CASE StoreFails(r)
    BY <2>1, <2>2, <2>4, CloseTypes DEF StoreFails, TypeOK, JobPcs
  <2> QED
    BY <1>20, <2>3, <2>4
<1>21. ASSUME NEW r \in Requests, ApiCrash(r) PROVE TypeOK'
  <2>1. r \in Jobs
    BY DEF Jobs
  <2> QED
    BY <1>21, <2>1, ForgetTypes, CloseTypes DEF ApiCrash, TypeOK, JobPcs
<1>22. CASE UNCHANGED vars
  BY <1>22, SMTT(30) DEF vars, TypeOK
<1>23. ASSUME NEW j \in Jobs, Generate(j) PROVE TypeOK'
  BY <1>10, <1>11, <1>12, <1>13, <1>14, <1>15, <1>23 DEF Generate
<1>24. CASE Surroundings
  BY <1>2, <1>3, <1>4, <1>5, <1>6, <1>24 DEF Surroundings
<1>25. ASSUME NEW d \in Deliveries, Receive(d) \/ Deliver(d) PROVE TypeOK'
  BY <1>7, <1>8, <1>16, <1>17, <1>18, <1>23, <1>25 DEF Deliver, Jobs
<1>26. ASSUME NEW r \in Requests, Request(r) \/ Serve(r) \/ ApiCrash(r)
       PROVE  TypeOK'
  BY <1>9, <1>20, <1>21, <1>23, <1>26 DEF Serve, Jobs
<1> QED
  BY <1>19, <1>22, <1>24, <1>25, <1>26 DEF Next

\* No job reports a certificate that was not rated.
THEOREM TypeCorrect == Spec => []TypeOK
BY InitTypeOK, NextTypeOK, PTL DEF Spec

-----------------------------------------------------------------------------
(* Check runs.                                                             *)

AtWork == {"fetch", "report", "failed"} \union Asking

\* What a job's place says about its check run: until it reports, the check
\* run whose id it has is in progress; the verdict comes from nowhere else.
CheckInv ==
    \A d \in Deliveries :
        /\ pc[d] = "new" => check[d] = "none" /\ d \notin idKnown
        /\ d \in idKnown /\ pc[d] \in AtWork => check[d] = "in_progress"
        /\ check[d] = "in_progress" /\ d \notin orphaned =>
               d \in idKnown /\ pc[d] \in AtWork
        /\ check[d] \in Verdicts => d \in idKnown /\ pc[d] \notin AtWork

LEMMA InitCheckInv == Init => CheckInv
BY DEF Init, CheckInv, AtWork, Asking, Verdicts, Jobs

\* The steps of the engine keep a delivery at work and its check run as it is.
LEMMA GenerateChecks ==
    ASSUME TypeOK, NEW j \in Jobs, Generate(j)
    PROVE  /\ UNCHANGED <<check, idKnown, orphaned>>
           /\ \A d \in Deliveries :
                  \/ pc'[d] = pc[d]
                  \/ pc[d] \in AtWork /\ pc'[d] \in AtWork
<1> USE DEF worldVars, githubVars, jobVars, TypeOK, Jobs, AtWork, Asking
<1>1. CASE Resolve(j)
  BY <1>1 DEF Resolve
<1>2. CASE AskCallers(j)
  <2>1. /\ pc[j] = "blast" /\ UNCHANGED <<check, idKnown, orphaned>>
        /\ pc' = [pc EXCEPT ![j] = "fallback"] \/ pc' = [pc EXCEPT ![j] = "vulns"]
    BY <1>2 DEF AskCallers
  <2> QED
    BY <2>1
<1>3. CASE AskFallback(j) \/ AskVulns(j) \/ AskFlows(j)
  BY <1>3 DEF AskFallback, AskVulns, AskFlows
<1>4. CASE Raise(j)
  BY <1>4 DEF Raise
<1> QED
  BY <1>1, <1>2, <1>3, <1>4 DEF Generate

\* A step that keeps check runs and places as they are keeps the invariant.
LEMMA KeepsCheckInv ==
    ASSUME CheckInv, UNCHANGED <<check, idKnown, orphaned>>,
           \A d \in Deliveries : \/ pc'[d] = pc[d]
                                 \/ pc[d] \in AtWork /\ pc'[d] \in AtWork
    PROVE  CheckInv'
<1>1. "new" \notin AtWork
  BY DEF AtWork, Asking
<1> QED
  BY <1>1 DEF CheckInv

LEMMA NextCheckInv == TypeOK /\ CheckInv /\ [Next]_vars => CheckInv'
<1> SUFFICES ASSUME TypeOK, CheckInv, [Next]_vars PROVE CheckInv'
  OBVIOUS
<1> USE DEF worldVars, githubVars, jobVars
<1>1. CASE Surroundings
  BY <1>1, KeepsCheckInv
     DEF Surroundings, Ingest, AddCall, SetRunning, SetFlow, Relabel, ChangeGraph, Push, Tick
<1>2. ASSUME NEW d \in Deliveries, Receive(d) PROVE CheckInv'
  BY <1>2 DEF Receive, CheckInv, TypeOK, Jobs, AtWork, Asking, Verdicts
<1>3. ASSUME NEW d \in Deliveries, Fetch(d) PROVE CheckInv'
  BY <1>3 DEF Fetch, CheckInv, TypeOK, Jobs, AtWork, Asking
<1>4. ASSUME NEW j \in Jobs, Generate(j) PROVE CheckInv'
  BY <1>4, GenerateChecks, KeepsCheckInv
<1>5. ASSUME NEW d \in Deliveries, Update(d) PROVE CheckInv'
  <2>1. Conclusion(risk[d]) \in Verdicts
    BY <1>5, ConclusionTypes DEF Update, TypeOK, Jobs
  <2> QED
    BY <1>5, <2>1
       DEF Update, Patch, CheckInv, TypeOK, Jobs, AtWork, Asking, Verdicts
<1>6. ASSUME NEW d \in Deliveries, Comment(d) PROVE CheckInv'
  BY <1>6 DEF Comment, CheckInv, TypeOK, Jobs, AtWork, Asking
<1>7. ASSUME NEW d \in Deliveries, ReportFailure(d) PROVE CheckInv'
  BY <1>7 DEF ReportFailure, Patch, CheckInv, TypeOK, Jobs, AtWork, Asking, Verdicts
<1>8. CASE WebhookCrash
  BY <1>8 DEF WebhookCrash, CheckInv, TypeOK, Jobs, AtWork, Asking, Verdicts
<1>9. ASSUME NEW r \in Requests,
             Request(r) \/ Store(r) \/ StoreFails(r) \/ ApiCrash(r)
      PROVE  CheckInv'
  <2>1. UNCHANGED <<check, idKnown, orphaned>>
    BY <1>9 DEF Request, Store, StoreFails, ApiCrash
  <2>2. \A d \in Deliveries : d # r
    BY JobsAssumption
  <2>3. \A d \in Deliveries : pc'[d] = pc[d]
    BY <1>9, <2>2 DEF Request, Store, StoreFails, ApiCrash, TypeOK, Jobs
  <2> QED
    BY <2>1, <2>3, KeepsCheckInv
<1>10. CASE UNCHANGED vars
  BY <1>10, KeepsCheckInv DEF vars
<1> QED
  BY <1>1, <1>2, <1>3, <1>4, <1>5, <1>6, <1>7, <1>8, <1>9, <1>10
     DEF Next, Deliver, Serve, Jobs

\* A check run in progress has a job that will complete it, unless the model
\* knows why not: lost id, lost PATCH, or dead process.
THEOREM ChecksAreOwned == Spec => []CheckOwned
<1>1. CheckInv => CheckOwned
  BY DEF CheckInv, CheckOwned, AtWork
<1> QED
  BY TypeCorrect, InitCheckInv, NextCheckInv, <1>1, PTL DEF Spec

LEMMA VerdictStays ==
    TypeOK /\ CheckInv /\ [Next]_vars =>
        [\A d \in Deliveries : check[d] \in Verdicts => check'[d] = check[d]]_vars
<1> SUFFICES ASSUME TypeOK, CheckInv, Next, NEW d \in Deliveries,
                    check[d] \in Verdicts
             PROVE  check'[d] = check[d]
  OBVIOUS
<1> USE DEF worldVars, githubVars, jobVars
<1>v. check[d] # "none" /\ check[d] # "in_progress"
  BY DEF Verdicts
<1>1. CASE Surroundings
  BY <1>1
     DEF Surroundings, Ingest, AddCall, SetRunning, SetFlow, Relabel, ChangeGraph, Push, Tick
<1>2. ASSUME NEW e \in Deliveries, Receive(e) PROVE check'[d] = check[d]
  BY <1>2, <1>v DEF Receive, CheckInv, TypeOK
<1>3. ASSUME NEW e \in Deliveries, Update(e) \/ ReportFailure(e)
      PROVE  check'[d] = check[d]
  BY <1>3, <1>v DEF Update, ReportFailure, Patch, CheckInv, TypeOK, AtWork
<1>4. ASSUME NEW j \in Jobs, Generate(j) PROVE check'[d] = check[d]
  BY <1>4, GenerateChecks
<1>5. ASSUME NEW e \in Deliveries, Fetch(e) \/ Comment(e)
      PROVE  check'[d] = check[d]
  BY <1>5 DEF Fetch, Comment
<1>6. CASE WebhookCrash
  BY <1>6 DEF WebhookCrash
<1>7. ASSUME NEW r \in Requests,
             Request(r) \/ Store(r) \/ StoreFails(r) \/ ApiCrash(r)
      PROVE  check'[d] = check[d]
  BY <1>7 DEF Request, Store, StoreFails, ApiCrash
<1> QED
  BY <1>1, <1>2, <1>3, <1>4, <1>5, <1>6, <1>7 DEF Next, Deliver, Serve, Jobs

\* No step of any job or crash takes a verdict back.
THEOREM VerdictsStay == Spec => VerdictsAreFinal
BY TypeCorrect, InitCheckInv, NextCheckInv, VerdictStays, PTL
   DEF Spec, VerdictsAreFinal

-----------------------------------------------------------------------------
(* The rating.                                                             *)

\* A limited query rates no higher than the whole one, and by nothing it did
\* not see; a low rating means that there was nothing to see.
LEMMA RatingOfSome ==
    ASSUME NEW some, NEW all, NEW pii \in BOOLEAN, NEW cs,
           some \subseteq all, some = {} => all = {}
    PROVE  /\ Level[RiskOf(some, pii, cs)] <= Level[RiskOf(all, pii, cs)]
           /\ RiskOf(some, pii, cs) \in {"LOW", "NONE"} => all = {} /\ ~pii
<1> DEFINE critical(vs) == {x \in vs : x[2] = "CRITICAL"}
           kev(vs) == \E x \in critical(vs) : x[1] \in Kev
           exposed == pii /\ cs \intersect Handlers # {}
<1>1. /\ kev(some) => kev(all)
      /\ critical(some) # {} => critical(all) # {}
      /\ critical(some) # {} => some # {}
  OBVIOUS
<1>2. ASSUME NEW vs
      PROVE  /\ kev(vs) => RiskOf(vs, pii, cs) = "CRITICAL"
             /\ ~kev(vs) /\ (critical(vs) # {} \/ exposed)
                    => RiskOf(vs, pii, cs) = "HIGH"
             /\ ~kev(vs) /\ critical(vs) = {} /\ ~exposed /\ (vs # {} \/ pii)
                    => RiskOf(vs, pii, cs) = "MEDIUM"
             /\ ~kev(vs) /\ critical(vs) = {} /\ ~exposed /\ vs = {} /\ ~pii
                    => RiskOf(vs, pii, cs) = IF cs # {} THEN "LOW" ELSE "NONE"
  BY Zenon DEF RiskOf
<1>3. /\ Level["NONE"] = 0 /\ Level["LOW"] = 1 /\ Level["MEDIUM"] = 2
      /\ Level["HIGH"] = 3 /\ Level["CRITICAL"] = 4
  BY DEF Level
<1> HIDE DEF critical, kev, exposed
<1>4. kev(some) => critical(some) # {}
  BY DEF kev
<1>5. exposed => pii
  BY DEF exposed
<1> QED
  BY <1>1, <1>2, <1>3, <1>4, <1>5

\* No row of the query means no edge that deserves one.
LEMMA NoRows ==
    ASSUME NEW g, NEW fs, VulnRows(g, fs) = {}, NEW v \in Vulns
    PROVE  g.label[v] \notin {"HIGH", "CRITICAL"}
<1> DEFINE paths(u) == {p \in UNION {Trails(g.calls, f, Depth) : f \in fs} :
                           Len(p) > 1 /\ p[Len(p)] \in Vulnerable[u]}
           rows(u) == {[edge |-> u, label |-> g.label[u], path |-> p] :
                          p \in IF paths(u) = {} THEN {<<>>} ELSE paths(u)}
<1> SUFFICES ASSUME g.label[v] \in {"HIGH", "CRITICAL"} PROVE FALSE
  OBVIOUS
<1>1. VulnRows(g, fs) =
        UNION {rows(u) : u \in {w \in Vulns : g.label[w] \in {"HIGH", "CRITICAL"}}}
  BY DEF VulnRows
<1>2. rows(v) # {}
  OBVIOUS
<1> HIDE DEF rows
<1> QED
  BY <1>1, <1>2

\* What a rating says of a graph and the functions in the files of a change.
Right(g, fs, r) ==
    /\ Level[r] <= Level[RiskOnLook(g, fs)]
    /\ Cardinality(VulnRows(g, fs \intersect g.known)) <= RowLimit =>
           r = RiskOnLook(g, fs)

\* The queries of one graph, put together.
LEMMA RatingIsRight ==
    ASSUME NEW g, NEW fs, NEW found, found = fs \intersect g.known,
           NEW s \in SeenVulns(g, found), NEW cs, cs = BlastOf(g, found)
    PROVE  Right(g, fs, RiskOf(s, found \intersect g.flows # {}, cs))
<1> DEFINE rows == VulnRows(g, found)
           pii == found \intersect g.flows # {}
<1>1. /\ s \subseteq SeenIn(rows)
      /\ s = {} => rows = {}
      /\ Cardinality(rows) <= RowLimit => s = SeenIn(rows)
  BY SeenOfRows
<1>2. SeenIn(rows) = {} <=> rows = {}
  BY DEF SeenIn
<1>3. pii \in BOOLEAN
  OBVIOUS
<1>4. RiskOnLook(g, fs) = RiskOf(SeenIn(rows), pii, cs)
  BY DEF RiskOnLook
<1> HIDE DEF rows, pii
<1>5. Level[RiskOf(s, pii, cs)] <= Level[RiskOf(SeenIn(rows), pii, cs)]
  BY <1>1, <1>2, <1>3, RatingOfSome
<1>6. Cardinality(rows) <= RowLimit => RiskOf(s, pii, cs) = RiskOnLook(g, fs)
  BY <1>1, <1>4
<1>7. Right(g, fs, RiskOf(s, pii, cs))
  BY <1>4, <1>5, <1>6 DEF Right, rows
<1> QED
  BY <1>7 DEF pii

\* Between two queries of a job, while the graph is the one it began with: what
\* it holds is what its queries would say now.
Holds(j) ==
    /\ ids[j] = files[j] \intersect graph.known
    /\ pc[j] \in {"blast", "fallback"} => ids[j] # {}
    /\ pc[j] = "fallback" => CallersWithin(AnyCalls(graph), ids[j], Depth) = {}
    /\ pc[j] \in {"vulns", "flows"} => callers[j] = BlastOf(graph, ids[j])
    /\ pc[j] = "flows" => seen[j] \in SeenVulns(graph, ids[j])

NoneReachable(g) == \A v \in Vulns : g.label[v] \notin {"HIGH", "CRITICAL"}

\* However the graph changes: the functions it knows throughout are resolved, and
\* no vulnerability has been seen only if there was none in one of the graphs.
Covers(j) ==
    /\ \A f \in files[j] : (\A g \in span[j] : f \in g.known) => f \in ids[j]
    /\ pc[j] = "flows" /\ seen[j] = {} => \E g \in span[j] : NoneReachable(g)

\* What the certificate of a job says when it is reported.
RatedSound(j) ==
    /\ \A g \in span[j] : span[j] = {g} => Right(g, files[j], risk[j])
    /\ risk[j] \in {"LOW", "NONE"} => Clean(span[j], files[j])

Unrated == {"new", "fetch"} \union Asking
Callerless == {"new", "fetch", "resolve", "blast"}
Looking == Asking \ {"resolve"}
Rated == {"report", "comment"}

JobInv(j) ==
    /\ pc[j] \in Unrated => risk[j] = "none"
    /\ pc[j] \in Callerless => callers[j] = {}
    /\ pc[j] \in Looking => graph \in span[j] /\ Covers(j)
    /\ pc[j] \in Looking /\ span[j] = {graph} => Holds(j)
    /\ pc[j] \in Rated => RatedSound(j)

RatingInv == \A j \in Jobs : JobInv(j)

LEMMA InitRatingInv == Init => RatingInv
BY DEF Init, RatingInv, JobInv, Unrated, Callerless, Looking, Rated, Asking

\* A step that leaves a job's frame alone keeps what is said of it, when the
\* graphs the job has seen go with the graph.
LEMMA KeepsJobInv ==
    ASSUME NEW j, JobInv(j),
           UNCHANGED <<pc[j], files[j], ids[j], callers[j], seen[j], risk[j]>>,
           \/ UNCHANGED <<graph, span[j]>>
           \/ span'[j] = IF pc[j] \in Looking THEN span[j] \union {graph'}
                                              ELSE span[j]
    PROVE  JobInv(j)'
<1>1. span[j] \subseteq span'[j]
  OBVIOUS
<1>2. CASE pc[j] \in Looking
  <2>1. pc[j] \notin Rated
    BY <1>2 DEF Looking, Rated, Asking
  <2>2. graph' \in span'[j] /\ graph \in span[j]
    BY <1>2 DEF JobInv
  <2>3. Covers(j)'
    <3>1. Covers(j)
      BY <1>2 DEF JobInv
    <3> QED
      BY <1>1, <3>1 DEF Covers, NoneReachable
  <2>4. span'[j] = {graph'} => graph' = graph /\ span[j] = {graph}
    BY <1>1, <2>2
  <2>5. span'[j] = {graph'} => Holds(j)'
    BY <1>2, <2>4 DEF JobInv, Holds
  <2> QED
    BY <2>1, <2>2, <2>3, <2>5 DEF JobInv
<1>3. CASE pc[j] \notin Looking
  <2>1. span'[j] = span[j]
    BY <1>3
  <2> QED
    BY <1>3, <2>1 DEF JobInv, RatedSound
<1> QED
  BY <1>2, <1>3

\* Nothing is said of a job that has ended or failed.
LEMMA EndedJobInv ==
    ASSUME NEW j, pc'[j] \in {"failed", "answered", "done", "lost"}
    PROVE  JobInv(j)'
BY DEF JobInv, Unrated, Callerless, Looking, Rated, Asking

\* The step to the last query: what the whole rating rests on.
LEMMA FlowsRated ==
    ASSUME TypeOK, NEW j \in Jobs, JobInv(j), AskFlows(j)
    PROVE  RatedSound(j)'
<1> USE DEF worldVars, githubVars, jobVars
<1> DEFINE pii == ids[j] \intersect graph.flows # {}
<1>1. /\ pc[j] = "flows" /\ graph \in span[j] /\ Covers(j)
      /\ span[j] = {graph} => Holds(j)
  BY DEF AskFlows, JobInv, Looking, Asking
<1>2. /\ risk'[j] = RiskOf(seen[j], pii, callers[j])
      /\ UNCHANGED <<span, files>>
  BY DEF AskFlows, TypeOK
<1>3. ASSUME NEW g \in span[j], span[j] = {g}
      PROVE  Right(g, files[j], risk'[j])
  <2>1. g = graph /\ Holds(j)
    BY <1>1, <1>3
  <2>2. /\ ids[j] = files[j] \intersect graph.known
        /\ callers[j] = BlastOf(graph, ids[j])
        /\ seen[j] \in SeenVulns(graph, ids[j])
    BY <1>1, <2>1 DEF Holds
  <2>3. Right(graph, files[j], RiskOf(seen[j], ids[j] \intersect graph.flows # {},
                                      callers[j]))
    BY <2>2, RatingIsRight
  <2> QED
    BY <1>2, <2>1, <2>3
<1>4. ASSUME risk'[j] \in {"LOW", "NONE"} PROVE Clean(span[j], files[j])
  <2>1. pii \in BOOLEAN
    OBVIOUS
  <2>2. seen[j] = {} /\ ~pii
    BY <1>2, <1>4, <2>1, RatingOfSome
  <2>3. \E g \in span[j] : NoneReachable(g)
    BY <1>1, <2>2 DEF Covers
  <2>4. ASSUME NEW f \in files[j], \A g \in span[j] : f \in g.known
        PROVE  f \notin graph.flows
    BY <1>1, <2>2, <2>4 DEF Covers
  <2> QED
    BY <1>1, <2>3, <2>4 DEF Clean, NoneReachable
<1> QED
  BY <1>2, <1>3, <1>4 DEF RatedSound

LEMMA GenerateRating ==
    ASSUME TypeOK, RatingInv, NEW j \in Jobs, Generate(j)
    PROVE  JobInv(j)'
<1> USE DEF worldVars, githubVars, jobVars
<1>j. JobInv(j) /\ UNCHANGED graph
  BY DEF RatingInv, Generate, Resolve, AskCallers, AskFallback, AskVulns,
         AskFlows, Raise
<1>1. CASE Resolve(j)
  <2>1. /\ pc[j] = "resolve"
        /\ ids'[j] = files[j] \intersect graph.known
        /\ span'[j] = {graph}
        /\ pc'[j] = IF ids'[j] = {} THEN "vulns" ELSE "blast"
        /\ UNCHANGED <<files, callers, seen, risk>>
    BY <1>1 DEF Resolve, TypeOK
  <2>2. callers[j] = {} /\ risk[j] = "none"
    BY <1>j, <2>1 DEF JobInv, Callerless, Unrated, Asking
  <2>3. BlastOf(graph, {}) = {}
    BY DEF BlastOf
  <2>4. Covers(j)' /\ Holds(j)'
    BY <1>j, <2>1, <2>2, <2>3 DEF Covers, Holds
  <2> QED
    BY <1>j, <2>1, <2>2, <2>4 DEF JobInv, Looking, Rated, Asking
<1>2. CASE AskCallers(j)
  <2>1. /\ pc[j] = "blast"
        /\ callers'[j] = CallersWithin(AnyCalls(graph), ids[j], Depth)
        /\ pc'[j] = IF callers'[j] = {} THEN "fallback" ELSE "vulns"
        /\ UNCHANGED <<files, ids, seen, risk, span>>
    BY <1>2 DEF AskCallers, TypeOK
  <2>2. risk[j] = "none" /\ graph \in span[j] /\ Covers(j)
    BY <1>j, <2>1 DEF JobInv, Unrated, Looking, Asking
  <2>3. Covers(j)'
    BY <2>1, <2>2 DEF Covers
  <2>4. ASSUME span[j] = {graph} PROVE Holds(j)'
    <3>1. ids[j] = files[j] \intersect graph.known /\ ids[j] # {}
      BY <1>j, <2>1, <2>4 DEF JobInv, Holds, Looking, Asking
    <3>2. callers'[j] # {} => callers'[j] = BlastOf(graph, ids[j])
      BY <2>1, <3>1 DEF BlastOf
    <3> QED
      BY <1>j, <2>1, <3>1, <3>2 DEF Holds
  <2> QED
    BY <1>j, <2>1, <2>2, <2>3, <2>4 DEF JobInv, Callerless, Rated
<1>3. CASE AskFallback(j)
  <2>1. /\ pc[j] = "fallback" /\ pc'[j] = "vulns"
        /\ callers'[j] = CallersOf(AnyCalls(graph), ids[j])
        /\ UNCHANGED <<files, ids, seen, risk, span>>
    BY <1>3 DEF AskFallback, TypeOK
  <2>2. risk[j] = "none" /\ graph \in span[j] /\ Covers(j)
    BY <1>j, <2>1 DEF JobInv, Unrated, Looking, Asking
  <2>3. Covers(j)'
    BY <2>1, <2>2 DEF Covers
  <2>4. ASSUME span[j] = {graph} PROVE Holds(j)'
    <3>1. /\ ids[j] = files[j] \intersect graph.known
          /\ callers'[j] = BlastOf(graph, ids[j])
      BY <1>j, <2>1, <2>4 DEF JobInv, Holds, Looking, Asking, BlastOf
    <3> QED
      BY <1>j, <2>1, <3>1 DEF Holds
  <2> QED
    BY <1>j, <2>1, <2>2, <2>3, <2>4 DEF JobInv, Callerless, Rated
<1>4. CASE AskVulns(j)
  <2>1. /\ pc[j] = "vulns" /\ pc'[j] = "flows"
        /\ seen'[j] \in SeenVulns(graph, ids[j])
        /\ UNCHANGED <<files, ids, callers, risk, span>>
    BY <1>4 DEF AskVulns, TypeOK
  <2>2. risk[j] = "none" /\ graph \in span[j] /\ Covers(j)
    BY <1>j, <2>1 DEF JobInv, Unrated, Looking, Asking
  <2>3. Covers(j)'
    <3>1. seen'[j] = {} => NoneReachable(graph)
      BY <2>1, SeenOfRows, NoRows DEF NoneReachable
    <3> QED
      BY <2>1, <2>2, <3>1 DEF Covers, NoneReachable
  <2>4. ASSUME span[j] = {graph} PROVE Holds(j)'
    <3>1. /\ ids[j] = files[j] \intersect graph.known
          /\ callers[j] = BlastOf(graph, ids[j])
      BY <1>j, <2>1, <2>4 DEF JobInv, Holds, Looking, Asking
    <3> QED
      BY <1>j, <2>1, <3>1 DEF Holds
  <2> QED
    BY <1>j, <2>1, <2>2, <2>3, <2>4 DEF JobInv, Callerless, Rated
<1>5. CASE AskFlows(j)
  <2>1. pc'[j] = "report"
    BY <1>5 DEF AskFlows, TypeOK
  <2> QED
    BY <1>j, <1>5, <2>1, FlowsRated
       DEF JobInv, Unrated, Callerless, Looking, Asking
<1>6. CASE Raise(j)
  BY <1>6, EndedJobInv DEF Raise, TypeOK
<1> QED
  BY <1>1, <1>2, <1>3, <1>4, <1>5, <1>6 DEF Generate

\* The engine's steps touch the frame of one job only.
LEMMA GenerateAlone ==
    ASSUME TypeOK, NEW j \in Jobs, Generate(j), NEW i \in Jobs, i # j
    PROVE  UNCHANGED <<pc[i], files[i], ids[i], callers[i], seen[i], risk[i],
                       span[i], graph>>
<1> USE DEF worldVars, githubVars, jobVars, TypeOK
<1>1. CASE Resolve(j)
  BY <1>1 DEF Resolve
<1>2. CASE AskCallers(j)
  BY <1>2 DEF AskCallers
<1>3. CASE AskFallback(j)
  BY <1>3 DEF AskFallback
<1>4. CASE AskVulns(j)
  BY <1>4 DEF AskVulns
<1>5. CASE AskFlows(j)
  BY <1>5 DEF AskFlows, Forget
<1>6. CASE Raise(j)
  BY <1>6 DEF Raise, Forget, Close
<1> QED
  BY <1>1, <1>2, <1>3, <1>4, <1>5, <1>6 DEF Generate

LEMMA NextRatingInv == TypeOK /\ RatingInv /\ [Next]_vars => RatingInv'
<1> SUFFICES ASSUME TypeOK, RatingInv, [Next]_vars, NEW j \in Jobs PROVE JobInv(j)'
  BY DEF RatingInv
<1> USE DEF worldVars, githubVars, jobVars
<1>j. JobInv(j)
  BY DEF RatingInv
<1>1. CASE Surroundings
  <2>1. ASSUME NEW g, ChangeGraph(g) PROVE JobInv(j)'
    <3>1. span'[j] = IF pc[j] \in Looking THEN span[j] \union {graph'}
                                          ELSE span[j]
      BY <2>1 DEF ChangeGraph, Looking
    <3> QED
      BY <1>j, <2>1, <3>1, KeepsJobInv DEF ChangeGraph
  <2>2. CASE Push \/ Tick
    BY <1>j, <2>2, KeepsJobInv DEF Push, Tick
  <2> QED
    BY <1>1, <2>1, <2>2
       DEF Surroundings, Ingest, AddCall, SetRunning, SetFlow, Relabel
<1>2. ASSUME NEW d \in Deliveries, Receive(d) PROVE JobInv(j)'
  <2>1. CASE j = d
    BY <1>j, <1>2, <2>1
       DEF Receive, TypeOK, JobInv, Unrated, Callerless, Looking, Rated, Asking
  <2>2. CASE j # d
    BY <1>j, <1>2, <2>2, KeepsJobInv DEF Receive, TypeOK
  <2> QED
    BY <2>1, <2>2
<1>3. ASSUME NEW d \in Deliveries, Fetch(d) PROVE JobInv(j)'
  <2>1. CASE j = d
    <3>1. /\ pc[j] = "fetch" /\ pc'[j] = "resolve"
          /\ UNCHANGED <<callers, risk>>
      BY <1>3, <2>1 DEF Fetch, TypeOK
    <3> QED
      BY <1>j, <3>1 DEF JobInv, Unrated, Callerless, Looking, Rated, Asking
  <2>2. CASE j # d
    BY <1>j, <1>3, <2>2, KeepsJobInv DEF Fetch, TypeOK
  <2> QED
    BY <2>1, <2>2
<1>4. ASSUME NEW r \in Requests, Request(r) PROVE JobInv(j)'
  <2>1. CASE j = r
    <3>1. /\ pc[j] = "new" /\ pc'[j] = "resolve"
          /\ UNCHANGED <<callers, risk>>
      BY <1>4, <2>1 DEF Request, TypeOK
    <3> QED
      BY <1>j, <3>1 DEF JobInv, Unrated, Callerless, Looking, Rated, Asking
  <2>2. CASE j # r
    BY <1>j, <1>4, <2>2, KeepsJobInv DEF Request, TypeOK
  <2> QED
    BY <2>1, <2>2
<1>5. ASSUME NEW i \in Jobs, Generate(i) PROVE JobInv(j)'
  <2>1. CASE j = i
    BY <1>5, <2>1, GenerateRating
  <2>2. CASE j # i
    BY <1>j, <1>5, <2>2, GenerateAlone, KeepsJobInv
  <2> QED
    BY <2>1, <2>2
<1>6. ASSUME NEW d \in Deliveries, Update(d) PROVE JobInv(j)'
  <2>1. UNCHANGED <<graph, files, ids, callers, seen, risk, span>>
    BY <1>6 DEF Update
  <2>2. CASE j = d
    <3>1. pc[j] = "report" /\ pc'[j] = "comment"
      BY <1>6, <2>2 DEF Update, TypeOK
    <3>2. RatedSound(j)'
      BY <1>j, <2>1, <3>1 DEF JobInv, Rated, RatedSound
    <3> QED
      BY <3>1, <3>2 DEF JobInv, Unrated, Callerless, Looking, Asking
  <2>3. CASE j # d
    <3>1. pc'[j] = pc[j]
      BY <1>6, <2>3 DEF Update, TypeOK
    <3> QED
      BY <1>j, <2>1, <3>1, KeepsJobInv
  <2> QED
    BY <2>2, <2>3
<1>7. ASSUME NEW d \in Deliveries, Comment(d) \/ ReportFailure(d)
      PROVE  JobInv(j)'
  <2>1. CASE j = d
    BY <1>7, <2>1, EndedJobInv DEF Comment, ReportFailure, TypeOK
  <2>2. CASE j # d
    <3>1. d \in Jobs
      BY DEF Jobs
    <3> QED
      BY <1>j, <1>7, <2>2, <3>1, KeepsJobInv
         DEF Comment, ReportFailure, Close, TypeOK
  <2> QED
    BY <2>1, <2>2
<1>8. CASE WebhookCrash
  <2>1. CASE pc'[j] = "lost"
    BY <2>1, EndedJobInv
  <2>2. CASE pc'[j] # "lost"
    <3>1. UNCHANGED <<pc[j], files[j], ids[j], callers[j], seen[j], risk[j],
                      span[j], graph>>
      BY <1>8, <2>2 DEF WebhookCrash
    <3> QED
      BY <1>j, <3>1, KeepsJobInv
  <2> QED
    BY <2>1, <2>2
<1>9. ASSUME NEW r \in Requests, Store(r) \/ StoreFails(r) \/ ApiCrash(r)
      PROVE  JobInv(j)'
  <2>1. r \in Jobs
    BY DEF Jobs
  <2>2. CASE j = r
    BY <1>9, <2>2, EndedJobInv DEF Store, StoreFails, ApiCrash, TypeOK
  <2>3. CASE j # r
    BY <1>j, <1>9, <2>1, <2>3, KeepsJobInv
       DEF Store, StoreFails, ApiCrash, Forget, Close, TypeOK
  <2> QED
    BY <2>2, <2>3
<1>10. CASE UNCHANGED vars
  BY <1>j, <1>10, KeepsJobInv DEF vars
<1> QED
  BY <1>1, <1>2, <1>3, <1>4, <1>5, <1>6, <1>7, <1>8, <1>9, <1>10
     DEF Next, Deliver, Serve, Jobs

\* The rating of a certificate made from one graph is that of one look at it,
\* and never higher, when it is reported.
THEOREM RatingsAreExact == Spec => []RiskExact
<1>1. RatingInv => RiskExact
  BY DEF RatingInv, JobInv, Rated, RatedSound, Right, RiskExact
<1> QED
  BY TypeCorrect, InitRatingInv, NextRatingInv, <1>1, PTL DEF Spec

\* A green verdict comes from a low rating.
GreenInv == \A d \in Deliveries : check[d] = "success" => risk[d] \in {"LOW", "NONE"}

LEMMA NextGreenInv ==
    TypeOK /\ CheckInv /\ GreenInv /\ [Next]_vars => GreenInv'
<1> SUFFICES ASSUME TypeOK, CheckInv, GreenInv, [Next]_vars, NEW d \in Deliveries,
                    check'[d] = "success"
             PROVE  risk'[d] \in {"LOW", "NONE"}
  BY DEF GreenInv
<1> USE DEF worldVars, githubVars, jobVars
<1>d. check[d] = "success" => risk[d] \in {"LOW", "NONE"} /\ pc[d] \notin AtWork
  BY DEF GreenInv, CheckInv, Verdicts
<1>1. CASE UNCHANGED <<check, risk>>
  BY <1>1, <1>d
<1>2. ASSUME NEW e \in Deliveries, Receive(e) PROVE risk'[d] \in {"LOW", "NONE"}
  BY <1>2, <1>d DEF Receive, TypeOK
<1>3. ASSUME NEW j \in Jobs, Generate(j) PROVE risk'[d] \in {"LOW", "NONE"}
  <2>1. check'[d] = check[d] /\ d \in Jobs
    BY <1>3, GenerateChecks DEF Jobs
  <2>2. d # j
    <3>1. pc[j] \in AtWork
      BY <1>3 DEF Generate, Resolve, AskCallers, AskFallback, AskVulns, AskFlows,
                  Raise, AtWork, Asking
    <3> QED
      BY <1>d, <2>1, <3>1
  <2> QED
    BY <1>3, <1>d, <2>1, <2>2, GenerateAlone
<1>4. ASSUME NEW e \in Deliveries, Update(e) PROVE risk'[d] \in {"LOW", "NONE"}
  <2>1. CASE d = e /\ check'[d] # check[d]
    <3>1. /\ check'[d] = Conclusion(risk[d])
          /\ risk[d] \in Risks
          /\ risk' = risk
      BY <1>4, <2>1 DEF Update, Patch, TypeOK, Jobs
    <3> QED
      BY <3>1, ConclusionTypes
  <2>2. CASE ~(d = e /\ check'[d] # check[d])
    BY <1>4, <1>d, <2>2 DEF Update, Patch, TypeOK
  <2> QED
    BY <2>1, <2>2
<1>5. ASSUME NEW e \in Deliveries, ReportFailure(e)
      PROVE  risk'[d] \in {"LOW", "NONE"}
  BY <1>5, <1>d DEF ReportFailure, Patch, TypeOK
<1>6. CASE Surroundings
  BY <1>1, <1>6 DEF Surroundings, Ingest, AddCall, SetRunning, SetFlow, Relabel,
                    ChangeGraph, Push, Tick
<1>7. ASSUME NEW e \in Deliveries, Fetch(e) \/ Comment(e)
      PROVE  risk'[d] \in {"LOW", "NONE"}
  BY <1>1, <1>7 DEF Fetch, Comment
<1>8. CASE WebhookCrash \/ UNCHANGED vars
  BY <1>1, <1>8 DEF WebhookCrash, vars
<1>9. ASSUME NEW r \in Requests,
             Request(r) \/ Store(r) \/ StoreFails(r) \/ ApiCrash(r)
      PROVE  risk'[d] \in {"LOW", "NONE"}
  BY <1>1, <1>9 DEF Request, Store, StoreFails, ApiCrash
<1> QED
  BY <1>2, <1>3, <1>4, <1>5, <1>6, <1>7, <1>8, <1>9
     DEF Next, Deliver, Serve, Jobs

\* Whatever changed between the queries of a job and wherever the LIMIT cut, a
\* green verdict means that there was nothing it should have reported throughout.
THEOREM GreenMeansClean == Spec => []GreenIsEarned
<1>1. Init => GreenInv
  BY DEF Init, GreenInv
<1>2. RatingInv /\ GreenInv => GreenIsEarned
  <2> SUFFICES ASSUME RatingInv, GreenInv, NEW d \in Deliveries,
                      pc[d] = "comment", check[d] = "success"
               PROVE  Clean(span[d], files[d])
    BY DEF GreenIsEarned
  <2>1. risk[d] \in {"LOW", "NONE"}
    BY DEF GreenInv
  <2> QED
    BY <2>1 DEF RatingInv, JobInv, Rated, RatedSound, Jobs
<1> QED
  BY TypeCorrect, InitCheckInv, NextCheckInv, InitRatingInv, NextRatingInv,
     NextGreenInv, <1>1, <1>2, PTL DEF Spec

-----------------------------------------------------------------------------
(* The blast radius.                                                       *)

\* Induction on natural numbers, as the provers can use it: a set of them that
\* is not empty has a least member.
LEMMA LeastNatural ==
    ASSUME NEW T \in SUBSET Nat, T # {}
    PROVE  \E m \in T : \A n \in T : m <= n
<1> DEFINE R == OpToRel(<, Nat)
<1>1. PICK m \in T : \A n \in T : ~(<<n, m>> \in R)
  <2> HIDE DEF R
  <2>1. IsWellFoundedOn(R, Nat)
    BY NatLessThanWellFounded DEF R
  <2> QED
    BY <2>1, WFMin
<1>2. \A n \in T : ~(n < m)
  BY <1>1 DEF OpToRel
<1> QED
  BY <1>2

\* h is the function `near' of CallersWithin.
Near(g, fs, depth, h) ==
    h = [n \in 0 .. depth |->
            IF n = 0 THEN fs ELSE h[n - 1] \union CallersOf(g, h[n - 1])]

LEMMA NearExists ==
    ASSUME NEW g, NEW fs, NEW depth \in Nat
    PROVE  \E h : Near(g, fs, depth, h)
<1> DEFINE T == {n \in Nat : ~\E h : Near(g, fs, n, h)}
<1> SUFFICES ASSUME T # {} PROVE FALSE
  OBVIOUS
<1>1. PICK m \in T : \A n \in T : m <= n
  BY LeastNatural
<1>2. m # 0
  <2> DEFINE h == [n \in 0 .. 0 |-> fs]
  <2>1. Near(g, fs, 0, h)
    BY DEF Near
  <2> QED
    BY <2>1
<1>3. m - 1 \in Nat /\ m - 1 \notin T
  BY <1>1, <1>2
<1>4. PICK h : Near(g, fs, m - 1, h)
  BY <1>3
<1> DEFINE F(n) == IF n = 0 THEN fs ELSE h[n - 1] \union CallersOf(g, h[n - 1])
           k == [n \in 0 .. m |-> F(n)]
<1>5. h = [n \in 0 .. m - 1 |-> F(n)]
  BY <1>4 DEF Near
<1>6. ASSUME NEW n \in 0 .. m, n # 0 PROVE k[n - 1] = h[n - 1]
  <2>1. n - 1 \in 0 .. m /\ n - 1 \in 0 .. m - 1
    BY <1>3, <1>6
  <2> HIDE DEF F
  <2> QED
    BY <1>5, <2>1
<1>7. k = [n \in 0 .. m |->
              IF n = 0 THEN fs ELSE k[n - 1] \union CallersOf(g, k[n - 1])]
  <2>1. k = [n \in 0 .. m |->
                IF n = 0 THEN fs ELSE h[n - 1] \union CallersOf(g, h[n - 1])]
    OBVIOUS
  <2> HIDE DEF k
  <2> QED
    BY <1>6, <2>1
<1> QED
  BY <1>7 DEF Near

LEMMA CallersByHop ==
    ASSUME NEW g, NEW fs, NEW depth \in Nat
    PROVE  \E h : /\ Near(g, fs, depth, h)
                  /\ CallersWithin(g, fs, depth) =
                         {c[1] : c \in {e \in g : e[1] \in h[depth]}} \ fs
<1>1. PICK h : Near(g, fs, depth, h)
  BY NearExists
<1> DEFINE c == CHOOSE k : Near(g, fs, depth, k)
<1>2. Near(g, fs, depth, c)
  BY <1>1
<1>3. CallersWithin(g, fs, depth) =
          {e[1] : e \in {d \in g : d[1] \in c[depth]}} \ fs
  BY DEF Near, CallersWithin
<1> QED
  BY <1>2, <1>3

\* The functions from which at most n - 1 calls lead to one of fs.
Leading(S, g, fs, n) ==
    {f \in S : \E p \in Seq(S) : /\ Len(p) \in 1 .. n
                                  /\ PathOf(g, f, p)
                                  /\ p[Len(p)] \in fs}

\* One call more in front of a path.
LEMMA CallInFront ==
    ASSUME NEW S, NEW g \in SUBSET (S \X S), NEW fs \in SUBSET S,
           NEW n \in Nat \ {0}, NEW f \in CallersOf(g, Leading(S, g, fs, n))
    PROVE  f \in Leading(S, g, fs, n + 1)
<1>1. PICK e \in g : e[1] = f /\ e[2] \in Leading(S, g, fs, n)
  BY DEF CallersOf
<1>2. e = <<f, e[2]>> /\ f \in S /\ e[2] \in S
  BY <1>1
<1>3. PICK p \in Seq(S) : /\ Len(p) \in 1 .. n
                          /\ PathOf(g, e[2], p)
                          /\ p[Len(p)] \in fs
  BY <1>1 DEF Leading
<1> DEFINE q == <<f>> \o p
<1>4. /\ q \in Seq(S) /\ Len(q) = Len(p) + 1 /\ q[1] = f
      /\ \A i \in 1 .. Len(p) : q[i + 1] = p[i]
  BY <1>2, <1>3
<1> HIDE DEF q
<1>5. \A i \in 1 .. Len(q) - 1 : EdgeAt(q, i) \in g
  <2> TAKE i \in 1 .. Len(q) - 1
  <2>1. CASE i = 1
    <3>1. q[2] = p[1] /\ p[1] = e[2]
      BY <1>3, <1>4 DEF PathOf
    <3> QED
      BY <1>2, <1>4, <2>1, <3>1 DEF EdgeAt
  <2>2. CASE i # 1
    <3>1. i - 1 \in 1 .. Len(p) - 1 /\ i - 1 \in 1 .. Len(p) /\ i \in 1 .. Len(p)
      BY <1>3, <1>4, <2>2
    <3>2. q[i] = p[i - 1] /\ q[i + 1] = p[(i - 1) + 1]
      BY <1>3, <1>4, <3>1
    <3>3. EdgeAt(q, i) = EdgeAt(p, i - 1)
      BY <3>2 DEF EdgeAt
    <3> QED
      BY <1>3, <3>1, <3>3 DEF PathOf
  <2> QED
    BY <2>1, <2>2
<1>6. q[Len(q)] \in fs
  BY <1>3, <1>4
<1>7. Len(q) \in 1 .. n + 1 /\ PathOf(g, f, q)
  BY <1>3, <1>4, <1>5 DEF PathOf
<1> QED
  BY <1>2, <1>4, <1>6, <1>7 DEF Leading

\* The first call of a path taken away.
LEMMA CallLess ==
    ASSUME NEW S, NEW g \in SUBSET (S \X S), NEW fs \in SUBSET S,
           NEW n \in Nat \ {0}, NEW f, NEW p \in Seq(S),
           Len(p) \in 1 .. n + 1, Len(p) > 1,
           PathOf(g, f, p), p[Len(p)] \in fs
    PROVE  f \in CallersOf(g, Leading(S, g, fs, n))
<1> DEFINE q == SubSeq(p, 2, Len(p))
<1>1. /\ q \in Seq(S) /\ Len(q) = Len(p) - 1
      /\ \A i \in 1 .. Len(p) - 1 : q[i] = p[i + 1]
  OBVIOUS
<1> HIDE DEF q
<1>2. \A i \in 1 .. Len(q) - 1 : EdgeAt(q, i) \in g
  <2> TAKE i \in 1 .. Len(q) - 1
  <2>1. i + 1 \in 1 .. Len(p) - 1 /\ i \in 1 .. Len(p) - 1
    BY <1>1
  <2>2. EdgeAt(q, i) = EdgeAt(p, i + 1)
    BY <1>1, <2>1 DEF EdgeAt
  <2> QED
    BY <2>1, <2>2 DEF PathOf
<1>3. q[1] = p[2] /\ q[Len(q)] = p[Len(p)] /\ p[2] \in S
  BY <1>1
<1>4. p[2] \in Leading(S, g, fs, n)
  <2>1. PathOf(g, p[2], q) /\ Len(q) \in 1 .. n
    BY <1>1, <1>2, <1>3 DEF PathOf
  <2> QED
    BY <1>1, <1>3, <2>1 DEF Leading
<1>5. <<f, p[2]>> \in g
  BY DEF PathOf, EdgeAt
<1> QED
  BY <1>4, <1>5 DEF CallersOf

LEMMA NoCall ==
    ASSUME NEW S, NEW g, NEW fs \in SUBSET S
    PROVE  Leading(S, g, fs, 1) = fs
<1>1. ASSUME NEW f \in fs PROVE f \in Leading(S, g, fs, 1)
  <2> DEFINE p == <<f>>
  <2>1. p \in Seq(S) /\ Len(p) = 1 /\ p[1] = f
    OBVIOUS
  <2> HIDE DEF p
  <2>2. PathOf(g, f, p) /\ Len(p) \in 1 .. 1 /\ p[Len(p)] \in fs
    BY <2>1 DEF PathOf
  <2> QED
    BY <2>1, <2>2 DEF Leading
<1>2. ASSUME NEW f \in Leading(S, g, fs, 1) PROVE f \in fs
  <2>1. PICK p \in Seq(S) :
            Len(p) \in 1 .. 1 /\ PathOf(g, f, p) /\ p[Len(p)] \in fs
    BY DEF Leading
  <2>2. Len(p) = 1 /\ p[1] = f
    BY <2>1 DEF PathOf
  <2> QED
    BY <2>1, <2>2
<1> QED
  BY <1>1, <1>2

LEMMA NearLeads ==
    ASSUME NEW S, NEW g \in SUBSET (S \X S), NEW fs \in SUBSET S,
           NEW depth \in Nat, NEW h, Near(g, fs, depth, h)
    PROVE  \A n \in 0 .. depth : h[n] = Leading(S, g, fs, n + 1)
<1> DEFINE T == {n \in 0 .. depth : h[n] # Leading(S, g, fs, n + 1)}
<1> SUFFICES ASSUME T # {} PROVE FALSE
  OBVIOUS
<1>0. T \in SUBSET Nat
  OBVIOUS
<1>1. PICK m \in T : \A n \in T : m <= n
  <2> HIDE DEF T
  <2> QED
    BY <1>0, LeastNatural
<1>2. Leading(S, g, fs, 1) = fs
  BY NoCall
<1>3. m # 0
  <2>1. h[0] = fs
    BY DEF Near
  <2>2. h[0] = Leading(S, g, fs, 0 + 1)
    BY <1>2, <2>1
  <2> QED
    BY <1>1, <2>2
<1>4. /\ m - 1 \in 0 .. depth /\ h[m - 1] = Leading(S, g, fs, m)
      /\ m \in 0 .. depth /\ m \in Nat \ {0}
  BY <1>0, <1>1, <1>3
<1>5. h[m] = Leading(S, g, fs, m) \union CallersOf(g, Leading(S, g, fs, m))
  BY <1>3, <1>4 DEF Near
<1>6. ASSUME NEW f \in h[m] PROVE f \in Leading(S, g, fs, m + 1)
  <2>1. CASE f \in Leading(S, g, fs, m)
    <3>1. 1 .. m \subseteq 1 .. m + 1
      BY <1>4
    <3> QED
      BY <2>1, <3>1 DEF Leading
  <2>2. CASE f \in CallersOf(g, Leading(S, g, fs, m))
    BY <1>4, <2>2, CallInFront
  <2> QED
    BY <1>5, <1>6, <2>1, <2>2
<1>7. ASSUME NEW f \in Leading(S, g, fs, m + 1) PROVE f \in h[m]
  <2>1. PICK p \in Seq(S) : /\ Len(p) \in 1 .. m + 1
                            /\ PathOf(g, f, p)
                            /\ p[Len(p)] \in fs
    BY <1>7 DEF Leading
  <2>2. CASE ~(Len(p) > 1)
    <3>1. Len(p) \in 1 .. m /\ f \in S
      BY <1>4, <1>7, <2>1, <2>2 DEF Leading
    <3>2. f \in Leading(S, g, fs, m)
      BY <2>1, <3>1 DEF Leading
    <3> QED
      BY <1>5, <3>2
  <2>3. CASE Len(p) > 1
    BY <1>4, <1>5, <2>1, <2>3, CallLess
  <2> QED
    BY <2>2, <2>3
<1>8. h[m] = Leading(S, g, fs, m + 1)
  BY <1>6, <1>7
<1> QED
  BY <1>1, <1>8

\* The query for the blast radius finds the functions, other than those that
\* change, from which a chain of at most `depth' calls leads to one that does,
\* and no other.
THEOREM CallersWithinLead ==
    ASSUME NEW S, NEW g \in SUBSET (S \X S), NEW fs \in SUBSET S,
           NEW depth \in Nat
    PROVE  CallersWithin(g, fs, depth) = Leading(S, g, fs, depth + 1) \ fs
<1>1. PICK h : /\ Near(g, fs, depth, h)
               /\ CallersWithin(g, fs, depth) =
                      {c[1] : c \in {e \in g : e[1] \in h[depth]}} \ fs
  BY CallersByHop
<1>2. h[depth] = Leading(S, g, fs, depth + 1)
  BY <1>1, NearLeads
<1>3. ASSUME NEW f \in Leading(S, g, fs, depth + 1) \ fs
      PROVE  \E e \in g : e[1] = f
  <2>1. PICK p \in Seq(S) : /\ Len(p) \in 1 .. depth + 1
                            /\ PathOf(g, f, p)
                            /\ p[Len(p)] \in fs
    BY <1>3 DEF Leading
  <2>2. Len(p) > 1
    BY <1>3, <2>1 DEF PathOf
  <2>3. EdgeAt(p, 1) \in g /\ EdgeAt(p, 1) = <<f, p[2]>>
    BY <2>1, <2>2 DEF PathOf, EdgeAt
  <2> QED
    BY <2>3
<1> QED
  BY <1>1, <1>2, <1>3


LEMMA BlastIsComplete ==
    ASSUME NEW g \in Graph, NEW fs \in SUBSET Functions
    PROVE  /\ BlastOf(g, fs) = {} <=> CallersOf(AnyCalls(g), fs) = {}
           /\ \A f \in Functions \ fs :
                  f \in BlastOf(g, fs) <=>
                      f \in Leading(Functions, AnyCalls(g), fs, Depth + 1)
<1> DEFINE calls == AnyCalls(g)
           outside == CallersWithin(calls, fs, Depth)
<1>1. calls \in SUBSET (Functions \X Functions)
  BY FunctionsAssumption DEF Graph, AnyCalls
<1>2. Depth \in Nat \ {0}
  BY BoundsAssumption
<1> HIDE DEF calls
<1>3. outside = Leading(Functions, calls, fs, Depth + 1) \ fs
  BY <1>1, <1>2, CallersWithinLead
<1>4. CallersOf(calls, fs) \subseteq Leading(Functions, calls, fs, Depth + 1)
  <2>1. ASSUME NEW f \in CallersOf(calls, fs)
        PROVE  f \in Leading(Functions, calls, fs, 1 + 1)
    <3>1. f \in CallersOf(calls, Leading(Functions, calls, fs, 1))
      BY <2>1, NoCall
    <3> QED
      BY <1>1, <3>1, CallInFront
  <2>2. 1 .. 1 + 1 \subseteq 1 .. Depth + 1
    BY <1>2
  <2> QED
    BY <2>1, <2>2 DEF Leading
<1>5. ASSUME CallersOf(calls, fs) = {} PROVE outside = {}
  <2>1. ASSUME NEW f \in outside PROVE FALSE
    <3>1. PICK p \in Seq(Functions) : /\ Len(p) \in 1 .. Depth + 1
                                      /\ PathOf(calls, f, p)
                                      /\ p[Len(p)] \in fs
      BY <1>3, <2>1 DEF Leading
    <3>2. Len(p) > 1
      BY <1>3, <2>1, <3>1 DEF PathOf
    <3>3. Len(p) - 1 \in 1 .. Len(p) - 1 /\ (Len(p) - 1) + 1 = Len(p)
      BY <3>1, <3>2
    <3>4. EdgeAt(p, Len(p) - 1) \in calls
      BY <3>1, <3>3 DEF PathOf
    <3>5. EdgeAt(p, Len(p) - 1)[2] \in fs
      BY <3>1, <3>3 DEF EdgeAt
    <3> QED
      BY <1>5, <3>4, <3>5 DEF CallersOf
  <2> QED
    BY <2>1
<1>6. CASE fs = {}
  <2>1. BlastOf(g, fs) = {} /\ CallersOf(calls, fs) = {}
    BY <1>6 DEF BlastOf, CallersOf
  <2>2. Leading(Functions, calls, fs, Depth + 1) = {}
    BY <1>6 DEF Leading
  <2> QED
    BY <2>1, <2>2 DEF calls
<1>7. CASE fs # {} /\ outside # {}
  BY <1>3, <1>5, <1>7 DEF BlastOf, calls
<1>8. CASE fs # {} /\ outside = {}
  <2>1. BlastOf(g, fs) = CallersOf(calls, fs)
    BY <1>8 DEF BlastOf, calls
  <2> QED
    BY <1>3, <1>4, <1>8, <2>1 DEF calls
<1> QED
  BY <1>6, <1>7, <1>8

\* The blast radius, while the graph is the one the job began with: of the other
\* functions, all that lead to a changed one in at most Depth calls, observed ones
\* included, and no other; and none is reported only when nothing calls a changed
\* one.
THEOREM BlastRadiusIsComplete ==
    Spec => [](\A j \in Jobs :
        pc[j] \in {"vulns", "flows"} /\ span[j] = {graph} =>
            LET fs == files[j] \intersect graph.known
                calling == AnyCalls(graph)
            IN  /\ callers[j] = {} <=> CallersOf(calling, fs) = {}
                /\ \A f \in Functions \ fs :
                       f \in callers[j] <=>
                           f \in Leading(Functions, calling, fs, Depth + 1))
<1> DEFINE Complete(j) ==
        LET fs == files[j] \intersect graph.known
            calling == AnyCalls(graph)
        IN  /\ callers[j] = {} <=> CallersOf(calling, fs) = {}
            /\ \A f \in Functions \ fs :
                   f \in callers[j] <=>
                       f \in Leading(Functions, calling, fs, Depth + 1)
<1>1. ASSUME TypeOK, RatingInv, NEW j \in Jobs, pc[j] \in {"vulns", "flows"},
             span[j] = {graph}
      PROVE  Complete(j)
  <2> DEFINE fs == files[j] \intersect graph.known
  <2>1. callers[j] = BlastOf(graph, ids[j]) /\ ids[j] = fs
    BY <1>1 DEF RatingInv, JobInv, Holds, Looking, Asking
  <2>2. graph \in Graph /\ fs \in SUBSET Functions
    BY <1>1 DEF TypeOK, Graph
  <2> HIDE DEF fs
  <2>3. /\ callers[j] = {} <=> CallersOf(AnyCalls(graph), fs) = {}
        /\ \A f \in Functions \ fs :
               f \in callers[j] <=>
                   f \in Leading(Functions, AnyCalls(graph), fs, Depth + 1)
    BY <2>1, <2>2, BlastIsComplete
  <2> QED
    BY <2>3 DEF fs
<1>2. TypeOK /\ RatingInv =>
          \A j \in Jobs : pc[j] \in {"vulns", "flows"} /\ span[j] = {graph} =>
              Complete(j)
  BY <1>1
<1> QED
  BY TypeCorrect, InitRatingInv, NextRatingInv, <1>2, PTL DEF Spec
=============================================================================
