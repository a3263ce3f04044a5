-------------------------- MODULE ReachabilityProofs --------------------------
(***************************************************************************)
(* The safety of the reachability engine for every service, every graph of *)
(* calls and every bound: type correctness, the exactness of the labels a  *)
(* run writes over a graph that does not change, and the grounds of those  *)
(* it writes over one that does.                                           *)
(***************************************************************************)
EXTENDS Reachability, FiniteSetTheorems, WellFoundedInduction, TLAPS

-----------------------------------------------------------------------------
(* The queries.                                                            *)

\* The limited query returns rows of the query, none only when there is none,
\* and all of them when they are no more than the limit.
LEMMA StaticResultsRows ==
    ASSUME NEW g, NEW hs, NEW names, NEW found \in StaticResults(g, hs, names)
    PROVE  /\ found \subseteq AllRows(g, hs, names)
           /\ found = {} => AllRows(g, hs, names) = {}
           /\ Cardinality(AllRows(g, hs, names)) <= RowLimit =>
                  found = AllRows(g, hs, names)
<1> DEFINE all == AllRows(g, hs, names)
<1>1. CASE Cardinality(all) <= RowLimit
  BY <1>1 DEF StaticResults
<1>2. CASE ~(Cardinality(all) <= RowLimit)
  <2>1. found \subseteq all /\ Cardinality(found) = RowLimit
    BY <1>2 DEF StaticResults
  <2>2. found # {}
    BY <2>1, FS_EmptySet, BoundsAssumption
  <2> QED
    BY <1>2, <2>1, <2>2
<1> QED
  BY <1>1, <1>2

LEMMA RowEndpoints ==
    ASSUME NEW g, NEW hs, hs \subseteq CodeHandlers, NEW names
    PROVE  EndpointsOf(AllRows(g, hs, names)) \subseteq Endpoints
BY FunctionsAssumption DEF EndpointsOf, AllRows

LEMMA SubsetOfRows ==
    ASSUME NEW R, NEW S, R \subseteq S
    PROVE  /\ NodesOf(R) \subseteq NodesOf(S)
           /\ EndpointsOf(R) \subseteq EndpointsOf(S)
BY DEF NodesOf, EndpointsOf

-----------------------------------------------------------------------------
(* Type correctness.                                                       *)

LEMMA NamedTypes ==
    ASSUME TypeOK, NEW v \in Vulns, NEW names \in Advisories[v]
    PROVE  names \in SUBSET Names
BY AdvisoriesAssumption

LEMMA InitTypeOK == Init => TypeOK
BY BoundsAssumption
   DEF Init, TypeOK, graphVars, runVars, Labels, NoItem, EndpointsOf, Item

LEMMA NextTypeOK == TypeOK /\ [Next]_vars => TypeOK'
<1> SUFFICES ASSUME TypeOK, [Next]_vars PROVE TypeOK'
  OBVIOUS
<1> USE DEF TypeOK, graphVars, runVars
<1>b. MaxChanges \in Nat
  BY BoundsAssumption
<1>1. ASSUME NEW c \in CodeCalls, AddCall(c) PROVE TypeOK'
  BY <1>1 DEF AddCall, GraphChanges, EndpointsOf
<1>h. ASSUME NEW h \in CodeHandlers, AddHandler(h) PROVE TypeOK'
  BY <1>h DEF AddHandler, GraphChanges, EndpointsOf
<1>2. ASSUME NEW f \in Functions, Observe(f) \/ Forget(f) PROVE TypeOK'
  <2>1. changes' \in 0 .. MaxChanges
    BY <1>2, <1>b DEF Observe, Forget
  <2> QED
    BY <1>2, <2>1 DEF Observe, Forget, GraphChanges, EndpointsOf
<1>3. ASSUME NEW e \in Endpoints, Expose(e) PROVE TypeOK'
  BY <1>3 DEF Expose, GraphChanges, EndpointsOf
<1>4. ASSUME NEW v \in Vulns, NEW names \in Advisories[v], Link(v, names)
      PROVE  TypeOK'
  <2>1. /\ named' \in [Vulns -> SUBSET Names]
        /\ label' \in [Vulns -> Labels \union {"none", "UNKNOWN"}]
    BY <1>4, NamedTypes DEF Link
  <2> QED
    BY <1>4, <2>1 DEF Link, GraphChanges, EndpointsOf
<1>5. ASSUME NEW v \in Vulns, NEW names \in Advisories[v], Revise(v, names)
      PROVE  TypeOK'
  <2>1. named' \in [Vulns -> SUBSET Names]
    BY <1>5, NamedTypes DEF Revise
  <2>2. changes' \in 0 .. MaxChanges
    BY <1>5, <1>b DEF Revise
  <2> QED
    BY <1>5, <2>1, <2>2 DEF Revise, GraphChanges, EndpointsOf
<1>6. CASE Start
  <2>1. todo' \subseteq Item
    BY <1>6 DEF Start, Item
  <2> QED
    BY <1>6, <2>1 DEF Start, EndpointsOf
<1>7. CASE Static
  <2> PICK item \in todo :
        /\ current' = item
        /\ todo' = todo \ {item}
        /\ \E found \in StaticResults(calls, handled, item.names) :
              IF found = {}
              THEN Decide("NOT_REACHABLE")
              ELSE /\ rows' = found
                   /\ pc' = "runtime"
                   /\ UNCHANGED <<unchecked, result>>
    BY <1>7 DEF Static
  <2> PICK found \in StaticResults(calls, handled, item.names) :
        IF found = {}
        THEN Decide("NOT_REACHABLE")
        ELSE /\ rows' = found
             /\ pc' = "runtime"
             /\ UNCHANGED <<unchecked, result>>
    OBVIOUS
  <2>1. EndpointsOf(found) \subseteq Endpoints
    <3>1. found \subseteq AllRows(calls, handled, item.names)
      BY StaticResultsRows
    <3>2. EndpointsOf(found) \subseteq EndpointsOf(AllRows(calls, handled, item.names))
      BY <3>1, SubsetOfRows
    <3> QED
      BY <3>2, RowEndpoints
  <2>2. CASE found = {}
    BY <1>7, <2>2 DEF Static, Decide, Labels, EndpointsOf
  <2>3. CASE found # {}
    BY <1>7, <2>1, <2>3 DEF Static, EndpointsOf
  <2> QED
    BY <2>2, <2>3
<1>8. CASE Runtime
  BY <1>8 DEF Runtime, Decide, Labels, EndpointsOf
<1>9. ASSUME NEW e \in Endpoints, SurfaceFound(e) \/ SurfaceMissed(e)
      PROVE  TypeOK'
  BY <1>9 DEF SurfaceFound, SurfaceMissed, Decide, Labels, EndpointsOf
<1>10. CASE Write
  <2>1. current.edge \in Vulns /\ result \in Labels
    BY <1>10 DEF Write, Item
  <2> QED
    BY <1>10, <2>1 DEF Write, EndpointsOf
<1>11. CASE Finish \/ Fail
  BY <1>11 DEF Finish, Fail, EndpointsOf
<1>12. CASE UNCHANGED vars
  BY <1>12 DEF vars, EndpointsOf
<1> QED
  BY <1>1, <1>h, <1>2, <1>3, <1>4, <1>5, <1>6, <1>7, <1>8, <1>9, <1>10,
     <1>11, <1>12
     DEF Next, Surroundings, Run

\* A run only ever writes one of the four labels, and so on.
THEOREM TypeCorrect == Spec => []TypeOK
BY InitTypeOK, NextTypeOK, PTL DEF Spec

-----------------------------------------------------------------------------
(* The exactness of labels.                                                *)

Within(g, hs, names) == Cardinality(AllRows(g, hs, names)) <= RowLimit

\* What ExactLabels says of a label for an advisory.
Right(g, hs, o, x, names, l) ==
    /\ Rank[l] <= Rank[LabelOf(g, hs, o, x, names)]
    /\ Within(g, hs, names) => l = LabelOf(g, hs, o, x, names)
    /\ l = "NOT_REACHABLE" => AllRows(g, hs, names) = {}

\* What the static query has found for the edge at hand.
RowsRight(g, hs, names, R) ==
    /\ R \subseteq AllRows(g, hs, names)
    /\ R # {}
    /\ Within(g, hs, names) => R = AllRows(g, hs, names)

\* Over a graph that does not change, what a run has fetched and what it has
\* found out stay true until it writes the label that follows from them.
QuietRun ==
    /\ \A item \in todo : item.names = named[item.edge]
    /\ pc \in {"runtime", "surface", "write"} =>
           current.names = named[current.edge]
    /\ pc \in {"runtime", "surface"} =>
           RowsRight(calls, handled, current.names, rows)
    /\ pc = "surface" =>
           /\ NodesOf(rows) \intersect observed # {}
           /\ \A e \in EndpointsOf(rows) : e \in unchecked \/ e \notin exposed
           /\ unchecked \subseteq EndpointsOf(rows)
    /\ pc = "write" =>
           Right(calls, handled, observed, exposed, current.names, result)

ExactInv ==
    /\ TypeOK
    /\ quiet => QuietRun
    /\ \A v \in exact :
           Right(calls, handled, observed, exposed, named[v], label[v])

LEMMA LabelCases ==
    ASSUME NEW g, NEW hs, NEW o, NEW x, NEW names
    PROVE  /\ AllRows(g, hs, names) = {} =>
                  LabelOf(g, hs, o, x, names) = "NOT_REACHABLE"
           /\ AllRows(g, hs, names) # {}
              /\ NodesOf(AllRows(g, hs, names)) \intersect o = {} =>
                     LabelOf(g, hs, o, x, names) = "LOW"
           /\ NodesOf(AllRows(g, hs, names)) \intersect o # {}
              /\ EndpointsOf(AllRows(g, hs, names)) \intersect x = {} =>
                     LabelOf(g, hs, o, x, names) = "HIGH"
           /\ NodesOf(AllRows(g, hs, names)) \intersect o # {}
              /\ EndpointsOf(AllRows(g, hs, names)) \intersect x # {} =>
                     LabelOf(g, hs, o, x, names) = "CRITICAL"
<1> DEFINE all == AllRows(g, hs, names)
<1>1. NodesOf({}) = {}
  BY DEF NodesOf
<1>2. CASE all = {}
  BY <1>1, <1>2 DEF LabelOf
<1>3. CASE all # {} /\ NodesOf(all) \intersect o = {}
  BY <1>3 DEF LabelOf
<1>4. CASE NodesOf(all) \intersect o # {}
  <2>1. all # {}
    BY <1>1, <1>4
  <2>2. LabelOf(g, hs, o, x, names) = IF EndpointsOf(all) \intersect x = {}
                         THEN "HIGH" ELSE "CRITICAL"
    BY <1>4, <2>1 DEF LabelOf
  <2> QED
    BY <1>4, <2>1, <2>2
<1> QED
  BY <1>2, <1>3, <1>4

LEMMA Ranks ==
    /\ Rank["NOT_REACHABLE"] = 0 /\ Rank["LOW"] = 1
    /\ Rank["HIGH"] = 2 /\ Rank["CRITICAL"] = 3
BY DEF Rank

\* No row at all is the whole answer, limited or not.
LEMMA NoRowIsRight ==
    ASSUME NEW g, NEW hs, NEW o, NEW x, NEW names, AllRows(g, hs, names) = {}
    PROVE  Right(g, hs, o, x, names, "NOT_REACHABLE")
BY LabelCases, Ranks DEF Right

\* Rows without evidence: the label may only be understated.
LEMMA LowIsRight ==
    ASSUME NEW g, NEW hs, NEW o, NEW x, NEW names, NEW R,
           RowsRight(g, hs, names, R),
           NodesOf(R) \intersect o = {}
    PROVE  Right(g, hs, o, x, names, "LOW")
<1> DEFINE look == LabelOf(g, hs, o, x, names)
<1>1. AllRows(g, hs, names) # {}
  BY DEF RowsRight
<1>2. look \in {"LOW", "HIGH", "CRITICAL"}
  BY <1>1, LabelCases
<1>3. Rank["LOW"] <= Rank[look]
  BY <1>2, Ranks
<1>4. Within(g, hs, names) => look = "LOW"
  BY <1>1, LabelCases DEF RowsRight
<1> QED
  BY <1>3, <1>4 DEF Right

LEMMA EvidenceOfAll ==
    ASSUME NEW g, NEW hs, NEW o, NEW names, NEW R,
           RowsRight(g, hs, names, R),
           NodesOf(R) \intersect o # {}
    PROVE  NodesOf(AllRows(g, hs, names)) \intersect o # {}
<1>1. NodesOf(R) \subseteq NodesOf(AllRows(g, hs, names))
  BY SubsetOfRows DEF RowsRight
<1> QED
  BY <1>1

\* Evidence and no exposed entry among the rows.
LEMMA HighIsRight ==
    ASSUME NEW g, NEW hs, NEW o, NEW x, NEW names, NEW R,
           RowsRight(g, hs, names, R),
           NodesOf(R) \intersect o # {}, EndpointsOf(R) \intersect x = {}
    PROVE  Right(g, hs, o, x, names, "HIGH")
<1> DEFINE look == LabelOf(g, hs, o, x, names)
<1>1. look \in {"HIGH", "CRITICAL"}
  BY EvidenceOfAll, LabelCases
<1>2. Rank["HIGH"] <= Rank[look]
  BY <1>1, Ranks
<1>3. Within(g, hs, names) => look = "HIGH"
  BY EvidenceOfAll, LabelCases DEF RowsRight
<1> QED
  BY <1>2, <1>3 DEF Right

\* Evidence and one exposed entry: nothing is above CRITICAL.
LEMMA CriticalIsRight ==
    ASSUME NEW g, NEW hs, NEW o, NEW x, NEW names, NEW R,
           RowsRight(g, hs, names, R),
           NodesOf(R) \intersect o # {}, NEW e \in EndpointsOf(R), e \in x
    PROVE  Right(g, hs, o, x, names, "CRITICAL")
<1>1. e \in EndpointsOf(AllRows(g, hs, names)) \intersect x
  BY SubsetOfRows DEF RowsRight
<1>2. LabelOf(g, hs, o, x, names) = "CRITICAL"
  BY <1>1, EvidenceOfAll, LabelCases
<1> QED
  BY <1>2, Ranks DEF Right

LEMMA InitExactInv == Init => ExactInv
BY InitTypeOK DEF Init, ExactInv, QuietRun

LEMMA NextExactInv == ExactInv /\ [Next]_vars => ExactInv'
<1> SUFFICES ASSUME ExactInv, [Next]_vars PROVE ExactInv'
  OBVIOUS
<1>t. TypeOK /\ TypeOK'
  BY NextTypeOK DEF ExactInv
<1> USE DEF graphVars, runVars
<1>1. CASE Surroundings
  <2>1. quiet' = FALSE /\ exact' = {}
    BY <1>1 DEF Surroundings, AddCall, AddHandler, Observe, Forget, Expose,
         Link, Revise,
                GraphChanges
  <2> QED
    BY <1>t, <2>1 DEF ExactInv
\* The other steps leave the graph alone, and all but Write the labels.
<1>2. ASSUME UNCHANGED <<graphVars, label, exact>>, quiet' => QuietRun'
      PROVE  ExactInv'
  BY <1>t, <1>2 DEF ExactInv
<1>3. CASE Start
  <2>1. UNCHANGED <<graphVars, label, exact>>
    BY <1>3 DEF Start
  <2>2. QuietRun'
    BY <1>3 DEF Start, QuietRun
  <2> QED
    BY <1>2, <2>1, <2>2
<1>4. CASE Static
  <2>1. UNCHANGED <<graphVars, label, quiet, exact>>
    BY <1>4 DEF Static
  <2> PICK item \in todo :
        /\ current' = item
        /\ todo' = todo \ {item}
        /\ \E found \in StaticResults(calls, handled, item.names) :
              IF found = {}
              THEN Decide("NOT_REACHABLE")
              ELSE /\ rows' = found
                   /\ pc' = "runtime"
                   /\ UNCHANGED <<unchecked, result>>
    BY <1>4 DEF Static
  <2> PICK found \in StaticResults(calls, handled, item.names) :
        IF found = {}
        THEN Decide("NOT_REACHABLE")
        ELSE /\ rows' = found
             /\ pc' = "runtime"
             /\ UNCHANGED <<unchecked, result>>
    OBVIOUS
  <2>2. /\ found = {} => AllRows(calls, handled, item.names) = {}
        /\ found # {} => RowsRight(calls, handled, item.names, found)
    BY StaticResultsRows DEF RowsRight, Within
  <2> SUFFICES ASSUME quiet PROVE QuietRun'
    BY <1>2, <2>1
  <2>3. \A i \in todo : i.names = named[i.edge]
    BY DEF ExactInv, QuietRun
  <2>4. CASE found = {}
    <3>1. Right(calls, handled, observed, exposed, item.names, "NOT_REACHABLE")
      BY <2>2, <2>4, NoRowIsRight
    <3> QED
      BY <2>1, <2>3, <2>4, <3>1 DEF QuietRun, Decide
  <2>5. CASE found # {}
    BY <2>1, <2>2, <2>3, <2>5 DEF QuietRun
  <2> QED
    BY <2>4, <2>5
<1>5. CASE Runtime
  <2>1. UNCHANGED <<graphVars, label, todo, current, quiet, exact>>
    BY <1>5 DEF Runtime
  <2> SUFFICES ASSUME quiet PROVE QuietRun'
    BY <1>2, <2>1
  <2>2. QuietRun /\ pc = "runtime" /\ RowsRight(calls, handled, current.names, rows)
    BY <1>5 DEF Runtime, ExactInv, QuietRun
  <2>3. CASE NodesOf(rows) \intersect observed = {}
    <3>1. Right(calls, handled, observed, exposed, current.names, "LOW")
      BY <2>2, <2>3, LowIsRight
    <3> QED
      BY <1>5, <2>1, <2>2, <2>3, <3>1 DEF Runtime, QuietRun, Decide
  <2>4. CASE NodesOf(rows) \intersect observed # {}
    BY <1>5, <2>1, <2>2, <2>4 DEF Runtime, QuietRun
  <2> QED
    BY <2>3, <2>4
<1>6. ASSUME NEW e \in Endpoints, SurfaceFound(e) PROVE ExactInv'
  <2>1. UNCHANGED <<graphVars, label, todo, current, quiet, exact>>
    BY <1>6 DEF SurfaceFound
  <2> SUFFICES ASSUME quiet PROVE QuietRun'
    BY <1>2, <2>1
  <2>2. /\ QuietRun /\ pc = "surface" /\ RowsRight(calls, handled, current.names, rows)
        /\ e \in EndpointsOf(rows) /\ e \in exposed
        /\ NodesOf(rows) \intersect observed # {}
    BY <1>6 DEF SurfaceFound, ExactInv, QuietRun
  <2>3. Right(calls, handled, observed, exposed, current.names, "CRITICAL")
    BY <2>2, CriticalIsRight
  <2> QED
    BY <1>6, <2>1, <2>2, <2>3 DEF SurfaceFound, QuietRun, Decide
<1>7. ASSUME NEW e \in Endpoints, SurfaceMissed(e) PROVE ExactInv'
  <2>1. UNCHANGED <<graphVars, label, todo, current, quiet, exact>>
    BY <1>7 DEF SurfaceMissed
  <2> SUFFICES ASSUME quiet PROVE QuietRun'
    BY <1>2, <2>1
  <2>2. /\ QuietRun /\ pc = "surface" /\ RowsRight(calls, handled, current.names, rows)
        /\ e \notin exposed /\ NodesOf(rows) \intersect observed # {}
        /\ \A n \in EndpointsOf(rows) : n \in unchecked \/ n \notin exposed
    BY <1>7 DEF SurfaceMissed, ExactInv, QuietRun
  <2>3. CASE unchecked = {e}
    <3>1. EndpointsOf(rows) \intersect exposed = {}
      BY <2>2, <2>3
    <3>2. Right(calls, handled, observed, exposed, current.names, "HIGH")
      BY <2>2, <3>1, HighIsRight
    <3> QED
      BY <1>7, <2>1, <2>2, <2>3, <3>2 DEF SurfaceMissed, QuietRun, Decide
  <2>4. CASE unchecked # {e}
    BY <1>7, <2>1, <2>2, <2>4 DEF SurfaceMissed, QuietRun
  <2> QED
    BY <2>3, <2>4
<1>8. CASE Write
  <2>1. /\ UNCHANGED <<graphVars, todo, quiet>> /\ pc = "write" /\ pc' = "next"
        /\ label' = [label EXCEPT ![current.edge] = result]
        /\ exact' = IF quiet THEN exact \union {current.edge}
                             ELSE exact \ {current.edge}
    BY <1>8 DEF Write
  <2>2. quiet' => QuietRun'
    BY <2>1 DEF ExactInv, QuietRun
  <2>3. ASSUME NEW v \in exact'
        PROVE  Right(calls, handled, observed, exposed, named[v], label'[v])
    <3>1. CASE v = current.edge
      <4>1. quiet /\ label'[v] = result
        BY <1>t, <2>1, <2>3, <3>1 DEF TypeOK
      <4>2. QuietRun
        BY <4>1 DEF ExactInv
      <4> QED
        BY <2>1, <3>1, <4>1, <4>2 DEF QuietRun
    <3>2. CASE v # current.edge
      <4>1. v \in exact /\ label'[v] = label[v]
        BY <1>t, <2>1, <3>2 DEF TypeOK
      <4> QED
        BY <4>1 DEF ExactInv
    <3> QED
      BY <3>1, <3>2
  <2> QED
    BY <1>t, <2>1, <2>2, <2>3 DEF ExactInv
<1>9. CASE Finish \/ Fail
  <2>1. UNCHANGED <<graphVars, label, quiet, exact>>
    BY <1>9 DEF Finish, Fail
  <2>2. quiet => QuietRun'
    BY <1>9, <2>1 DEF Finish, Fail, ExactInv, QuietRun
  <2> QED
    BY <1>2, <2>1, <2>2
<1>10. CASE UNCHANGED vars
  <2>1. UNCHANGED <<graphVars, label, exact>> /\ (quiet' => QuietRun')
    BY <1>10 DEF vars, ExactInv, QuietRun
  <2> QED
    BY <1>2, <2>1
<1> QED
  BY <1>1, <1>3, <1>4, <1>5, <1>6, <1>7, <1>8, <1>9, <1>10 DEF Next, Run

\* Over a graph that stayed as it was, the four transactions and the loop of
\* the engine say what one look at the graph says, and under the LIMIT of the
\* static query never more.
THEOREM LabelsAreExact == Spec => []ExactLabels
<1>1. ExactInv => ExactLabels
  BY DEF ExactInv, ExactLabels, Right, Within, LabelNow
<1> QED
  BY InitExactInv, NextExactInv, <1>1, PTL DEF Spec

-----------------------------------------------------------------------------
(* A run forgets no edge.                                                  *)

\* While the graph does not change, every edge is labelled, at hand, or waits.
NoneForgotten ==
    quiet /\ pc # "idle" =>
        \A v \in Vulns :
            label[v] # "none" =>
                \/ v \in exact
                \/ \E item \in todo : item.edge = v
                \/ pc \in {"runtime", "surface", "write"} /\ v = current.edge

LEMMA NextNoneForgotten == TypeOK /\ NoneForgotten /\ [Next]_vars => NoneForgotten'
<1> SUFFICES ASSUME TypeOK, NoneForgotten, [Next]_vars PROVE NoneForgotten'
  OBVIOUS
<1> USE DEF graphVars, runVars
<1>1. CASE Surroundings
  BY <1>1 DEF Surroundings, AddCall, AddHandler, Observe, Forget, Expose,
         Link, Revise,
              GraphChanges, NoneForgotten
<1>2. CASE Start
  <2>1. ASSUME NEW v \in Vulns, label[v] # "none"
        PROVE  \E item \in todo' : item.edge = v
    <3>1. [edge |-> v, names |-> named[v]] \in todo'
      BY <1>2, <2>1 DEF Start
    <3> QED
      BY <3>1
  <2> QED
    BY <1>2, <2>1 DEF Start, NoneForgotten
<1>3. CASE Static
  <2>1. /\ pc = "next" /\ pc' \in {"runtime", "write"}
        /\ UNCHANGED <<label, quiet, exact>>
        /\ current' \in todo /\ todo' = todo \ {current'}
    BY <1>3 DEF Static, Decide
  <2> QED
    BY <2>1 DEF NoneForgotten
<1>4. CASE Runtime \/ \E e \in Endpoints : SurfaceFound(e) \/ SurfaceMissed(e)
  <2>1. /\ pc \in {"runtime", "surface"} /\ pc' \in {"surface", "write"}
        /\ UNCHANGED <<label, todo, current, quiet, exact>>
    BY <1>4 DEF Runtime, SurfaceFound, SurfaceMissed, Decide
  <2> QED
    BY <2>1 DEF NoneForgotten
<1>5. CASE Write
  <2>1. /\ pc = "write" /\ pc' = "next" /\ UNCHANGED <<todo, quiet>>
        /\ quiet => exact' = exact \union {current.edge}
        /\ \A v \in Vulns : v # current.edge => label'[v] = label[v]
    BY <1>5 DEF Write, TypeOK
  <2> QED
    BY <2>1 DEF NoneForgotten
<1>6. CASE Finish \/ Fail
  BY <1>6 DEF Finish, Fail, NoneForgotten
<1>7. CASE UNCHANGED vars
  BY <1>7 DEF vars, NoneForgotten
<1> QED
  BY <1>1, <1>2, <1>3, <1>4, <1>5, <1>6, <1>7 DEF Next, Run

\* A run that reaches its end over an unchanged graph has labelled every edge.
THEOREM RunsForgetNothing == Spec => RunLabelsAll
<1>1. Init => NoneForgotten
  BY DEF Init, NoneForgotten
<1>2. NoneForgotten /\ [Next]_vars =>
          [Finish /\ quiet =>
               \A v \in Vulns : label[v] # "none" => v \in exact]_vars
  BY DEF NoneForgotten, Finish
<1> QED
  BY TypeCorrect, <1>1, <1>2, NextNoneForgotten, PTL DEF Spec, RunLabelsAll
-----------------------------------------------------------------------------
(* Paths.                                                                  *)

\* Induction on natural numbers, as the provers can use it: a set of them that
\* is not empty has a least member.
LEMMA LeastNatural ==
    ASSUME NEW T \in SUBSET Nat, T # {}
    PROVE  \E m \in T : \A n \in T : m <= n
<1> DEFINE R == OpToRel(<, Nat)
<1>1. PICK m \in T : \A n \in T : ~(<<n, m>> \in R)
  <2> HIDE DEF R
  <2>1. IsWellFoundedOn(R, Nat)
    BY NatLessThanWellFounded DEF R
  <2> QED
    BY <2>1, WFMin
<1>2. \A n \in T : ~(n < m)
  BY <1>1 DEF OpToRel
<1> QED
  BY <1>2

\* Trails that are one hop longer than p, as in the definition of Trails.
Longer(g, p) ==
    {Append(p, e[2]) : e \in {c \in g :
         /\ c[1] = p[Len(p)]
         /\ \A i \in 1 .. Len(p) - 1 : EdgeAt(p, i) # c}}

\* h is the function `ofLength' of Trails.
ByLength(g, f, depth, h) ==
    h = [n \in 0 .. depth |->
            IF n = 0 THEN {<<f>>} ELSE UNION {Longer(g, p) : p \in h[n - 1]}]

LEMMA ByLengthExists ==
    ASSUME NEW g, NEW f, NEW depth \in Nat
    PROVE  \E h : ByLength(g, f, depth, h)
<1> DEFINE T == {n \in Nat : ~\E h : ByLength(g, f, n, h)}
<1> SUFFICES ASSUME T # {} PROVE FALSE
  OBVIOUS
<1>1. PICK m \in T : \A n \in T : m <= n
  BY LeastNatural
<1>2. m # 0
  <2> DEFINE h == [n \in 0 .. 0 |-> {<<f>>}]
  <2>1. ByLength(g, f, 0, h)
    BY DEF ByLength
  <2> QED
    BY <2>1
<1>3. m - 1 \in Nat /\ m - 1 \notin T
  BY <1>1, <1>2
<1>4. PICK h : ByLength(g, f, m - 1, h)
  BY <1>3
<1>5. h = [n \in 0 .. m - 1 |->
              IF n = 0 THEN {<<f>>}
              ELSE UNION {Longer(g, p) : p \in h[n - 1]}]
  BY <1>4 DEF ByLength
<1> DEFINE k == [n \in 0 .. m |->
                    IF n = 0 THEN {<<f>>}
                    ELSE UNION {Longer(g, p) : p \in h[n - 1]}]
<1>6. ASSUME NEW n \in 0 .. m, n # 0 PROVE k[n - 1] = h[n - 1]
  <2> DEFINE F(i) == IF i = 0 THEN {<<f>>}
                     ELSE UNION {Longer(g, p) : p \in h[i - 1]}
  <2>1. n - 1 \in 0 .. m /\ n - 1 \in 0 .. m - 1
    BY <1>3, <1>6
  <2>2. h = [i \in 0 .. m - 1 |-> F(i)] /\ k = [i \in 0 .. m |-> F(i)]
    BY <1>5
  <2> HIDE DEF F, k
  <2> QED
    BY <2>1, <2>2
<1>7. k = [n \in 0 .. m |->
              IF n = 0 THEN {<<f>>}
              ELSE UNION {Longer(g, p) : p \in k[n - 1]}]
  <2> HIDE DEF k
  <2>1. k = [n \in 0 .. m |->
                    IF n = 0 THEN {<<f>>}
                    ELSE UNION {Longer(g, p) : p \in h[n - 1]}]
    BY DEF k
  <2> QED
    BY <1>6, <2>1
<1> QED
  BY <1>7 DEF ByLength

LEMMA TrailsByLength ==
    ASSUME NEW g, NEW f, NEW depth \in Nat
    PROVE  \E h : /\ ByLength(g, f, depth, h)
                  /\ Trails(g, f, depth) = UNION {h[n] : n \in 0 .. depth}
<1>1. PICK h : ByLength(g, f, depth, h)
  BY ByLengthExists
<1> DEFINE c == CHOOSE k : ByLength(g, f, depth, k)
<1>2. ByLength(g, f, depth, c)
  BY <1>1
<1>3. Trails(g, f, depth) = UNION {c[n] : n \in 0 .. depth}
  BY DEF ByLength, Longer, Trails
<1> QED
  BY <1>2, <1>3

\* What a trail of the graph is, apart from how Trails finds them: a path that
\* takes no call twice.
TrailOf(g, f, p) ==
    /\ PathOf(g, f, p)
    /\ \A i, j \in 1 .. Len(p) - 1 : EdgeAt(p, i) = EdgeAt(p, j) => i = j

TrailsOf(S, g, f, n) == {p \in Seq(S) : Len(p) = n /\ TrailOf(g, f, p)}

\* One hop more.
LEMMA LongerTrail ==
    ASSUME NEW S, NEW g \in SUBSET (S \X S), NEW f \in S, NEW n \in Nat \ {0},
           NEW p \in TrailsOf(S, g, f, n), NEW q \in Longer(g, p)
    PROVE  q \in TrailsOf(S, g, f, n + 1)
<1>1. PICK e \in g : /\ q = Append(p, e[2])
                     /\ e[1] = p[Len(p)]
                     /\ \A i \in 1 .. Len(p) - 1 : EdgeAt(p, i) # e
  BY DEF Longer
<1>2. p \in Seq(S) /\ Len(p) = n /\ TrailOf(g, f, p)
  BY DEF TrailsOf
<1>3. e = <<e[1], e[2]>> /\ e[2] \in S
  BY <1>1
<1>4. /\ q \in Seq(S) /\ Len(q) = n + 1 /\ q[n + 1] = e[2]
      /\ \A i \in 1 .. n : q[i] = p[i]
  BY <1>1, <1>2, <1>3
<1>5. EdgeAt(q, n) = e
  BY <1>1, <1>2, <1>3, <1>4 DEF EdgeAt
<1>6. \A i \in 1 .. n - 1 : EdgeAt(q, i) = EdgeAt(p, i)
  BY <1>4 DEF EdgeAt
<1>7. q[1] = f
  BY <1>2, <1>4 DEF TrailOf, PathOf
<1>8. \A i \in 1 .. n : EdgeAt(q, i) \in g
  <2> TAKE i \in 1 .. n
  <2>1. CASE i = n
    BY <1>1, <1>5, <2>1
  <2>2. CASE i # n
    BY <1>2, <1>6, <2>2 DEF TrailOf, PathOf
  <2> QED
    BY <2>1, <2>2
<1>9. \A i, j \in 1 .. n : EdgeAt(q, i) = EdgeAt(q, j) => i = j
  <2>1. \A i, j \in 1 .. n - 1 : EdgeAt(q, i) = EdgeAt(q, j) => i = j
    BY <1>2, <1>6 DEF TrailOf
  <2>2. \A i \in 1 .. n - 1 : EdgeAt(q, i) # EdgeAt(q, n)
    BY <1>1, <1>2, <1>5, <1>6
  <2> QED
    BY <2>1, <2>2
<1>10. Len(q) - 1 = n
  BY <1>4
<1> QED
  BY <1>4, <1>7, <1>8, <1>9, <1>10 DEF TrailsOf, TrailOf, PathOf

\* And one hop less.
LEMMA ShorterTrail ==
    ASSUME NEW S, NEW g \in SUBSET (S \X S), NEW f \in S, NEW n \in Nat \ {0},
           NEW q \in TrailsOf(S, g, f, n + 1)
    PROVE  \E p \in TrailsOf(S, g, f, n) : q \in Longer(g, p)
<1>1. q \in Seq(S) /\ Len(q) = n + 1 /\ Len(q) - 1 = n /\ TrailOf(g, f, q)
  BY DEF TrailsOf
<1> DEFINE p == SubSeq(q, 1, n)
           e == EdgeAt(q, n)
<1>2. p \in Seq(S) /\ Len(p) = n /\ \A i \in 1 .. n : p[i] = q[i]
  BY <1>1
<1>3. q = Append(p, q[n + 1])
  <2>1. Append(p, q[n + 1]) \in Seq(S)
    BY <1>1, <1>2
  <2>2. Len(Append(p, q[n + 1])) = n + 1
    BY <1>1, <1>2
  <2>3. \A i \in 1 .. n + 1 : Append(p, q[n + 1])[i] = q[i]
    BY <1>1, <1>2
  <2> HIDE DEF p
  <2> QED
    BY <1>1, <2>1, <2>2, <2>3
<1> HIDE DEF p
<1>4. \A i \in 1 .. n - 1 : EdgeAt(p, i) = EdgeAt(q, i)
  BY <1>2 DEF EdgeAt
<1>5. e \in g /\ e[1] = p[n] /\ e[2] = q[n + 1]
  BY <1>1, <1>2 DEF EdgeAt, TrailOf, PathOf
<1>6. \A i \in 1 .. n - 1 : EdgeAt(p, i) # e
  BY <1>1, <1>4 DEF TrailOf
<1>7. q \in Longer(g, p)
  BY <1>2, <1>3, <1>5, <1>6 DEF Longer
<1>8. TrailOf(g, f, p)
  BY <1>1, <1>2, <1>4 DEF TrailOf, PathOf
<1> QED
  BY <1>2, <1>7, <1>8 DEF TrailsOf

LEMMA OneFunction ==
    ASSUME NEW S, NEW g, NEW f \in S
    PROVE  TrailsOf(S, g, f, 1) = {<<f>>}
<1>1. <<f>> \in TrailsOf(S, g, f, 1)
  BY DEF TrailsOf, TrailOf, PathOf
<1>2. ASSUME NEW p \in TrailsOf(S, g, f, 1) PROVE p = <<f>>
  <2>1. p \in Seq(S) /\ Len(p) = 1 /\ p[1] = f
    BY DEF TrailsOf, TrailOf, PathOf
  <2> QED
    BY <2>1
<1> QED
  BY <1>1, <1>2

\* The static query computes what its pattern says: the recursion finds every
\* trail of at most `depth' calls from f, and nothing else.
THEOREM TrailsAreTrails ==
    ASSUME NEW S, NEW g \in SUBSET (S \X S), NEW f \in S, NEW depth \in Nat
    PROVE  Trails(g, f, depth) =
               {p \in Seq(S) : Len(p) \in 1 .. depth + 1 /\ TrailOf(g, f, p)}
<1>1. PICK h : /\ ByLength(g, f, depth, h)
               /\ Trails(g, f, depth) = UNION {h[n] : n \in 0 .. depth}
  BY TrailsByLength
<1>2. \A n \in 0 .. depth : h[n] = TrailsOf(S, g, f, n + 1)
  <2> DEFINE T == {n \in 0 .. depth : h[n] # TrailsOf(S, g, f, n + 1)}
  <2> SUFFICES ASSUME T # {} PROVE FALSE
    OBVIOUS
  <2>0. T \in SUBSET Nat
    OBVIOUS
  <2>1. PICK m \in T : \A n \in T : m <= n
    <3> HIDE DEF T
    <3> QED
      BY <2>0, LeastNatural
  <2>2. m # 0
    <3>1. h[0] = {<<f>>}
      BY <1>1 DEF ByLength
    <3>2. h[0] = TrailsOf(S, g, f, 0 + 1)
      BY <3>1, OneFunction
    <3> QED
      BY <2>1, <3>2
  <2>3. m - 1 \in 0 .. depth /\ h[m - 1] = TrailsOf(S, g, f, m)
    BY <2>1, <2>2
  <2>4. h[m] = UNION {Longer(g, p) : p \in h[m - 1]}
    BY <1>1, <2>1, <2>2 DEF ByLength
  <2>5. m \in Nat \ {0} /\ m \in 0 .. depth
    BY <2>0, <2>1, <2>2
  <2>6. ASSUME NEW q \in h[m] PROVE q \in TrailsOf(S, g, f, m + 1)
    BY <2>3, <2>4, <2>5, LongerTrail
  <2>7. ASSUME NEW q \in TrailsOf(S, g, f, m + 1) PROVE q \in h[m]
    BY <2>3, <2>4, <2>5, ShorterTrail
  <2>8. h[m] = TrailsOf(S, g, f, m + 1)
    BY <2>6, <2>7
  <2> QED
    BY <2>1, <2>8
<1>3. ASSUME NEW p \in Trails(g, f, depth)
      PROVE  p \in Seq(S) /\ Len(p) \in 1 .. depth + 1 /\ TrailOf(g, f, p)
  <2>1. PICK n \in 0 .. depth : p \in h[n]
    BY <1>1, <1>3
  <2>2. p \in TrailsOf(S, g, f, n + 1)
    BY <1>2, <2>1
  <2> QED
    BY <2>2 DEF TrailsOf
<1>4. ASSUME NEW p \in Seq(S), Len(p) \in 1 .. depth + 1, TrailOf(g, f, p)
      PROVE  p \in Trails(g, f, depth)
  <2> DEFINE n == Len(p) - 1
  <2>1. n \in 0 .. depth /\ n + 1 = Len(p)
    BY <1>4
  <2>2. p \in h[n]
    BY <1>2, <1>4, <2>1 DEF TrailsOf
  <2> QED
    BY <1>1, <2>1, <2>2
<1> QED
  BY <1>3, <1>4

\* Taking no call twice loses no function: the shortest path to one is a trail.
THEOREM PathsHaveTrails ==
    ASSUME NEW S, NEW g \in SUBSET (S \X S), NEW f \in S, NEW depth \in Nat,
           NEW p \in Seq(S), Len(p) \in 1 .. depth + 1, PathOf(g, f, p)
    PROVE  \E q \in Trails(g, f, depth) : q[Len(q)] = p[Len(p)]
<1> DEFINE end == p[Len(p)]
           Arrives(q) == Len(q) > 0 /\ PathOf(g, f, q) /\ q[Len(q)] = end
           T == {n \in Nat : \E q \in Seq(S) : Len(q) = n /\ Arrives(q)}
<1>0. T \in SUBSET Nat
  OBVIOUS
<1>1. Len(p) \in T
  OBVIOUS
<1>2. PICK n \in T : \A m \in T : n <= m
  <2> HIDE DEF T
  <2> QED
    BY <1>0, <1>1, LeastNatural
<1>3. PICK q \in Seq(S) : Len(q) = n /\ Arrives(q)
  BY <1>2
<1>4. n \in 1 .. depth + 1 /\ n <= Len(p)
  BY <1>1, <1>2, <1>3
<1>5. ASSUME NEW i \in 1 .. n - 1, NEW j \in 1 .. n - 1, i < j,
             EdgeAt(q, i) = EdgeAt(q, j)
      PROVE  FALSE
  \* Left out, the way round from the i-th call to the j-th.
  <2> DEFINE d == j - i
             r == [k \in 1 .. n - d |-> IF k <= i THEN q[k] ELSE q[k + d]]
  <2>0. d \in 1 .. n - 2 /\ n \in Nat /\ i + d = j
    BY <1>4, <1>5
  <2>1. q \in [1 .. n -> S]
    BY <1>3
  <2>2. \A k \in 1 .. n - d : k \in 1 .. n /\ (k > i => k + d \in 1 .. n)
    BY <2>0
  <2>3. r \in [1 .. n - d -> S]
    BY <2>1, <2>2
  <2>4. n - d \in Nat /\ n - d > 0 /\ n - d < n /\ i < n - d
    BY <2>0, <1>5
  <2>5. r \in Seq(S) /\ Len(r) = n - d
    <3> HIDE DEF r, d
    <3> QED
      BY <2>3, <2>4
  <2>6. r[1] = f
    BY <1>3, <2>4 DEF PathOf
  <2>7. r[n - d] = end
    BY <1>3, <2>0, <2>4
  <2>8. \A k \in 1 .. n - d - 1 : EdgeAt(r, k) \in g
    <3> TAKE k \in 1 .. n - d - 1
    <3>0. /\ k \in 1 .. n - d /\ k + 1 \in 1 .. n - d
          /\ k \in 1 .. n - 1 /\ k + d \in 1 .. n - 1
          /\ (k + 1) + d = (k + d) + 1
      BY <2>0, <2>4
    <3>1. \A l \in 1 .. n - 1 : EdgeAt(q, l) \in g
      BY <1>3 DEF PathOf
    <3>2. CASE k < i
      <4>1. r[k] = q[k] /\ r[k + 1] = q[k + 1]
        BY <3>0, <3>2
      <4> QED
        BY <3>0, <3>1, <4>1 DEF EdgeAt
    <3>3. CASE k = i
      <4>1. r[k] = q[i] /\ r[k + 1] = q[j + 1]
        BY <2>0, <3>0, <3>3
      <4>2. q[j + 1] = q[i + 1]
        BY <1>5 DEF EdgeAt
      <4> QED
        BY <3>0, <3>1, <3>3, <4>1, <4>2 DEF EdgeAt
    <3>4. CASE k > i
      <4>1. r[k] = q[k + d] /\ r[k + 1] = q[(k + d) + 1]
        BY <3>0, <3>4
      <4> QED
        BY <3>0, <3>1, <4>1 DEF EdgeAt
    <3> QED
      BY <3>2, <3>3, <3>4
  <2> HIDE DEF r, d
  <2>9. PathOf(g, f, r) /\ r[Len(r)] = end /\ Len(r) > 0
    BY <2>4, <2>5, <2>6, <2>7, <2>8 DEF PathOf
  <2>10. n - d \in T
    BY <2>4, <2>5, <2>9
  <2> QED
    BY <1>2, <2>4, <2>10
<1>6. TrailOf(g, f, q)
  <2>1. ASSUME NEW i \in 1 .. Len(q) - 1, NEW j \in 1 .. Len(q) - 1,
               EdgeAt(q, i) = EdgeAt(q, j)
        PROVE  i = j
    <3>1. i \in 1 .. n - 1 /\ j \in 1 .. n - 1
      BY <1>3
    <3>2. ~(i < j) /\ ~(j < i)
      BY <1>5, <2>1, <3>1
    <3> QED
      BY <3>1, <3>2
  <2> QED
    BY <1>3, <2>1 DEF TrailOf
<1>7. q \in Trails(g, f, depth)
  BY <1>3, <1>4, <1>6, TrailsAreTrails
<1> QED
  BY <1>3, <1>7

\* A path stays a path when the graph grows.
LEMMA TrailsGrow ==
    ASSUME NEW g, NEW g2, g \subseteq g2, NEW f, NEW depth \in Nat
    PROVE  Trails(g, f, depth) \subseteq Trails(g2, f, depth)
<1>1. PICK h : /\ ByLength(g, f, depth, h)
               /\ Trails(g, f, depth) = UNION {h[n] : n \in 0 .. depth}
  BY TrailsByLength
<1>2. PICK k : /\ ByLength(g2, f, depth, k)
               /\ Trails(g2, f, depth) = UNION {k[n] : n \in 0 .. depth}
  BY TrailsByLength
<1>3. \A n \in 0 .. depth : h[n] \subseteq k[n]
  <2> DEFINE T == {n \in 0 .. depth : ~(h[n] \subseteq k[n])}
  <2> SUFFICES ASSUME T # {} PROVE FALSE
    OBVIOUS
  <2>0. T \in SUBSET Nat
    OBVIOUS
  <2>1. PICK m \in T : \A n \in T : m <= n
    <3> HIDE DEF T
    <3> QED
      BY <2>0, LeastNatural
  <2>2. m # 0
    BY <1>1, <1>2, <2>1 DEF ByLength
  <2>3. m - 1 \in 0 .. depth /\ h[m - 1] \subseteq k[m - 1]
    BY <2>1, <2>2
  <2>4. \A p : Longer(g, p) \subseteq Longer(g2, p)
    BY DEF Longer
  <2>5. /\ h[m] = UNION {Longer(g, p) : p \in h[m - 1]}
        /\ k[m] = UNION {Longer(g2, p) : p \in k[m - 1]}
    BY <1>1, <1>2, <2>1, <2>2 DEF ByLength
  <2>6. h[m] \subseteq k[m]
    BY <2>3, <2>4, <2>5
  <2> QED
    BY <2>1, <2>6
<1> QED
  BY <1>1, <1>2, <1>3
LEMMA RowsGrow ==
    ASSUME NEW g, NEW g2, g \subseteq g2,
           NEW hs, NEW hs2, hs \subseteq hs2,
           NEW names, NEW names2, names \subseteq names2
    PROVE  AllRows(g, hs, names) \subseteq AllRows(g2, hs2, names2)
<1>1. \A f : PathsFrom(g, f) \subseteq PathsFrom(g2, f)
  BY TrailsGrow, BoundsAssumption DEF PathsFrom
<1> QED
  BY <1>1 DEF AllRows

-----------------------------------------------------------------------------
(* The grounds of labels.                                                  *)

\* What LabelsGrounded says of a label of one edge.
Grounded(v, l) ==
    /\ l \in {"LOW", "HIGH", "CRITICAL"} => AdvisedRows(v) # {}
    /\ l = "CRITICAL" => EndpointsOf(AdvisedRows(v)) \intersect exposed # {}

\* What a run carries from one query to the next was found in the graph as it
\* was then; the calls and the exposed endpoints of that graph are still there.
GroundedRun ==
    /\ \A v \in Vulns : named[v] \subseteq UNION Advisories[v]
    /\ \A item \in todo : item.names \subseteq UNION Advisories[item.edge]
    /\ pc \in {"runtime", "surface"} =>
           rows # {} /\ rows \subseteq AdvisedRows(current.edge)
    /\ pc = "surface" => unchecked \subseteq EndpointsOf(rows)
    /\ pc = "write" => Grounded(current.edge, result)

GroundedInv ==
    /\ TypeOK
    /\ GroundedRun
    /\ \A v \in Vulns : Grounded(v, label[v])

LEMMA InitGroundedInv == Init => GroundedInv
<1> SUFFICES ASSUME Init PROVE GroundedInv
  OBVIOUS
<1>1. \A v \in Vulns : label[v] = "none" /\ named[v] = {}
  BY DEF Init
<1>2. todo = {} /\ pc = "idle"
  BY DEF Init
<1> QED
  BY <1>1, <1>2, InitTypeOK DEF GroundedInv, GroundedRun, Grounded

\* No step takes a call or the exposure of an endpoint back.
LEMMA GraphGrows ==
    [Next]_vars => /\ calls \subseteq calls' /\ handled \subseteq handled'
                   /\ exposed \subseteq exposed'
BY DEF Next, vars, graphVars, runVars, Surroundings, AddCall, AddHandler, Observe,
       Forget,
       Expose, Link, Revise, Start, Run, Static, Runtime, SurfaceFound,
       SurfaceMissed, Write, Finish, Fail

\* So what a label claims stays true once it was.
LEMMA GroundsStay ==
    ASSUME [Next]_vars, NEW v
    PROVE  /\ AdvisedRows(v) \subseteq AdvisedRows(v)'
           /\ \A l : Grounded(v, l) => Grounded(v, l)'
<1>1. /\ calls \subseteq calls' /\ handled \subseteq handled'
      /\ exposed \subseteq exposed'
  BY GraphGrows
<1>2. AdvisedRows(v) \subseteq AdvisedRows(v)'
  BY <1>1, RowsGrow DEF AdvisedRows
<1>3. EndpointsOf(AdvisedRows(v)) \subseteq EndpointsOf(AdvisedRows(v)')
  BY <1>2, SubsetOfRows
<1> QED
  BY <1>1, <1>2, <1>3 DEF Grounded

LEMMA NextGroundedInv == GroundedInv /\ [Next]_vars => GroundedInv'
<1> SUFFICES ASSUME GroundedInv, [Next]_vars PROVE GroundedInv'
  OBVIOUS
<1>t. TypeOK /\ TypeOK'
  BY NextTypeOK DEF GroundedInv
<1>g. /\ \A v : AdvisedRows(v) \subseteq AdvisedRows(v)'
      /\ \A v, l : Grounded(v, l) => Grounded(v, l)'
  BY GroundsStay
<1> USE DEF graphVars, runVars
\* Steps that leave what the run carries, and the labels, as they were.
<1>s. ASSUME UNCHANGED <<runVars, label>>,
             \A v \in Vulns : named'[v] \subseteq UNION Advisories[v]
      PROVE  GroundedInv'
  BY <1>s, <1>t, <1>g DEF GroundedInv, GroundedRun
\* Steps of the run that leave the labels and the advisories as they were.
<1>r. ASSUME UNCHANGED <<named, label>>, GroundedRun' PROVE GroundedInv'
  BY <1>r, <1>t, <1>g DEF GroundedInv
<1>1. ASSUME NEW c \in CodeCalls, AddCall(c) PROVE GroundedInv'
  BY <1>1, <1>s DEF AddCall, GroundedInv, GroundedRun
<1>h. ASSUME NEW h \in CodeHandlers, AddHandler(h) PROVE GroundedInv'
  BY <1>h, <1>s DEF AddHandler, GroundedInv, GroundedRun
<1>2. ASSUME NEW f \in Functions, Observe(f) \/ Forget(f) PROVE GroundedInv'
  BY <1>2, <1>s DEF Observe, Forget, GroundedInv, GroundedRun
<1>3. ASSUME NEW e \in Endpoints, Expose(e) PROVE GroundedInv'
  BY <1>3, <1>s DEF Expose, GroundedInv, GroundedRun
<1>4. ASSUME NEW v \in Vulns, NEW names \in Advisories[v],
             Link(v, names) \/ Revise(v, names)
      PROVE  GroundedInv'
  <2>1. \A u \in Vulns : named'[u] \subseteq UNION Advisories[u]
    BY <1>4, <1>t DEF Link, Revise, GroundedInv, GroundedRun, TypeOK
  <2>2. \A u \in Vulns : label'[u] = label[u] \/ label'[u] = "UNKNOWN"
    BY <1>4, <1>t DEF Link, Revise, TypeOK
  <2>3. \A u \in Vulns : Grounded(u, label[u])'
    BY <1>g, <2>2 DEF GroundedInv, Grounded
  <2>4. UNCHANGED runVars
    BY <1>4 DEF Link, Revise
  <2> QED
    BY <1>t, <1>g, <2>1, <2>3, <2>4 DEF GroundedInv, GroundedRun
<1>5. CASE Start
  <2>1. \A item \in todo' : item.names \subseteq UNION Advisories[item.edge]
    BY <1>5 DEF Start, GroundedInv, GroundedRun
  <2> QED
    BY <1>5, <1>r, <2>1 DEF Start, GroundedInv, GroundedRun
<1>6. CASE Static
  <2> PICK item \in todo :
        /\ current' = item
        /\ todo' = todo \ {item}
        /\ \E found \in StaticResults(calls, handled, item.names) :
              IF found = {}
              THEN Decide("NOT_REACHABLE")
              ELSE /\ rows' = found
                   /\ pc' = "runtime"
                   /\ UNCHANGED <<unchecked, result>>
    BY <1>6 DEF Static
  <2> PICK found \in StaticResults(calls, handled, item.names) :
        IF found = {}
        THEN Decide("NOT_REACHABLE")
        ELSE /\ rows' = found
             /\ pc' = "runtime"
             /\ UNCHANGED <<unchecked, result>>
    OBVIOUS
  <2>1. UNCHANGED <<graphVars, label>>
    BY <1>6 DEF Static
  <2>2. found \subseteq AdvisedRows(item.edge)
    <3>1. item.names \subseteq UNION Advisories[item.edge]
      BY DEF GroundedInv, GroundedRun
    <3> QED
      BY <3>1, StaticResultsRows, RowsGrow DEF AdvisedRows
  <2>3. CASE found = {}
    BY <1>r, <2>1, <2>3 DEF GroundedInv, GroundedRun, Grounded, Decide
  <2>4. CASE found # {}
    BY <1>g, <1>r, <2>1, <2>2, <2>4 DEF GroundedInv, GroundedRun
  <2> QED
    BY <2>3, <2>4
<1>7. CASE Runtime
  <2>1. /\ UNCHANGED <<graphVars, label, todo, current>> /\ pc = "runtime"
        /\ rows # {} /\ rows \subseteq AdvisedRows(current.edge)
    BY <1>7 DEF Runtime, GroundedInv, GroundedRun
  <2>2. CASE NodesOf(rows) \intersect observed = {}
    <3>1. Grounded(current.edge, "LOW")'
      BY <1>g, <2>1 DEF Grounded
    <3> QED
      BY <1>7, <1>r, <2>1, <2>2, <3>1
         DEF Runtime, GroundedInv, GroundedRun, Decide
  <2>3. CASE NodesOf(rows) \intersect observed # {}
    BY <1>7, <1>g, <1>r, <2>1, <2>3 DEF Runtime, GroundedInv, GroundedRun
  <2> QED
    BY <2>2, <2>3
<1>8. ASSUME NEW e \in Endpoints, SurfaceFound(e) PROVE GroundedInv'
  <2>1. /\ UNCHANGED <<graphVars, label, todo, current>>
        /\ rows # {} /\ rows \subseteq AdvisedRows(current.edge)
        /\ e \in EndpointsOf(rows) /\ e \in exposed
    BY <1>8 DEF SurfaceFound, GroundedInv, GroundedRun
  <2>2. e \in EndpointsOf(AdvisedRows(current.edge))
    BY <2>1, SubsetOfRows
  <2>3. Grounded(current.edge, "CRITICAL")
    BY <2>1, <2>2 DEF Grounded
  <2> QED
    BY <1>8, <1>g, <1>r, <2>1, <2>3
       DEF SurfaceFound, GroundedInv, GroundedRun, Decide
<1>9. ASSUME NEW e \in Endpoints, SurfaceMissed(e) PROVE GroundedInv'
  <2>1. /\ UNCHANGED <<graphVars, label, todo, current>> /\ pc = "surface"
        /\ rows # {} /\ rows \subseteq AdvisedRows(current.edge)
        /\ unchecked \subseteq EndpointsOf(rows)
    BY <1>9 DEF SurfaceMissed, GroundedInv, GroundedRun
  <2>2. CASE unchecked = {e}
    <3>1. Grounded(current.edge, "HIGH")
      BY <2>1 DEF Grounded
    <3> QED
      BY <1>9, <1>g, <1>r, <2>1, <2>2, <3>1
         DEF SurfaceMissed, GroundedInv, GroundedRun, Decide
  <2>3. CASE unchecked # {e}
    BY <1>9, <1>g, <1>r, <2>1, <2>3 DEF SurfaceMissed, GroundedInv, GroundedRun
  <2> QED
    BY <2>2, <2>3
<1>10. CASE Write
  <2>1. /\ UNCHANGED <<graphVars, todo>> /\ pc = "write" /\ pc' = "next"
        /\ label' = [label EXCEPT ![current.edge] = result]
    BY <1>10 DEF Write
  <2>2. \A v \in Vulns : Grounded(v, label'[v])
    <3> TAKE v \in Vulns
    <3>1. CASE v = current.edge
      BY <1>t, <2>1, <3>1 DEF TypeOK, GroundedInv, GroundedRun
    <3>2. CASE v # current.edge
      BY <1>t, <2>1, <3>2 DEF TypeOK, GroundedInv
    <3> QED
      BY <3>1, <3>2
  <2>3. GroundedRun'
    BY <2>1 DEF GroundedInv, GroundedRun
  <2>4. \A v \in Vulns : Grounded(v, label[v])'
    BY <1>g, <2>2 DEF Grounded
  <2> QED
    BY <1>t, <2>3, <2>4 DEF GroundedInv
<1>11. CASE Finish \/ Fail
  BY <1>11, <1>r DEF Finish, Fail, GroundedInv, GroundedRun
<1>12. CASE UNCHANGED vars
  BY <1>12, <1>s DEF vars, GroundedInv, GroundedRun
<1> QED
  BY <1>1, <1>h, <1>2, <1>3, <1>4, <1>5, <1>6, <1>7, <1>8, <1>9, <1>10,
     <1>11, <1>12
     DEF Next, Surroundings, Run

\* Whatever the ingesters change between the questions of a run, a label that
\* claims a path has one to a function an advisory of the edge has named, and
\* CRITICAL has one from an exposed endpoint.
THEOREM LabelsHaveGrounds == Spec => []LabelsGrounded
<1>1. GroundedInv => LabelsGrounded
  BY DEF GroundedInv, Grounded, LabelsGrounded
<1> QED
  BY InitGroundedInv, NextGroundedInv, <1>1, PTL DEF Spec

-----------------------------------------------------------------------------
(* What labels say of the code.                                            *)

\* An entry of the service whose handler gets to a function with one of these
\* names in at most Depth calls.
Reaches(g, hs, names) ==
    \E h \in hs, p \in Seq(Functions) :
        /\ Len(p) \in 1 .. Depth + 1
        /\ PathOf(g, h[2], p)
        /\ NameOf[p[Len(p)]] \in names

\* The query has a row exactly then.
LEMMA RowsAreReached ==
    ASSUME NEW g \in SUBSET (Functions \X Functions),
           NEW hs \in SUBSET CodeHandlers, NEW names
    PROVE  AllRows(g, hs, names) # {} <=> Reaches(g, hs, names)
<1>1. \A h \in hs : h[2] \in Functions
  BY FunctionsAssumption
<1>2. Depth \in Nat
  BY BoundsAssumption
<1>3. ASSUME NEW r \in AllRows(g, hs, names) PROVE Reaches(g, hs, names)
  <2>1. PICK h \in hs :
            \E p \in PathsFrom(g, h[2]) : NameOf[p[Len(p)]] \in names
    BY <1>3 DEF AllRows
  <2>2. PICK p \in PathsFrom(g, h[2]) : NameOf[p[Len(p)]] \in names
    BY <2>1
  <2>3. p \in Trails(g, h[2], Depth) /\ h[2] \in Functions
    BY <1>1, <2>2 DEF PathsFrom
  <2>4. /\ p \in Seq(Functions) /\ Len(p) \in 1 .. Depth + 1
        /\ TrailOf(g, h[2], p)
    BY <1>2, <2>3, TrailsAreTrails
  <2> QED
    BY <2>2, <2>4 DEF Reaches, TrailOf
<1>4. ASSUME Reaches(g, hs, names) PROVE AllRows(g, hs, names) # {}
  <2>1. PICK h \in hs, p \in Seq(Functions) :
            /\ Len(p) \in 1 .. Depth + 1
            /\ PathOf(g, h[2], p)
            /\ NameOf[p[Len(p)]] \in names
    BY <1>4 DEF Reaches
  <2>2. PICK q \in Trails(g, h[2], Depth) : q[Len(q)] = p[Len(p)]
    BY <1>1, <1>2, <2>1, PathsHaveTrails
  <2>3. [endpoint |-> h[1], path |-> q] \in AllRows(g, hs, names)
    BY <2>1, <2>2 DEF AllRows, PathsFrom
  <2> QED
    BY <2>3
<1> QED
  BY <1>3, <1>4

LEMMA CallsAreOfFunctions ==
    TypeOK => /\ calls \in SUBSET (Functions \X Functions)
              /\ handled \in SUBSET CodeHandlers
BY FunctionsAssumption DEF TypeOK

\* Over a graph that stayed as it was, NOT_REACHABLE is written exactly where
\* no chain of at most Depth calls, whatever calls it takes twice, leads from
\* a handler of the service to a function the advisory names: neither the
\* trails of the query nor its LIMIT hide one.
THEOREM NotReachableIsSound ==
    Spec => [](\A v \in exact :
                   label[v] = "NOT_REACHABLE" <=>
                       ~Reaches(calls, handled, named[v]))
<1>1. ASSUME ExactInv, NEW v \in exact
      PROVE  label[v] = "NOT_REACHABLE" <=> ~Reaches(calls, handled, named[v])
  <2>1. Right(calls, handled, observed, exposed, named[v], label[v])
    BY <1>1 DEF ExactInv
  <2>2. AllRows(calls, handled, named[v]) # {} <=>
            Reaches(calls, handled, named[v])
    BY <1>1, CallsAreOfFunctions, RowsAreReached DEF ExactInv
  <2>3. ASSUME AllRows(calls, handled, named[v]) = {}
        PROVE  label[v] = "NOT_REACHABLE"
    <3>1. Within(calls, handled, named[v])
      BY <2>3, FS_EmptySet, BoundsAssumption DEF Within
    <3> QED
      BY <2>1, <2>3, <3>1, LabelCases DEF Right
  <2> QED
    BY <2>1, <2>2, <2>3 DEF Right
<1>2. ExactInv => \A v \in exact :
          label[v] = "NOT_REACHABLE" <=> ~Reaches(calls, handled, named[v])
  BY <1>1
<1> QED
  BY InitExactInv, NextExactInv, <1>2, PTL DEF Spec

\* In terms of the query: it has no row, limited or not.
LEMMA NotReachableHasNoRow ==
    Spec => [](\A v \in exact :
                   label[v] = "NOT_REACHABLE" =>
                       AllRows(calls, handled, named[v]) = {})
<1>1. ExactInv => \A v \in exact :
          label[v] = "NOT_REACHABLE" => AllRows(calls, handled, named[v]) = {}
  BY DEF ExactInv, Right
<1> QED
  BY InitExactInv, NextExactInv, <1>1, PTL DEF Spec

\* Whatever changes under a run, an edge labelled LOW or above has such a chain
\* of calls, to a function some state of the advisory has named.
THEOREM ClaimsAreReached ==
    Spec => [](\A v \in Vulns :
                   label[v] \in {"LOW", "HIGH", "CRITICAL"} =>
                       Reaches(calls, handled, UNION Advisories[v]))
<1>1. ASSUME GroundedInv, NEW v \in Vulns,
             label[v] \in {"LOW", "HIGH", "CRITICAL"}
      PROVE  Reaches(calls, handled, UNION Advisories[v])
  <2>1. AdvisedRows(v) # {}
    BY <1>1 DEF GroundedInv, Grounded
  <2>2. /\ calls \in SUBSET (Functions \X Functions)
        /\ handled \in SUBSET CodeHandlers
    BY <1>1, CallsAreOfFunctions DEF GroundedInv
  <2> QED
    BY <2>1, <2>2, RowsAreReached DEF AdvisedRows
<1>2. GroundedInv => \A v \in Vulns :
          label[v] \in {"LOW", "HIGH", "CRITICAL"} =>
              Reaches(calls, handled, UNION Advisories[v])
  BY <1>1
<1> QED
  BY InitGroundedInv, NextGroundedInv, <1>2, PTL DEF Spec
=============================================================================
