---------------------------- MODULE PiiFlowProofs ----------------------------
(***************************************************************************)
(* Layer 4 for every source, graph and number of runs: types, no flow with *)
(* both marks, no flow that loses its flag unnoticed, and what the scope   *)
(* and the marks of endpoints owe to the evidence.                         *)
(***************************************************************************)
EXTENDS PiiFlow, TLAPS

\* What a run has read of the scope stays true: a scope is never taken back.
ScopeKnown ==
    /\ regulated # {} => scope # {}
    /\ \A t \in Taints : asked[t] => scope # {}

IInv == TypeOK /\ ScopeKnown /\ NeverBoth /\ FlowsStayFlagged

LEMMA CombinedNonEmpty ==
    ASSUME NEW ann \in SUBSET AllScopes, NEW pii \in SUBSET Scopes
    PROVE  Combined(ann, pii) # {} /\ Combined(ann, pii) \subseteq AllScopes
BY ScopesAssumption DEF Combined, AllScopes

LEMMA InitIInv == Init => IInv
<1> SUFFICES ASSUME Init PROVE IInv
  OBVIOUS
<1>1. TypeOK
  BY RunsAssumption DEF Init, TypeOK, NoPair, NoDecl, AllScopes, Watched
<1> QED
  BY <1>1 DEF Init, IInv, ScopeKnown, NeverBoth, FlowsStayFlagged

-----------------------------------------------------------------------------
(* Type correctness, action by action.                                     *)

LEMMA SurroundingsType ==
    ASSUME TypeOK,
           Edit \/ \E e \in Endpoints, f \in Functions : AddPath(e, f)
    PROVE  TypeOK'
<1> USE RunsAssumption DEF TypeOK, fieldVars, scopeVars, flowVars, scanVars,
        runVars, annVars, taintVars, graphVars, Disturbs
<1>1. CASE Edit
  BY <1>1 DEF Edit, Event
<1>2. ASSUME NEW e \in Endpoints, NEW f \in Functions, AddPath(e, f)
      PROVE  TypeOK'
  BY <1>2 DEF AddPath
<1> QED
  BY <1>1, <1>2

LEMMA VerdictType ==
    ASSUME NEW d \in Decls, NEW v \in Verdicts(d)
    PROVE  v \in Types \union {NoType}
<1>1. /\ NameType[NameOf[d]] \in Types \union {NoType}
      /\ ContextType[d] \in Types \union {NoType}
  BY FieldsAssumption
<1> QED
  BY <1>1 DEF Verdicts, TypeOfName, TypesByContext

LEMMA ScanType == ASSUME TypeOK, Scan PROVE TypeOK'
<1> USE RunsAssumption DEF TypeOK, treeVars, sourceVars, fieldVars, scopeVars,
        flowVars, runVars, annVars, taintVars, graphVars, Begins, Ends
<1>1. CASE ScanStart
  BY <1>1 DEF ScanStart, Event, Watched, scanVars
<1>2. CASE ScanFile
  BY <1>2 DEF ScanFile, FieldsOf, scanVars
<1>3. CASE UpsertField
  <2>0. PICK d \in found : /\ found' = found \ {d} /\ current' = d
                          /\ \E v \in Verdicts(d) :
            /\ field' = [field EXCEPT ![NameOf[d]] = v]
            /\ lapsed' \in {lapsed, lapsed \union {NameOf[d]}}
            /\ steady' = steady \/ Unsettles(NameOf[d])
    BY <1>3 DEF UpsertField
  <2>1. PICK v \in Verdicts(d) :
            /\ field' = [field EXCEPT ![NameOf[d]] = v]
            /\ lapsed' \in {lapsed, lapsed \union {NameOf[d]}}
            /\ steady' = steady \/ Unsettles(NameOf[d])
    BY <2>0
  <2>2. d \in Decls /\ NameOf[d] \in Names
    BY FieldsAssumption
  <2>3. v \in Types \union {NoType}
    BY <2>1, <2>2, VerdictType
  <2>4. field' \in [Names -> Types \union {NoType, "absent"}]
    BY <2>1, <2>2, <2>3
  <2>5. lapsed' \subseteq Names
    BY <2>1, <2>2
  <2>6. steady' \in [Annotators -> SUBSET Names]
    BY <2>1 DEF Unsettles
  <2> QED
    BY <1>3, <2>0, <2>2, <2>4, <2>5, <2>6 DEF UpsertField
<1>4. CASE LinkWriter
  <2>1. writes' \subseteq Functions \X Names
    BY <1>4, FieldsAssumption DEF LinkWriter, NoDecl
  <2>2. steady' \in [Annotators -> SUBSET Names]
    BY <1>4 DEF LinkWriter, Unsettles
  <2> QED
    BY <1>4, <2>1, <2>2 DEF LinkWriter
<1>5. CASE MarkExposed
  <2>1. marks' \subseteq Endpoints \X {"pii", "pci", "hipaa"}
    BY <1>5 DEF MarkExposed, EndpointsOf
  <2> QED
    BY <1>5, <2>1 DEF MarkExposed, Watched
<1>6. CASE ScanFails
  BY <1>6 DEF ScanFails
<1> QED
  BY <1>1, <1>2, <1>3, <1>4, <1>5, <1>6 DEF Scan

LEMMA AnnotateType ==
    ASSUME TypeOK, NEW a \in Annotators, Annotate(a) PROVE TypeOK'
<1> USE RunsAssumption DEF TypeOK, treeVars, sourceVars, fieldVars, scopeVars,
        flowVars, scanVars, taintVars, graphVars, Begins, Ends, Returns
<1>1. CASE AnnotateStart(a)
  <2>1. /\ annPc' \in [Annotators -> {"idle", "derive", "write", "pci",
                                        "hipaa"}]
        /\ annScopes' \in [Annotators -> SUBSET AllScopes]
    BY <1>1 DEF AnnotateStart, Annotations
  <2>2. /\ quiet' \subseteq Watched /\ fresh' \subseteq Watched
        /\ steady' \in [Annotators -> SUBSET Names]
    BY <1>1 DEF AnnotateStart, Watched
  <2>3. events' \in Nat
    BY <1>1 DEF AnnotateStart, Event
  <2> QED
    BY <1>1, <2>1, <2>2, <2>3 DEF AnnotateStart
<1>2. CASE DeriveScopes(a)
  <2>1. ImpliedScopes \subseteq Scopes
    BY ScopesAssumption DEF ImpliedScopes
  <2> QED
    BY <1>2, <2>1 DEF DeriveScopes
<1>3. CASE WriteScope(a)
  <2>1. scope' \subseteq AllScopes
    BY <1>3, CombinedNonEmpty DEF WriteScope
  <2>2. confidence' \in {"none", "LOW", "MEDIUM", "HIGH"}
    BY <1>3 DEF WriteScope, Confidence
  <2>3. /\ quiet' \subseteq Watched /\ fresh' \subseteq Watched
        /\ steady' \in [Annotators -> SUBSET Names]
    BY <1>3 DEF WriteScope, Disturbs
  <2> QED
    BY <1>3, <2>1, <2>2, <2>3 DEF WriteScope
<1>4. CASE MarkPci(a)
  <2>1. marks' \subseteq Endpoints \X {"pii", "pci", "hipaa"}
    BY <1>4 DEF MarkPci, EndpointsOf
  <2> QED
    BY <1>4, <2>1 DEF MarkPci
<1>6. CASE MarkHipaa(a)
  <2>1. marks' \subseteq Endpoints \X {"pii", "pci", "hipaa"}
    BY <1>6 DEF MarkHipaa, EndpointsOf
  <2> QED
    BY <1>6, <2>1 DEF MarkHipaa, Watched
<1>5. CASE AnnotateFails(a)
  BY <1>5 DEF AnnotateFails
<1> QED
  BY <1>1, <1>2, <1>3, <1>4, <1>5, <1>6 DEF Annotate

LEMMA TaintType == ASSUME TypeOK, NEW t \in Taints, Taint(t) PROVE TypeOK'
<1> USE RunsAssumption, TaintAssumption DEF TypeOK, treeVars, sourceVars,
        fieldVars, scopeVars, flowVars, scanVars, runVars, annVars, graphVars
<1>1. CASE TaintStart(t)
  BY <1>1 DEF TaintStart, CodeqlAnswers, Event
<1>2. CASE GraphWalk(t)
  <2>1. PICK rows \in SUBSET FlowRows :
            todo' = [todo EXCEPT ![t] = {<<r[1], r[1]>> : r \in rows}]
    BY <1>2 DEF GraphWalk
  <2>2. {<<r[1], r[1]>> : r \in rows} \subseteq Names \X Names
    BY <2>1 DEF FlowRows
  <2> QED
    BY <1>2, <2>1, <2>2 DEF GraphWalk
<1>3. CASE AskScope(t)
  <2>1. PICK p \in todo[t] : pair' = [pair EXCEPT ![t] = p]
    BY <1>3 DEF AskScope
  <2>2. p \in Names \X Names
    BY <2>1
  <2>3. ServiceIsRegulated \in BOOLEAN
    BY DEF ServiceIsRegulated
  <2>4. pair' \in [Taints -> (Names \X Names) \union {NoPair}]
    BY <2>1, <2>2
  <2>5. asked' \in [Taints -> BOOLEAN]
    BY <1>3, <2>3 DEF AskScope
  <2> QED
    BY <1>3, <2>4, <2>5 DEF AskScope
<1>4. CASE UpsertFlow(t)
  <2>0. todo' \in [Taints -> SUBSET (Names \X Names)]
    BY <1>4 DEF UpsertFlow
  <2>1. CASE pair[t] \in Fields \X Fields
    <3>1. pair[t] \in Names \X Names /\ pair[t][1] \in Names
      BY <2>1 DEF Fields
    <3>2. /\ flows' \subseteq Names \X Names
          /\ regulated' \subseteq flows'
          /\ unregulated' \subseteq flows'
      BY <1>4, <2>1, <3>1 DEF UpsertFlow
    <3>3. touched' \in [Taints -> SUBSET Names]
      BY <1>4, <2>1, <3>1 DEF UpsertFlow
    <3> QED
      BY <1>4, <2>0, <3>2, <3>3 DEF UpsertFlow
  <2>2. CASE pair[t] \notin Fields \X Fields
    BY <1>4, <2>0, <2>2 DEF UpsertFlow
  <2> QED
    BY <2>1, <2>2
<1>5. CASE FlagUnregulated(t)
  BY <1>5 DEF FlagUnregulated, Flagged
<1>6. CASE TaintFails(t)
  BY <1>6 DEF TaintFails
<1> QED
  BY <1>1, <1>2, <1>3, <1>4, <1>5, <1>6 DEF Taint

LEMMA NextType == TypeOK /\ [Next]_vars => TypeOK'
<1> SUFFICES ASSUME TypeOK, [Next]_vars PROVE TypeOK'
  OBVIOUS
<1>1. CASE UNCHANGED vars
  BY <1>1 DEF TypeOK, vars, treeVars, sourceVars, fieldVars, scopeVars,
     flowVars, scanVars, runVars, annVars, taintVars, graphVars
<1> QED
  BY <1>1, SurroundingsType, ScanType, AnnotateType, TaintType DEF Next

\* Every variable keeps its type; in particular only edges carry marks.
THEOREM TypeCorrect == Spec => []TypeOK
<1>1. Init => TypeOK
  BY InitIInv DEF IInv
<1> QED
  BY <1>1, NextType, PTL DEF Spec

-----------------------------------------------------------------------------
(* What the steps do to the flows.                                         *)

\* A scope that has been written is followed by a scope.
LEMMA ScopeStays ==
    ASSUME TypeOK, [Next]_vars, scope # {} PROVE scope' # {}
<1> USE DEF treeVars, sourceVars, fieldVars, scopeVars, flowVars, scanVars,
        annVars, taintVars, graphVars
<1>1. CASE Edit \/ \E e \in Endpoints, f \in Functions : AddPath(e, f)
  BY <1>1 DEF Edit, AddPath
<1>2. CASE Scan
  BY <1>2 DEF Scan, ScanStart, ScanFile, UpsertField, LinkWriter, MarkExposed,
     ScanFails
<1>3. ASSUME NEW a \in Annotators, Annotate(a) PROVE scope' # {}
  <2>1. CASE WriteScope(a)
    BY <2>1, CombinedNonEmpty DEF WriteScope, TypeOK
  <2> QED
    BY <1>3, <2>1 DEF Annotate, AnnotateStart, DeriveScopes, MarkPci,
       MarkHipaa, AnnotateFails
<1>4. ASSUME NEW t \in Taints, Taint(t) PROVE scope' # {}
  BY <1>4 DEF Taint, TaintStart, GraphWalk, AskScope, UpsertFlow,
     FlagUnregulated, TaintFails
<1> QED
  BY <1>1, <1>2, <1>3, <1>4 DEF Next, vars

\* Only the taint tracker touches flows.
LEMMA FlowsAreTaints ==
    ASSUME [Next]_vars, ~ \E t \in Taints : Taint(t)
    PROVE  UNCHANGED <<flowVars, taintVars>>
<1> USE DEF graphVars
<1>1. CASE Edit \/ \E e \in Endpoints, f \in Functions : AddPath(e, f)
  BY <1>1 DEF Edit, AddPath
<1>2. CASE Scan
  BY <1>2 DEF Scan, ScanStart, ScanFile, UpsertField, LinkWriter, MarkExposed,
     ScanFails
<1>3. ASSUME NEW a \in Annotators, Annotate(a)
      PROVE  UNCHANGED <<flowVars, taintVars>>
  BY <1>3 DEF Annotate, AnnotateStart, DeriveScopes, WriteScope,
     MarkPci, MarkHipaa, AnnotateFails
<1> QED
  BY <1>1, <1>2, <1>3 DEF Next, vars

LEMMA NextMarks ==
    IInv /\ [Next]_vars => ScopeKnown' /\ NeverBoth'
<1> SUFFICES ASSUME IInv, [Next]_vars PROVE ScopeKnown' /\ NeverBoth'
  OBVIOUS
<1>1. scope # {} => scope' # {}
  BY ScopeStays DEF IInv
<1>2. TypeOK /\ TypeOK'
  BY NextType DEF IInv
<1> USE <1>1 DEF IInv, ScopeKnown, NeverBoth
<1>3. CASE ~ \E t \in Taints : Taint(t)
  BY <1>3, FlowsAreTaints DEF flowVars, taintVars
<1>4. ASSUME NEW t \in Taints, Taint(t) PROVE ScopeKnown' /\ NeverBoth'
  <2> USE DEF scopeVars, flowVars, graphVars
  <2>1. CASE TaintStart(t) \/ GraphWalk(t)
    BY <2>1 DEF TaintStart, GraphWalk
  <2>2. CASE AskScope(t)
    BY <2>2, <1>2 DEF AskScope, ServiceIsRegulated, TypeOK
  <2>3. CASE UpsertFlow(t)
    <3>1. ~asked'[t] /\ \A s \in Taints \ {t} : asked'[s] = asked[s]
      BY <2>3, <1>2 DEF UpsertFlow, TypeOK
    <3>2. regulated' # {} => regulated # {} \/ asked[t]
      BY <2>3 DEF UpsertFlow
    <3>3. regulated' \intersect unregulated' = {}
      BY <2>3 DEF UpsertFlow
    <3> QED
      BY <3>1, <3>2, <3>3
  <2>4. CASE FlagUnregulated(t)
    BY <2>4 DEF FlagUnregulated, Flagged
  <2>5. CASE TaintFails(t)
    BY <2>5, <1>2 DEF TaintFails, TypeOK
  <2> QED
    BY <1>4, <2>1, <2>2, <2>3, <2>4, <2>5 DEF Taint
<1> QED
  BY <1>3, <1>4

LEMMA NextFlagged ==
    IInv /\ [Next]_vars => FlowsStayFlagged'
<1> SUFFICES ASSUME IInv, [Next]_vars,
                    NEW p \in flows', IsPii(p[1])', scope' = {},
                    p \notin unregulated'
             PROVE  (p[1] \in lapsed \/ \E t \in Taints : p[1] \in touched[t])'
  BY DEF FlowsStayFlagged
<1>1. TypeOK /\ scope = {}
  BY ScopeStays DEF IInv
<1>2. ASSUME p \in flows, IsPii(p[1]), p \notin unregulated
      PROVE  p[1] \in lapsed \/ \E t \in Taints : p[1] \in touched[t]
  BY <1>1, <1>2 DEF IInv, FlowsStayFlagged
<1> USE DEF sourceVars, fieldVars, scopeVars, flowVars, graphVars
<1>3. CASE UpsertField
  <2>0. PICK d \in found : \E v \in Verdicts(d) :
            /\ field' = [field EXCEPT ![NameOf[d]] = v]
            /\ lapsed' = IF v # NoType /\ ~IsPii(NameOf[d])
                         THEN lapsed \union {NameOf[d]} ELSE lapsed
    BY <1>3 DEF UpsertField
  <2>1. PICK v \in Verdicts(d) :
            /\ field' = [field EXCEPT ![NameOf[d]] = v]
            /\ lapsed' = IF v # NoType /\ ~IsPii(NameOf[d])
                         THEN lapsed \union {NameOf[d]} ELSE lapsed
    BY <2>0
  <2>2. p \in flows /\ p \notin unregulated /\ touched' = touched
    BY <1>3 DEF UpsertField, taintVars
  <2>3. d \in Decls /\ NameOf[d] \in Names /\ p[1] \in Names
    BY <1>1, <2>2, FieldsAssumption DEF TypeOK
  <2>4. CASE p[1] # NameOf[d]
    BY <1>1, <1>2, <2>1, <2>2, <2>3, <2>4 DEF IsPii, TypeOK
  <2>5. CASE p[1] = NameOf[d]
    <3>1. v # NoType
      BY <1>1, <2>1, <2>3, <2>5, FieldsAssumption DEF IsPii, TypeOK
    <3> QED
      BY <1>2, <2>1, <2>2, <2>5, <3>1
  <2> QED
    BY <2>4, <2>5
<1>4. ASSUME NEW t \in Taints, Taint(t)
      PROVE (p[1] \in lapsed \/ \E s \in Taints : p[1] \in touched[s])'
  <2>0. field' = field
    BY <1>4 DEF Taint, TaintStart, GraphWalk, AskScope, UpsertFlow,
       FlagUnregulated, TaintFails
  <2>1. CASE TaintStart(t) \/ GraphWalk(t) \/ AskScope(t)
    BY <1>2, <2>0, <2>1 DEF TaintStart, GraphWalk, AskScope, IsPii
  <2>2. CASE UpsertFlow(t)
    <3>1. /\ lapsed' = lapsed
          /\ \A s \in Taints : touched[s] \subseteq touched'[s]
      BY <1>1, <2>2 DEF UpsertFlow, TypeOK
    <3>2. CASE pair[t] \in Fields \X Fields /\ p = pair[t]
      BY <1>1, <2>2, <3>2 DEF UpsertFlow, TypeOK
    <3>3. CASE ~(pair[t] \in Fields \X Fields /\ p = pair[t])
      <4>1. p \in flows /\ p \notin unregulated
        BY <2>2, <3>3 DEF UpsertFlow
      <4> QED
        BY <1>2, <2>0, <3>1, <4>1 DEF IsPii
    <3> QED
      BY <3>2, <3>3
  <2>3. CASE FlagUnregulated(t)
    BY <1>1, <2>0, <2>3 DEF FlagUnregulated, Flagged, IsPii
  <2>4. CASE TaintFails(t)
    <3>1. /\ p \in flows /\ p \notin unregulated
          /\ lapsed' = lapsed \union touched[t]
          /\ \A s \in Taints \ {t} : touched'[s] = touched[s]
      BY <1>1, <2>4 DEF TaintFails, TypeOK
    <3> QED
      BY <1>2, <2>0, <3>1 DEF IsPii
  <2> QED
    BY <1>4, <2>1, <2>2, <2>3, <2>4 DEF Taint
<1>5. CASE ~UpsertField /\ ~ \E t \in Taints : Taint(t)
  <2>1. UNCHANGED <<flowVars, touched>>
    BY <1>5, FlowsAreTaints DEF taintVars
  <2>2. UNCHANGED <<field, lapsed>>
    <3>1. CASE Edit \/ \E e \in Endpoints, f \in Functions : AddPath(e, f)
      BY <3>1 DEF Edit, AddPath
    <3>2. CASE Scan
      BY <1>5, <3>2 DEF Scan, ScanStart, ScanFile, LinkWriter, MarkExposed,
         ScanFails
    <3>3. ASSUME NEW a \in Annotators, Annotate(a)
          PROVE  UNCHANGED <<field, lapsed>>
      BY <3>3 DEF Annotate, AnnotateStart, DeriveScopes, WriteScope,
         MarkPci, MarkHipaa, AnnotateFails
    <3> QED
      BY <1>5, <3>1, <3>2, <3>3 DEF Next, vars
  <2> QED
    BY <1>2, <2>1, <2>2 DEF IsPii
<1> QED
  BY <1>3, <1>4, <1>5

LEMMA NextIInv == IInv /\ [Next]_vars => IInv'
BY NextType, NextMarks, NextFlagged DEF IInv

\* For every source, scope and number of overlapping runs, no flow is marked
\* regulated and unregulated at once.
THEOREM MarksExclude == Spec => []NeverBoth
<1>1. IInv => NeverBoth
  BY DEF IInv
<1> QED
  BY <1>1, InitIInv, NextIInv, PTL DEF Spec

\* A PII flow of a service without a scope lacks its flag only while a run
\* is between reset and flag, after a failed one, or when the field has
\* become PII since.
THEOREM FlagsStay == Spec => []FlowsStayFlagged
<1>1. IInv => FlowsStayFlagged
  BY DEF IInv
<1> QED
  BY <1>1, InitIInv, NextIInv, PTL DEF Spec

-----------------------------------------------------------------------------
(* The evidence behind a scope.                                            *)

\* What a set of scopes owes to the fields left alone.
Implies(a, scopes) ==
    \A n \in steady[a] : IsPii(n) => ScopesOf[field[n]] \subseteq scopes

\* The scope covers that and, for those given the repository, the source.
Covers(a) ==
    /\ NameScopes \subseteq scope
    /\ a \in WithRepo => annotated \subseteq scope
    /\ Implies(a, scope)

PciMarked(a) ==
    \A e \in Endpoints, f \in Functions, n \in steady[a] :
        /\ <<e, f>> \in handles /\ <<f, n>> \in writes
        /\ field[n] \in Markers["pci"]
        => <<e, "pci">> \in marks

\* As long as nothing disturbs a run of the annotator, what it has read of the
\* comments and of the fields left alone is still so, and what it has written
\* still covers them.
AnnotatorInv ==
    \A a \in Annotators :
        /\ annPc[a] # "idle" => a \notin fresh
        /\ a \in quiet =>
              /\ annPc[a] # "idle"
              /\ annPc[a] \in {"derive", "write"} =>
                     annScopes[a] = Annotations(a)
              /\ annPc[a] = "write" => Implies(a, piiScopes[a])
              /\ annPc[a] \in {"pci", "hipaa"} => Covers(a)
              /\ annPc[a] = "hipaa" => PciMarked(a)
        /\ a \in fresh => Covers(a) /\ PciMarked(a)

\* Steps of others, which change only the fields that are steady no more.
LEMMA OthersKeepAnnotators ==
    ASSUME AnnotatorInv,
           UNCHANGED <<annotated, handles, scope, runVars>>,
           marks \subseteq marks',
           \A a \in Annotators : \A n \in steady'[a] :
               /\ n \in steady[a] /\ field'[n] = field[n]
               /\ \A f : <<f, n>> \in writes' => <<f, n>> \in writes,
           \A a \in Annotators : /\ a \in quiet' => a \in quiet
                                 /\ a \in fresh' => a \in fresh
    PROVE  AnnotatorInv'
<1> USE DEF runVars
<1>1. \A a \in Annotators : Annotations(a)' = Annotations(a)
  BY DEF Annotations
<1>2. \A a \in Annotators : /\ Implies(a, piiScopes[a]) => Implies(a, piiScopes[a])'
                            /\ Covers(a) => Covers(a)'
  BY DEF Covers, Implies, IsPii
<1>3. \A a \in Annotators : PciMarked(a) => PciMarked(a)'
  BY DEF PciMarked
<1> QED
  BY <1>1, <1>2, <1>3 DEF AnnotatorInv

\* Steps that touch nothing of that.
LEMMA UndisturbedAnnotators ==
    ASSUME AnnotatorInv,
           UNCHANGED <<annotated, handles, field, writes, scope, annVars>>,
           marks \subseteq marks',
           \A a \in Annotators : /\ a \in quiet' => a \in quiet
                                 /\ a \in fresh' => a \in fresh
    PROVE  AnnotatorInv'
BY OthersKeepAnnotators DEF annVars

\* Steps that disturb every run of the annotator.
LEMMA DisturbedAnnotators ==
    ASSUME AnnotatorInv, UNCHANGED runVars, NEW rs, Annotators \subseteq rs,
           Disturbs(rs)
    PROVE  AnnotatorInv'
BY DEF AnnotatorInv, runVars, Disturbs

LEMMA AnnotateKeepsInv ==
    ASSUME TypeOK, AnnotatorInv, NEW b \in Annotators, Annotate(b)
    PROVE  AnnotatorInv'
<1> USE DEF treeVars, sourceVars, fieldVars, scopeVars
<1>1. UNCHANGED <<treeVars, fieldVars>> /\ marks \subseteq marks'
  BY DEF Annotate, AnnotateStart, DeriveScopes, WriteScope, MarkPci,
     MarkHipaa, AnnotateFails, graphVars
<1>2. \A a \in Annotators : Annotations(a)' = Annotations(a)
  BY <1>1 DEF Annotations
<1>3. ASSUME NEW a \in Annotators, steady'[a] \subseteq steady[a]
      PROVE  /\ \A S : Implies(a, S) => Implies(a, S)'
             /\ scope' = scope /\ Covers(a) => Covers(a)'
             /\ PciMarked(a) => PciMarked(a)'
  BY <1>1, <1>3 DEF Implies, Covers, PciMarked, IsPii
<1>4. CASE AnnotateStart(b)
  BY <1>2, <1>3, <1>4
     DEF AnnotateStart, graphVars, Begins, AnnotatorInv, TypeOK
<1>5. CASE DeriveScopes(b)
  <2>1. Implies(b, ImpliedScopes)
    BY DEF Implies, ImpliedScopes, IsPii, TypeOK
  <2> QED
    BY <1>2, <1>3, <1>5, <2>1 DEF DeriveScopes, graphVars, AnnotatorInv, TypeOK
<1>6. CASE WriteScope(b)
  <2>1. b \in quiet => Covers(b)'
    <3>1. b \in quiet => /\ annScopes[b] = Annotations(b)
                         /\ Implies(b, piiScopes[b])
      BY <1>6 DEF WriteScope, AnnotatorInv
    <3>2. steady'[b] = steady[b]
      BY <1>6 DEF WriteScope, Disturbs, TypeOK
    <3>3. b \in quiet => /\ NameScopes \subseteq scope'
                         /\ Annotations(b) \subseteq scope'
                         /\ Implies(b, scope')
      BY <1>6, <3>1 DEF WriteScope, Combined, Implies
    <3> QED
      BY <1>1, <1>2, <3>2, <3>3 DEF Covers, Annotations, Implies, IsPii
  <2>2. /\ annPc' = [annPc EXCEPT ![b] = "pci"] /\ annPc[b] = "write"
        /\ quiet' = quiet \ (Annotators \ {b})
        /\ fresh' = fresh \ (Annotators \ {b})
    BY <1>6 DEF WriteScope, Disturbs
  <2> QED
    BY <2>1, <2>2 DEF AnnotatorInv, TypeOK
<1>7. CASE MarkPci(b)
  <2>1. PciMarked(b)'
    <3> SUFFICES ASSUME NEW e \in Endpoints, NEW f \in Functions,
                        NEW n \in steady[b], <<e, f>> \in handles,
                        <<f, n>> \in writes, field[n] \in Markers["pci"]
                 PROVE  e \in EndpointsOf(Markers["pci"])
      BY <1>1, <1>7 DEF MarkPci, PciMarked
    <3> QED
      BY DEF EndpointsOf, TypeOK
  <2>2. /\ UNCHANGED <<scope, annScopes, piiScopes, steady, quiet, fresh>>
        /\ annPc' = [annPc EXCEPT ![b] = "hipaa"] /\ annPc[b] = "pci"
    BY <1>7 DEF MarkPci
  <2> QED
    BY <1>2, <1>3, <2>1, <2>2 DEF AnnotatorInv, TypeOK
<1>8. CASE MarkHipaa(b)
  BY <1>2, <1>3, <1>8 DEF MarkHipaa, Returns, Ends, AnnotatorInv, TypeOK
<1>9. CASE AnnotateFails(b)
  BY <1>2, <1>3, <1>9
     DEF AnnotateFails, graphVars, Returns, AnnotatorInv, TypeOK
<1> QED
  BY <1>4, <1>5, <1>6, <1>7, <1>8, <1>9 DEF Annotate

LEMMA NextAnnotatorInv ==
    TypeOK /\ AnnotatorInv /\ [Next]_vars => AnnotatorInv'
<1> SUFFICES ASSUME TypeOK, AnnotatorInv, [Next]_vars PROVE AnnotatorInv'
  OBVIOUS
<1> USE RunsAssumption DEF treeVars, sourceVars, fieldVars, scopeVars,
        graphVars
<1>1. CASE Edit
  <2>1. CASE Disturbs({"scan"}) /\ UNCHANGED annotated
    <3>1. UNCHANGED <<handles, field, writes, marks, scope, runVars>>
      BY <1>1 DEF Edit
    <3>2. UNCHANGED steady
      BY <2>1 DEF Disturbs, TypeOK
    <3> QED
      BY <2>1, <3>1, <3>2, UndisturbedAnnotators DEF Disturbs, annVars
  <2>2. CASE Disturbs(Annotators)
    BY <1>1, <2>2, DisturbedAnnotators DEF Edit
  <2> QED
    BY <1>1, <2>1, <2>2 DEF Edit
<1>2. ASSUME NEW e \in Endpoints, NEW f \in Functions, AddPath(e, f)
      PROVE  AnnotatorInv'
  BY <1>2, DisturbedAnnotators DEF AddPath, Watched
<1>3. CASE UpsertField
  <2>0. PICK d \in found : \E v \in Verdicts(d) :
            /\ field' = [field EXCEPT ![NameOf[d]] = v]
            /\ IF v = field[NameOf[d]] THEN UNCHANGED steady
                                       ELSE Unsettles(NameOf[d])
    BY <1>3 DEF UpsertField
  <2>1. PICK v \in Verdicts(d) :
            /\ field' = [field EXCEPT ![NameOf[d]] = v]
            /\ IF v = field[NameOf[d]] THEN UNCHANGED steady
                                       ELSE Unsettles(NameOf[d])
    BY <2>0
  <2>2. UNCHANGED <<annotated, handles, writes, marks, scope, runVars, quiet,
                    fresh>>
    BY <1>3 DEF UpsertField
  <2>3. ASSUME NEW a \in Annotators, NEW n \in steady'[a]
        PROVE  n \in steady[a] /\ field'[n] = field[n]
    BY <2>1 DEF Unsettles, TypeOK
  <2> QED
    BY <2>2, <2>3, OthersKeepAnnotators
<1>4. CASE LinkWriter
  <2>1. UNCHANGED <<annotated, handles, field, marks, scope, runVars, quiet,
                    fresh>>
    BY <1>4 DEF LinkWriter
  <2>2. ASSUME NEW a \in Annotators, NEW n \in steady'[a]
        PROVE  /\ n \in steady[a]
               /\ \A f : <<f, n>> \in writes' => <<f, n>> \in writes
    BY <1>4 DEF LinkWriter, Unsettles
  <2> QED
    BY <2>1, <2>2, OthersKeepAnnotators
<1>5. CASE ScanStart \/ ScanFile \/ MarkExposed \/ ScanFails
  BY <1>5, UndisturbedAnnotators
     DEF ScanStart, ScanFile, MarkExposed, ScanFails, Begins, Ends
<1>6. ASSUME NEW t \in Taints, Taint(t) PROVE AnnotatorInv'
  BY <1>6, UndisturbedAnnotators DEF Taint, TaintStart, GraphWalk, AskScope,
     UpsertFlow, FlagUnregulated, TaintFails
<1>7. CASE UNCHANGED vars
  BY <1>7, UndisturbedAnnotators DEF vars
<1> QED
  BY <1>1, <1>2, <1>3, <1>4, <1>5, <1>6, <1>7, AnnotateKeepsInv DEF Next, Scan

\* A run of the annotator leaves a scope that covers the name of the service, its
\* comments and each field no scan has changed since the run began, and marks every
\* endpoint that reaches such a field of a PCI type, whatever scans write to the
\* other fields between its queries.
THEOREM ScopeIsGrounded == Spec => []ScopeCoversEvidence
<1>1. Init => AnnotatorInv
  BY DEF Init, AnnotatorInv
<1>2. AnnotatorInv => ScopeCoversEvidence
  BY DEF AnnotatorInv, Covers, Implies, PciMarked, ScopeCoversEvidence
<1> QED
  BY TypeCorrect, <1>1, <1>2, NextAnnotatorInv, PTL DEF Spec

-----------------------------------------------------------------------------
(* The names a scan has met.                                               *)

Named(d) == NameType[NameOf[d]] # NoType => IsPii(NameOf[d])

Written(d) ==
    WriterOf[d] \in Functions => <<WriterOf[d], NameOf[d]>> \in writes

\* Every declaration is still to be read, or its node says what its name
\* tells; and its writer is linked, unless that is the next step.
ScanInv ==
    "scan" \in quiet =>
        /\ scanPc # "idle"
        /\ \A d \in present :
              \/ FileOf[d] \in unread
              \/ d \in found
              \/ /\ Named(d)
                 /\ Written(d) \/ (scanPc = "link" /\ current = d)

\* A telling name decides alone, for each declaration of the name.
LEMMA TellingVerdict ==
    ASSUME NEW d \in Decls, NEW v \in Verdicts(d),
           NameType[NameOf[d]] # NoType
    PROVE  v \in Types
BY FieldsAssumption DEF Verdicts, TypeOfName

LEMMA ScanKeepsInv == ASSUME TypeOK, ScanInv, Scan PROVE ScanInv'
<1> USE DEF treeVars, sourceVars, fieldVars, graphVars
<1>1. CASE ScanStart
  BY <1>1 DEF ScanStart, ScanInv, Files, TypeOK
<1>2. CASE ScanFile
  <2>1. PICK f \in unread :
            /\ unread' = unread \ {f}
            /\ \/ found' = FieldsOf(f) /\ UNCHANGED quiet
               \/ found' = {} /\ quiet' = quiet \ {"scan"}
    BY <1>2 DEF ScanFile
  <2>2. /\ UNCHANGED <<treeVars, fieldVars, scanPc, current>>
        /\ found = {} /\ scanPc = "files"
    BY <1>2 DEF ScanFile
  <2>3. \A d \in present : Named(d)' = Named(d) /\ Written(d)' = Written(d)
    BY <2>2 DEF Named, Written, IsPii
  <2> QED
    BY <2>1, <2>2, <2>3 DEF ScanInv, FieldsOf
<1>3. CASE UpsertField
  <2>1. PICK d \in found :
            /\ found' = found \ {d}
            /\ current' = d
            /\ \E v \in Verdicts(d) : field' = [field EXCEPT ![NameOf[d]] = v]
    BY <1>3 DEF UpsertField
  <2>2. PICK v \in Verdicts(d) : field' = [field EXCEPT ![NameOf[d]] = v]
    BY <2>1
  <2>3. /\ UNCHANGED <<treeVars, writes, unread>> /\ scanPc = "files"
        /\ scanPc' = "link" /\ ("scan" \in quiet' => "scan" \in quiet)
    BY <1>3 DEF UpsertField, Disturbs
  <2>4. d \in Decls /\ NameOf[d] \in Names
    BY FieldsAssumption DEF TypeOK
  <2>5. ASSUME NEW c \in present, Named(c) \/ c = d PROVE Named(c)'
    <3>1. c \in Decls /\ NameOf[c] \in Names
      BY FieldsAssumption DEF TypeOK
    <3>2. CASE NameOf[c] = NameOf[d]
      BY <2>2, <2>4, <3>2, TellingVerdict DEF Named, IsPii, TypeOK
    <3>3. CASE NameOf[c] # NameOf[d]
      BY <2>2, <2>4, <2>5, <3>1, <3>3 DEF Named, IsPii, TypeOK
    <3> QED
      BY <3>2, <3>3
  <2>6. \A c \in present : Written(c)' = Written(c)
    BY <2>3 DEF Written
  <2> QED
    BY <2>1, <2>3, <2>5, <2>6 DEF ScanInv
<1>4. CASE LinkWriter
  <2>1. /\ UNCHANGED <<treeVars, field, unread, found>>
        /\ scanPc' = "files" /\ ("scan" \in quiet' => "scan" \in quiet)
        /\ writes' = writes \union
              (({WriterOf[current]} \intersect Functions) \X {NameOf[current]})
    BY <1>4 DEF LinkWriter, Disturbs
  <2>2. \A d \in present : /\ Named(d)' = Named(d)
                           /\ Written(d) \/ current = d => Written(d)'
    BY <2>1 DEF Named, Written, IsPii
  <2> QED
    BY <2>1, <2>2 DEF ScanInv
<1>5. CASE MarkExposed \/ ScanFails
  BY <1>5 DEF MarkExposed, ScanFails, Ends, ScanInv
<1> QED
  BY <1>1, <1>2, <1>3, <1>4, <1>5 DEF Scan

LEMMA NextScanInv == TypeOK /\ ScanInv /\ [Next]_vars => ScanInv'
<1> SUFFICES ASSUME TypeOK, ScanInv, [Next]_vars PROVE ScanInv'
  OBVIOUS
<1> USE RunsAssumption DEF treeVars, sourceVars, fieldVars, graphVars
<1>1. ASSUME UNCHANGED <<present, fieldVars, scanVars>>,
             "scan" \in quiet' => "scan" \in quiet
      PROVE  ScanInv'
  BY <1>1 DEF scanVars, ScanInv, Named, Written, IsPii
<1>2. CASE Edit \/ \E e \in Endpoints, f \in Functions : AddPath(e, f)
  <2>1. CASE UNCHANGED present
    BY <1>1, <1>2, <2>1 DEF Edit, AddPath, Disturbs
  <2>2. CASE ~UNCHANGED present
    BY <1>2, <2>2 DEF Edit, AddPath, Disturbs, ScanInv
  <2> QED
    BY <2>1, <2>2
<1>3. ASSUME NEW a \in Annotators, Annotate(a) PROVE ScanInv'
  BY <1>1, <1>3 DEF Annotate, AnnotateStart, DeriveScopes, WriteScope,
     MarkPci, MarkHipaa, AnnotateFails, Begins, Ends, Disturbs
<1>4. ASSUME NEW t \in Taints, Taint(t) PROVE ScanInv'
  BY <1>1, <1>4 DEF Taint, TaintStart, GraphWalk, AskScope, UpsertFlow,
     FlagUnregulated, TaintFails
<1>5. CASE UNCHANGED vars
  BY <1>1, <1>5 DEF vars
<1> QED
  BY <1>2, <1>3, <1>4, <1>5, ScanKeepsInv DEF Next

\* The marks themselves: made at the quiet end of a scan, never taken back,
\* and owed anew as soon as the source or the paths change.
LEMMA NextTelling ==
    TypeOK /\ ScanInv /\ ScanMarksTellingNames /\ [Next]_vars
        => ScanMarksTellingNames'
<1> SUFFICES ASSUME TypeOK, ScanInv, ScanMarksTellingNames, [Next]_vars
             PROVE  ScanMarksTellingNames'
  OBVIOUS
<1> USE RunsAssumption DEF treeVars, sourceVars, fieldVars, graphVars
<1>1. ASSUME UNCHANGED <<present, handles>>, marks \subseteq marks',
             "scan" \in fresh' => "scan" \in fresh
      PROVE  ScanMarksTellingNames'
  BY <1>1 DEF ScanMarksTellingNames
<1>2. CASE Edit \/ \E e \in Endpoints, f \in Functions : AddPath(e, f)
  <2>1. CASE UNCHANGED <<present, handles>>
    BY <1>1, <1>2, <2>1 DEF Edit, AddPath, Disturbs
  <2>2. CASE ~UNCHANGED <<present, handles>>
    BY <1>2, <2>2 DEF Edit, AddPath, Disturbs, Watched, ScanMarksTellingNames
  <2> QED
    BY <2>1, <2>2
<1>3. CASE MarkExposed
  <2>1. /\ UNCHANGED <<treeVars, fieldVars>> /\ scanPc = "files"
        /\ found = {} /\ unread = {}
        /\ marks' = marks \union (EndpointsOf(Types) \X {"pii"})
        /\ "scan" \in fresh' => "scan" \in fresh \/ "scan" \in quiet
    BY <1>3 DEF MarkExposed, Ends
  <2>2. CASE "scan" \notin quiet
    BY <1>1, <2>1, <2>2
  <2>3. CASE "scan" \in quiet
    <3> SUFFICES ASSUME NEW d \in present, NEW e \in Endpoints,
                        NameType[NameOf[d]] # NoType,
                        <<e, WriterOf[d]>> \in handles
                 PROVE  e \in EndpointsOf(Types)
      BY <2>1 DEF ScanMarksTellingNames
    <3>1. IsPii(NameOf[d]) /\ Written(d)
      BY <2>1, <2>3 DEF ScanInv, Named
    <3>2. WriterOf[d] \in Functions /\ NameOf[d] \in Names
      BY FieldsAssumption DEF TypeOK
    <3> QED
      BY <3>1, <3>2 DEF EndpointsOf, IsPii, Written
  <2> QED
    BY <2>2, <2>3
<1>4. CASE ScanStart \/ ScanFile \/ UpsertField \/ LinkWriter \/ ScanFails
  BY <1>1, <1>4 DEF ScanStart, ScanFile, UpsertField, LinkWriter, ScanFails,
     Begins, Disturbs
<1>5. ASSUME NEW a \in Annotators, Annotate(a) PROVE ScanMarksTellingNames'
  BY <1>1, <1>5 DEF Annotate, AnnotateStart, DeriveScopes, WriteScope,
     MarkPci, MarkHipaa, AnnotateFails, Begins, Ends, Disturbs
<1>6. ASSUME NEW t \in Taints, Taint(t) PROVE ScanMarksTellingNames'
  BY <1>1, <1>6 DEF Taint, TaintStart, GraphWalk, AskScope, UpsertFlow,
     FlagUnregulated, TaintFails
<1>7. CASE UNCHANGED vars
  BY <1>1, <1>7 DEF vars
<1> QED
  BY <1>2, <1>3, <1>4, <1>5, <1>6, <1>7 DEF Next, Scan

\* Whatever the order of the files and the answers of Presidio, an undisturbed
\* scan marks each endpoint that reaches the writer of a telling name.
THEOREM TellingNamesAreMarked == Spec => []ScanMarksTellingNames
<1>1. Init => ScanInv /\ ScanMarksTellingNames
  BY DEF Init, ScanInv, ScanMarksTellingNames
<1> QED
  BY TypeCorrect, <1>1, NextScanInv, NextTelling, PTL DEF Spec
=============================================================================
