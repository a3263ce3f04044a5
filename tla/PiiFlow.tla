------------------------------- MODULE PiiFlow -------------------------------
(***************************************************************************)
(* Layer 4 on one service: the PII detector (layer4/pii_detector.py), the  *)
(* taint tracker (layer4/taint_tracker.py) and the regulatory annotator    *)
(* (layer4/regulatory_annotator.py), which share the DataField nodes, the  *)
(* FLOWS_TO edges and the scope of the Service node.                       *)
(*                                                                         *)
(* The three are programs of their own, and the annotator also runs behind *)
(* POST /pii/regulatory/refresh.  A step is one query; any query may fail  *)
(* for good, and the exception then ends the run.                          *)
(***************************************************************************)
EXTENDS FiniteSets, Integers

CONSTANTS
    Names,        \* field names; a DataField is <service>:<name>
    Decls,        \* declarations the source may contain
    FileOf,       \* the file of each declaration
    NameOf,       \* the name each declares
    WriterOf,     \* the last Function above it in its file, or anything else
    Functions,    \* Function nodes of the service
    Endpoints,    \* APIEndpoint nodes of the service
    Types,        \* PII types
    NameType,     \* the type the patterns see in a name, or NoType
    ContextType,  \* the type Presidio sees around a declaration, or NoType
    NoType,       \* not PII
    Scopes,       \* regulatory scopes other than NONE
    ScopesOf,     \* _PII_TO_SCOPE
    NameScopes,   \* the scopes the name of the service suggests
    Markers,      \* the types that make an endpoint pci_scope, hipaa_scope
    CodeqlFlows,  \* what CodeQL finds, when it is there: pairs of names
    RowLimit,     \* LIMIT of the graph walk: 200
    Annotators,   \* runs of the annotator that may overlap
    WithRepo,     \* those that are given the repository
    Taints,       \* runs of the taint tracker that may overlap
    MaxEvents     \* bound: changes of the source and starts of runs

ASSUME FieldsAssumption ==
    /\ NameOf \in [Decls -> Names]
    /\ NameType \in [Names -> Types \union {NoType}]
    /\ ContextType \in [Decls -> Types \union {NoType}]
    /\ NoType \notin Types \union {"absent"} /\ "absent" \notin Types
ASSUME ScopesAssumption ==
    /\ "NONE" \notin Scopes
    /\ ScopesOf \in [Types -> SUBSET Scopes]
    /\ NameScopes \subseteq Scopes
    /\ Markers \in [{"pci", "hipaa"} -> SUBSET Types]
ASSUME TaintAssumption ==
    /\ CodeqlFlows \subseteq Names \X Names
    /\ RowLimit \in Nat \ {0}
ASSUME RunsAssumption ==
    /\ WithRepo \subseteq Annotators
    /\ "scan" \notin Annotators
    /\ MaxEvents \in Nat

VARIABLES
    present,     \* the declarations in the working tree
    annotated,   \* the scopes of its lsig:regulatory comments
    handles,     \* <<e, f>>: the handler of e reaches f in at most 8 calls
    events,      \* changes of the source and starts of runs so far
    field,       \* DataField nodes: their pii_type, NoType or "absent"
    writes,      \* <<function, name>>: the WRITES relationships
    marks,       \* <<endpoint, flag>>: exposes_pii, pci_scope, hipaa_scope
    scope,       \* Service.regulatory_scope, {} for NULL
    confidence,  \* Service.scope_confidence
    flows,       \* FLOWS_TO edges
    regulated,   \* those with regulated = true
    unregulated, \* those with unregulated = true
    scanPc, unread, found, current,    \* the scan of the detector
    annPc, annScopes, piiScopes,       \* each run of the annotator
    taintPc, todo, pair, asked,        \* each run of the taint tracker
    touched,     \* history: fields each has reset the flags of
    lapsed,      \* history: fields whose flows may have missed their flag
    steady,      \* history: names of which a scan has changed neither the node
                 \* nor the links since each run of the annotator began
    quiet,       \* history: runs whose source, paths and results nobody changed
    fresh        \* history: runs that ended quietly, nothing changed since

treeVars   == <<present, annotated, handles>>
sourceVars == <<treeVars, events>>
fieldVars  == <<field, writes>>
scopeVars  == <<scope, confidence>>
flowVars   == <<flows, regulated, unregulated>>
scanVars   == <<scanPc, unread, found, current>>
runVars    == <<annPc, annScopes, piiScopes>>
annVars    == <<runVars, steady>>
taintVars  == <<taintPc, todo, pair, asked, touched>>
graphVars  == <<fieldVars, marks, scopeVars, flowVars>>
vars == <<sourceVars, graphVars, scanVars, annVars, taintVars, lapsed, quiet,
          fresh>>

Files == {FileOf[d] : d \in Decls}
AllScopes == Scopes \union {"NONE"}
NoDecl == "none"
NoPair == <<"none", "none">>

\* A run of `Watched' is quiet until what it depends on changes, and fresh
\* from its quiet end until then.  For the annotators `steady' says in addition
\* which fields a scan left as they were.
Watched == {"scan"} \union Annotators
Begins(r) == quiet' = quiet \union {r} /\ fresh' = fresh \ {r}
Disturbs(rs) ==
    /\ quiet' = quiet \ rs
    /\ fresh' = fresh \ rs
    /\ steady' = [a \in Annotators |-> IF a \in rs THEN {} ELSE steady[a]]
Unsettles(n) == steady' = [a \in Annotators |-> steady[a] \ {n}]
Ends(r) ==
    /\ quiet' = quiet \ {r}
    /\ fresh' = IF r \in quiet THEN fresh \union {r} ELSE fresh

Init ==
    /\ present = Decls
    /\ annotated = {}
    /\ handles = {}
    /\ events = 0
    /\ field = [n \in Names |-> "absent"]
    /\ writes = {}
    /\ marks = {}
    /\ scope = {}
    /\ confidence = "none"
    /\ flows = {} /\ regulated = {} /\ unregulated = {}
    /\ scanPc = "idle" /\ unread = {} /\ found = {}
    /\ current = NoDecl
    /\ annPc = [a \in Annotators |-> "idle"]
    /\ annScopes = [a \in Annotators |-> {}]
    /\ piiScopes = [a \in Annotators |-> {}]
    /\ taintPc = [t \in Taints |-> "idle"]
    /\ todo = [t \in Taints |-> {}]
    /\ pair = [t \in Taints |-> NoPair]
    /\ asked = [t \in Taints |-> FALSE]
    /\ touched = [t \in Taints |-> {}]
    /\ lapsed = {}
    /\ steady = [a \in Annotators |-> {}]
    /\ quiet = {} /\ fresh = {}

-----------------------------------------------------------------------------
(* The surroundings.                                                       *)

Event == events < MaxEvents /\ events' = events + 1

\* A commit changes declarations and comments.
Edit ==
    /\ Event
    /\ \/ \E d \in Decls :
             /\ present' = IF d \in present THEN present \ {d}
                                            ELSE present \union {d}
             /\ Disturbs({"scan"})
             /\ UNCHANGED annotated
       \/ /\ annotated' \in (SUBSET AllScopes) \ {annotated}
          /\ Disturbs(Annotators)
          /\ UNCHANGED present
    /\ UNCHANGED <<handles, graphVars, scanVars, runVars, taintVars, lapsed>>

\* The code ingester finds a call, or a handler: it only adds paths.
AddPath(e, f) ==
    /\ <<e, f>> \notin handles
    /\ handles' = handles \union {<<e, f>>}
    /\ Disturbs(Watched)
    /\ UNCHANGED <<present, annotated, events, graphVars, scanVars, runVars,
                   taintVars, lapsed>>

-----------------------------------------------------------------------------
(* The detector: scan().                                                   *)

IsPii(n) == field[n] \in Types

\* extract_fields_from_source
FieldsOf(f) == {d \in present : FileOf[d] = f}

\* detect_pii_in_name
TypeOfName(d) == NameType[NameOf[d]]

\* detect_pii_with_presidio is not installed, or fails, or answers.
TypesByContext(d) == {NoType, ContextType[d]}

\* analyse_field: a telling name decides alone.
Verdicts(d) ==
    IF TypeOfName(d) # NoType THEN {TypeOfName(d)} ELSE TypesByContext(d)

\* Endpoints with a path to a function that writes a field of these types.
EndpointsOf(types) ==
    {e \in Endpoints : \E f \in Functions, n \in Names :
        <<e, f>> \in handles /\ <<f, n>> \in writes /\ field[n] \in types}

ScanStart ==
    /\ Event
    /\ scanPc = "idle"
    /\ scanPc' = "files"
    /\ unread' = Files
    /\ Begins("scan")
    /\ UNCHANGED <<treeVars, graphVars, found, current, annVars, taintVars,
                   lapsed>>

\* The next file, in the order of rglob: it is read, or skipped (OSError).
ScanFile ==
    /\ scanPc = "files"
    /\ found = {}
    /\ \E f \in unread :
          /\ unread' = unread \ {f}
          /\ \/ found' = FieldsOf(f) /\ UNCHANGED quiet
             \/ found' = {} /\ quiet' = quiet \ {"scan"}
    /\ UNCHANGED <<sourceVars, graphVars, scanPc, current, annVars, taintVars,
                   lapsed, fresh>>

\* upsert_node: declarations of one name share a node, and the last one met
\* decides what it says.
UpsertField ==
    /\ scanPc = "files"
    /\ \E d \in found :
          /\ found' = found \ {d}
          /\ current' = d
          /\ \E v \in Verdicts(d) :
                /\ field' = [field EXCEPT ![NameOf[d]] = v]
                /\ lapsed' = IF v # NoType /\ ~IsPii(NameOf[d])
                             THEN lapsed \union {NameOf[d]} ELSE lapsed
                /\ IF v = field[NameOf[d]] THEN UNCHANGED steady
                                           ELSE Unsettles(NameOf[d])
    /\ scanPc' = "link"
    /\ UNCHANGED <<sourceVars, writes, marks, scopeVars, flowVars, unread,
                   runVars, taintVars, quiet, fresh>>

\* The second query links the nearest function above the declaration.
LinkWriter ==
    /\ scanPc = "link"
    /\ scanPc' = "files"
    /\ current' = NoDecl
    /\ writes' = writes \union
          (({WriterOf[current]} \intersect Functions) \X {NameOf[current]})
    /\ IF writes' = writes THEN UNCHANGED steady
                           ELSE Unsettles(NameOf[current])
    /\ UNCHANGED <<sourceVars, field, marks, scopeVars, flowVars, unread, found,
                   runVars, taintVars, lapsed, quiet, fresh>>

\* Mutant: the endpoints are marked after the first file.
MarkExposedFirst ==
    /\ scanPc = "files"
    /\ found = {}
    /\ scanPc' = "idle"
    /\ marks' = marks \union (EndpointsOf(Types) \X {"pii"})
    /\ unread' = {}
    /\ Ends("scan")
    /\ UNCHANGED <<sourceVars, fieldVars, scopeVars, flowVars, found, current,
                   annVars, taintVars, lapsed>>

\* _mark_endpoints_exposing_pii, once all files are done.
MarkExposed ==
    /\ scanPc = "files"
    /\ found = {}
    /\ unread = {}
    /\ scanPc' = "idle"
    /\ marks' = marks \union (EndpointsOf(Types) \X {"pii"})
    /\ Ends("scan")
    /\ UNCHANGED <<sourceVars, fieldVars, scopeVars, flowVars, unread, found,
                   current, annVars, taintVars, lapsed>>

\* A query fails for good.
ScanFails ==
    /\ scanPc # "idle"
    /\ scanPc' = "idle"
    /\ unread' = {} /\ found' = {} /\ current' = NoDecl
    /\ quiet' = quiet \ {"scan"}
    /\ UNCHANGED <<sourceVars, graphVars, annVars, taintVars, lapsed, fresh>>

-----------------------------------------------------------------------------
(* The annotator: annotate().                                              *)

\* The variables of annotate() are gone.
Returns(a) ==
    /\ annPc' = [annPc EXCEPT ![a] = "idle"]
    /\ annScopes' = [annScopes EXCEPT ![a] = {}]
    /\ piiScopes' = [piiScopes EXCEPT ![a] = {}]

\* scan_repo_for_annotations; POST /pii/regulatory/refresh passes no repo.
Annotations(a) == IF a \in WithRepo THEN annotated ELSE {}

AnnotateStart(a) ==
    /\ Event
    /\ annPc[a] = "idle"
    /\ annPc' = [annPc EXCEPT ![a] = "derive"]
    /\ annScopes' = [annScopes EXCEPT ![a] = Annotations(a)]
    /\ steady' = [steady EXCEPT ![a] = Names]
    /\ Begins(a)
    /\ UNCHANGED <<treeVars, graphVars, scanVars, piiScopes, taintVars,
                   lapsed>>

\* derive_scope_from_pii_fields
ImpliedScopes ==
    UNION {ScopesOf[y] : y \in Types \intersect {field[n] : n \in Names}}

DeriveScopes(a) ==
    /\ annPc[a] = "derive"
    /\ annPc' = [annPc EXCEPT ![a] = "write"]
    /\ piiScopes' = [piiScopes EXCEPT ![a] = ImpliedScopes]
    /\ UNCHANGED <<sourceVars, graphVars, scanVars, annScopes, steady, taintVars,
                   lapsed, quiet, fresh>>

\* Mutant: only the evidence of the highest confidence counts.
CombinedByRank(ann, pii) ==
    IF ann # {} THEN ann
    ELSE IF pii # {} THEN pii
    ELSE NameScopes \union {"NONE"}

\* ScopeEvidence.combined
Combined(ann, pii) ==
    LET all == ann \union pii \union NameScopes
    IN  IF all = {} THEN {"NONE"} ELSE all

\* ScopeEvidence.confidence
Confidence(ann, pii) ==
    IF ann # {} THEN "HIGH" ELSE IF pii # {} THEN "MEDIUM" ELSE "LOW"

\* _write_regulatory_scope
WriteScope(a) ==
    /\ annPc[a] = "write"
    /\ annPc' = [annPc EXCEPT ![a] = "pci"]
    /\ scope' = Combined(annScopes[a], piiScopes[a])
    /\ confidence' = Confidence(annScopes[a], piiScopes[a])
    /\ Disturbs(Annotators \ {a})
    /\ UNCHANGED <<sourceVars, fieldVars, marks, flowVars, scanVars, annScopes,
                   piiScopes, taintVars, lapsed>>

\* _annotate_pci_endpoints
MarkPci(a) ==
    /\ annPc[a] = "pci"
    /\ annPc' = [annPc EXCEPT ![a] = "hipaa"]
    /\ marks' = marks \union (EndpointsOf(Markers["pci"]) \X {"pci"})
    /\ UNCHANGED <<sourceVars, fieldVars, scopeVars, flowVars, scanVars,
                   annScopes, piiScopes, steady, taintVars, lapsed, quiet,
                   fresh>>

\* _annotate_hipaa_endpoints
MarkHipaa(a) ==
    /\ annPc[a] = "hipaa"
    /\ marks' = marks \union (EndpointsOf(Markers["hipaa"]) \X {"hipaa"})
    /\ Returns(a)
    /\ Ends(a)
    /\ UNCHANGED <<sourceVars, fieldVars, scopeVars, flowVars, scanVars, steady,
                   taintVars, lapsed>>

AnnotateFails(a) ==
    /\ annPc[a] # "idle"
    /\ Returns(a)
    /\ steady' = [steady EXCEPT ![a] = {}]
    /\ quiet' = quiet \ {a}
    /\ UNCHANGED <<sourceVars, graphVars, scanVars, taintVars, lapsed, fresh>>

-----------------------------------------------------------------------------
(* The taint tracker: analyse().                                           *)

Fields == {n \in Names : field[n] # "absent"}

\* Strategy A, when CodeQL and the repository are there.
\* _run_codeql_python: not there, or failed, or its flows.
CodeqlAnswers == {{}, CodeqlFlows}

TaintStart(t) ==
    /\ Event
    /\ taintPc[t] = "idle"
    /\ taintPc' = [taintPc EXCEPT ![t] = "codeql"]
    /\ \E f \in CodeqlAnswers : todo' = [todo EXCEPT ![t] = f]
    /\ UNCHANGED <<treeVars, graphVars, scanVars, annVars, pair, asked,
                   touched, lapsed, quiet, fresh>>

\* What the rows of _find_pii_flows_via_graph are about.  Rows that differ in
\* path_depth are distinct: there are up to PathLengths for each of these, all
\* alike for what is done with them.
PathLengths == 9
FlowRows ==
    {r \in Names \X Endpoints :
        /\ IsPii(r[1])
        /\ \E f \in Functions :
              <<f, r[1]>> \in writes /\ <<r[2], f>> \in handles}

\* Strategy B: every field in the rows has a flow to itself.  LIMIT keeps the
\* rows of short paths, of which one field may have many.
GraphWalk(t) ==
    /\ taintPc[t] = "codeql"
    /\ todo[t] = {}
    /\ taintPc' = [taintPc EXCEPT ![t] = "graph"]
    /\ \E rows \in SUBSET FlowRows :
          /\ Cardinality(rows) <= RowLimit
          /\ FlowRows # {} => rows # {}
          /\ PathLengths * Cardinality(FlowRows) <= RowLimit => rows = FlowRows
          /\ todo' = [todo EXCEPT ![t] = {<<r[1], r[1]>> : r \in rows}]
    /\ UNCHANGED <<sourceVars, graphVars, scanVars, annVars, pair, asked,
                   touched, lapsed, quiet, fresh>>

\* Mutant: a service that is not in the graph counts as regulated.
ServiceIsRegulatedOptimist == TRUE

\* _service_is_regulated: a scope of ["NONE"] is one.
ServiceIsRegulated == scope # {}

AskScope(t) ==
    /\ taintPc[t] \in {"codeql", "graph"}
    /\ \E p \in todo[t] : pair' = [pair EXCEPT ![t] = p]
    /\ asked' = [asked EXCEPT ![t] = ServiceIsRegulated]
    /\ taintPc' = [taintPc EXCEPT ![t] =
                      IF @ = "codeql" THEN "upsertCodeql" ELSE "upsertGraph"]
    /\ UNCHANGED <<sourceVars, graphVars, scanVars, annVars, todo, touched,
                   lapsed, quiet, fresh>>

\* _upsert_flows_to: the flag is reset whatever it was.  Nothing is written
\* when a field of the pair has no node.  The pair may come again, in another
\* row of the walk or another result of CodeQL.
UpsertFlow(t) ==
    /\ taintPc[t] \in {"upsertCodeql", "upsertGraph"}
    /\ todo' \in {todo, [todo EXCEPT ![t] = @ \ {pair[t]}]}
    /\ pair' = [pair EXCEPT ![t] = NoPair]
    /\ asked' = [asked EXCEPT ![t] = FALSE]
    /\ taintPc' = [taintPc EXCEPT ![t] =
                      IF @ = "upsertCodeql" THEN "codeql" ELSE "graph"]
    /\ IF pair[t] \in Fields \X Fields
       THEN /\ flows' = flows \union {pair[t]}
            /\ regulated' = IF asked[t] THEN regulated \union {pair[t]}
                                        ELSE regulated \ {pair[t]}
            /\ unregulated' = unregulated \ {pair[t]}
            /\ touched' = [touched EXCEPT ![t] = @ \union {pair[t][1]}]
       ELSE UNCHANGED <<flowVars, touched>>
    /\ UNCHANGED <<sourceVars, fieldVars, marks, scopeVars, scanVars, annVars,
                   lapsed, quiet, fresh>>

\* Mutant: MERGE in place of MATCH makes an edge for every PII field.
FlaggedMerged == {p \in Names \X Names : IsPii(p[1]) /\ scope = {}}

\* Mutant: only the flows of a field to itself are flagged.
FlaggedOwn == {p \in flows : IsPii(p[1]) /\ scope = {} /\ p[1] = p[2]}

\* The edges _flag_unregulated_pii_flows finds.  The cross-service query that
\* precedes it finds nothing: no program creates READS relationships.
Flagged == {p \in flows : IsPii(p[1]) /\ scope = {}}

FlagUnregulated(t) ==
    /\ taintPc[t] = "graph"
    /\ todo[t] = {}
    /\ taintPc' = [taintPc EXCEPT ![t] = "idle"]
    /\ unregulated' = unregulated \union Flagged
    /\ touched' = [touched EXCEPT ![t] = {}]
    /\ lapsed' = {}
    /\ UNCHANGED <<sourceVars, fieldVars, marks, scopeVars, flows, regulated,
                   scanVars, annVars, todo, pair, asked, quiet, fresh>>

TaintFails(t) ==
    /\ taintPc[t] # "idle"
    /\ taintPc' = [taintPc EXCEPT ![t] = "idle"]
    /\ todo' = [todo EXCEPT ![t] = {}]
    /\ pair' = [pair EXCEPT ![t] = NoPair]
    /\ asked' = [asked EXCEPT ![t] = FALSE]
    /\ touched' = [touched EXCEPT ![t] = {}]
    /\ lapsed' = lapsed \union touched[t]
    /\ UNCHANGED <<sourceVars, graphVars, scanVars, annVars, quiet, fresh>>

-----------------------------------------------------------------------------
Scan ==
    \/ ScanStart \/ ScanFile \/ UpsertField
    \/ LinkWriter \/ MarkExposed \/ ScanFails

Annotate(a) ==
    \/ AnnotateStart(a) \/ DeriveScopes(a) \/ WriteScope(a)
    \/ MarkPci(a) \/ MarkHipaa(a) \/ AnnotateFails(a)

Taint(t) ==
    \/ TaintStart(t) \/ GraphWalk(t) \/ AskScope(t)
    \/ UpsertFlow(t) \/ FlagUnregulated(t) \/ TaintFails(t)

Next ==
    \/ Edit
    \/ \E e \in Endpoints, f \in Functions : AddPath(e, f)
    \/ Scan
    \/ \E a \in Annotators : Annotate(a)
    \/ \E t \in Taints : Taint(t)

Spec == Init /\ [][Next]_vars

-----------------------------------------------------------------------------
(* Properties.                                                             *)

TypeOK ==
    /\ present \subseteq Decls
    /\ annotated \subseteq AllScopes
    /\ handles \subseteq Endpoints \X Functions
    /\ events \in Nat
    /\ field \in [Names -> Types \union {NoType, "absent"}]
    /\ writes \subseteq Functions \X Names
    /\ marks \subseteq Endpoints \X {"pii", "pci", "hipaa"}
    /\ scope \subseteq AllScopes
    /\ confidence \in {"none", "LOW", "MEDIUM", "HIGH"}
    /\ flows \subseteq Names \X Names
    /\ regulated \subseteq flows
    /\ unregulated \subseteq flows
    /\ scanPc \in {"idle", "files", "link"}
    /\ unread \subseteq Files
    /\ found \subseteq Decls
    /\ current \in IF scanPc = "link" THEN Decls ELSE {NoDecl}
    /\ annPc \in [Annotators -> {"idle", "derive", "write", "pci", "hipaa"}]
    /\ annScopes \in [Annotators -> SUBSET AllScopes]
    /\ piiScopes \in [Annotators -> SUBSET Scopes]
    /\ steady \in [Annotators -> SUBSET Names]
    /\ taintPc \in [Taints -> {"idle", "codeql", "upsertCodeql", "graph",
                               "upsertGraph"}]
    /\ todo \in [Taints -> SUBSET (Names \X Names)]
    /\ pair \in [Taints -> (Names \X Names) \union {NoPair}]
    /\ asked \in [Taints -> BOOLEAN]
    /\ touched \in [Taints -> SUBSET Names]
    /\ lapsed \subseteq Names
    /\ quiet \subseteq Watched
    /\ fresh \subseteq Watched

\* No flow is both regulated and unregulated, although the two come from
\* reads of the scope at different times: a scope once written is never
\* taken back, nor is an empty one written.
NeverBoth == regulated \intersect unregulated = {}

\* A flow of a PII field of a service without a scope is flagged, unless a
\* run that has reset the flag is still under way, has failed before it could
\* flag again, or the field was not PII when the flags were last set.
FlowsStayFlagged ==
    \A p \in flows :
        IsPii(p[1]) /\ scope = {} /\ p \notin unregulated =>
            p[1] \in lapsed \/ \E t \in Taints : p[1] \in touched[t]

\* After an undisturbed scan that could read every file, each endpoint that
\* reaches the writer of a field with a telling name is marked, whatever the
\* order of the files and what Presidio said of the other declarations.
ScanMarksTellingNames ==
    "scan" \in fresh =>
        \A d \in present, e \in Endpoints :
            NameType[NameOf[d]] # NoType /\ <<e, WriterOf[d]>> \in handles =>
                <<e, "pii">> \in marks

\* After a run of the annotator, until the comments, the paths or the scope are
\* changed by others, the scope covers the service's name, the comments and each
\* field that scans left alone since the run began, whatever they wrote to others
\* between its queries; and every endpoint that reaches such a field of a PCI
\* type is marked.
ScopeCoversEvidence ==
    \A a \in Annotators \intersect fresh :
        /\ NameScopes \subseteq scope
        /\ a \in WithRepo => annotated \subseteq scope
        /\ \A n \in steady[a] : IsPii(n) => ScopesOf[field[n]] \subseteq scope
        /\ \A e \in Endpoints, f \in Functions, n \in steady[a] :
              /\ <<e, f>> \in handles /\ <<f, n>> \in writes
              /\ field[n] \in Markers["pci"]
              => <<e, "pci">> \in marks
=============================================================================
