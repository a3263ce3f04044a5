----------------------------- MODULE CodeLabels -----------------------------
(***************************************************************************)
(* The code ingester and the reachability engine on one service.  They are *)
(* separate programs: the engine asks the graph for calls and endpoints    *)
(* while runs of the ingester, full and incremental, write them.  What a   *)
(* label says of the graph is the subject of Reachability; here it is      *)
(* compared with the code of the commit in the state file.                 *)
(***************************************************************************)
EXTENDS CodeIngest

CONSTANTS
    Vulns,      \* HAS_VULN edges the service may come to have
    Advisories, \* for each, the values vulnerable_functions may take
    Depth,      \* hops of the static query
    RowLimit,   \* LIMIT of the static query
    MaxChanges  \* bound: changes of the runtime evidence and of advisories

VARIABLES
    observed, exposed, named, label,  \* as in Reachability, like the rest
    pc, todo, current, rows, unchecked, result,
    changes, quiet, exact

engineRun == <<pc, todo, current, rows, unchecked, result>>
engineVars == <<observed, exposed, named, label, engineRun, changes, quiet,
                exact>>

Engine == INSTANCE Reachability WITH
              CodeCalls    <- Functions \X Functions,
              CodeHandlers <- Endpoints \X Functions

LabelsInit == Init /\ Engine!Init

\* A step of git or of a run of the ingester; a relationship it writes is a
\* change of the graph the engine looks at.
IngestStep ==
    /\ Next
    /\ IF UNCHANGED <<calls, handled>>
       THEN UNCHANGED <<quiet, exact>>
       ELSE Engine!GraphChanges
    /\ UNCHANGED <<observed, exposed, named, label, engineRun, changes>>

\* A step of the engine, or of another program it shares the graph with.
EngineStep ==
    /\ \/ Engine!Start \/ Engine!Run \/ Engine!Fail
       \/ \E f \in Functions : Engine!Observe(f) \/ Engine!Forget(f)
       \/ \E e \in Endpoints : Engine!Expose(e)
       \/ \E v \in Vulns : \E names \in Advisories[v] :
              Engine!Link(v, names) \/ Engine!Revise(v, names)
    /\ UNCHANGED vars

LabelsNext == IngestStep \/ EngineStep

LabelsSpec == LabelsInit /\ [][LabelsNext]_<<vars, engineVars>>

-----------------------------------------------------------------------------
(* Properties.                                                             *)

\* What the files of commit c outside xs hold: the calls between functions no
\* other shares the name of, and the routes to such functions.
CallsOfCode(c, xs) ==
    {e \in DefsBut(c, xs) \X DefsBut(c, xs) :
        /\ e[1] \in Unrivalled /\ e[2] \in Unrivalled
        /\ \E x \in Files \ xs : <<e[1], NameOf[e[2]]>> \in Content[c][x].calls}
RoutesOfCode(c, xs) ==
    {e \in UNION {Content[c][x].routes : x \in Files \ xs} : e[2] \in Unrivalled}

\* If v is labelled NOT_REACHABLE, the code of the saved commit indeed has no
\* path from an endpoint to a function v names, in the files that could be read.
NoPathMissed(v) ==
    label[v] = "NOT_REACHABLE" =>
        Engine!AllRows(CallsOfCode(state.sha, state.unread),
                       RoutesOfCode(state.sha, state.unread), named[v]) = {}

\* After a run of the ingester over every file, NOT_REACHABLE is true of the
\* code and not of the graph alone, whatever ran at the same time.
FullScanLabelsCode ==
    state.sha \in Commits /\ state.sound /\ state.whole =>
        \A v \in exact : NoPathMissed(v)

\* "no static path from any APIEndpoint to vulnerable function"
\* (reachability.py:23).  Violated: an incremental run of the ingester drops
\* the calls to functions of files it does not read (code_ingester.py:425),
\* so that the engine does not see the path a commit has added.
NotReachableInCode ==
    state.sha \in Commits /\ state.sound => \A v \in exact : NoPathMissed(v)
=============================================================================
