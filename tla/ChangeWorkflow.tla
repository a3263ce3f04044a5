---------------------------- MODULE ChangeWorkflow ----------------------------
(***************************************************************************)
(* Layer 6 as a Temporal workflow (layer6/workflows/                       *)
(* change_impact_workflow.py): the executions of one workflow id, one      *)
(* pull request.  The steps of generate_certificate are activities; the    *)
(* queries behind each are the subject of ChangeCertificate, and constants *)
(* here.                                                                   *)
(*                                                                         *)
(* The Temporal server records what activities answered.  Workers ask it   *)
(* for work: a workflow task replays run() on the record up to the next    *)
(* await, so that nothing a worker remembers counts and its death leaves   *)
(* no trace; an activity task is one attempt at an activity.  The server   *)
(* gives an attempt up on an exception or at its timeout, after which it   *)
(* may go on in a thread of the worker: its answer is not taken, but       *)
(* GitHub hears of it.                                                     *)
(***************************************************************************)
EXTENDS Integers

CONSTANTS
    Graphs,      \* the graphs there may be
    Functions,   \* functions of the pull request's files
    ResolvedIn,  \* _resolve_changed_functions, in each graph
    Blasts,
    BlastIn,     \* _compute_blast_radius, in each graph, of some functions
    Deltas,
    DeltaIn,     \* _compute_security_delta, likewise
    RiskOf,      \* _determine_risk_level, of a delta and a blast radius
    None,        \* no answer yet
    QueryAttempts, \* maximum_attempts of all but the post: 3
    PostAttempts,  \* and of the post: 2
    MaxRuns,     \* bound: executions
    MaxChanges   \* bound: changes of the graph

Risks == {"CRITICAL", "HIGH", "MEDIUM", "LOW", "NONE"}

ASSUME QueriesAssumption ==
    /\ ResolvedIn \in [Graphs -> SUBSET Functions]
    /\ BlastIn \in [Graphs -> [SUBSET Functions -> Blasts]]
    /\ DeltaIn \in [Graphs -> [SUBSET Functions -> Deltas]]
    /\ RiskOf \in [Deltas -> [Blasts -> Risks]]
ASSUME NoneAssumption == None \notin Risks \union Blasts \union Deltas
ASSUME AttemptsAssumption ==
    QueryAttempts \in Nat \ {0} /\ PostAttempts \in Nat \ {0}
ASSUME BoundsAssumption == MaxRuns \in Nat /\ MaxChanges \in Nat

VARIABLES
    graph, changes,
    run,       \* the last execution, 0 before the first
    status,    \* of each execution
    reports,   \* executions whose input names a check run and a pull request
    act,       \* each activity of the open execution
    attempt,   \* attempts at each
    fns, blast, delta, narrative,  \* recorded answers of the open execution;
               \* of the narrative, the risk level it speaks of
    risk,      \* risk_level of the output of each execution
    posting,   \* attempts at post_github_status that some worker is at
    check,     \* the check run: the execution and verdict it shows
    comments   \* what the comments on the pull request say

worldVars  == <<graph, changes>>
answerVars == <<fns, blast, delta, narrative>>
runVars    == <<run, status, reports, risk>>
githubVars == <<check, comments>>
vars == <<worldVars, runVars, act, attempt, answerVars, posting, githubVars>>

Runs == 1 .. MaxRuns
Queries == {"resolve", "blast", "delta", "narrative"}
Activities == Queries \union {"post"}
Attempts == 1 .. PostAttempts

MaxAttempts(a) == IF a = "post" THEN PostAttempts ELSE QueryAttempts

MayRetry(a) == attempt[a] < MaxAttempts(a)

Init ==
    /\ graph \in Graphs /\ changes = 0
    /\ run = 0
    /\ status = [r \in Runs |-> "new"]
    /\ reports = {}
    /\ act = [a \in Activities |-> "idle"]
    /\ attempt = [a \in Activities |-> 0]
    /\ fns = {}
    /\ blast = None /\ delta = None /\ narrative = None
    /\ risk = [r \in Runs |-> None]
    /\ posting = {}
    /\ check = None
    /\ comments = {}

\* The other layers write to the graph.
ChangeGraph ==
    /\ changes < MaxChanges
    /\ changes' = changes + 1
    /\ graph' \in Graphs \ {graph}
    /\ UNCHANGED <<runVars, act, attempt, answerVars, posting, githubVars>>

-----------------------------------------------------------------------------
(* run(), await by await.                                                  *)

Open == run > 0 /\ status[run] = "open"

\* start_workflow: refused while an execution of the id is open.  The trigger
\* command names no check run; another client may.
Trigger ==
    /\ run < MaxRuns
    /\ ~Open
    /\ run' = run + 1
    /\ status' = [status EXCEPT ![run'] = "open"]
    /\ reports' \in {reports, reports \union {run'}}
    /\ UNCHANGED <<worldVars, risk, act, attempt, answerVars, posting,
                   githubVars>>

Schedule(as) ==
    /\ Open
    /\ \A a \in as : act[a] = "idle"
    /\ act' = [a \in Activities |-> IF a \in as THEN "scheduled" ELSE act[a]]
    /\ UNCHANGED <<worldVars, runVars, attempt, answerVars, posting,
                   githubVars>>

Resolve == Schedule({"resolve"})

\* Steps 2 and 3, in parallel.
Gather ==
    /\ act["resolve"] = "completed"
    /\ Schedule({"blast", "delta"})

Narrate ==
    /\ act["blast"] = "completed"
    /\ act["delta"] = "completed"
    /\ Schedule({"narrative"})

\* Mutant: run() asks the graph itself.
RatedAfresh == RiskOf[DeltaIn[graph][fns]][BlastIn[graph][fns]]

\* The risk level run() determines, at each replay.
Rated == RiskOf[delta][blast]

Post ==
    /\ act["narrative"] = "completed"
    /\ run \in reports
    /\ Schedule({"post"})

\* The execution is over; activities under way are nobody's, and the next
\* execution has a record of its own.
Close(how) ==
    /\ status' = [status EXCEPT ![run] = how]
    /\ act' = [a \in Activities |-> "idle"]
    /\ attempt' = [a \in Activities |-> 0]
    /\ fns' = {}
    /\ blast' = None /\ delta' = None /\ narrative' = None
    /\ UNCHANGED <<worldVars, run, reports, posting, githubVars>>

\* Mutant: the output says nothing of the risk.
OutputUnrated ==
    /\ Open
    /\ act["narrative"] = "completed"
    /\ run \in reports => act["post"] \in {"completed", "failed"}
    /\ Close("completed")
    /\ UNCHANGED risk

\* Mutant: a post that failed is waited for.
OutputPosted ==
    /\ Open
    /\ act["narrative"] = "completed"
    /\ run \in reports => act["post"] = "completed"
    /\ risk' = [risk EXCEPT ![run] = Rated]
    /\ Close("completed")

\* The certificate is signed and returned, and stored nowhere.  What became of
\* the post does not matter.
Output ==
    /\ Open
    /\ act["narrative"] = "completed"
    /\ run \in reports => act["post"] \in {"completed", "failed"}
    /\ risk' = [risk EXCEPT ![run] = Rated]
    /\ Close("completed")

\* The exception of an activity out of attempts; gather raises the first one,
\* whatever the other activity is at.  No check run is told.
Fails ==
    /\ Open
    /\ \E a \in Queries : act[a] = "failed"
    /\ Close("failed")
    /\ UNCHANGED risk

WorkflowTask ==
    Resolve \/ Gather \/ Narrate \/ Post \/ Output \/ Fails

-----------------------------------------------------------------------------
(* The activities.                                                         *)

\* A worker takes the next attempt up.
Begin(a) ==
    /\ Open
    /\ act[a] = "scheduled"
    /\ act' = [act EXCEPT ![a] = "started"]
    /\ attempt' = [attempt EXCEPT ![a] = @ + 1]
    /\ posting' = IF a = "post"
                  THEN posting \union {[run |-> run, attempt |-> attempt'[a],
                                        risk |-> Rated, step |-> "patch"]}
                  ELSE posting
    /\ UNCHANGED <<worldVars, runVars, answerVars, githubVars>>

Completes(a) ==
    /\ Open
    /\ act[a] = "started"
    /\ act' = [act EXCEPT ![a] = "completed"]
    /\ UNCHANGED <<worldVars, runVars, attempt, posting, githubVars>>

\* resolve_functions_activity
Resolved ==
    /\ Completes("resolve")
    /\ fns' = ResolvedIn[graph]
    /\ UNCHANGED <<blast, delta, narrative>>

\* blast_radius_activity
BlastComputed ==
    /\ Completes("blast")
    /\ blast' = BlastIn[graph][fns]
    /\ UNCHANGED <<fns, delta, narrative>>

\* security_delta_activity
DeltaComputed ==
    /\ Completes("delta")
    /\ delta' = DeltaIn[graph][fns]
    /\ UNCHANGED <<fns, blast, narrative>>

\* narrative_activity determines the risk level again, of what it was given.
Narrated ==
    /\ Completes("narrative")
    /\ narrative' = RiskOf[delta][blast]
    /\ UNCHANGED <<fns, blast, delta>>

\* The current attempt at the post, if a worker is at it.
Ours == {p \in posting : p.run = run /\ p.attempt = attempt["post"]}

\* Nothing the activity calls raises: it completes once both calls are made.
Posted ==
    /\ Completes("post")
    /\ Ours = {}
    /\ UNCHANGED answerVars

\* An activity raises, or an attempt takes too long or loses its worker, also
\* after all its calls.  A post may go on all the same.
AttemptFails(a) ==
    /\ Open
    /\ act[a] = "started"
    /\ act' = [act EXCEPT ![a] = IF MayRetry(a) THEN "scheduled" ELSE "failed"]
    /\ posting' \in IF a = "post" THEN {posting, posting \ Ours} ELSE {posting}
    /\ UNCHANGED <<worldVars, runVars, attempt, answerVars, githubVars>>

ActivityTask ==
    \/ Resolved \/ BlastComputed \/ DeltaComputed \/ Narrated \/ Posted
    \/ \E a \in Activities : Begin(a) \/ AttemptFails(a)

-----------------------------------------------------------------------------
(* post_github_status_activity at GitHub, whoever still waits for it.      *)

\* risk_to_conclusion.
Conclusion(r) ==
    CASE r \in {"CRITICAL", "HIGH"} -> "failure"
      [] r = "MEDIUM" -> "neutral"
      [] r \in {"LOW", "NONE"} -> "success"

\* _update_check_run: GitHub hears of it or not, and nobody is told.
Patch(p) ==
    /\ p.step = "patch"
    /\ posting' = (posting \ {p}) \union {[p EXCEPT !.step = "comment"]}
    /\ check' \in {check, [run |-> p.run, verdict |-> Conclusion(p.risk)]}
    /\ UNCHANGED <<worldVars, runVars, act, attempt, answerVars, comments>>

\* _post_pr_comment, likewise: each attempt makes a comment of its own.
Comment(p) ==
    /\ p.step = "comment"
    /\ posting' = posting \ {p}
    /\ comments' \in {comments, comments \union
                         {[run |-> p.run, risk |-> p.risk]}}
    /\ UNCHANGED <<worldVars, runVars, act, attempt, answerVars, check>>

\* The worker of a post nobody waits for dies.
LateOneDies(p) ==
    /\ ~(Open /\ p \in Ours /\ act["post"] = "started")
    /\ posting' = posting \ {p}
    /\ UNCHANGED <<worldVars, runVars, act, attempt, answerVars, githubVars>>

GitHubCall == \E p \in posting : Patch(p) \/ Comment(p)

-----------------------------------------------------------------------------
Next ==
    \/ ChangeGraph \/ Trigger \/ WorkflowTask \/ ActivityTask \/ GitHubCall
    \/ \E p \in posting : LateOneDies(p)

Spec == Init /\ [][Next]_vars

\* A worker runs and takes up what the server has for it, and the server
\* enforces start_to_close_timeout.
FairSpec == Spec /\ WF_vars(WorkflowTask \/ ActivityTask)

-----------------------------------------------------------------------------
(* Properties.                                                             *)

\* In particular an execution has an output exactly when it has completed.
TypeOK ==
    /\ graph \in Graphs /\ changes \in Nat
    /\ run \in 0 .. MaxRuns
    /\ status \in [Runs -> {"new", "open", "completed", "failed"}]
    /\ reports \subseteq Runs
    /\ act \in [Activities ->
                   {"idle", "scheduled", "started", "completed", "failed"}]
    /\ attempt \in [Activities -> Nat]
    /\ \A a \in Activities : attempt[a] <= MaxAttempts(a)
    /\ fns \subseteq Functions
    /\ blast \in Blasts \union {None}
    /\ delta \in Deltas \union {None}
    /\ narrative \in Risks \union {None}
    /\ risk \in [Runs -> Risks \union {None}]
    /\ \A r \in Runs : risk[r] # None <=> status[r] = "completed"
    /\ posting \subseteq [run : Runs, attempt : Attempts, risk : Risks,
                          step : {"patch", "comment"}]
    /\ check \in [run : Runs, verdict : {"failure", "neutral", "success"}]
                     \union {None}
    /\ comments \subseteq [run : Runs, risk : Risks]

\* Whatever an execution has GitHub say, at any attempt and however late, is
\* what its output says, and so is its narrative; one that failed has GitHub
\* say nothing.  The graph changes meanwhile, and run() is replayed on what the
\* activities answered once.
ReportsAgree ==
    /\ \A p \in posting \union comments :
          /\ status[p.run] # "failed"
          /\ status[p.run] = "completed" => p.risk = risk[p.run]
    /\ check # None /\ status[check.run] = "completed" =>
              check.verdict = Conclusion(risk[check.run])
    /\ Open /\ act["narrative"] = "completed" => narrative = Rated

\* Every execution ends: attempts are limited, none waits for ever, and
\* GitHub's silence holds nothing up.
RunsClose == \A r \in Runs : status[r] = "open" ~> status[r] # "open"
=============================================================================
