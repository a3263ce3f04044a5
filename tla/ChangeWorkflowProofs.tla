------------------------- MODULE ChangeWorkflowProofs -------------------------
(***************************************************************************)
(* What the executions of the workflow have GitHub say, for every set of   *)
(* graphs and any number of attempts and executions.                       *)
(***************************************************************************)
EXTENDS ChangeWorkflow, TLAPS

\* The record of the open execution: an activity is only begun once those it
\* depends on have completed, and then their answers are there.
RecordSound ==
    /\ act["blast"] # "idle" => act["resolve"] = "completed"
    /\ act["delta"] # "idle" => act["resolve"] = "completed"
    /\ act["narrative"] # "idle" =>
          act["blast"] = "completed" /\ act["delta"] = "completed"
    /\ act["post"] # "idle" => act["narrative"] = "completed"
    /\ act["blast"] = "completed" => blast \in Blasts
    /\ act["delta"] = "completed" => delta \in Deltas
    /\ act["narrative"] = "completed" => narrative = Rated
    /\ \A a \in Activities : act[a] = "scheduled" => MayRetry(a)
    /\ \A a \in Activities : act[a] = "idle" => attempt[a] = 0
    /\ ~Open => \A a \in Activities : act[a] = "idle"

\* Executions are open one after the other.
InTurn ==
    \A r \in Runs :
        /\ r > run => status[r] = "new"
        /\ r < run => status[r] \in {"completed", "failed"}
        /\ r = run => status[r] # "new"

\* What is said of execution r is its risk level, open or completed.
Says(r, level) ==
    /\ r <= run
    /\ status[r] # "failed"
    /\ status[r] = "completed" => level = risk[r]
    /\ r = run /\ status[r] = "open" =>
          act["narrative"] = "completed" /\ level = Rated

ReportsSound ==
    /\ \A p \in posting \union comments : Says(p.run, p.risk)
    /\ check # None =>
          \E level \in Risks :
              Says(check.run, level) /\ check.verdict = Conclusion(level)

IInv == TypeOK /\ RecordSound /\ InTurn /\ ReportsSound

-----------------------------------------------------------------------------
LEMMA RatingType ==
    ASSUME NEW d \in Deltas, NEW b \in Blasts
    PROVE  RiskOf[d][b] \in Risks
BY QueriesAssumption

LEMMA ConclusionType ==
    ASSUME NEW r \in Risks
    PROVE  Conclusion(r) \in {"failure", "neutral", "success"}
BY DEF Conclusion, Risks

\* Once the narrative is there, the answers rated are.
LEMMA RatedType ==
    ASSUME RecordSound, act["narrative"] = "completed"
    PROVE  Rated \in Risks
BY RatingType DEF RecordSound, Rated

LEMMA MaxAttemptsType ==
    ASSUME NEW a \in Activities PROVE MaxAttempts(a) \in Nat \ {0}
BY AttemptsAssumption DEF MaxAttempts

LEMMA Names ==
    /\ "resolve" \in Activities /\ "blast" \in Activities
    /\ "delta" \in Activities /\ "narrative" \in Activities
    /\ "post" \in Activities
    /\ Queries \subseteq Activities /\ "post" \notin Queries
BY DEF Activities, Queries

LEMMA InitIInv == Init => IInv
<1> SUFFICES ASSUME Init PROVE IInv
  OBVIOUS
<1>1. TypeOK
  BY BoundsAssumption, MaxAttemptsType DEF Init, TypeOK, Runs
<1>2. RecordSound
  BY Names DEF Init, RecordSound, Open
<1>3. InTurn
  BY BoundsAssumption DEF Init, InTurn, Runs
<1>4. ReportsSound
  BY DEF Init, ReportsSound
<1> QED
  BY <1>1, <1>2, <1>3, <1>4 DEF IInv

-----------------------------------------------------------------------------
(* Type correctness, action by action.                                     *)

LEMMA OpenRun == IInv /\ Open => run \in Runs
BY BoundsAssumption DEF IInv, TypeOK, Open, Runs

LEMMA TriggerType == IInv /\ Trigger => TypeOK'
<1> SUFFICES ASSUME IInv, Trigger PROVE TypeOK'
  OBVIOUS
<1>1. run' = run + 1 /\ run' \in Runs
  BY BoundsAssumption DEF IInv, TypeOK, Trigger, Runs
<1>2. status' = [status EXCEPT ![run'] = "open"]
  BY DEF Trigger
<1>3. status' \in [Runs -> {"new", "open", "completed", "failed"}]
  BY <1>2 DEF IInv, TypeOK
<1>4. status[run'] = "new"
  BY <1>1, BoundsAssumption DEF IInv, TypeOK, InTurn, Runs
<1>5. \A r \in Runs : risk[r] # None <=> status'[r] = "completed"
  BY <1>1, <1>2, <1>4 DEF IInv, TypeOK
<1>6. reports' \subseteq Runs /\ run' \in 0 .. MaxRuns
  BY <1>1 DEF IInv, TypeOK, Trigger, Runs
<1> QED
  BY <1>3, <1>5, <1>6 DEF IInv, TypeOK, Trigger, worldVars, answerVars,
     githubVars

LEMMA CloseType ==
    ASSUME IInv, Open, NEW how \in {"completed", "failed"}, Close(how),
           \/ how = "failed" /\ UNCHANGED risk
           \/ /\ how = "completed"
              /\ Rated \in Risks
              /\ risk' = [risk EXCEPT ![run] = Rated]
    PROVE  TypeOK'
<1>1. run \in Runs
  BY OpenRun
<1>2. status' \in [Runs -> {"new", "open", "completed", "failed"}]
  BY DEF Close, IInv, TypeOK
<1>3. risk' \in [Runs -> Risks \union {None}]
  BY DEF IInv, TypeOK
<1>4. ASSUME NEW r \in Runs
      PROVE  risk'[r] # None <=> status'[r] = "completed"
  <2>1. CASE r = run
    BY <1>1, <2>1, NoneAssumption DEF Close, IInv, TypeOK, Open
  <2>2. CASE r # run
    BY <1>1, <2>2 DEF Close, IInv, TypeOK
  <2> QED
    BY <2>1, <2>2
<1>5. \A a \in Activities : attempt'[a] <= MaxAttempts(a)
  BY MaxAttemptsType DEF Close
<1> QED
  BY <1>2, <1>3, <1>4, <1>5 DEF Close, IInv, TypeOK, worldVars, githubVars

LEMMA BeginType ==
    ASSUME IInv, NEW a \in Activities, Begin(a)
    PROVE  TypeOK'
<1>1. act' \in [Activities ->
                  {"idle", "scheduled", "started", "completed", "failed"}]
  BY DEF Begin, IInv, TypeOK
<1>2. /\ attempt' \in [Activities -> Nat]
      /\ attempt'[a] = attempt[a] + 1
      /\ \A b \in Activities : b # a => attempt'[b] = attempt[b]
  BY DEF Begin, IInv, TypeOK
<1>3. attempt'[a] \in 1 .. MaxAttempts(a)
  BY <1>2, MaxAttemptsType DEF Begin, IInv, TypeOK, RecordSound, MayRetry
<1>4. posting' \subseteq [run : Runs, attempt : Attempts, risk : Risks,
                          step : {"patch", "comment"}]
  <2>1. CASE a = "post"
    <3>1. Rated \in Risks
      BY <2>1, RatedType DEF Begin, IInv, RecordSound
    <3>2. run \in Runs /\ attempt'[a] \in Attempts
      BY <1>3, <2>1, OpenRun DEF Begin, MaxAttempts, Attempts
    <3> QED
      BY <2>1, <3>1, <3>2 DEF Begin, IInv, TypeOK
  <2>2. CASE a # "post"
    BY <2>2 DEF Begin, IInv, TypeOK
  <2> QED
    BY <2>1, <2>2
<1>5. \A b \in Activities : attempt'[b] <= MaxAttempts(b)
  BY <1>2, <1>3, MaxAttemptsType DEF IInv, TypeOK
<1> QED
  BY <1>1, <1>2, <1>4, <1>5 DEF Begin, IInv, TypeOK, worldVars, runVars,
     answerVars, githubVars

LEMMA AnswersType ==
    ASSUME IInv,
           Resolved \/ BlastComputed \/ DeltaComputed \/ Narrated \/ Posted
    PROVE  TypeOK'
<1>1. act' \in [Activities ->
                  {"idle", "scheduled", "started", "completed", "failed"}]
  BY DEF Resolved, BlastComputed, DeltaComputed, Narrated, Posted, Completes,
     IInv, TypeOK
<1>2. fns' \subseteq Functions
  BY QueriesAssumption DEF Resolved, BlastComputed, DeltaComputed, Narrated,
     Posted, answerVars, IInv, TypeOK
<1>3. blast' \in Blasts \union {None}
  BY QueriesAssumption DEF Resolved, BlastComputed, DeltaComputed, Narrated,
     Posted, answerVars, IInv, TypeOK
<1>4. delta' \in Deltas \union {None}
  BY QueriesAssumption DEF Resolved, BlastComputed, DeltaComputed, Narrated,
     Posted, answerVars, IInv, TypeOK
<1>5. narrative' \in Risks \union {None}
  <2>1. CASE Narrated
    <3>1. delta \in Deltas /\ blast \in Blasts
      BY <2>1 DEF Narrated, Completes, IInv, RecordSound
    <3> QED
      BY <2>1, <3>1, RatingType DEF Narrated
  <2>2. CASE ~Narrated
    BY <2>2 DEF Resolved, BlastComputed, DeltaComputed, Posted, answerVars,
       IInv, TypeOK
  <2> QED
    BY <2>1, <2>2
<1> QED
  BY <1>1, <1>2, <1>3, <1>4, <1>5
     DEF Resolved, BlastComputed, DeltaComputed, Narrated, Posted, Completes,
         IInv, TypeOK, worldVars, runVars, githubVars

LEMMA GitHubType ==
    ASSUME IInv, NEW p \in posting, Patch(p) \/ Comment(p) \/ LateOneDies(p)
    PROVE  TypeOK'
<1>1. /\ p.run \in Runs /\ p.attempt \in Attempts /\ p.risk \in Risks
      /\ [p EXCEPT !.step = "comment"] \in
            [run : Runs, attempt : Attempts, risk : Risks,
             step : {"patch", "comment"}]
  BY DEF IInv, TypeOK
<1>2. posting' \subseteq [run : Runs, attempt : Attempts, risk : Risks,
                          step : {"patch", "comment"}]
  BY <1>1 DEF Patch, Comment, LateOneDies, IInv, TypeOK
<1>3. check' \in [run : Runs, verdict : {"failure", "neutral", "success"}]
                     \union {None}
  BY <1>1, ConclusionType DEF Patch, Comment, LateOneDies, githubVars, IInv,
     TypeOK
<1>4. comments' \subseteq [run : Runs, risk : Risks]
  BY <1>1 DEF Patch, Comment, LateOneDies, githubVars, IInv, TypeOK
<1> QED
  BY <1>2, <1>3, <1>4 DEF Patch, Comment, LateOneDies, worldVars, runVars,
     answerVars, IInv, TypeOK

LEMMA NextType == IInv /\ [Next]_vars => TypeOK'
<1> SUFFICES ASSUME IInv, [Next]_vars PROVE TypeOK'
  OBVIOUS
<1>1. CASE UNCHANGED vars
  BY <1>1 DEF IInv, TypeOK, vars, worldVars, runVars, answerVars, githubVars
<1>2. CASE ChangeGraph
  BY <1>2, BoundsAssumption DEF IInv, TypeOK, ChangeGraph, runVars,
     answerVars, githubVars
<1>3. ASSUME NEW as \in SUBSET Activities, Schedule(as) PROVE TypeOK'
  BY <1>3 DEF IInv, TypeOK, Schedule, worldVars, runVars, answerVars,
     githubVars
<1>4. CASE Output
  <2>1. Rated \in Risks
    BY <1>4, RatedType DEF Output, IInv
  <2> QED
    BY <1>4, <2>1, CloseType DEF Output
<1>5. CASE Fails
  BY <1>5, CloseType DEF Fails
<1>6. CASE Resolve \/ Gather \/ Narrate \/ Post
  BY <1>3, <1>6, Names DEF Resolve, Gather, Narrate, Post
<1>7. ASSUME NEW a \in Activities, AttemptFails(a) PROVE TypeOK'
  <2>1. act' \in [Activities ->
                    {"idle", "scheduled", "started", "completed", "failed"}]
    BY <1>7 DEF AttemptFails, IInv, TypeOK
  <2>2. posting' \subseteq posting
    BY <1>7 DEF AttemptFails
  <2> QED
    BY <1>7, <2>1, <2>2 DEF AttemptFails, IInv, TypeOK, worldVars, runVars,
       answerVars, githubVars
<1>8. CASE GitHubCall \/ \E p \in posting : LateOneDies(p)
  BY <1>8, GitHubType DEF GitHubCall
<1> QED
  BY <1>1, <1>2, <1>4, <1>5, <1>6, <1>7, <1>8, TriggerType, BeginType,
     AnswersType DEF Next, WorkflowTask, ActivityTask

-----------------------------------------------------------------------------
(* The record of the open execution.                                       *)

\* Nothing said of the activities in RecordSound changes.
LEMMA RecordStays ==
    ASSUME IInv, UNCHANGED <<runVars, act, attempt, answerVars>>
    PROVE  RecordSound'
BY DEF IInv, RecordSound, Open, Rated, MayRetry, runVars, answerVars

LEMMA TriggerRecord == IInv /\ Trigger => RecordSound'
<1> SUFFICES ASSUME IInv, Trigger PROVE RecordSound'
  OBVIOUS
<1>1. \A a \in Activities : act'[a] = "idle" /\ attempt'[a] = 0
  BY DEF IInv, RecordSound, Trigger
<1> QED
  BY <1>1, Names DEF RecordSound

LEMMA CloseRecord ==
    ASSUME NEW how, Close(how)
    PROVE  RecordSound'
<1>1. \A a \in Activities : act'[a] = "idle" /\ attempt'[a] = 0
  BY DEF Close
<1> QED
  BY <1>1, Names DEF RecordSound

LEMMA ScheduleRecord ==
    ASSUME IInv, NEW as \in SUBSET Activities, Schedule(as),
           "blast" \in as \/ "delta" \in as => act["resolve"] = "completed",
           "narrative" \in as =>
               act["blast"] = "completed" /\ act["delta"] = "completed",
           "post" \in as => act["narrative"] = "completed"
    PROVE  RecordSound'
<1>1. \A a \in Activities :
         /\ a \notin as => act'[a] = act[a]
         /\ a \in as => act'[a] = "scheduled" /\ act[a] = "idle"
  BY DEF Schedule
<1>2. /\ UNCHANGED <<attempt, blast, delta, narrative, Rated, Open>>
      /\ Open
  BY DEF Schedule, runVars, answerVars, Rated, Open
<1>3. \A a \in Activities : act'[a] = "scheduled" => MayRetry(a)'
  <2> SUFFICES ASSUME NEW a \in Activities, act'[a] = "scheduled"
               PROVE  attempt[a] < MaxAttempts(a)
    BY <1>2 DEF MayRetry
  <2>1. CASE a \in as
    <3>1. attempt[a] = 0
      BY <1>1, <2>1 DEF IInv, RecordSound
    <3> QED
      BY <3>1, MaxAttemptsType
  <2>2. CASE a \notin as
    BY <1>1, <2>2 DEF IInv, RecordSound, MayRetry
  <2> QED
    BY <2>1, <2>2
<1>4. \A a \in Activities : act'[a] = "idle" => attempt'[a] = 0
  BY <1>1, <1>2 DEF IInv, RecordSound
<1> QED
  BY <1>1, <1>2, <1>3, <1>4, Names DEF IInv, RecordSound

\* An activity at work completes, is taken up or given up: the others, and
\* their answers, stay as they are.
LEMMA TaskRecord ==
    ASSUME IInv, NEW a \in Activities, Open, Open',
           act[a] \in {"scheduled", "started"},
           act'[a] \in {"scheduled", "started", "completed", "failed"},
           \A c \in Activities \ {a} :
               act'[c] = act[c] /\ attempt'[c] = attempt[c],
           act'[a] = "scheduled" => MayRetry(a)',
           a = "blast" /\ act'[a] = "completed" => blast' \in Blasts,
           a = "delta" /\ act'[a] = "completed" => delta' \in Deltas,
           a # "blast" => blast' = blast,
           a # "delta" => delta' = delta,
           a = "narrative" /\ act'[a] = "completed" => narrative' = Rated',
           a # "narrative" => narrative' = narrative
    PROVE  RecordSound'
<1>1. \A c \in Activities :
         c # a => act'[c] = act[c] /\ (MayRetry(c) <=> MayRetry(c)')
  BY DEF MayRetry
<1>2. \A c \in Activities : act'[c] = "scheduled" => MayRetry(c)'
  BY <1>1 DEF IInv, RecordSound
<1>3. \A c \in Activities : act'[c] = "idle" => attempt'[c] = 0
  BY DEF IInv, RecordSound
<1>4. act'["narrative"] = "completed" => narrative' = Rated'
  <2>1. CASE a = "narrative"
    BY <2>1
  <2>2. CASE a # "narrative" /\ act["narrative"] = "completed"
    BY <2>2, <1>1, Names DEF IInv, RecordSound, Rated
  <2> QED
    BY <1>1, <2>1, <2>2, Names
<1> QED
  BY <1>1, <1>2, <1>3, <1>4, Names DEF IInv, RecordSound

LEMMA AnswersRecord ==
    ASSUME IInv,
           Resolved \/ BlastComputed \/ DeltaComputed \/ Narrated \/ Posted
    PROVE  RecordSound'
<1>1. ASSUME NEW a \in Activities, Completes(a)
      PROVE  /\ Open /\ Open' /\ act[a] = "started" /\ act'[a] = "completed"
             /\ \A c \in Activities \ {a} :
                   act'[c] = act[c] /\ attempt'[c] = attempt[c]
  BY <1>1 DEF Completes, IInv, TypeOK, Open, runVars
<1>2. CASE Resolved
  BY <1>1, <1>2, TaskRecord, Names DEF Resolved
<1>3. CASE BlastComputed
  <2>1. blast' \in Blasts
    BY <1>3, QueriesAssumption DEF BlastComputed, IInv, TypeOK
  <2> QED
    BY <1>1, <1>3, <2>1, TaskRecord, Names DEF BlastComputed
<1>4. CASE DeltaComputed
  <2>1. delta' \in Deltas
    BY <1>4, QueriesAssumption DEF DeltaComputed, IInv, TypeOK
  <2> QED
    BY <1>1, <1>4, <2>1, TaskRecord, Names DEF DeltaComputed
<1>5. CASE Narrated
  <2>1. narrative' = Rated'
    BY <1>5 DEF Narrated, Rated
  <2> QED
    BY <1>1, <1>5, <2>1, TaskRecord, Names DEF Narrated
<1>6. CASE Posted
  BY <1>1, <1>6, TaskRecord, Names DEF Posted, answerVars
<1> QED
  BY <1>2, <1>3, <1>4, <1>5, <1>6

LEMMA AttemptRecord ==
    ASSUME IInv, NEW a \in Activities, Begin(a) \/ AttemptFails(a)
    PROVE  RecordSound'
<1>1. /\ Open /\ Open' /\ blast' = blast /\ delta' = delta
      /\ narrative' = narrative
      /\ \A c \in Activities \ {a} :
            act'[c] = act[c] /\ attempt'[c] = attempt[c]
  BY DEF Begin, AttemptFails, IInv, TypeOK, Open, runVars, answerVars
<1>2. /\ act[a] \in {"scheduled", "started"}
      /\ act'[a] \in {"scheduled", "started", "failed"}
      /\ act'[a] = "scheduled" => MayRetry(a)'
  BY DEF Begin, AttemptFails, IInv, TypeOK, MayRetry
<1> QED
  BY <1>1, <1>2, TaskRecord

LEMMA NextRecord == IInv /\ [Next]_vars => RecordSound'
<1> SUFFICES ASSUME IInv, [Next]_vars PROVE RecordSound'
  OBVIOUS
<1>1. CASE UNCHANGED vars \/ ChangeGraph
  BY <1>1, RecordStays DEF vars, ChangeGraph
<1>2. CASE GitHubCall \/ \E p \in posting : LateOneDies(p)
  BY <1>2, RecordStays DEF GitHubCall, Patch, Comment, LateOneDies
<1>3. CASE Resolve
  BY <1>3, ScheduleRecord, Names DEF Resolve
<1>4. CASE Gather
  BY <1>4, ScheduleRecord, Names DEF Gather
<1>5. CASE Narrate
  BY <1>5, ScheduleRecord, Names DEF Narrate
<1>6. CASE Post
  BY <1>6, ScheduleRecord, Names DEF Post
<1>7. CASE Output \/ Fails
  BY <1>7, CloseRecord DEF Output, Fails
<1> QED
  BY <1>1, <1>2, <1>3, <1>4, <1>5, <1>6, <1>7, TriggerRecord, AnswersRecord,
     AttemptRecord DEF Next, WorkflowTask, ActivityTask

-----------------------------------------------------------------------------
(* Executions, and what is said of them.                                   *)

LEMMA RunsStay ==
    ASSUME [Next]_vars, ~Trigger, ~Output, ~Fails
    PROVE  UNCHANGED runVars
<1>1. ASSUME NEW p, Patch(p) \/ Comment(p) \/ LateOneDies(p)
      PROVE  UNCHANGED runVars
  BY <1>1 DEF Patch, Comment, LateOneDies
<1>2. ASSUME NEW a, Begin(a) \/ AttemptFails(a) PROVE UNCHANGED runVars
  BY <1>2 DEF Begin, AttemptFails
<1>3. ASSUME NEW as, Schedule(as) PROVE UNCHANGED runVars
  BY <1>3 DEF Schedule
<1>4. ASSUME NEW a, Completes(a) PROVE UNCHANGED runVars
  BY <1>4 DEF Completes
<1> QED
  BY <1>1, <1>2, <1>3, <1>4
     DEF Next, vars, ChangeGraph, WorkflowTask, Resolve, Gather, Narrate,
         Post, ActivityTask, Resolved, BlastComputed, DeltaComputed,
         Narrated, Posted, GitHubCall

LEMMA NextInTurn == IInv /\ [Next]_vars => InTurn'
<1> SUFFICES ASSUME IInv, [Next]_vars PROVE InTurn'
  OBVIOUS
<1>1. CASE Trigger
  <2>1. /\ run \in Nat /\ run' = run + 1
        /\ status' = [status EXCEPT ![run'] = "open"]
    BY <1>1 DEF Trigger, IInv, TypeOK
  <2>2. \A r \in Runs : r = run => status[r] # "open"
    BY <1>1, BoundsAssumption DEF Trigger, Open, Runs
  <2> QED
    BY <2>1, <2>2, BoundsAssumption DEF IInv, TypeOK, InTurn, Runs
<1>2. CASE Output \/ Fails
  <2>1. /\ run' = run /\ run \in Runs /\ run \in Nat
        /\ \/ status' = [status EXCEPT ![run] = "completed"]
           \/ status' = [status EXCEPT ![run] = "failed"]
    BY <1>2, OpenRun DEF Output, Fails, Close, IInv, TypeOK
  <2> QED
    BY <2>1, BoundsAssumption DEF IInv, TypeOK, InTurn, Runs
<1>3. CASE UNCHANGED runVars
  BY <1>3 DEF IInv, InTurn, runVars
<1> QED
  BY <1>1, <1>2, <1>3, RunsStay

\* An answer once recorded stays while the execution is open.
LEMMA RatingStays ==
    ASSUME IInv, [Next]_vars, ~Trigger, ~Output, ~Fails,
           act["narrative"] = "completed"
    PROVE  act'["narrative"] = "completed" /\ Rated' = Rated
<1>1. act["blast"] = "completed" /\ act["delta"] = "completed"
  BY DEF IInv, RecordSound
<1>2. UNCHANGED <<blast, delta>>
  <2>1. ~BlastComputed /\ ~DeltaComputed
    BY <1>1 DEF BlastComputed, DeltaComputed, Completes
  <2>2. ASSUME NEW as, Schedule(as) PROVE UNCHANGED <<blast, delta>>
    BY <2>2 DEF Schedule, answerVars
  <2>3. ASSUME NEW a, Begin(a) \/ AttemptFails(a)
        PROVE  UNCHANGED <<blast, delta>>
    BY <2>3 DEF Begin, AttemptFails, answerVars
  <2>4. ASSUME NEW p, Patch(p) \/ Comment(p) \/ LateOneDies(p)
        PROVE  UNCHANGED <<blast, delta>>
    BY <2>4 DEF Patch, Comment, LateOneDies, answerVars
  <2> QED
    BY <2>1, <2>2, <2>3, <2>4
       DEF Next, vars, ChangeGraph, WorkflowTask, Resolve, Gather, Narrate,
           Post, ActivityTask, Resolved, Narrated, Posted, GitHubCall,
           answerVars
<1>3. act'["narrative"] = "completed"
  <2>1. ASSUME NEW as, Schedule(as) PROVE act'["narrative"] = "completed"
    BY <2>1, Names DEF Schedule
  <2>2. ASSUME NEW a \in Activities,
               Begin(a) \/ AttemptFails(a) \/ Completes(a)
        PROVE  act'["narrative"] = "completed"
    BY <2>2, Names DEF Begin, AttemptFails, Completes, IInv, TypeOK
  <2>3. ASSUME NEW p, Patch(p) \/ Comment(p) \/ LateOneDies(p)
        PROVE  act'["narrative"] = "completed"
    BY <2>3 DEF Patch, Comment, LateOneDies
  <2> QED
    BY <2>1, <2>2, <2>3, Names
       DEF Next, vars, ChangeGraph, WorkflowTask, Resolve, Gather, Narrate,
           Post, ActivityTask, Resolved, BlastComputed, DeltaComputed,
           Narrated, Posted, GitHubCall
<1> QED
  BY <1>2, <1>3 DEF Rated

LEMMA SaysStays ==
    ASSUME IInv, [Next]_vars, NEW r \in Runs, NEW level, Says(r, level)
    PROVE  Says(r, level)'
<1>1. r \in Nat /\ run \in Nat
  BY BoundsAssumption DEF IInv, TypeOK, Runs
<1>2. CASE Trigger
  BY <1>1, <1>2 DEF Trigger, Says, IInv, TypeOK
<1>3. CASE Output
  <2>1. /\ run' = run /\ run \in Runs /\ status[run] = "open"
        /\ status' = [status EXCEPT ![run] = "completed"]
        /\ risk' = [risk EXCEPT ![run] = Rated]
    BY <1>3, OpenRun DEF Output, Close, Open
  <2> QED
    BY <2>1 DEF Says, IInv, TypeOK
<1>4. CASE Fails
  <2>1. /\ run' = run /\ run \in Runs /\ status[run] = "open"
        /\ status' = [status EXCEPT ![run] = "failed"]
        /\ risk' = risk
    BY <1>4, OpenRun DEF Fails, Close, Open
  <2>2. act["narrative"] # "completed"
    BY <1>4 DEF Fails, Queries, IInv, RecordSound
  <2> QED
    BY <2>1, <2>2 DEF Says, IInv, TypeOK
<1>5. CASE ~Trigger /\ ~Output /\ ~Fails
  BY <1>5, RunsStay, RatingStays DEF Says, runVars
<1> QED
  BY <1>2, <1>3, <1>4, <1>5

LEMMA NextReports == IInv /\ [Next]_vars => ReportsSound'
<1> SUFFICES ASSUME IInv, [Next]_vars PROVE ReportsSound'
  OBVIOUS
<1>1. \A p \in posting \union comments :
         p.run \in Runs /\ p.risk \in Risks /\ Says(p.run, p.risk)'
  BY SaysStays DEF IInv, TypeOK, ReportsSound
<1>2. check # None =>
         \E r \in Runs, level \in Risks :
             /\ r = check.run /\ Says(r, level)'
             /\ check.verdict = Conclusion(level)
  <2> SUFFICES ASSUME check # None
               PROVE  \E r \in Runs, level \in Risks :
                          /\ r = check.run /\ Says(r, level)'
                          /\ check.verdict = Conclusion(level)
    OBVIOUS
  <2>1. PICK shown \in Risks :
            Says(check.run, shown) /\ check.verdict = Conclusion(shown)
    BY DEF IInv, ReportsSound
  <2>2. PICK r \in Runs : r = check.run
    BY DEF IInv, TypeOK
  <2>3. Says(r, shown)'
    BY <2>1, <2>2, SaysStays
  <2> QED
    BY <2>1, <2>2, <2>3
<1>3. CASE UNCHANGED <<posting, githubVars>>
  BY <1>1, <1>2, <1>3 DEF ReportsSound, githubVars
<1>4. ASSUME posting' \subseteq posting, UNCHANGED githubVars
      PROVE  ReportsSound'
  BY <1>1, <1>2, <1>4 DEF ReportsSound, githubVars
<1>5. ASSUME NEW a \in Activities, Begin(a) PROVE ReportsSound'
  <2>1. CASE a = "post"
    <3>1. /\ posting' = posting \union
                {[run |-> run, attempt |-> attempt'[a], risk |-> Rated,
                  step |-> "patch"]}
          /\ UNCHANGED githubVars
      BY <1>5, <2>1 DEF Begin
    <3>2. /\ Open /\ run' = run /\ status' = status
          /\ act["narrative"] = "completed"
      BY <1>5, <2>1 DEF Begin, runVars, IInv, RecordSound
    <3>3. ~Trigger /\ ~Output /\ ~Fails
      <4>1. run \in Runs /\ status'[run] = "open"
        BY <3>2, OpenRun DEF Open
      <4>2. ~Output /\ ~Fails
        BY <4>1 DEF Output, Fails, Close, IInv, TypeOK
      <4> QED
        BY <3>2, <4>2 DEF Trigger
    <3>4. Says(run, Rated)' /\ Rated' = Rated
      BY <3>2, <3>3, RatingStays DEF Says, Open, IInv, TypeOK
    <3>5. ASSUME NEW p \in posting' \union comments',
                 p \notin posting \union comments
          PROVE  Says(p.run, p.risk)'
      <4>1. p.run = run /\ p.risk = Rated
        BY <3>1, <3>5 DEF githubVars
      <4> QED
        BY <3>2, <3>4, <4>1 DEF Says
    <3> QED
      BY <1>1, <1>2, <3>1, <3>5 DEF ReportsSound, githubVars
  <2>2. CASE a # "post"
    BY <1>3, <1>5, <2>2 DEF Begin
  <2> QED
    BY <2>1, <2>2
<1>6. ASSUME NEW a \in Activities, AttemptFails(a) PROVE ReportsSound'
  BY <1>4, <1>6 DEF AttemptFails
<1>7. ASSUME NEW p \in posting, Patch(p) PROVE ReportsSound'
  <2> DEFINE new == [p EXCEPT !.step = "comment"]
             shown == [run |-> p.run, verdict |-> Conclusion(p.risk)]
  <2>1. new.run = p.run /\ new.risk = p.risk
    BY DEF IInv, TypeOK
  <2>2. \A q \in posting' \union comments' : Says(q.run, q.risk)'
    BY <1>1, <1>7, <2>1 DEF Patch
  <2>3. CASE check' = shown
    <3>1. check'.run = p.run /\ check'.verdict = Conclusion(p.risk)
      BY <2>3
    <3> QED
      BY <1>1, <2>2, <3>1 DEF ReportsSound
  <2>4. CASE check' = check
    BY <1>2, <2>2, <2>4 DEF ReportsSound
  <2> QED
    BY <1>7, <2>3, <2>4 DEF Patch
<1>8. ASSUME NEW p \in posting, Comment(p) PROVE ReportsSound'
  <2> DEFINE new == [run |-> p.run, risk |-> p.risk]
  <2>1. new.run = p.run /\ new.risk = p.risk
    OBVIOUS
  <2>2. \A q \in posting' \union comments' : Says(q.run, q.risk)'
    BY <1>1, <1>8, <2>1 DEF Comment
  <2> QED
    BY <1>2, <1>8, <2>2 DEF Comment, ReportsSound
<1>9. ASSUME NEW p \in posting, LateOneDies(p) PROVE ReportsSound'
  BY <1>4, <1>9 DEF LateOneDies
<1>10. ASSUME NEW as, Schedule(as) PROVE UNCHANGED <<posting, githubVars>>
  BY <1>10 DEF Schedule
<1>11. ASSUME NEW how, Close(how) PROVE UNCHANGED <<posting, githubVars>>
  BY <1>11 DEF Close
<1>12. CASE WorkflowTask
  BY <1>3, <1>10, <1>11, <1>12 DEF WorkflowTask, Resolve, Gather, Narrate,
     Post, Output, Fails
<1>13. CASE Resolved \/ BlastComputed \/ DeltaComputed \/ Narrated \/ Posted
  BY <1>3, <1>13 DEF Resolved, BlastComputed, DeltaComputed, Narrated, Posted,
     Completes
<1>14. CASE UNCHANGED vars \/ ChangeGraph \/ Trigger
  BY <1>3, <1>14 DEF vars, ChangeGraph, Trigger
<1> QED
  BY <1>5, <1>6, <1>7, <1>8, <1>9, <1>12, <1>13, <1>14
     DEF Next, ActivityTask, GitHubCall

-----------------------------------------------------------------------------
LEMMA NextIInv == IInv /\ [Next]_vars => IInv'
BY NextType, NextRecord, NextInTurn, NextReports DEF IInv

\* The inductive invariant, of every execution of run() and every attempt at
\* its activities.
THEOREM SpecIInv == Spec => []IInv
BY InitIInv, NextIInv, PTL DEF Spec

\* The variables keep their types; an execution has an output exactly when it
\* has completed, and no activity has more attempts than its retry policy.
THEOREM TypeCorrect == Spec => []TypeOK
<1>1. IInv => TypeOK
  BY DEF IInv
<1> QED
  BY <1>1, SpecIInv, PTL

\* All that an execution of ChangeImpactWorkflow has GitHub say is what its
\* output says, whatever attempts failed, were repeated or came late.
THEOREM ReportsAlwaysAgree == Spec => []ReportsAgree
<1>1. IInv => ReportsAgree
  BY DEF IInv, ReportsSound, RecordSound, Says, ReportsAgree
<1> QED
  BY <1>1, SpecIInv, PTL
=============================================================================
