--------------------------- MODULE CodeIngestProofs ---------------------------
(***************************************************************************)
(* The safety of the code ingester for every repository, every number of   *)
(* runs and every bound: type correctness, and that a commit in the state  *)
(* file, ingested from its own files, is in the graph.  And what follows   *)
(* from it for the labels of the reachability engine beside it.            *)
(***************************************************************************)
EXTENDS CodeLabels, TLAPS

-----------------------------------------------------------------------------
(* The operators.                                                          *)

\* What is parsed of a file is well typed, and of the functions of one name
\* one is last.
LEMMA ContentTypes ==
    ASSUME NEW c \in Commits, NEW x \in Files
    PROVE  /\ Content[c] \in [Files -> Source]
           /\ Content[c][x] \in Source
           /\ Content[c][x].defs \subseteq Functions
           /\ Content[c][x].calls \subseteq Functions \X Names
           /\ Content[c][x].routes \subseteq Endpoints \X Functions
<1>1. Content[c] \in [Files -> Source] /\ Content[c][x] \in Source
  BY ContentAssumption
<1> QED
  BY <1>1 DEF Source

LEMMA DefsTypes ==
    ASSUME NEW c \in Commits
    PROVE  Defs(c) \subseteq Functions
BY ContentTypes DEF Defs

LEMMA LastExists ==
    ASSUME NEW c \in Commits, NEW x \in Files, NEW n \in Names,
           Defines(Content[c][x], n)
    PROVE  IsLast(Content[c][x], n, CHOOSE g \in Functions : IsLast(Content[c][x], n, g))
<1>1. \E g \in Functions : IsLast(Content[c][x], n, g)
  BY ContentAssumption
<1> QED
  BY <1>1

\* all_functions after one more file: its own functions and those of before.
LEMMA FoundOf ==
    ASSUME NEW c \in Commits, NEW x \in Files, NEW found, NEW n \in Names
    PROVE  LET s == Content[c][x]
               g == Found(found, s)[n]
           IN  \/ g \in s.defs /\ NameOf[g] = n
               \/ ~Defines(s, n) /\ g = found[n]
<1> DEFINE s == Content[c][x]
<1>1. CASE Defines(s, n)
  <2>1. IsLast(s, n, Found(found, s)[n])
    BY <1>1, LastExists DEF Found
  <2> QED
    BY <2>1 DEF IsLast
<1>2. CASE ~Defines(s, n)
  BY <1>2 DEF Found
<1> QED
  BY <1>1, <1>2

LEMMA FoundTypes ==
    ASSUME NEW c \in Commits, NEW x \in Files,
           NEW found \in [Names -> Functions \union {None}]
    PROVE  Found(found, Content[c][x]) \in [Names -> Functions \union {None}]
<1>1. \A n \in Names : Found(found, Content[c][x])[n] \in Functions \union {None}
  BY FoundOf, ContentTypes
<1> QED
  BY <1>1 DEF Found

-----------------------------------------------------------------------------
(* Type correctness.                                                       *)

LEMMA IdleTypes == Idle \in Job
BY DEF Idle, Job, NothingFound

LEMMA InitTypeOK == Init => TypeOK
<1> SUFFICES ASSUME Init PROVE TypeOK
  OBVIOUS
<1>1. /\ tree \in [Files -> Source]
      /\ \A x \in Files : \E c \in Commits : tree[x] = Content[c][x]
  BY ContentTypes, ContentAssumption DEF Init
<1> QED
  BY <1>1, IdleTypes, BoundsAssumption, MarksAssumption
     DEF Init, TypeOK, Saved, NotSaved, Idle

\* The run r goes on with the local variables J.
LEMMA JobTypes ==
    ASSUME TypeOK, NEW r \in Runs, NEW J \in Job,
           job' = [job EXCEPT ![r] = J],
           J.pc \notin {"idle", "compare"} => J.current \in Commits
    PROVE  /\ job' \in [Runs -> Job]
           /\ \A q \in Runs : job'[q].pc \notin {"idle", "compare"} =>
                  job'[q].current \in Commits
BY DEF TypeOK

\* What a run has still to write.
LEMMA QueueTypes ==
    ASSUME TypeOK, NEW r \in Runs
    PROVE  /\ job[r].left \subseteq Functions
           /\ job[r].routes \subseteq Endpoints \X Functions
           /\ job[r].calls \subseteq Functions \X Names
<1>1. job[r] \in Job
  BY DEF TypeOK
<1> QED
  BY <1>1 DEF Job

LEMMA MoveTypes == TypeOK /\ Move => TypeOK'
<1> SUFFICES ASSUME TypeOK, Move PROVE TypeOK'
  OBVIOUS
<1> USE DEF TypeOK, graph
<1>1. CASE BeginMove
  <2>1. moves' \in 0 .. MaxMoves
    BY <1>1, BoundsAssumption DEF BeginMove
  <2> QED
    BY <1>1, <2>1 DEF BeginMove
<1>2. ASSUME NEW x \in Files, CheckOut(x) PROVE TypeOK'
  <2>1. target \in Commits
    BY <1>2 DEF CheckOut
  <2>2. /\ tree' \in [Files -> Source]
        /\ \A y \in Files : \E c \in Commits : tree'[y] = Content[c][y]
    BY <1>2, <2>1, ContentTypes DEF CheckOut
  <2>3. ASSUME NEW r \in Runs PROVE [job[r] EXCEPT !.sound = FALSE] \in Job
    <3>1. job[r] \in Job
      OBVIOUS
    <3> QED
      BY ONLY <3>1 DEF Job
  <2>4. job' \in [Runs -> Job]
    BY <1>2, <2>3 DEF CheckOut
  <2>5. \A r \in Runs : job'[r].pc = job[r].pc /\ job'[r].current = job[r].current
    BY <1>2 DEF CheckOut, Job
  <2> QED
    BY <1>2, <2>2, <2>4, <2>5 DEF CheckOut
<1>3. CASE EndMove
  BY <1>3 DEF EndMove
<1> QED
  BY <1>1, <1>2, <1>3 DEF Move

LEMMA IngestTypes == \A r \in Runs : TypeOK /\ Ingest(r) => TypeOK'
<1> SUFFICES ASSUME TypeOK, NEW r \in Runs, Ingest(r) PROVE TypeOK'
  OBVIOUS
<1> DEFINE Rest == /\ job' \in [Runs -> Job]
                   /\ \A q \in Runs : job'[q].pc \notin {"idle", "compare"} =>
                          job'[q].current \in Commits
<1>a. job[r] \in Job /\ (job[r].pc \notin {"idle", "compare"} => job[r].current \in Commits)
  BY DEF TypeOK
<1>b. ASSUME job' = [job EXCEPT ![r] = Idle] PROVE Rest
  BY <1>b, JobTypes, IdleTypes DEF Idle
<1>1. CASE Load(r) \/ LoadFails(r)
  <2>1. starts' \in 0 .. MaxStarts
    <3>1. starts \in 0 .. MaxStarts /\ MaxStarts \in Nat
      BY BoundsAssumption DEF TypeOK
    <3>2. starts < MaxStarts /\ starts' = starts + 1
      BY <1>1 DEF Load, LoadFails
    <3> QED
      BY <3>1, <3>2
  <2>2. ASSUME NEW last \in {state.sha, None} \ {Torn},
               job' = [job EXCEPT ![r] =
                   [Idle EXCEPT !.pc = "compare", !.last = last,
                                !.sound = (last = None \/ state.sound),
                                !.unread = IF last = None THEN {} ELSE state.unread]]
        PROVE  Rest
    <3> DEFINE J == [Idle EXCEPT !.pc = "compare", !.last = last,
                                 !.sound = (last = None \/ state.sound),
                                 !.unread = IF last = None THEN {} ELSE state.unread]
    <3>1. /\ last \in Commits \union {None} /\ state.sound \in BOOLEAN
          /\ state.unread \subseteq Files
      BY DEF TypeOK, Saved
    <3>2. J \in Job /\ J.pc = "compare"
      BY <3>1, IdleTypes DEF Job
    <3> HIDE DEF J
    <3>3. job' = [job EXCEPT ![r] = J]
      BY <2>2 DEF J
    <3> QED
      BY <3>2, <3>3, JobTypes
  <2> QED
    BY <1>1, <2>1, <2>2 DEF Load, LoadFails, TypeOK, repository, graph
<1>2. CASE Compare(r)
  <2> DEFINE J == [job[r] EXCEPT !.pc = "diff", !.current = head,
                       !.sound = job[r].sound /\ tree = Content[head]]
  <2>1. J \in Job /\ J.current \in Commits
    BY <1>a DEF Job, TypeOK
  <2>2. job' = [job EXCEPT ![r] = J] => Rest
    BY <2>1, JobTypes
  <2> QED
    BY <1>2, <1>b, <2>2 DEF Compare, TypeOK, repository, graph
<1>3. CASE Diff(r)
  <2>1. PICK files \in ToRead(r) : job' = [job EXCEPT ![r] =
            [job[r] EXCEPT !.pc = "read", !.last = None,
                           !.toRead = files, !.whole = (files = Files)]]
    BY <1>3 DEF Diff
  <2>2. files \subseteq Files
    BY DEF ToRead, Changed
  <2> DEFINE J == [job[r] EXCEPT !.pc = "read", !.last = None,
                                 !.toRead = files, !.whole = (files = Files)]
  <2>3. J \in Job /\ J.current \in Commits
    BY <1>3, <1>a, <2>2 DEF Job, Diff
  <2>4. Rest
    BY <2>1, <2>3, JobTypes
  <2> QED
    BY <1>3, <2>4 DEF Diff, TypeOK, repository, graph
<1>4. ASSUME NEW x \in Files, Read(r, x) PROVE TypeOK'
  <2> DEFINE J == [job[r] EXCEPT !.toRead = job[r].toRead \ {x},
                       !.unread = job[r].unread \ {x},
                       !.found = Found(job[r].found, tree[x]),
                       !.calls = job[r].calls \union tree[x].calls,
                       !.routes = job[r].routes \union tree[x].routes]
  <2>1. /\ Found(job[r].found, tree[x]) \in [Names -> Functions \union {None}]
        /\ tree[x].calls \subseteq Functions \X Names
        /\ tree[x].routes \subseteq Endpoints \X Functions
    <3>1. PICK c \in Commits : tree[x] = Content[c][x]
      BY DEF TypeOK
    <3>2. job[r].found \in [Names -> Functions \union {None}]
      BY <1>a DEF Job
    <3> QED
      BY <3>1, <3>2, FoundTypes, ContentTypes
  <2>2. J \in Job /\ J.pc = "read" /\ J.current \in Commits
    BY <1>4, <1>a, <2>1 DEF Job, Read
  <2>3. Rest
    BY <1>4, <2>2, JobTypes DEF Read
  <2> QED
    BY <1>4, <2>3 DEF Read, TypeOK, repository, graph
<1>5. ASSUME NEW x \in Files, ReadFails(r, x) PROVE TypeOK'
  <2> DEFINE J == [job[r] EXCEPT !.toRead = job[r].toRead \ {x},
                                 !.unread = job[r].unread \union {x}]
  <2>1. J \in Job /\ J.current \in Commits
    BY <1>5, <1>a DEF Job, ReadFails
  <2>2. Rest
    BY <1>5, <2>1, JobTypes DEF ReadFails
  <2> QED
    BY <1>5, <2>2 DEF ReadFails, TypeOK, repository, graph
<1>6. CASE Parsed(r)
  <2> DEFINE J == [job[r] EXCEPT !.pc = "write",
                       !.left = {job[r].found[n] : n \in Names} \ {None}]
  <2>1. J \in Job /\ J.current \in Commits
    <3>1. job[r].found \in [Names -> Functions \union {None}]
      BY <1>a DEF Job
    <3>2. {job[r].found[n] : n \in Names} \ {None} \subseteq Functions
      BY <3>1
    <3> QED
      BY <1>6, <1>a, <3>2 DEF Job, Parsed
  <2>2. Rest
    BY <1>6, <2>1, JobTypes DEF Parsed
  <2> QED
    BY <1>6, <2>2 DEF Parsed, TypeOK, repository, graph
<1>7. ASSUME NEW f \in Functions, WriteFunction(r, f) PROVE TypeOK'
  <2> DEFINE J == [job[r] EXCEPT !.left = job[r].left \ {f}]
  <2>1. J \in Job /\ J.current \in Commits
    BY <1>7, <1>a DEF Job, WriteFunction
  <2>2. Rest
    BY <1>7, <2>1, JobTypes DEF WriteFunction
  <2> QED
    BY <1>7, <2>2 DEF WriteFunction, TypeOK, repository
<1>8. ASSUME NEW e \in Endpoints \X Functions, WriteRoute(r, e) \/ RouteFails(r, e)
      PROVE  TypeOK'
  <2> DEFINE J == [job[r] EXCEPT !.routes = job[r].routes \ {e}]
  <2>1. J \in Job /\ (job[r].pc = "write" => J.current \in Commits)
    BY <1>a DEF Job
  <2>2. Rest
    BY <1>8, <1>b, <2>1, JobTypes DEF WriteRoute, RouteFails
  <2>3. nodes' \subseteq Functions
    BY <1>8 DEF WriteRoute, RouteFails, WithHandler, TypeOK
  <2> QED
    BY <1>8, <2>2, <2>3 DEF WriteRoute, RouteFails, TypeOK, repository
<1>9. ASSUME NEW k \in Functions \X Names, WriteCall(r, k) PROVE TypeOK'
  <2> DEFINE J == [job[r] EXCEPT !.calls = job[r].calls \ {k}]
  <2>1. J \in Job /\ J.current \in Commits
    BY <1>9, <1>a DEF Job, WriteCall
  <2>2. Rest
    BY <1>9, <2>1, JobTypes DEF WriteCall
  <2>3. Resolved(r, k) \subseteq Functions \X Functions
    BY DEF Resolved, TypeOK
  <2> QED
    BY <1>9, <2>2, <2>3 DEF WriteCall, TypeOK, repository
<1>10. CASE Truncate(r)
  <2> DEFINE J == [job[r] EXCEPT !.pc = "save", !.found = NothingFound]
  <2>1. J \in Job /\ J.current \in Commits
    BY <1>10, <1>a DEF Job, Truncate, NothingFound
  <2>2. Rest
    BY <1>10, <2>1, JobTypes DEF Truncate
  <2> QED
    BY <1>10, <2>2 DEF Truncate, TypeOK, Saved, NotSaved, repository, graph
<1>11. CASE Save(r)
  <2>1. state' \in Saved
    BY <1>11, <1>a DEF Save, Saved, Job
  <2> QED
    BY <1>11, <1>b, <2>1 DEF Save, TypeOK, repository, graph
<1>12. CASE Stop(r)
  BY <1>12, <1>b DEF Stop, TypeOK, repository, graph
<1> QED
  BY <1>1, <1>2, <1>3, <1>4, <1>5, <1>6, <1>7, <1>8, <1>9, <1>10, <1>11, <1>12,
     QueueTypes DEF Ingest

LEMMA NextTypeOK == TypeOK /\ [Next]_vars => TypeOK'
<1>1. TypeOK /\ UNCHANGED vars => TypeOK'
  BY DEF TypeOK, vars, repository, graph
<1> QED
  BY <1>1, MoveTypes, IngestTypes DEF Next

\* Every variable keeps its type, and the files of the working tree are
\* always files of commits.
THEOREM TypeCorrect == Spec => []TypeOK
BY InitTypeOK, NextTypeOK, PTL DEF Spec
-----------------------------------------------------------------------------
(* The inductive invariant.  Each part is about one run, so that a step of *)
(* another run disturbs it only through what they share.                   *)

AtWork(r) == job[r].sound /\ job[r].pc \in {"read", "write", "save"}

\* The file x is still to be read.
Pending(r, x) == job[r].pc = "read" /\ x \in job[r].toRead

\* Between moves the working tree is that of HEAD.
TreeIsHead == target = None => tree = Content[head]

\* A sound run sees the files of its commit, and git compares with that.
SeesItsCommit(r) ==
    job[r].sound =>
        /\ job[r].pc = "diff" =>
               tree = Content[job[r].current] /\ Content[head] = Content[job[r].current]
        /\ job[r].pc = "read" => tree = Content[job[r].current]

\* What it starts from is in the graph, but for the files nobody could read.
BaseIsIngested(r) ==
    job[r].sound /\ job[r].pc \in {"compare", "diff"} /\ job[r].last # None =>
        FunctionsIn(job[r].last, job[r].unread) /\ RoutesIn(job[r].last, job[r].unread)

\* It has found nothing before it reads.
StartsEmpty(r) ==
    job[r].pc \in {"compare", "diff"} => job[r].found = NothingFound

\* The functions it found are functions of its commit, written or to write.
FoundIsReal(r) ==
    AtWork(r) => \A n \in Names :
        job[r].found[n] # None =>
            /\ job[r].found[n] \in Defs(job[r].current)
            /\ NameOf[job[r].found[n]] = n
            /\ job[r].pc = "write" => job[r].found[n] \in job[r].left \union nodes

\* Each function of its commit is in the graph or on its way there, but for those
\* in the files that could not be read.
FunctionsOnTheWay(r) ==
    AtWork(r) => \A x \in Files \ job[r].unread : \A f \in Content[job[r].current][x].defs :
        f \in Unrivalled =>
            \/ f \in nodes
            \/ Pending(r, x)
            \/ job[r].pc = "read" /\ job[r].found[NameOf[f]] = f
            \/ job[r].pc = "write" /\ f \in job[r].left

\* So is each route.
RoutesOnTheWay(r) ==
    AtWork(r) => \A x \in Files \ job[r].unread : \A e \in Content[job[r].current][x].routes :
        e[2] \in Unrivalled =>
            \/ e \in handled
            \/ Pending(r, x)
            \/ job[r].pc # "save" /\ e \in job[r].routes

\* A run over every file finds every function, and takes every call along.
FoundIsAll(r) ==
    AtWork(r) /\ job[r].whole /\ job[r].pc # "save" =>
        \A x \in Files \ job[r].unread : \A f \in Content[job[r].current][x].defs :
            f \in Unrivalled => Pending(r, x) \/ job[r].found[NameOf[f]] = f

\* While it reads, which functions it will find is not settled.
CallsOnTheWay(r) ==
    AtWork(r) /\ job[r].whole =>
        \A x \in Files \ job[r].unread : \A k \in Content[job[r].current][x].calls :
            /\ job[r].pc = "read" => Pending(r, x) \/ k \in job[r].calls
            /\ job[r].pc # "read" =>
                  \A g \in DefsBut(job[r].current, job[r].unread) :
                      /\ k[1] \in DefsBut(job[r].current, job[r].unread)
                      /\ NameOf[g] = k[2]
                      /\ k[1] \in Unrivalled
                      /\ g \in Unrivalled
                      => \/ <<k[1], g>> \in calls
                         \/ job[r].pc = "write" /\ k \in job[r].calls

RunOk(r) ==
    /\ SeesItsCommit(r)
    /\ BaseIsIngested(r)
    /\ StartsEmpty(r)
    /\ FoundIsReal(r)
    /\ FunctionsOnTheWay(r)
    /\ RoutesOnTheWay(r)
    /\ FoundIsAll(r)
    /\ CallsOnTheWay(r)

IInv ==
    /\ TreeIsHead
    /\ \A r \in Runs : RunOk(r)
    /\ SavedIsIngested
    /\ FullScanIngestsCalls

-----------------------------------------------------------------------------
(* What the steps share.                                                   *)

GraphGrows == nodes \subseteq nodes' /\ handled \subseteq handled' /\ calls \subseteq calls'

LEMMA NextGrows == [Next]_vars => GraphGrows
<1> SUFFICES ASSUME [Next]_vars PROVE GraphGrows
  OBVIOUS
<1> USE DEF GraphGrows, graph
<1>1. CASE UNCHANGED vars
  BY <1>1 DEF vars
<1>2. CASE Move
  BY <1>2 DEF Move, BeginMove, CheckOut, EndMove
<1>3. ASSUME NEW r \in Runs, Ingest(r) PROVE GraphGrows
  <2>1. CASE Load(r) \/ LoadFails(r) \/ Compare(r) \/ Diff(r) \/ Parsed(r)
             \/ Truncate(r) \/ Save(r) \/ Stop(r)
    BY <2>1 DEF Load, LoadFails, Compare, Diff, Parsed, Truncate, Save, Stop
  <2>2. ASSUME NEW x \in Files, Read(r, x) \/ ReadFails(r, x) PROVE GraphGrows
    BY <2>2 DEF Read, ReadFails
  <2>3. ASSUME NEW f, WriteFunction(r, f) PROVE GraphGrows
    BY <2>3 DEF WriteFunction
  <2>4. ASSUME NEW e, WriteRoute(r, e) \/ RouteFails(r, e) PROVE GraphGrows
    BY <2>4 DEF WriteRoute, RouteFails, WithHandler
  <2>5. ASSUME NEW k, WriteCall(r, k) PROVE GraphGrows
    BY <2>5 DEF WriteCall
  <2> QED
    BY <1>3, <2>1, <2>2, <2>3, <2>4, <2>5 DEF Ingest
<1> QED
  BY <1>1, <1>2, <1>3 DEF Next

\* What a commit has in the graph stays there.
LEMMA IngestedStays ==
    ASSUME GraphGrows, NEW c, NEW xs
    PROVE  /\ FunctionsIn(c, xs) => FunctionsIn(c, xs)'
           /\ RoutesIn(c, xs) => RoutesIn(c, xs)'
           /\ CallsIn(c, xs) => CallsIn(c, xs)'
<1>1. FunctionsIn(c, xs) => FunctionsIn(c, xs)'
  BY DEF GraphGrows, FunctionsIn
<1>2. RoutesIn(c, xs) => RoutesIn(c, xs)'
  BY DEF GraphGrows, RoutesIn
<1>3. CallsIn(c, xs) => CallsIn(c, xs)'
  BY DEF GraphGrows, CallsIn
<1> QED
  BY <1>1, <1>2, <1>3

LEMMA SavedStays ==
    ASSUME SavedIsIngested, FullScanIngestsCalls, GraphGrows, state' = state
    PROVE  SavedIsIngested' /\ FullScanIngestsCalls'
<1>1. SavedIsIngested'
  BY IngestedStays DEF SavedIsIngested
<1>2. FullScanIngestsCalls'
  BY IngestedStays DEF FullScanIngestsCalls
<1> QED
  BY <1>1, <1>2

\* What a run has on its way, when only the graph changes.
LEMMA WayStays ==
    ASSUME NEW r, RunOk(r), GraphGrows, job'[r] = job[r]
    PROVE  /\ BaseIsIngested(r)'
           /\ StartsEmpty(r)'
           /\ FoundIsReal(r)'
           /\ FunctionsOnTheWay(r)'
           /\ RoutesOnTheWay(r)'
           /\ FoundIsAll(r)'
           /\ CallsOnTheWay(r)'
<1> USE DEF RunOk, AtWork, Pending
<1>1. BaseIsIngested(r)' /\ StartsEmpty(r)'
  BY IngestedStays DEF BaseIsIngested, StartsEmpty
<1>2. FoundIsReal(r)'
  BY DEF GraphGrows, FoundIsReal
<1>3. FunctionsOnTheWay(r)'
  BY DEF GraphGrows, FunctionsOnTheWay
<1>4. RoutesOnTheWay(r)'
  BY DEF GraphGrows, RoutesOnTheWay
<1>5. FoundIsAll(r)'
  BY DEF FoundIsAll
<1>6. CallsOnTheWay(r)'
  BY DEF GraphGrows, CallsOnTheWay
<1> QED
  BY <1>1, <1>2, <1>3, <1>4, <1>5, <1>6

\* A run another one does not touch.
LEMMA OthersStay ==
    ASSUME NEW r, RunOk(r), GraphGrows, job'[r] = job[r], tree' = tree, head' = head
    PROVE  RunOk(r)'
<1>1. SeesItsCommit(r)'
  BY DEF RunOk, SeesItsCommit
<1> QED
  BY <1>1, WayStays DEF RunOk

\* A run that is not under way.
LEMMA IdleIsOk == ASSUME NEW r, job[r].pc = "idle" PROVE RunOk(r)
BY DEF RunOk, SeesItsCommit, BaseIsIngested, StartsEmpty, FoundIsReal,
       FunctionsOnTheWay, RoutesOnTheWay, FoundIsAll, CallsOnTheWay, AtWork

LEMMA EndedIsOk == ASSUME NEW r, job'[r].pc = "idle" PROVE RunOk(r)'
BY DEF RunOk, SeesItsCommit, BaseIsIngested, StartsEmpty, FoundIsReal,
       FunctionsOnTheWay, RoutesOnTheWay, FoundIsAll, CallsOnTheWay, AtWork

\* A run that reads, or is about to, and does not see its commit.
LEMMA UnsoundIsOk ==
    ASSUME NEW r, ~job'[r].sound, StartsEmpty(r)'
    PROVE  RunOk(r)'
BY DEF RunOk, SeesItsCommit, BaseIsIngested, FoundIsReal,
       FunctionsOnTheWay, RoutesOnTheWay, FoundIsAll, CallsOnTheWay, AtWork

-----------------------------------------------------------------------------
(* The initial states, and the moves of the repository.                    *)

LEMMA InitIInv == Init => IInv
<1> SUFFICES ASSUME Init PROVE IInv
  OBVIOUS
<1>1. \A r \in Runs : job[r].pc = "idle"
  BY DEF Init, Idle
<1>2. \A r \in Runs : RunOk(r)
  BY <1>1, IdleIsOk
<1>3. TreeIsHead /\ SavedIsIngested /\ FullScanIngestsCalls
  BY MarksAssumption
     DEF Init, NotSaved, TreeIsHead, SavedIsIngested, FullScanIngestsCalls
<1> QED
  BY <1>2, <1>3 DEF IInv

LEMMA MoveIInv == TypeOK /\ IInv /\ Move => IInv'
<1> SUFFICES ASSUME TypeOK, IInv, Move PROVE IInv'
  OBVIOUS
<1>a. GraphGrows
  BY NextGrows DEF Next
<1>b. state' = state
  BY DEF Move, BeginMove, CheckOut, EndMove
<1>c. SavedIsIngested' /\ FullScanIngestsCalls'
  BY <1>a, <1>b, SavedStays DEF IInv
<1>1. CASE BeginMove
  <2>1. \A r \in Runs : RunOk(r)'
    BY <1>1, <1>a, OthersStay DEF BeginMove, IInv
  <2>2. TreeIsHead'
    BY <1>1, MarksAssumption DEF BeginMove, TreeIsHead
  <2> QED
    BY <1>c, <2>1, <2>2 DEF IInv
<1>2. ASSUME NEW x \in Files, CheckOut(x) PROVE IInv'
  <2>1. ASSUME NEW r \in Runs PROVE RunOk(r)'
    <3>1. CASE job[r].pc \in {"diff", "read"}
      <4>1. job'[r] = [job[r] EXCEPT !.sound = FALSE]
        BY <1>2, <3>1 DEF CheckOut
      <4>2. job[r] \in Job
        BY DEF TypeOK
      <4>3. ~job'[r].sound /\ job'[r].pc = job[r].pc /\ job'[r].found = job[r].found
        BY <4>1, <4>2 DEF Job
      <4>4. StartsEmpty(r)'
        BY <4>3 DEF IInv, RunOk, StartsEmpty
      <4> QED
        BY <4>3, <4>4, UnsoundIsOk
    <3>2. CASE job[r].pc \notin {"diff", "read"}
      <4>1. job'[r] = job[r]
        BY <1>2, <3>2 DEF CheckOut
      <4>2. SeesItsCommit(r)'
        BY <3>2, <4>1 DEF SeesItsCommit
      <4> QED
        BY <1>a, <4>1, <4>2, WayStays DEF IInv, RunOk
    <3> QED
      BY <3>1, <3>2
  <2>2. TreeIsHead'
    BY <1>2 DEF CheckOut, TreeIsHead
  <2> QED
    BY <1>c, <2>1, <2>2 DEF IInv
<1>3. CASE EndMove
  <2>1. ASSUME NEW r \in Runs PROVE RunOk(r)'
    <3>1. job'[r] = job[r]
      BY <1>3 DEF EndMove
    <3>2. SeesItsCommit(r)'
      BY <1>3, <3>1 DEF EndMove, IInv, RunOk, SeesItsCommit
    <3> QED
      BY <1>a, <3>1, <3>2, WayStays DEF IInv, RunOk
  <2>2. TreeIsHead'
    BY <1>3 DEF EndMove, TreeIsHead
  <2> QED
    BY <1>c, <2>1, <2>2 DEF IInv
<1> QED
  BY <1>1, <1>2, <1>3 DEF Move
-----------------------------------------------------------------------------
(* The steps of a run.                                                     *)

LEMMA LoadIInv ==
    ASSUME TypeOK, IInv, NEW r \in Runs, Load(r)
    PROVE  RunOk(r)'
<1>1. PICK last \in {state.sha, None} \ {Torn} : job' = [job EXCEPT ![r] =
          [Idle EXCEPT !.pc = "compare", !.last = last,
                       !.sound = (last = None \/ state.sound),
                       !.unread = IF last = None THEN {} ELSE state.unread]]
  BY DEF Load
<1>2. /\ job'[r].pc = "compare"
      /\ job'[r].last = last
      /\ job'[r].sound = (last = None \/ state.sound)
      /\ job'[r].unread = IF last = None THEN {} ELSE state.unread
      /\ job'[r].found = NothingFound
  BY <1>1 DEF TypeOK, Idle
<1>3. BaseIsIngested(r)'
  <2> SUFFICES ASSUME job'[r].sound, last # None
               PROVE  /\ FunctionsIn(last, state.unread)'
                      /\ RoutesIn(last, state.unread)'
    BY <1>2 DEF BaseIsIngested, Load
  <2>1. last \in Commits /\ last = state.sha /\ state.sound
    BY <1>2 DEF TypeOK, Saved
  <2>2. FunctionsIn(last, state.unread) /\ RoutesIn(last, state.unread)
    BY <2>1 DEF IInv, SavedIsIngested
  <2>3. GraphGrows /\ state' = state
    BY DEF Load, graph, GraphGrows
  <2> QED
    BY <2>2, <2>3, IngestedStays
<1> QED
  BY <1>2, <1>3 DEF RunOk, SeesItsCommit, StartsEmpty, FoundIsReal,
         FunctionsOnTheWay, RoutesOnTheWay, FoundIsAll, CallsOnTheWay, AtWork

LEMMA CompareIInv ==
    ASSUME TypeOK, IInv, NEW r \in Runs, Compare(r)
    PROVE  RunOk(r)'
<1>1. CASE job[r].last = head
  <2>1. job'[r].pc = "idle"
    BY <1>1 DEF Compare, TypeOK, Idle
  <2> QED
    BY <2>1, EndedIsOk
<1>2. CASE job[r].last # head
  <2>1. job[r] \in Job
    BY DEF TypeOK
  <2>2. job'[r] = [job[r] EXCEPT !.pc = "diff", !.current = head,
                       !.sound = job[r].sound /\ tree = Content[head]]
    BY <1>2 DEF Compare, TypeOK
  <2>3. /\ job'[r].pc = "diff"
        /\ job'[r].current = head
        /\ job'[r].sound = (job[r].sound /\ tree = Content[head])
        /\ job'[r].last = job[r].last
        /\ job'[r].unread = job[r].unread
        /\ job'[r].found = job[r].found
    BY <2>1, <2>2 DEF Job
  <2>4. SeesItsCommit(r)'
    BY <2>3 DEF SeesItsCommit, Compare, repository
  <2>5. BaseIsIngested(r)'
    <3>1. GraphGrows
      BY DEF Compare, graph, GraphGrows
    <3> QED
      BY <2>3, <3>1, IngestedStays DEF BaseIsIngested, Compare, IInv, RunOk
  <2>6. StartsEmpty(r)'
    BY <2>3 DEF StartsEmpty, Compare, IInv, RunOk
  <2> QED
    BY <2>3, <2>4, <2>5, <2>6 DEF RunOk, FoundIsReal,
           FunctionsOnTheWay, RoutesOnTheWay, FoundIsAll, CallsOnTheWay, AtWork
<1> QED
  BY <1>1, <1>2

LEMMA DiffIInv ==
    ASSUME TypeOK, IInv, NEW r \in Runs, Diff(r)
    PROVE  RunOk(r)'
<1>1. PICK files \in ToRead(r) : job' = [job EXCEPT ![r] =
          [job[r] EXCEPT !.pc = "read", !.last = None,
                         !.toRead = files, !.whole = (files = Files)]]
  BY DEF Diff
<1>2. job[r] \in Job /\ job[r].pc = "diff" /\ job[r].current \in Commits
  BY DEF TypeOK, Diff
<1>3. /\ job'[r].pc = "read"
      /\ job'[r].toRead = files
      /\ job'[r].whole = (files = Files)
      /\ job'[r].current = job[r].current
      /\ job'[r].sound = job[r].sound
      /\ job'[r].unread = job[r].unread
      /\ job'[r].found = NothingFound
  <2>1. job[r].found = NothingFound
    BY <1>2 DEF IInv, RunOk, StartsEmpty
  <2> QED
    BY <1>1, <1>2, <2>1 DEF Job, TypeOK
<1>4. nodes' = nodes /\ handled' = handled /\ tree' = tree
  BY DEF Diff, graph, repository
<1> DEFINE c == job[r].current
           xs == job[r].unread
\* A file that is not read has what it had in the commit in the graph.
<1>5. ASSUME job[r].sound, NEW x \in Files \ files
      PROVE  /\ job[r].last # None
             /\ FunctionsIn(job[r].last, xs) /\ RoutesIn(job[r].last, xs)
             /\ Content[job[r].last][x] = Content[c][x]
  <2>1. job[r].last # None /\ files = Changed(job[r].last)
    BY <1>5 DEF ToRead
  <2>2. Content[job[r].last][x] = Content[head][x]
    BY <1>5, <2>1 DEF Changed
  <2>3. Content[head] = Content[c]
    BY <1>2, <1>5 DEF IInv, RunOk, SeesItsCommit
  <2> QED
    BY <1>2, <1>5, <2>1, <2>2, <2>3 DEF IInv, RunOk, BaseIsIngested
<1>6. SeesItsCommit(r)'
  BY <1>2, <1>3, <1>4 DEF SeesItsCommit, IInv, RunOk
<1>7. FoundIsReal(r)'
  BY <1>3 DEF FoundIsReal, NothingFound
<1>8. FunctionsOnTheWay(r)'
  <2> SUFFICES ASSUME job[r].sound, NEW x \in Files \ xs,
                      NEW f \in Content[c][x].defs, f \in Unrivalled, x \notin files
               PROVE  f \in nodes
    BY <1>3, <1>4 DEF FunctionsOnTheWay, AtWork, Pending
  <2>1. f \in DefsBut(job[r].last, xs)
    BY <1>5 DEF DefsBut
  <2> QED
    BY <1>5, <2>1 DEF FunctionsIn
<1>9. RoutesOnTheWay(r)'
  <2> SUFFICES ASSUME job[r].sound, NEW x \in Files \ xs,
                      NEW e \in Content[c][x].routes, e[2] \in Unrivalled, x \notin files
               PROVE  e \in handled
    BY <1>3, <1>4 DEF RoutesOnTheWay, AtWork, Pending
  <2> QED
    BY <1>5 DEF RoutesIn
<1>10. FoundIsAll(r)' /\ CallsOnTheWay(r)'
  BY <1>3 DEF FoundIsAll, CallsOnTheWay, AtWork, Pending
<1> QED
  BY <1>3, <1>6, <1>7, <1>8, <1>9, <1>10 DEF RunOk, BaseIsIngested, StartsEmpty
LEMMA ReadIInv ==
    ASSUME TypeOK, IInv, NEW r \in Runs, NEW x \in Files, Read(r, x)
    PROVE  RunOk(r)'
<1> DEFINE c == job[r].current
           s == Content[c][x]
<1>1. job[r] \in Job /\ job[r].pc = "read" /\ c \in Commits /\ RunOk(r)
  BY DEF TypeOK, Read, IInv
<1>2. /\ job'[r].pc = "read"
      /\ job'[r].toRead = job[r].toRead \ {x}
      /\ job'[r].unread = job[r].unread \ {x}
      /\ job'[r].found = Found(job[r].found, tree[x])
      /\ job'[r].calls = job[r].calls \union tree[x].calls
      /\ job'[r].routes = job[r].routes \union tree[x].routes
      /\ job'[r].current = c
      /\ job'[r].sound = job[r].sound
      /\ job'[r].whole = job[r].whole
  BY <1>1 DEF Read, Job, TypeOK
<1>3. nodes' = nodes /\ handled' = handled /\ calls' = calls /\ tree' = tree
  BY DEF Read, graph, repository
<1>4. CASE ~job[r].sound
  BY <1>2, <1>4, UnsoundIsOk DEF StartsEmpty
<1>5. CASE job[r].sound
  <2>1. AtWork(r) /\ tree = Content[c] /\ tree[x] = s
    BY <1>1, <1>5 DEF AtWork, RunOk, SeesItsCommit
  <2>2. s.defs \subseteq Defs(c) /\ Defs(c) \subseteq Functions
    BY <1>1, DefsTypes DEF Defs
  \* The function found for a name is one of this file or that of before.
  <2>3. \A n \in Names :
            LET g == job'[r].found[n] IN
            \/ g \in s.defs /\ NameOf[g] = n
            \/ ~Defines(s, n) /\ g = job[r].found[n]
    BY <1>1, <1>2, <2>1, FoundOf
  \* An unrivalled function of the commit is found, or stays found.
  <2>4. ASSUME NEW f \in Defs(c), f \in Unrivalled,
               f \in s.defs \/ job[r].found[NameOf[f]] = f
        PROVE  job'[r].found[NameOf[f]] = f
    <3>1. NameOf[f] \in Names
      BY <2>2, NamesAssumption
    <3>2. \A g \in s.defs : NameOf[g] = NameOf[f] => g = f
      BY <1>1, <2>2, <2>4 DEF Unrivalled
    <3> QED
      BY <2>3, <2>4, <3>1, <3>2 DEF Defines
  <2>5. SeesItsCommit(r)'
    BY <1>2, <1>3, <2>1 DEF SeesItsCommit
  <2>6. FoundIsReal(r)'
    BY <1>1, <1>2, <2>1, <2>2, <2>3 DEF FoundIsReal, RunOk
  <2>7. FunctionsOnTheWay(r)'
    <3> SUFFICES ASSUME NEW y \in Files \ job'[r].unread, NEW f \in Content[c][y].defs,
                        f \in Unrivalled, ~Pending(r, y)', f \notin nodes
                 PROVE  job'[r].found[NameOf[f]] = f
      BY <1>2, <1>3 DEF FunctionsOnTheWay
    <3>1. f \in Defs(c)
      BY DEF Defs
    <3>2. f \in s.defs \/ job[r].found[NameOf[f]] = f
      BY <1>1, <1>2, <2>1 DEF RunOk, FunctionsOnTheWay, Pending
    <3> QED
      BY <2>4, <3>1, <3>2
  <2>8. RoutesOnTheWay(r)'
    <3> SUFFICES ASSUME NEW y \in Files \ job'[r].unread,
                        NEW e \in Content[c][y].routes,
                        e[2] \in Unrivalled, ~Pending(r, y)', e \notin handled
                 PROVE  e \in job'[r].routes
      BY <1>2, <1>3 DEF RoutesOnTheWay
    <3> QED
      BY <1>1, <1>2, <2>1 DEF RunOk, RoutesOnTheWay, Pending
  <2>9. FoundIsAll(r)'
    <3> SUFFICES ASSUME job[r].whole, NEW y \in Files \ job'[r].unread,
                        NEW f \in Content[c][y].defs, f \in Unrivalled, ~Pending(r, y)'
                 PROVE  job'[r].found[NameOf[f]] = f
      BY <1>2 DEF FoundIsAll
    <3>1. f \in Defs(c)
      BY DEF Defs
    <3>2. f \in s.defs \/ job[r].found[NameOf[f]] = f
      BY <1>1, <1>2, <2>1 DEF RunOk, FoundIsAll, Pending
    <3> QED
      BY <2>4, <3>1, <3>2
  <2>10. CallsOnTheWay(r)'
    BY <1>1, <1>2, <1>3, <2>1 DEF RunOk, CallsOnTheWay, Pending
  <2> QED
    BY <1>2, <2>5, <2>6, <2>7, <2>8, <2>9, <2>10 DEF RunOk, BaseIsIngested, StartsEmpty
<1> QED
  BY <1>1, <1>4, <1>5 DEF Job

LEMMA ReadFailsIInv ==
    ASSUME TypeOK, IInv, NEW r \in Runs, NEW x \in Files, ReadFails(r, x)
    PROVE  RunOk(r)'
<1>1. job[r] \in Job /\ job[r].pc = "read" /\ RunOk(r)
  BY DEF TypeOK, ReadFails, IInv
<1>2. /\ job'[r].pc = "read"
      /\ job'[r].toRead = job[r].toRead \ {x}
      /\ job'[r].unread = job[r].unread \union {x}
      /\ job'[r].found = job[r].found
      /\ job'[r].calls = job[r].calls
      /\ job'[r].routes = job[r].routes
      /\ job'[r].current = job[r].current
      /\ job'[r].sound = job[r].sound
      /\ job'[r].whole = job[r].whole
  BY <1>1 DEF ReadFails, Job, TypeOK
<1>3. nodes' = nodes /\ handled' = handled /\ calls' = calls /\ tree' = tree
  BY DEF ReadFails, graph, repository
<1> USE <1>1, <1>2, <1>3 DEF RunOk, AtWork, Pending
<1>4. SeesItsCommit(r)' /\ FoundIsReal(r)'
  BY DEF SeesItsCommit, FoundIsReal
<1>5. FunctionsOnTheWay(r)'
  BY DEF FunctionsOnTheWay
<1>6. RoutesOnTheWay(r)'
  BY DEF RoutesOnTheWay
<1>7. FoundIsAll(r)'
  BY DEF FoundIsAll
<1>8. CallsOnTheWay(r)'
  BY DEF CallsOnTheWay
<1> QED
  BY <1>4, <1>5, <1>6, <1>7, <1>8 DEF BaseIsIngested, StartsEmpty

LEMMA ParsedIInv ==
    ASSUME TypeOK, IInv, NEW r \in Runs, Parsed(r)
    PROVE  RunOk(r)'
<1> DEFINE c == job[r].current
<1>1. job[r] \in Job /\ job[r].pc = "read" /\ job[r].toRead = {} /\ c \in Commits /\ RunOk(r)
  BY DEF TypeOK, Parsed, IInv
<1>2. /\ job'[r].pc = "write"
      /\ job'[r].left = {job[r].found[n] : n \in Names} \ {None}
      /\ job'[r].unread = job[r].unread
      /\ job'[r].found = job[r].found
      /\ job'[r].calls = job[r].calls
      /\ job'[r].routes = job[r].routes
      /\ job'[r].current = c
      /\ job'[r].sound = job[r].sound
      /\ job'[r].whole = job[r].whole
  BY <1>1 DEF Parsed, Job, TypeOK
<1>3. nodes' = nodes /\ handled' = handled /\ calls' = calls
  BY DEF Parsed, graph
<1>4. \A x : ~Pending(r, x)
  BY <1>1 DEF Pending
<1>5. \A f \in Defs(c) : job[r].found[NameOf[f]] = f => f \in job'[r].left
  BY <1>1, <1>2, DefsTypes, NamesAssumption, MarksAssumption
<1>6. FoundIsReal(r)'
  BY <1>1, <1>2 DEF RunOk, FoundIsReal, AtWork
<1>7. FunctionsOnTheWay(r)'
  <2> SUFFICES ASSUME AtWork(r), NEW y \in Files \ job[r].unread,
                      NEW f \in Content[c][y].defs, f \in Unrivalled, f \notin nodes
               PROVE  f \in job'[r].left
    BY <1>1, <1>2, <1>3 DEF FunctionsOnTheWay, AtWork
  <2>1. f \in Defs(c)
    BY DEF Defs
  <2> QED
    BY <1>1, <1>4, <1>5, <2>1 DEF RunOk, FunctionsOnTheWay
<1>8. RoutesOnTheWay(r)'
  BY <1>1, <1>2, <1>3, <1>4 DEF RunOk, RoutesOnTheWay, AtWork
<1>9. FoundIsAll(r)'
  BY <1>1, <1>2, <1>4 DEF RunOk, FoundIsAll, AtWork
<1>10. CallsOnTheWay(r)'
  BY <1>1, <1>2, <1>3, <1>4 DEF RunOk, CallsOnTheWay, AtWork
<1> QED
  BY <1>2, <1>6, <1>7, <1>8, <1>9, <1>10
     DEF RunOk, SeesItsCommit, BaseIsIngested, StartsEmpty
LEMMA WriteFunctionIInv ==
    ASSUME TypeOK, IInv, NEW r \in Runs, NEW f \in Functions, WriteFunction(r, f)
    PROVE  RunOk(r)'
<1>1. job[r] \in Job /\ job[r].pc = "write" /\ RunOk(r)
  BY DEF TypeOK, WriteFunction, IInv
<1>2. job'[r] = [job[r] EXCEPT !.left = job[r].left \ {f}]
  BY DEF WriteFunction, TypeOK
<1>3. /\ job'[r].pc = "write"
      /\ job'[r].left = job[r].left \ {f}
      /\ job'[r].unread = job[r].unread
      /\ job'[r].found = job[r].found
      /\ job'[r].calls = job[r].calls
      /\ job'[r].routes = job[r].routes
      /\ job'[r].current = job[r].current
      /\ job'[r].sound = job[r].sound
      /\ job'[r].whole = job[r].whole
  BY <1>1, <1>2 DEF Job
<1>4. nodes' = nodes \union {f} /\ handled' = handled /\ calls' = calls
  BY DEF WriteFunction
<1> USE <1>1, <1>3, <1>4 DEF RunOk, AtWork, Pending
<1>5. FoundIsReal(r)'
  BY DEF FoundIsReal
<1>6. FunctionsOnTheWay(r)'
  BY DEF FunctionsOnTheWay
<1>7. RoutesOnTheWay(r)'
  BY DEF RoutesOnTheWay
<1>8. FoundIsAll(r)'
  BY DEF FoundIsAll
<1>9. CallsOnTheWay(r)'
  BY DEF CallsOnTheWay
<1> QED
  BY <1>5, <1>6, <1>7, <1>8, <1>9 DEF SeesItsCommit, BaseIsIngested, StartsEmpty

\* When every function found is written, each unrivalled one of the files read is
\* in the graph.
LEMMA AllWritten ==
    ASSUME TypeOK, NEW r \in Runs, RunOk(r), AtWork(r), job[r].pc = "write", job[r].left = {},
           NEW f \in DefsBut(job[r].current, job[r].unread), f \in Unrivalled
    PROVE  f \in nodes
<1>1. PICK x \in Files \ job[r].unread : f \in Content[job[r].current][x].defs
  BY DEF DefsBut
<1> QED
  BY <1>1 DEF RunOk, FunctionsOnTheWay, Pending

LEMMA WriteRouteIInv ==
    ASSUME TypeOK, IInv, NEW r \in Runs, NEW e \in Endpoints \X Functions, WriteRoute(r, e)
    PROVE  RunOk(r)'
<1> DEFINE c == job[r].current
<1>1. /\ job[r] \in Job /\ RunOk(r) /\ c \in Commits
      /\ job[r].pc = "write" /\ job[r].left = {}
  BY DEF TypeOK, WriteRoute, IInv
<1>2. job'[r] = [job[r] EXCEPT !.routes = job[r].routes \ {e}]
  BY DEF WriteRoute, TypeOK
<1>3. /\ job'[r].pc = "write"
      /\ job'[r].left = {}
      /\ job'[r].found = job[r].found
      /\ job'[r].calls = job[r].calls
      /\ job'[r].routes = job[r].routes \ {e}
      /\ job'[r].unread = job[r].unread
      /\ job'[r].current = c
      /\ job'[r].sound = job[r].sound
      /\ job'[r].whole = job[r].whole
  BY <1>1, <1>2 DEF Job
<1>4. nodes' = WithHandler(r, e[2]) /\ nodes \subseteq nodes' /\ calls' = calls
  BY DEF WriteRoute, WithHandler
<1>5. handled' = IF e[2] \in nodes' THEN handled \union {e} ELSE handled
  BY DEF WriteRoute
\* The handler is among the functions found, and written, or it is made up.
<1>6. ASSUME AtWork(r), e \in Routes(c), e[2] \in Unrivalled
      PROVE  e[2] \in nodes'
  <2>1. NameOf[e[2]] \in Names
    BY NamesAssumption
  <2> DEFINE g == job[r].found[NameOf[e[2]]]
  <2>2. CASE g = None
    BY <1>4, <2>2 DEF WithHandler
  <2>3. CASE g # None
    <3>1. g \in Defs(c) /\ NameOf[g] = NameOf[e[2]] /\ g \in nodes
      BY <1>1, <1>6, <2>1, <2>3 DEF RunOk, FoundIsReal
    <3>2. g = e[2]
      BY <1>1, <1>6, <3>1 DEF Unrivalled
    <3> QED
      BY <1>4, <3>1, <3>2
  <2> QED
    BY <2>2, <2>3
<1>7. FoundIsReal(r)'
  BY <1>1, <1>3, <1>4 DEF RunOk, FoundIsReal, AtWork
<1>8. FunctionsOnTheWay(r)'
  BY <1>1, <1>3, <1>4 DEF RunOk, FunctionsOnTheWay, AtWork, Pending
<1>9. RoutesOnTheWay(r)'
  <2> SUFFICES ASSUME AtWork(r), NEW y \in Files \ job[r].unread,
                      NEW q \in Content[c][y].routes, q[2] \in Unrivalled, q \notin job'[r].routes
               PROVE  q \in handled'
    BY <1>1, <1>3 DEF RoutesOnTheWay, AtWork
  <2>1. CASE q = e
    <3>1. e \in Routes(c)
      BY <2>1 DEF Routes
    <3> QED
      BY <1>5, <1>6, <2>1, <3>1
  <2>2. CASE q # e
    BY <1>1, <1>3, <1>5, <2>2 DEF RunOk, RoutesOnTheWay, Pending
  <2> QED
    BY <2>1, <2>2
<1>10. FoundIsAll(r)'
  BY <1>1, <1>3 DEF RunOk, FoundIsAll, AtWork, Pending
<1>11. CallsOnTheWay(r)'
  BY <1>1, <1>3, <1>4 DEF RunOk, CallsOnTheWay, AtWork, Pending
<1> QED
  BY <1>3, <1>7, <1>8, <1>9, <1>10, <1>11
     DEF RunOk, SeesItsCommit, BaseIsIngested, StartsEmpty

LEMMA WriteCallIInv ==
    ASSUME TypeOK, IInv, NEW r \in Runs, NEW k \in Functions \X Names, WriteCall(r, k)
    PROVE  RunOk(r)'
<1> DEFINE c == job[r].current
<1>1. /\ job[r] \in Job /\ RunOk(r) /\ c \in Commits
      /\ job[r].pc = "write" /\ job[r].left = {}
  BY DEF TypeOK, WriteCall, IInv
<1>2. job'[r] = [job[r] EXCEPT !.calls = job[r].calls \ {k}]
  BY DEF WriteCall, TypeOK
<1>3. /\ job'[r].pc = "write"
      /\ job'[r].left = {}
      /\ job'[r].found = job[r].found
      /\ job'[r].calls = job[r].calls \ {k}
      /\ job'[r].unread = job[r].unread
      /\ job'[r].routes = job[r].routes
      /\ job'[r].current = c
      /\ job'[r].sound = job[r].sound
      /\ job'[r].whole = job[r].whole
  BY <1>1, <1>2 DEF Job
<1>4. nodes' = nodes /\ handled' = handled /\ calls' = calls \union Resolved(r, k)
  BY DEF WriteCall
\* Both ends of the call are in the graph, and its callee is found.
<1>5. ASSUME AtWork(r), job[r].whole,
             NEW g \in DefsBut(c, job[r].unread), k[1] \in DefsBut(c, job[r].unread),
             NameOf[g] = k[2], k[1] \in Unrivalled, g \in Unrivalled
      PROVE  <<k[1], g>> \in calls'
  <2>1. k[1] \in nodes /\ g \in nodes
    BY <1>1, <1>5, AllWritten
  <2>2. job[r].found[k[2]] = g
    <3>1. PICK x \in Files \ job[r].unread : g \in Content[c][x].defs
      BY DEF DefsBut
    <3> QED
      BY <1>1, <1>5, <3>1 DEF RunOk, FoundIsAll, Pending
  <2>3. g # None
    BY <1>1, ContentTypes, MarksAssumption DEF DefsBut
  <2> QED
    BY <1>4, <2>1, <2>2, <2>3 DEF Resolved
<1>6. FoundIsReal(r)'
  BY <1>1, <1>3, <1>4 DEF RunOk, FoundIsReal, AtWork
<1>7. FunctionsOnTheWay(r)'
  BY <1>1, <1>3, <1>4 DEF RunOk, FunctionsOnTheWay, AtWork, Pending
<1>8. RoutesOnTheWay(r)'
  BY <1>1, <1>3, <1>4 DEF RunOk, RoutesOnTheWay, AtWork, Pending
<1>9. FoundIsAll(r)'
  BY <1>1, <1>3 DEF RunOk, FoundIsAll, AtWork, Pending
<1>10. CallsOnTheWay(r)'
  <2> SUFFICES ASSUME AtWork(r), job[r].whole,
                      NEW x \in Files \ job[r].unread, NEW j \in Content[c][x].calls,
                      NEW g \in DefsBut(c, job[r].unread),
                      j[1] \in DefsBut(c, job[r].unread), NameOf[g] = j[2],
                      j[1] \in Unrivalled, g \in Unrivalled, j \notin job'[r].calls
               PROVE  <<j[1], g>> \in calls'
    BY <1>1, <1>3 DEF CallsOnTheWay, AtWork
  <2>1. CASE j = k
    BY <1>5, <2>1
  <2>2. CASE j # k
    BY <1>1, <1>3, <1>4, <2>2 DEF RunOk, CallsOnTheWay, Pending
  <2> QED
    BY <2>1, <2>2
<1> QED
  BY <1>3, <1>6, <1>7, <1>8, <1>9, <1>10
     DEF RunOk, SeesItsCommit, BaseIsIngested, StartsEmpty

LEMMA TruncateIInv ==
    ASSUME TypeOK, IInv, NEW r \in Runs, Truncate(r)
    PROVE  RunOk(r)'
<1> DEFINE c == job[r].current
<1>1. /\ job[r] \in Job /\ RunOk(r) /\ job[r].pc = "write"
      /\ job[r].left = {} /\ job[r].routes = {} /\ job[r].calls = {}
  BY DEF TypeOK, Truncate, IInv
<1>2. job'[r] = [job[r] EXCEPT !.pc = "save", !.found = NothingFound]
  BY DEF Truncate, TypeOK
<1>3. /\ job'[r].pc = "save"
      /\ job'[r].found = NothingFound
      /\ job'[r].unread = job[r].unread
      /\ job'[r].current = c
      /\ job'[r].sound = job[r].sound
      /\ job'[r].whole = job[r].whole
  BY <1>1, <1>2 DEF Job
<1>4. nodes' = nodes /\ handled' = handled /\ calls' = calls
  BY DEF Truncate, graph
<1>5. FoundIsReal(r)'
  BY <1>3 DEF FoundIsReal, NothingFound
<1>6. FunctionsOnTheWay(r)'
  BY <1>1, <1>3, <1>4 DEF RunOk, FunctionsOnTheWay, AtWork, Pending
<1>7. RoutesOnTheWay(r)'
  BY <1>1, <1>3, <1>4 DEF RunOk, RoutesOnTheWay, AtWork, Pending
<1>8. CallsOnTheWay(r)'
  BY <1>1, <1>3, <1>4 DEF RunOk, CallsOnTheWay, AtWork, Pending
<1> QED
  BY <1>3, <1>5, <1>6, <1>7, <1>8
     DEF RunOk, SeesItsCommit, BaseIsIngested, StartsEmpty, FoundIsAll

\* A run that saves its commit has all of it in the graph.
LEMMA SaveIInv ==
    ASSUME TypeOK, IInv, NEW r \in Runs, Save(r)
    PROVE  RunOk(r)' /\ SavedIsIngested' /\ FullScanIngestsCalls'
<1> DEFINE c == job[r].current
<1>1. job[r] \in Job /\ RunOk(r) /\ job[r].pc = "save" /\ c \in Commits
  BY DEF TypeOK, Save, IInv
<1>2. state' = [sha |-> c, sound |-> job[r].sound, whole |-> job[r].whole,
                unread |-> job[r].unread]
  BY DEF Save
<1>3. nodes' = nodes /\ handled' = handled /\ calls' = calls
  BY DEF Save, graph
<1>4. RunOk(r)'
  <2>1. job'[r].pc = "idle"
    BY DEF Save, TypeOK, Idle
  <2> QED
    BY <2>1, EndedIsOk
<1>5. job[r].sound => FunctionsIn(c, job[r].unread)
  BY <1>1 DEF RunOk, FunctionsOnTheWay, AtWork, Pending, FunctionsIn, DefsBut
<1>6. job[r].sound => RoutesIn(c, job[r].unread)
  BY <1>1 DEF RunOk, RoutesOnTheWay, AtWork, Pending, RoutesIn
<1>7. job[r].sound /\ job[r].whole => CallsIn(c, job[r].unread)
  BY <1>1 DEF RunOk, CallsOnTheWay, AtWork, Pending, CallsIn
<1>8. GraphGrows
  BY <1>3 DEF GraphGrows
<1>9. SavedIsIngested'
  BY <1>2, <1>5, <1>6, <1>8, IngestedStays DEF SavedIsIngested
<1>10. FullScanIngestsCalls'
  BY <1>2, <1>7, <1>8, IngestedStays DEF FullScanIngestsCalls
<1> QED
  BY <1>4, <1>9, <1>10

-----------------------------------------------------------------------------
LEMMA IngestIInv == \A r \in Runs : TypeOK /\ IInv /\ Ingest(r) => IInv'
<1> SUFFICES ASSUME TypeOK, IInv, NEW r \in Runs, Ingest(r) PROVE IInv'
  OBVIOUS
<1>1. GraphGrows
  BY NextGrows DEF Next
<1>2. tree' = tree /\ head' = head /\ target' = target
  BY DEF Ingest, Load, LoadFails, Compare, Diff, Read, ReadFails, Parsed, WriteFunction,
         WriteRoute, RouteFails, WriteCall, Truncate, Save, Stop, repository
<1>3. ASSUME NEW q \in Runs, q # r PROVE job'[q] = job[q]
  BY <1>3 DEF Ingest, Load, LoadFails, Compare, Diff, Read, ReadFails, Parsed,
         WriteFunction, WriteRoute, RouteFails, WriteCall, Truncate, Save, Stop, TypeOK
<1>4. \A q \in Runs : q # r => RunOk(q)'
  BY <1>1, <1>2, <1>3, OthersStay DEF IInv
<1>5. RunOk(r)'
  <2>1. CASE LoadFails(r)
    BY <1>1, <1>2, <2>1, OthersStay DEF LoadFails, IInv
  <2>2. CASE Stop(r) \/ \E e \in Endpoints \X Functions : RouteFails(r, e)
    <3>1. job'[r].pc = "idle"
      BY <2>2 DEF Stop, RouteFails, TypeOK, Idle
    <3> QED
      BY <3>1, EndedIsOk
  <2> QED
    BY <2>1, <2>2, LoadIInv, CompareIInv, DiffIInv, ReadIInv, ReadFailsIInv, ParsedIInv,
       WriteFunctionIInv, WriteRouteIInv, WriteCallIInv, TruncateIInv, SaveIInv,
       QueueTypes DEF Ingest
<1>6. SavedIsIngested' /\ FullScanIngestsCalls'
  <2>1. CASE Save(r)
    BY <2>1, SaveIInv
  <2>2. CASE Truncate(r)
    BY <2>2, MarksAssumption DEF Truncate, NotSaved, SavedIsIngested,
           FullScanIngestsCalls
  <2>3. CASE ~Save(r) /\ ~Truncate(r)
    <3>1. state' = state
      BY <2>3 DEF Ingest, Load, LoadFails, Compare, Diff, Read, ReadFails, Parsed,
             WriteFunction, WriteRoute, RouteFails, WriteCall, Stop
    <3> QED
      BY <1>1, <3>1, SavedStays DEF IInv
  <2> QED
    BY <2>1, <2>2, <2>3
<1>7. TreeIsHead'
  BY <1>2 DEF TreeIsHead, IInv
<1> QED
  BY <1>4, <1>5, <1>6, <1>7 DEF IInv

LEMMA NextIInv == TypeOK /\ IInv /\ [Next]_vars => IInv'
<1>1. ASSUME TypeOK, IInv, UNCHANGED vars PROVE IInv'
  <2>1. GraphGrows
    BY <1>1, NextGrows
  <2>2. \A r \in Runs : RunOk(r)'
    BY <1>1, <2>1, OthersStay DEF vars, repository, IInv
  <2>3. SavedIsIngested' /\ FullScanIngestsCalls'
    BY <1>1, <2>1, SavedStays DEF vars, IInv
  <2> QED
    BY <1>1, <2>2, <2>3 DEF vars, repository, IInv, TreeIsHead
<1> QED
  BY <1>1, MoveIInv, IngestIInv DEF Next

LEMMA Invariance == Spec => []IInv
BY InitTypeOK, NextTypeOK, InitIInv, NextIInv, PTL DEF Spec

\* A commit in the state file, ingested from its own files, is in the graph: its
\* functions, and the handlers of its endpoints, but for the files that could not
\* be read.
THEOREM SavedCommitsAreIngested == Spec => []SavedIsIngested
<1>1. IInv => SavedIsIngested
  BY DEF IInv
<1> QED
  BY <1>1, Invariance, PTL

\* After a run over every file, so are its calls.
THEOREM FullScansIngestCalls == Spec => []FullScanIngestsCalls
<1>1. IInv => FullScanIngestsCalls
  BY DEF IInv
<1> QED
  BY <1>1, Invariance, PTL

-----------------------------------------------------------------------------
(* The ingester and the reachability engine.                               *)

Proved == INSTANCE ReachabilityProofs WITH
              CodeCalls    <- Functions \X Functions,
              CodeHandlers <- Endpoints \X Functions

LEMMA LabelsInitIsInit == LabelsInit => Init
BY DEF LabelsInit

LEMMA LabelsNextIsNext == [LabelsNext]_<<vars, engineVars>> => [Next]_vars
BY DEF LabelsNext, IngestStep, EngineStep

\* Beside the engine the ingester is the one of CodeIngest: whatever is proved
\* of it there holds here.
THEOREM LabelsImplementIngest == LabelsSpec => Spec
BY LabelsInitIsInit, LabelsNextIsNext, PTL DEF LabelsSpec, Spec

LEMMA LabelsTypeOK == LabelsSpec => []TypeOK
BY LabelsImplementIngest, TypeCorrect, PTL

\* A step of the ingester writes at most one relationship.
AddsCall == \E c \in Functions \X Functions :
    c \notin calls /\ calls' = calls \union {c} /\ handled' = handled

AddsHandler == \E h \in Endpoints \X Functions :
    h \notin handled /\ handled' = handled \union {h} /\ calls' = calls

LEMMA OneRelationship ==
    ASSUME TypeOK, Next, ~UNCHANGED <<calls, handled>>
    PROVE  AddsCall \/ AddsHandler
<1>1. CASE Move
  BY <1>1 DEF Move, BeginMove, CheckOut, EndMove, graph
<1>2. ASSUME NEW r \in Runs, Ingest(r) PROVE AddsCall \/ AddsHandler
  <2>1. ASSUME NEW e \in Endpoints \X Functions, WriteRoute(r, e)
        PROVE  AddsHandler
    BY <2>1 DEF WriteRoute, AddsHandler
  <2>2. ASSUME NEW k \in Functions \X Names, WriteCall(r, k)
        PROVE  AddsCall
    <3>1. calls' = calls \union Resolved(r, k) /\ handled' = handled
      BY <2>2 DEF WriteCall
    <3>2. Resolved(r, k) # {}
      BY <3>1
    <3> DEFINE c == <<k[1], job[r].found[k[2]]>>
    <3>3. Resolved(r, k) = {c} /\ c \in nodes \X nodes
      BY <3>2 DEF Resolved
    <3>4. c \in Functions \X Functions
      BY <3>3 DEF TypeOK
    <3>5. c \notin calls /\ calls' = calls \union {c}
      BY <3>1, <3>3
    <3> HIDE DEF c
    <3> QED
      BY <3>1, <3>4, <3>5 DEF AddsCall
  <2>3. CASE Load(r) \/ LoadFails(r) \/ Compare(r) \/ Diff(r) \/ Parsed(r)
             \/ Truncate(r) \/ Save(r) \/ Stop(r)
    BY <2>3 DEF Load, LoadFails, Compare, Diff, Parsed, Truncate, Save, Stop,
           graph
  <2>4. ASSUME NEW x \in Files, Read(r, x) \/ ReadFails(r, x) PROVE FALSE
    BY <2>4 DEF Read, ReadFails, graph
  <2>5. ASSUME NEW f \in Functions, WriteFunction(r, f) PROVE FALSE
    BY <2>5 DEF WriteFunction
  <2>6. ASSUME NEW e \in Endpoints \X Functions, RouteFails(r, e) PROVE FALSE
    BY <2>6 DEF RouteFails
  <2> QED
    BY <1>2, <2>1, <2>2, <2>3, <2>4, <2>5, <2>6, QueueTypes DEF Ingest
<1> QED
  BY <1>1, <1>2 DEF Next

LEMMA LabelsNextIsEngineNext ==
    TypeOK /\ [LabelsNext]_<<vars, engineVars>> => [Engine!Next]_(Engine!vars)
<1> SUFFICES ASSUME TypeOK, [LabelsNext]_<<vars, engineVars>>
             PROVE  [Engine!Next]_(Engine!vars)
  OBVIOUS
<1> USE DEF Engine!vars, Engine!graphVars, Engine!runVars, engineVars,
            engineRun
<1>1. CASE UNCHANGED <<vars, engineVars>>
  BY <1>1 DEF vars, graph
<1>2. CASE IngestStep
  <2>1. CASE UNCHANGED <<calls, handled>>
    BY <1>2, <2>1 DEF IngestStep
  <2>2. CASE ~UNCHANGED <<calls, handled>>
    <3>1. AddsCall \/ AddsHandler
      BY <1>2, <2>2, OneRelationship DEF IngestStep
    <3>2. /\ Engine!GraphChanges
          /\ UNCHANGED <<observed, exposed, named, label, engineRun, changes>>
      BY <1>2, <2>2 DEF IngestStep
    <3>3. CASE AddsCall
      <4>1. \E c \in Functions \X Functions : Engine!AddCall(c)
        BY <3>2, <3>3 DEF AddsCall, Engine!AddCall
      <4> QED
        BY <4>1 DEF Engine!Next, Engine!Surroundings
    <3>4. CASE AddsHandler
      <4>1. \E h \in Endpoints \X Functions : Engine!AddHandler(h)
        BY <3>2, <3>4 DEF AddsHandler, Engine!AddHandler
      <4> QED
        BY <4>1 DEF Engine!Next, Engine!Surroundings
    <3> QED
      BY <3>1, <3>3, <3>4
  <2> QED
    BY <2>1, <2>2
<1>3. CASE EngineStep
  BY <1>3 DEF EngineStep, Engine!Next, Engine!Surroundings
<1> QED
  BY <1>1, <1>2, <1>3 DEF LabelsNext

\* Beside the ingester the engine is the one of Reachability, whose code
\* ingester adds calls and handlers one at a time.
THEOREM LabelsImplementEngine == LabelsSpec => Engine!Spec
<1>1. LabelsInit => Engine!Init
  BY DEF LabelsInit
<1> QED
  BY <1>1, LabelsTypeOK, LabelsNextIsEngineNext, PTL
     DEF LabelsSpec, Engine!Spec

\* The constants of the engine are what its module assumes them to be.
EngineConstants ==
    /\ Advisories \in [Vulns -> SUBSET SUBSET Names]
    /\ Depth \in Nat
    /\ RowLimit \in Nat \ {0}
    /\ MaxChanges \in Nat

LEMMA EngineAssumptions ==
    EngineConstants => Proved!FunctionsAssumption
                       /\ Proved!AdvisoriesAssumption
                       /\ Proved!BoundsAssumption
BY NamesAssumption
   DEF EngineConstants, Proved!FunctionsAssumption,
       Proved!AdvisoriesAssumption, Proved!BoundsAssumption

\* The engine that is composed and the one that is proved about are one.
LEMMA SameRows == \A g, hs, names :
    Engine!AllRows(g, hs, names) = Proved!AllRows(g, hs, names)
<1>1. \A g, f : Engine!PathsFrom(g, f) = Proved!PathsFrom(g, f)
  <2>1. \A g, f : Engine!Trails(g, f, Depth) = Proved!Trails(g, f, Depth)
    BY Zenon DEF Engine!Trails, Proved!Trails, Engine!EdgeAt, Proved!EdgeAt
  <2> QED
    BY <2>1 DEF Engine!PathsFrom, Proved!PathsFrom
<1> QED
  BY <1>1 DEF Engine!AllRows, Proved!AllRows

LEMMA SameCardinality == \A S :
    Engine!Cardinality(S) = Proved!Cardinality(S)
BY Zenon DEF Engine!Cardinality, Proved!Cardinality

LEMMA SameResults == \A g, hs, names :
    Engine!StaticResults(g, hs, names) = Proved!StaticResults(g, hs, names)
BY SameRows, SameCardinality DEF Engine!StaticResults, Proved!StaticResults

LEMMA SameInit == Engine!Init => Proved!Init
BY Zenon DEF Engine!Init, Proved!Init, Engine!NoItem, Proved!NoItem

LEMMA SameVars == UNCHANGED Engine!vars => UNCHANGED Proved!vars
BY DEF Engine!vars, Proved!vars, Engine!graphVars, Proved!graphVars,
       Engine!runVars, Proved!runVars

LEMMA SameNext == Engine!Next => Proved!Next
<1> USE DEF Engine!graphVars, Proved!graphVars, Engine!runVars,
            Proved!runVars, Engine!vars, Proved!vars, Engine!GraphChanges,
            Proved!GraphChanges
<1>1. Engine!Surroundings => Proved!Surroundings
  <2> SUFFICES ASSUME Engine!Surroundings PROVE Proved!Surroundings
    OBVIOUS
  <2> USE DEF Proved!Surroundings
  <2>1. ASSUME NEW c \in Functions \X Functions, Engine!AddCall(c)
        PROVE  Proved!AddCall(c)
    BY <2>1 DEF Engine!AddCall, Proved!AddCall
  <2>2. ASSUME NEW h \in Endpoints \X Functions, Engine!AddHandler(h)
        PROVE  Proved!AddHandler(h)
    BY <2>2 DEF Engine!AddHandler, Proved!AddHandler
  <2>3. ASSUME NEW f \in Functions, Engine!Observe(f) \/ Engine!Forget(f)
        PROVE  Proved!Observe(f) \/ Proved!Forget(f)
    BY <2>3 DEF Engine!Observe, Proved!Observe, Engine!Forget, Proved!Forget
  <2>4. ASSUME NEW e \in Endpoints, Engine!Expose(e)
        PROVE  Proved!Expose(e)
    BY <2>4 DEF Engine!Expose, Proved!Expose
  <2>5. ASSUME NEW v \in Vulns, NEW names \in Advisories[v],
               Engine!Link(v, names) \/ Engine!Revise(v, names)
        PROVE  Proved!Link(v, names) \/ Proved!Revise(v, names)
    BY <2>5 DEF Engine!Link, Proved!Link, Engine!Revise, Proved!Revise
  <2> QED
    BY <2>1, <2>2, <2>3, <2>4, <2>5 DEF Engine!Surroundings
<1>2. Engine!Start => Proved!Start
  BY Zenon DEF Engine!Start, Proved!Start
<1>3. \A l : Engine!Decide(l) => Proved!Decide(l)
  BY Zenon DEF Engine!Decide, Proved!Decide
<1>4. Engine!Static => Proved!Static
  BY <1>3, SameResults, Zenon DEF Engine!Static, Proved!Static
<1>5. Engine!Runtime => Proved!Runtime
  BY <1>3, Zenon DEF Engine!Runtime, Proved!Runtime, Engine!NodesOf,
     Proved!NodesOf, Engine!EndpointsOf, Proved!EndpointsOf
<1>6. ASSUME NEW e \in Endpoints,
             Engine!SurfaceFound(e) \/ Engine!SurfaceMissed(e)
      PROVE  Proved!SurfaceFound(e) \/ Proved!SurfaceMissed(e)
  BY <1>3, <1>6 DEF Engine!SurfaceFound, Proved!SurfaceFound,
     Engine!SurfaceMissed, Proved!SurfaceMissed
<1>7. /\ Engine!Write => Proved!Write
      /\ Engine!Finish => Proved!Finish
      /\ Engine!Fail => Proved!Fail
  BY Zenon DEF Engine!Write, Proved!Write, Engine!Finish, Proved!Finish,
     Engine!Fail, Proved!Fail, Engine!NoItem, Proved!NoItem
<1>8. Engine!Run => Proved!Run
  BY <1>4, <1>5, <1>6, <1>7 DEF Engine!Run, Proved!Run
<1> QED
  BY <1>1, <1>2, <1>7, <1>8, Zenon DEF Engine!Next, Proved!Next

LEMMA EngineIsProved == Engine!Spec => Proved!Spec
<1>1. [Engine!Next]_(Engine!vars) => [Proved!Next]_(Proved!vars)
  BY SameNext, SameVars
<1> QED
  BY <1>1, SameInit, PTL DEF Engine!Spec, Proved!Spec

\* NOT_REACHABLE, written by an undisturbed run, says the graph has no row.
GraphHasNoRow ==
    \A v \in exact : label[v] = "NOT_REACHABLE" =>
        Proved!AllRows(calls, handled, named[v]) = {}

LEMMA LabelsOfTheGraph ==
    ASSUME EngineConstants
    PROVE  LabelsSpec => []GraphHasNoRow
<1>1. Proved!Spec => [](\A v \in exact : label[v] = "NOT_REACHABLE" =>
          Proved!AllRows(calls, handled, named[v]) = {})
  BY EngineAssumptions, Proved!NotReachableHasNoRow
<1> QED
  BY <1>1, LabelsImplementEngine, EngineIsProved, PTL DEF GraphHasNoRow

\* The graph has the code of a commit after a run over every file, as far as the
\* files could be read.
LEMMA CodeIsInGraph ==
    ASSUME SavedIsIngested, FullScanIngestsCalls,
           state.sha \in Commits, state.sound, state.whole
    PROVE  /\ CallsOfCode(state.sha, state.unread) \subseteq calls
           /\ RoutesOfCode(state.sha, state.unread) \subseteq handled
<1> DEFINE c == state.sha
           xs == state.unread
<1>1. RoutesIn(c, xs) /\ CallsIn(c, xs)
  BY DEF SavedIsIngested, FullScanIngestsCalls
<1>2. ASSUME NEW e \in CallsOfCode(c, xs) PROVE e \in calls
  <2>1. /\ e = <<e[1], e[2]>> /\ e[1] \in DefsBut(c, xs) /\ e[2] \in DefsBut(c, xs)
        /\ e[1] \in Unrivalled /\ e[2] \in Unrivalled
    BY <1>2 DEF CallsOfCode
  <2>2. PICK x \in Files \ xs : <<e[1], NameOf[e[2]]>> \in Content[c][x].calls
    BY <1>2 DEF CallsOfCode
  <2>3. <<e[1], e[2]>> \in calls
    BY <1>1, <2>1, <2>2 DEF CallsIn
  <2> QED
    BY <2>1, <2>3
<1>3. RoutesOfCode(c, xs) \subseteq handled
  BY <1>1 DEF RoutesIn, RoutesOfCode
<1> QED
  BY <1>2, <1>3

\* After a run over every file has saved its commit, an undisturbed run of
\* the engine that writes NOT_REACHABLE is right about the code: no path of
\* the code from a route to a function of the advisory was missed, whatever
\* the ingester, git and the engine did side by side.
THEOREM FullScansLabelCode ==
    ASSUME EngineConstants
    PROVE  LabelsSpec => []FullScanLabelsCode
<1>1. ASSUME SavedIsIngested, FullScanIngestsCalls, GraphHasNoRow
      PROVE  FullScanLabelsCode
  <2> SUFFICES ASSUME state.sha \in Commits, state.sound, state.whole,
                      NEW v \in exact, label[v] = "NOT_REACHABLE"
               PROVE  Engine!AllRows(CallsOfCode(state.sha, state.unread),
                                     RoutesOfCode(state.sha, state.unread),
                                     named[v]) = {}
    BY DEF FullScanLabelsCode, NoPathMissed
  <2> DEFINE cs == CallsOfCode(state.sha, state.unread)
             hs == RoutesOfCode(state.sha, state.unread)
  <2>1. cs \subseteq calls /\ hs \subseteq handled
    BY <1>1, CodeIsInGraph
  <2>2. Proved!AllRows(cs, hs, named[v])
            \subseteq Proved!AllRows(calls, handled, named[v])
    BY <2>1, EngineAssumptions, Proved!RowsGrow
  <2>3. Proved!AllRows(calls, handled, named[v]) = {}
    BY <1>1 DEF GraphHasNoRow
  <2> QED
    BY <2>2, <2>3, SameRows
<1>2. SavedIsIngested /\ FullScanIngestsCalls /\ GraphHasNoRow
          => FullScanLabelsCode
  BY <1>1
<1> QED
  BY <1>2, LabelsImplementIngest, SavedCommitsAreIngested,
     FullScansIngestCalls,
     LabelsOfTheGraph, PTL
=============================================================================
