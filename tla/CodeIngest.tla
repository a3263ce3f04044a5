------------------------------ MODULE CodeIngest ------------------------------
(***************************************************************************)
(* Layer 1, the code ingester (layer1/code_ingester.py) on one service:    *)
(* ingest() reads the saved state, asks git for HEAD and for the files     *)
(* changed since the saved commit, parses those files and merges their     *)
(* functions, endpoints and calls into the graph, one query at a time;     *)
(* last of all it writes the commit into the state file.                   *)
(*                                                                         *)
(* Nothing locks the repository, the graph or the state file: git moves    *)
(* the working tree file by file, several runs may be under way, and each  *)
(* may end at any point.                                                   *)
(***************************************************************************)
EXTENDS Integers, FiniteSets

CONSTANTS
    Commits,    \* commits the repository may be at
    Files,      \* source files of the repository
    Functions,  \* Function ids: file, name and line
    Names,      \* function names
    NameOf,     \* the name of each function
    LineOf,     \* the line of each function
    Endpoints,  \* APIEndpoint ids: method and path
    Content,    \* what parsing finds in each file of each commit; a file
                \* the commit has not is one with nothing in it
    Runs,       \* processes that may ingest the service
    None,       \* no commit, no function
    Torn,       \* a state file that is not JSON
    MaxMoves,   \* bound: times git moves HEAD
    MaxStarts   \* bound: runs started

Source == [defs   : SUBSET Functions,
           calls  : SUBSET (Functions \X Names),
           routes : SUBSET (Endpoints \X Functions)]

Defs(c)   == UNION {Content[c][x].defs : x \in Files}
Routes(c) == UNION {Content[c][x].routes : x \in Files}

\* g is the last definition of the name n in the parsed file s.
IsLast(s, n, g) ==
    /\ g \in s.defs
    /\ NameOf[g] = n
    /\ \A h \in s.defs : NameOf[h] = n => LineOf[h] <= LineOf[g]

Defines(s, n) == \E g \in s.defs : NameOf[g] = n

ASSUME NamesAssumption ==
    /\ NameOf \in [Functions -> Names]
    /\ LineOf \in [Functions -> Nat]
ASSUME ContentAssumption ==
    /\ Content \in [Commits -> [Files -> Source]]
    /\ \A c \in Commits, x \in Files, n \in Names :
           Defines(Content[c][x], n) => \E g \in Functions : IsLast(Content[c][x], n, g)
ASSUME MarksAssumption ==
    None \notin Commits /\ Torn \notin Commits /\ None # Torn /\ None \notin Functions
ASSUME BoundsAssumption == MaxMoves \in Nat /\ MaxStarts \in Nat

VARIABLES
    head,    \* the commit git calls HEAD
    target,  \* the commit git is checking out, or None
    tree,    \* the files of the working tree
    state,   \* the state file of the service and, as history, how the
             \* commit in it was ingested: sound, whole and unread
    nodes,   \* Function nodes of the graph
    handled, \* HANDLED_BY relationships
    calls,   \* CALLS relationships
    job,     \* the local variables of each run
    moves,   \* moves made, for the bound
    starts   \* runs started, for the bound

repository == <<head, target, tree, moves>>
graph == <<nodes, handled, calls>>
vars == <<repository, state, graph, job, starts>>

-----------------------------------------------------------------------------
\* sound: history.  The files read were those of the commit `current', and the
\* same held of the commit the run started from.
\* whole: history.  Every file was to be read.
\* unread: history.  The files that could not be read when they last had to be,
\* in this run or in those the saved commit comes from.
Job == [pc     : {"idle", "compare", "diff", "read", "write", "save"},
        last   : Commits \union {None},      \* last_sha, until the diff
        current: Commits \union {None},      \* current_sha
        toRead : SUBSET Files,
        found  : [Names -> Functions \union {None}],  \* all_functions
        calls  : SUBSET (Functions \X Names),         \* all_calls
        routes : SUBSET (Endpoints \X Functions),     \* all_endpoints
        left   : SUBSET Functions,           \* functions not yet upserted
        sound  : BOOLEAN,
        whole  : BOOLEAN,
        unread : SUBSET Files]

Saved == [sha : Commits \union {None, Torn}, sound : BOOLEAN, whole : BOOLEAN,
          unread : SUBSET Files]

\* A state file from which no commit can be told.
NotSaved(sha) == [sha |-> sha, sound |-> FALSE, whole |-> FALSE, unread |-> {}]

NothingFound == [n \in Names |-> None]

Idle == [pc |-> "idle", last |-> None, current |-> None,
         toRead |-> {}, found |-> NothingFound, calls |-> {}, routes |-> {},
         left |-> {}, sound |-> FALSE, whole |-> FALSE, unread |-> {}]

Init ==
    /\ head \in Commits
    /\ target = None
    /\ tree = Content[head]
    /\ state = NotSaved(None)
    /\ nodes = {}
    /\ handled = {}
    /\ calls = {}
    /\ job = [r \in Runs |-> Idle]
    /\ moves = 0
    /\ starts = 0

-----------------------------------------------------------------------------
(* The repository: a pull by this or another run of the ingester, or the   *)
(* owner of a local repository.  Git writes the files, then HEAD.          *)

BeginMove ==
    /\ target = None
    /\ moves < MaxMoves
    /\ target' \in Commits \ {head}
    /\ moves' = moves + 1
    /\ UNCHANGED <<head, tree, state, graph, job, starts>>

\* A run that reads files, or is about to, no longer sees its commit.
CheckOut(x) ==
    /\ target # None
    /\ tree[x] # Content[target][x]
    /\ tree' = [tree EXCEPT ![x] = Content[target][x]]
    /\ job' = [r \in Runs |->
                  IF job[r].pc \in {"diff", "read"}
                  THEN [job[r] EXCEPT !.sound = FALSE] ELSE job[r]]
    /\ UNCHANGED <<head, target, moves, state, graph, starts>>

EndMove ==
    /\ target # None
    /\ tree = Content[target]
    /\ head' = target
    /\ target' = None
    /\ UNCHANGED <<tree, moves, state, graph, job, starts>>

-----------------------------------------------------------------------------
(* One run of ingest().                                                    *)

\* Mutant: a state file that is not JSON is used.
LoadTorn(r) ==
    /\ job[r].pc = "idle"
    /\ starts < MaxStarts
    /\ starts' = starts + 1
    /\ \E last \in {state.sha, None} :
           job' = [job EXCEPT ![r] =
               [Idle EXCEPT !.pc = "compare", !.last = last,
                            !.sound = (last = None \/ state.sound),
                            !.unread = IF last = None THEN {} ELSE state.unread]]
    /\ UNCHANGED <<repository, state, graph>>

\* _load_state; a forced run starts from nothing.
Load(r) ==
    /\ job[r].pc = "idle"
    /\ starts < MaxStarts
    /\ starts' = starts + 1
    /\ \E last \in {state.sha, None} \ {Torn} :
           job' = [job EXCEPT ![r] =
               [Idle EXCEPT !.pc = "compare", !.last = last,
                            !.sound = (last = None \/ state.sound),
                            !.unread = IF last = None THEN {} ELSE state.unread]]
    /\ UNCHANGED <<repository, state, graph>>

\* json.loads raises: a run that is not forced ends here.
LoadFails(r) ==
    /\ job[r].pc = "idle"
    /\ starts < MaxStarts
    /\ state.sha = Torn
    /\ starts' = starts + 1
    /\ UNCHANGED <<repository, state, graph, job>>

\* rev-parse HEAD, and the comparison with the saved commit.
Compare(r) ==
    /\ job[r].pc = "compare"
    /\ job' = [job EXCEPT ![r] =
           IF job[r].last = head
           THEN Idle
           ELSE [job[r] EXCEPT !.pc = "diff", !.current = head,
                     !.sound = job[r].sound /\ tree = Content[head]]]
    /\ UNCHANGED <<repository, state, graph, starts>>

\* git diff of the saved commit and HEAD, which may have moved since.
Changed(last) == {x \in Files : Content[last][x] # Content[head][x]}

\* A first or forced run reads every file, and so does one whose diff git
\* refuses: the saved commit is not in a clone of the last 50.
ToRead(r) == IF job[r].last = None THEN {Files} ELSE {Changed(job[r].last), Files}

Diff(r) ==
    /\ job[r].pc = "diff"
    /\ \E files \in ToRead(r) :
           job' = [job EXCEPT ![r] =
               [job[r] EXCEPT !.pc = "read", !.last = None,
                              !.toRead = files, !.whole = (files = Files)]]
    /\ UNCHANGED <<repository, state, graph, starts>>

\* all_functions after the functions of the file s: the last of a name wins,
\* in the file and over the files read before.
Found(found, s) ==
    [n \in Names |->
        IF Defines(s, n) THEN CHOOSE g \in Functions : IsLast(s, n, g) ELSE found[n]]

Read(r, x) ==
    /\ job[r].pc = "read"
    /\ x \in job[r].toRead
    /\ job' = [job EXCEPT ![r] =
           [job[r] EXCEPT !.toRead = job[r].toRead \ {x},
                          !.unread = job[r].unread \ {x},
                          !.found = Found(job[r].found, tree[x]),
                          !.calls = job[r].calls \union tree[x].calls,
                          !.routes = job[r].routes \union tree[x].routes]]
    /\ UNCHANGED <<repository, state, graph, starts>>

\* An OSError is logged and the file passed over; its commit is saved all the
\* same, and no later run reads the file before it changes.
ReadFails(r, x) ==
    /\ job[r].pc = "read"
    /\ x \in job[r].toRead
    /\ job' = [job EXCEPT ![r] =
           [job[r] EXCEPT !.toRead = job[r].toRead \ {x},
                          !.unread = job[r].unread \union {x}]]
    /\ UNCHANGED <<repository, state, graph, starts>>

\* All is parsed: the functions to upsert are those left in all_functions.
Parsed(r) ==
    /\ job[r].pc = "read"
    /\ job[r].toRead = {}
    /\ job' = [job EXCEPT ![r] =
           [job[r] EXCEPT !.pc = "write",
                          !.left = {job[r].found[n] : n \in Names} \ {None}]]
    /\ UNCHANGED <<repository, state, graph, starts>>

WriteFunction(r, f) ==
    /\ job[r].pc = "write"
    /\ f \in job[r].left
    /\ nodes' = nodes \union {f}
    /\ job' = [job EXCEPT ![r] = [job[r] EXCEPT !.left = job[r].left \ {f}]]
    /\ UNCHANGED <<repository, state, handled, calls, starts>>

\* The handler of a route is made up when no function of its name was found.
WithHandler(r, h) == IF job[r].found[NameOf[h]] = None THEN nodes \union {h} ELSE nodes

\* The endpoint, and its relationship if the MATCH finds the handler.
WriteRoute(r, e) ==
    /\ job[r].pc = "write"
    /\ job[r].left = {}
    /\ e \in job[r].routes
    /\ nodes' = WithHandler(r, e[2])
    /\ handled' = IF e[2] \in nodes' THEN handled \union {e} ELSE handled
    /\ job' = [job EXCEPT ![r] = [job[r] EXCEPT !.routes = job[r].routes \ {e}]]
    /\ UNCHANGED <<repository, state, calls, starts>>

\* The run ends between the handler and the endpoint.
RouteFails(r, e) ==
    /\ job[r].pc = "write"
    /\ job[r].left = {}
    /\ e \in job[r].routes
    /\ nodes' = WithHandler(r, e[2])
    /\ job' = [job EXCEPT ![r] = Idle]
    /\ UNCHANGED <<repository, state, handled, calls, starts>>

\* A callee is looked up among the functions of this run, by name; the
\* MATCH needs both nodes.
Resolved(r, c) ==
    IF job[r].found[c[2]] # None /\ {c[1], job[r].found[c[2]]} \subseteq nodes
    THEN {<<c[1], job[r].found[c[2]]>>} ELSE {}

\* Mutant: calls are written as they are found.
WriteCallAtOnce(r, c) ==
    /\ job[r].pc = "write"
    /\ c \in job[r].calls
    /\ calls' = calls \union Resolved(r, c)
    /\ job' = [job EXCEPT ![r] = [job[r] EXCEPT !.calls = job[r].calls \ {c}]]
    /\ UNCHANGED <<repository, state, nodes, handled, starts>>

WriteCall(r, c) ==
    /\ job[r].pc = "write"
    /\ job[r].left = {}
    /\ job[r].routes = {}
    /\ c \in job[r].calls
    /\ calls' = calls \union Resolved(r, c)
    /\ job' = [job EXCEPT ![r] = [job[r] EXCEPT !.calls = job[r].calls \ {c}]]
    /\ UNCHANGED <<repository, state, nodes, handled, starts>>

\* Mutant: the commit is saved as soon as the files are parsed.
TruncateFirst(r) ==
    /\ job[r].pc = "write"
    /\ state' = NotSaved(Torn)
    /\ job' = [job EXCEPT ![r] = [job[r] EXCEPT !.pc = "save", !.found = NothingFound]]
    /\ UNCHANGED <<repository, graph, starts>>

\* write_text empties the state file, then fills it.  all_functions is not
\* used again.
Truncate(r) ==
    /\ job[r].pc = "write"
    /\ job[r].left = {}
    /\ job[r].routes = {}
    /\ job[r].calls = {}
    /\ state' = NotSaved(Torn)
    /\ job' = [job EXCEPT ![r] = [job[r] EXCEPT !.pc = "save", !.found = NothingFound]]
    /\ UNCHANGED <<repository, graph, starts>>

Save(r) ==
    /\ job[r].pc = "save"
    /\ state' = [sha |-> job[r].current, sound |-> job[r].sound,
                 whole |-> job[r].whole, unread |-> job[r].unread]
    /\ job' = [job EXCEPT ![r] = Idle]
    /\ UNCHANGED <<repository, graph, starts>>

\* git fails, a query has failed in all its attempts, or the process is
\* killed.
Stop(r) ==
    /\ job[r].pc # "idle"
    /\ job' = [job EXCEPT ![r] = Idle]
    /\ UNCHANGED <<repository, state, graph, starts>>

-----------------------------------------------------------------------------
Move == BeginMove \/ (\E x \in Files : CheckOut(x)) \/ EndMove

Ingest(r) ==
    \/ Load(r) \/ LoadFails(r) \/ Compare(r) \/ Diff(r)
    \/ \E x \in Files : Read(r, x) \/ ReadFails(r, x)
    \/ Parsed(r)
    \/ \E f \in job[r].left : WriteFunction(r, f)
    \/ \E e \in job[r].routes : WriteRoute(r, e) \/ RouteFails(r, e)
    \/ \E c \in job[r].calls : WriteCall(r, c)
    \/ Truncate(r) \/ Save(r) \/ Stop(r)

Next == Move \/ \E r \in Runs : Ingest(r)

Spec == Init /\ [][Next]_vars

-----------------------------------------------------------------------------
(* Properties.                                                             *)

\* Type invariant.  The files of the working tree are files of some commit,
\* and a run past rev-parse knows its commit.
TypeOK ==
    /\ head \in Commits
    /\ target \in Commits \union {None}
    /\ tree \in [Files -> Source]
    /\ \A x \in Files : \E c \in Commits : tree[x] = Content[c][x]
    /\ state \in Saved
    /\ nodes \subseteq Functions
    /\ handled \subseteq Endpoints \X Functions
    /\ calls \subseteq Functions \X Functions
    /\ job \in [Runs -> Job]
    /\ \A r \in Runs : job[r].pc \notin {"idle", "compare"} => job[r].current \in Commits
    /\ moves \in 0 .. MaxMoves
    /\ starts \in 0 .. MaxStarts

\* all_functions has one function for a name.  These have no rival: in every
\* commit that defines one, or routes to it, no other function has its name.
Unrivalled ==
    {f \in Functions : \A c \in Commits :
        (f \in Defs(c) \/ \E e \in Routes(c) : e[2] = f)
            => \A g \in Defs(c) : NameOf[g] = NameOf[f] => g = f}

\* What the files of commit c outside xs define.
DefsBut(c, xs) == UNION {Content[c][x].defs : x \in Files \ xs}

FunctionsIn(c, xs) == \A f \in DefsBut(c, xs) : f \in Unrivalled => f \in nodes

RoutesIn(c, xs) ==
    \A x \in Files \ xs : \A e \in Content[c][x].routes :
        e[2] \in Unrivalled => e \in handled

\* The next run skips what the commit in the state file has (lines 471-479):
\* its functions are in the graph and its endpoints have their handlers, but for
\* those in files that could not be read, however many runs overlapped, failed or
\* were killed before, as long as the files read were those of the commits they
\* were read for.
SavedIsIngested ==
    state.sha \in Commits /\ state.sound =>
        FunctionsIn(state.sha, state.unread) /\ RoutesIn(state.sha, state.unread)

\* The calls in the files of commit c outside xs, between functions that these
\* files define and no other shares the name of.
CallsIn(c, xs) ==
    \A x \in Files \ xs : \A k \in Content[c][x].calls : \A g \in DefsBut(c, xs) :
        /\ k[1] \in DefsBut(c, xs)
        /\ NameOf[g] = k[2]
        /\ k[1] \in Unrivalled
        /\ g \in Unrivalled
        => <<k[1], g>> \in calls

\* A run over every file leaves every call of the commit in the graph, as far as
\* the files could be read: the nodes both ends are matched to are written before
\* (lines 513-526).
FullScanIngestsCalls ==
    state.sha \in Commits /\ state.sound /\ state.whole =>
        CallsIn(state.sha, state.unread)
=============================================================================
