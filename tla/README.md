# Verification of the Live System Intelligence Graph

TLA+ specifications of the Live System Intelligence Graph (LSIG), model-checked
with TLC on small instances, with theorems proved by TLAPS for every value of
the constants. Paths are relative to the repository.

1. [The system](#1-the-system)
2. [The modules and the code](#2-the-modules-and-the-code)
3. [The runs](#3-the-runs)
4. [The proofs](#4-the-proofs)
5. [What the code does not do as documented](#5-what-the-code-does-not-do-as-documented)
6. [What is not modelled](#6-what-is-not-modelled)
7. [Plan](#7-plan)

To check: `tlc -config X.cfg M` for the pairs in section 3, `tlapm M.tla` for
the modules whose name ends in `Proofs`.

## 1. The system

LSIG keeps one graph (Neo4j) of the functions, calls, dependencies,
vulnerabilities, endpoints, owners and data fields of many services. Six layers
write and read it; they share nothing but the graph, Kafka, and HTTP calls.

| Part | State it keeps | Operations | Talks to |
|---|---|---|---|
| Runtime agent (`runtime_agent/`, Go) | map of call counts behind a channel mutex; asynchronous Kafka writer | `Record`, `Flush`, `RunFlushLoop`, `Emit`, `Close`, event loop, signal | eBPF probes, Kafka |
| Symbolizer (`runtime_agent/symbolizer.go`) | caches by process and address | `Resolve`, eviction | an external process |
| eBPF probes (`runtime_agent/ebpf/uprobe.bpf.c`) | `entry_times` map, per-CPU event | entry and return probes | the agent |
| Runtime join (`layer2/runtime_join.py`) | buckets in memory, committed offset, RUNTIME_CALLS self-loops | consume, record, drain, upsert, tombstone, decay, stop | Kafka, graph |
| Code ingester (`layer1/code_ingester.py`) | last commit of each service, Function nodes, CALLS | clone, diff, upsert, save state | git, graph |
| Graph client, retry (`layer1/neo4j_client.py`, `retry_client.py`) | driver | `run_query`, `upsert_node`, `with_retry` | graph |
| Reachability engine (`layer3/reachability.py`) | HAS_VULN.reachability | static, runtime and exposure steps; write | graph |
| SBOM ingester (`layer3/sbom_ingester.py`) | Dependency nodes, the digest of the last image | inspect, compare, scan, upsert, save digest | docker, Syft, graph |
| CVE ingester (`layer3/cve_ingester.py`) | Vulnerability nodes, HAS_VULN; EPSS and KEV caches in each process | poll, query, build, upsert, link, daemon loop | feeds, graph |
| Nuclei runner (`layer3/nuclei_runner.py`) | endpoints exposed | scan, link | an external scanner, graph |
| PII detector, taint tracker, regulatory annotator (`layer4/`) | DataField nodes, FLOWS_TO with its two marks, scope of the service, marks of endpoints | scan, analyse, annotate | graph, Presidio, CodeQL |
| Ownership ingester (`layer4/`) | owners | match, annotate | git, graph |
| Graph API, NL queries, metrics, semantic index (`layer5/`) | an external index | read-only queries, synchronisation | graph, stores |
| Certificate engine, API, webhook (`layer6/`) | Certificate nodes, jobs in memory, check runs at GitHub | generate, store, receive, report | graph, GitHub |
| Temporal workflow (`layer6/workflows/`) | the Temporal server's record | `run`, five activities with timeouts and retries | the engine, GitHub |
| Dashboard, schema, deployment | - | - | the APIs |

How a fact travels: a call is counted by an agent, flushed to Kafka, taken by
the join and written on the function's RUNTIME_CALLS relationship; the
reachability engine reads it as evidence when it labels a vulnerability; the
label decides the risk level of a certificate, and with it the check run a
developer sees. Vulnerabilities come from the components of an image by way
of the SBOM and CVE ingesters; PII flows, the other input of the rating, from the
three programs of layer 4.

### What is hard

- **Two actors, one structure.** Record and Flush share a map of pointers; the
  consumer and the flush thread share buckets; the sweep and the flush thread
  write the same relationships; two runs of the taint tracker reset and set the
  same flags.
- **Several transactions that have to add up to one.** A label takes up to four
  kinds of query, a certificate five, and other layers write between them.
- **Stopping.** The agent's `main` returns before the last flush; the join's
  daemon threads die anywhere; certificate jobs live in memory.
- **Failure in the middle.** A drained batch is not written; one of many
  messages fails; GitHub applies a request whose answer is lost; an advisory
  fails between two others; a run ends between the reset of a flag and its flag.
- **Given up, not stopped.** An attempt at an activity goes on in a thread after
  its timeout, beside the next attempt and the next execution.
- **Caches.** Each process that polls advisories keeps scores of its own, failures
  included.
- **A moving source.** The ingester asks git for HEAD, for the diff and for the
  files at different times, while git moves the working tree file by file; the
  SBOM ingester reads the digest of an image and then scans what the tag is at.
- **Limits.** Queries are cut at 50 and 20 rows, file lists at 100.
- **Order and time.** Events of several hosts are not ordered; offsets are
  committed on a timer; certificate ids have whole seconds.

`PROJECT.json` lists every such hazard with its line and the properties that
would catch it.

### What makes each part correct

| Part | Correct means |
|---|---|
| Runtime agent | a closed window is published at most once per function, with exactly its calls, or given up where the code logs it; no shutdown deadlocks |
| Runtime join | each consumed call is counted, waiting or lost, in one place; daily counts are within weekly ones; no call is counted twice without a replay; timestamps do not go back |
| Reachability engine | a label is that of one look at the graph when nothing changed, and is grounded in some graph when something did; an undisturbed run leaves no edge out |
| Certificates | a rating made from one graph is that of one look at it; green hides nothing that was there throughout; a check run has one final verdict, and somebody who will give it |
| Code ingester | after a sound run the graph holds the functions of the commit it saved, as far as its files could be read; a crash repeats work and loses none |
| SBOM ingester | a digest is saved only for an image whose components are all in the graph |
| CVE ingester | a link says of a dependency only what some advisory on it says or said; a poll without a failure drops none; a daemon nobody kills makes all of them in the end |
| Layer 4 | a flow is never both regulated and unregulated; a flag is missing only between reset and flag, or after a failure there; an undisturbed scan leaves nothing out, an annotator nothing that stayed as it was |
| Temporal workflow | all that is said of an execution, late or repeated, is what its output says; every execution ends |

## 2. The modules and the code

| Module | Models | Role |
|---|---|---|
| `CallLedger` | - | abstract: what the agent promises |
| `CallAggregator` | `runtime_agent/kafka_producer.go`, loop of `main.go` | implements `CallLedger` |
| `RuntimeJoin` | `layer2/runtime_join.py`, standalone mode | the join's three threads |
| `RuntimePath` | the topic between the two | composes `CallLedger` and `RuntimeJoin` |
| `CodeIngest` | `layer1/code_ingester.py` | runs of the ingester on one service |
| `SbomIngest` | `layer3/sbom_ingester.py` | runs of the ingester on one service |
| `CveIngest` | `layer3/cve_ingester.py` | polls of a daemon and other processes |
| `Dependencies` | the Dependency nodes | the state the two ingesters share |
| `SupplyChain` | both side by side | composes `SbomIngest` and `CveIngest` |
| `PiiFlow` | `layer4/pii_detector.py`, `taint_tracker.py`, `regulatory_annotator.py` | their runs on one service |
| `CallGraph` | the path and caller queries | operators shared by the next two |
| `Reachability` | `layer3/reachability.py` | runs of the engine |
| `CodeLabels` | ingester and engine side by side | composes `CodeIngest` and `Reachability` |
| `ChangeCertificate` | `layer6/certificate_engine.py`, `certificate_api.py`, `github_webhook.py` | certificates and check runs |
| `ChangeWorkflow` | `layer6/workflows/change_impact_workflow.py` | executions of one workflow id |
| `MC...` | - | instances for TLC |
| `...Proofs` | - | theorems |

`CallGraph` has no `RECURSIVE` operator: paths and callers are recursive
functions over the number of hops, so that the modules can be proved about.
Operators that begin a comment with "Mutant" are deliberate faults, used to see
that the properties notice them; no specification uses one.

### CallAggregator

Each `make(map)` of the code is a *window*: `window` is the one `a.counts`
points to, `count[w][k]` the bucket of function `k` in the map of window `w`.
That keeps apart what the Go program keeps apart by pointers, so a bucket held
across a swap can be incremented in the wrong window in the model, exactly as in
the code. The mutex is the token of a one-place channel (`mu`).

| Code | Actions |
|---|---|
| `main`: select, `rd.Read`, discarded samples | `CheckContext`, `SkipSample`, `ReadSample` |
| `Record` | `RecordLookup` (takes the token), `RecordIncrement` (gives it back) |
| `RunFlushLoop` | `Tick`, `FinalFlush` |
| `Flush` | `FlushLock`, `FlushSwap`, `FlushSwapEmpty`, `EmitAccepted`, `EmitFailed`, `FlushReturn` |
| deferred `Close`, return of `main` | `CloseWriter`, `Exit` |
| the kafka-go writer | `Deliver`, `GiveUp` (external, from its use) |
| the outside | `Signal`, `Kill` |

A message is the window, the function and the count. What the agent itself sends
twice would be seen; a message the broker gets twice, because its acknowledgement
was lost and the kafka-go writer is not an idempotent producer, is
`EventArrivesAgain` of `RuntimePath`.

### RuntimeJoin

Time is in days, the unit of the module's thresholds. One partition, one member
of the group. `committed` trails `position`; a restart resumes there, which
loses or replays events, as auto-commit does. `buckets` is the accumulator,
`batch` what the flush thread has drained and not yet written. RUNTIME_CALLS is
a relationship of a function to itself, so `edges` is indexed by node.

| Code | Actions |
|---|---|
| `StandaloneConsumer.run`, `record` | `Consume`, `AutoCommit` |
| `stop`, the signal handler, `finally` | `Signal`, `SignalInTurn`, `CloseConsumer`, `CloseWriter`, `Exit` |
| `_flush_loop`, `drain`, `upsert_runtime_calls` | `Drain`, `Upsert`, `UpsertFails` |
| `_tombstone_loop`, `tombstone_dead_edges`, `decay_daily_counts` | `Tombstone`, `Decay`, `SweepFails` |
| process | `Crash`, `Start` |
| the outside | `Publish`, `IngestFunction`, `NextDay` |

`record` and `drain` each hold the lock for all they do, hence one action each.
The history variables `taken`, `missed`, `newest`, `replayed` are read by no
guard: properties use them.

### RuntimePath

The way of a call from the agent to the graph. The agent is its ledger
(`CallLedger`), which `CallAggregator` implements; the topic and the join are
`RuntimeJoin`, whose `Publish` is now the arrival of a message of the ledger.

| What happens | Actions |
|---|---|
| the agent counts a call, closes a window | `CallSeen`, `WindowCloses` |
| the broker appends a message of a closed window | `EventArrives` |
| it appends one again | `EventArrivesAgain` |
| everything behind the topic | `JoinStep` |

`called` and `repeated` are history: the calls of each function, and whether a
message arrived twice. A function is known by its location, as the join knows
it.

### CodeIngest

| Specification | Code |
|---|---|
| `Commits`, `Content` | the history of the repository, and what `_parse_file_regex` finds in each file of each commit |
| `BeginMove`, `CheckOut`, `EndMove` | `git pull` of this or another run, or the owner of a local repository: files first, then HEAD |
| `Load`, `LoadFails`, `Compare`, `Diff` | `_load_state`, `_current_sha` and the early return, `_changed_files_since` |
| `Read`, `ReadFails`, `Parsed` | the loop over the files; `found` is `all_functions`, keyed by name |
| `WriteFunction`, `WriteRoute`, `RouteFails`, `WriteCall` | the upserts, one at a time and in their order |
| `Truncate`, `Save` | `write_text` of the state file, which empties it first |
| `Stop` | git or a query failed in all its attempts, or the process died |

Function ids hold the line, so a function that moves is another node; nothing
is ever deleted. A deleted file is one in which nothing is found. `sound`,
`whole` and `unread` are history: whether the files read were those of the commit
saved, whether all were to be read, and which could not be when they last had
to. Where git moved the tree under a run, and in the files nobody could read, the
code does lose functions (section 5): the properties are about sound runs, and
all other files of their commit. A pull comes before the state is read in a run;
being an action of the repository, it may come at any time, as another run's does.

### Reachability

One run of `run_for_service` at a time, as the handler that calls it awaits
nothing. `Static`, `Runtime` and `SurfaceFound`/`SurfaceMissed` are one query
each, `Write` the update; `Fail` is a query that failed in all its attempts.
Between any two, the surroundings add calls and handlers, set and reset runtime
evidence, expose endpoints, link and revise advisories. `exact` remembers which labels
were written by a run over a graph that has not changed since the run began, so
that the properties can say what such a label is worth.

### CodeLabels

`CodeIngest` and `Reachability` on one service, with the graph they share:
`calls` and `handled`. A step of the composition is one of git or an ingester
(`IngestStep`), of which a written relationship is a change of the graph for the
engine, or one of the engine and the other programs around it (`EngineStep`).
`CallsOfCode` and `RoutesOfCode` are what the code of a commit has, and the graph may
have or not.

### ChangeCertificate

Certificates of one pull request. A job is a webhook delivery or an API request;
`pc` says which query it asks next. `check` is the check run as GitHub has it,
`idKnown` whether the job learned of it. Each call to GitHub is applied or not
and answered or not, independently where the code can tell no difference.

| Code | Actions |
|---|---|
| `github_webhook` | `Receive` (check run), `Fetch` (files, queue) |
| `generate_certificate` | `Resolve`, `AskCallers`, `AskFallback`, `AskVulns`, `AskFlows`; `Raise` |
| `_run_certificate_job` | `Update`, `Comment`, `ReportFailure` |
| `certificate_api.generate` | `Request`, `Store`, `StoreFails` |
| processes | `WebhookCrash`, `ApiCrash` |
| the outside | `Ingest`, `AddCall`, `SetRunning`, `SetFlow`, `Relabel`, `Push`, `Tick` |

`graph` has what the queries tell apart: Function nodes, CALLS, which functions
have a RUNTIME_CALLS self-loop, which touch a PII field that flows elsewhere,
and the labels of the service's HAS_VULN edges. A function stands for itself and
its file. The narrative, signatures, owners and displayed numbers are left out:
they do not change the risk level. Of the narrative only the request to the
language model falls back; building its prompt raises when a vulnerability has no
CVE (section 5), which is a `Raise` after the last query. `span` is history: the
graphs there were from the first query of a job to the last, kept until the job
ends, so that the properties can say what a certificate made from several is
worth.

### SbomIngest

| Code | Actions |
|---|---|
| `_image_digest`, `_last_digest` and the early return | `Inspect`, `Compare` |
| `run_syft`, `parse_cyclonedx` | `Syft`: of the image the tag is at by then |
| `ingest_components` | `UpsertDep`, `UseDep`: two queries for each component |
| `_save_digest` | `SaveDigest` |
| a step that fails for good, or the process dies | `SbomFails` |
| the outside | `Push` |

`"day"` is the digest of every image without a repository digest: a hash of the
reference and the date. `ingested` is history: the image scanned by the run that
saved its digest last, another than that of the digest when the tag moved
between the two steps.

### CveIngest

`SbomIngest` and `CveIngest` know nothing of each other: each declares its own
variables, and `deps`, the Dependency nodes, is declared in `Dependencies`, which
both extend. In `CveIngest` alone dependencies come from the outside; in
`SupplyChain` only `UpsertDep` writes them.

Each process has caches of its own, which a daemon keeps from cycle to cycle and
the others lose when they exit. Nodes are keyed by the CVE, links by dependency
and CVE, as in the graph, so that two advisories with one CVE meet in one node.

| Code | Actions |
|---|---|
| `ingest_for_service`, `ingest_all_services`, `run_daemon` | `PollStart`, `PollFails`, `PollEnds`, `PollDies` |
| `_load_kev` | `LoadKev` |
| `query_osv_for_package` | `QueryOsv` |
| `fetch_osv_detail`, `_build_vuln_record`, `_severity_from_osv`, `fetch_epss` | `Build`, `BuildFails` |
| `_upsert_vulnerability` | `UpsertVuln` |
| `_link_dependency_to_vuln` | `LinkVuln`: nothing when a node is missing |
| the outside | `WorldChanges`: scores, the KEV feed, dependencies |

The severity of an advisory is a function of its vector (the number of `:H` and
`:C` in it), of its `database_specific.severity` and of the score cached, as
in the code; what OSV knows of a package is a constant. `PollFails` is a cycle that
raises, which `run_daemon` survives; a daemon that is killed stays dead, as
nothing in the repository starts it again. `settled` is history:
dependencies a poll went through without a failure.

### SupplyChain

A step is one of `SbomIngest` or one of `CveIngest`. `vetting` and `vetted` are
history: the image ingested with the digest saved when a poll began, and the
images of the polls that came to their end without a failure.

### PiiFlow

| Code | Actions |
|---|---|
| `pii_detector.scan` | `ScanStart`, `ScanFile`, `UpsertField`, `LinkWriter`, `MarkExposed`, `ScanFails` |
| `regulatory_annotator.annotate` | `AnnotateStart`, `DeriveScopes`, `WriteScope`, `MarkPci`, `MarkHipaa`, `AnnotateFails` |
| `taint_tracker.analyse` | `TaintStart`, `GraphWalk`, `AskScope`, `UpsertFlow`, `FlagUnregulated`, `TaintFails` |
| the outside | `Edit` of the source, `AddPath` by the code ingester |

What the patterns and Presidio see in a name or a context are constants;
Presidio may be missing or fail at any declaration. A DataField is keyed by its
name, so declarations of one name in two files meet in one node. The rows of the
graph walk are distinct in field, endpoint and length of the path: up to nine
lengths of one pair use up the LIMIT, so a model row stands for its lengths,
any nonempty set of as many rows as the LIMIT may be what is left, and a pair may
be asked about and written again. `quiet` and `fresh` are history, the runs during
which and since which nothing they depend on was written by anyone else, fields
excepted for the annotator: `steady` has those a scan left alone since its run
began. So are `touched` and `lapsed`, the fields whose flags a run has reset and
those where one failed before it flagged again.

### ChangeWorkflow

A workflow task is a replay of `run()` on what the activities answered, so the
death of a worker has no action of its own: another one continues from the
record. An activity is idle, scheduled, started, completed or failed, with the
number of attempts made.

| Code | Actions |
|---|---|
| `start_workflow` | `Trigger` |
| `run` | `Resolve`, `Gather`, `Narrate`, `Post`, `Output`, `Fails` |
| the five activities | `Begin`, then `Resolved`, `BlastComputed`, `DeltaComputed`, `Narrated`, `Posted`; or `AttemptFails` |
| `_update_check_run`, `_post_pr_comment` | `Patch`, `Comment`, by each member of `posting` |
| the outside | `ChangeGraph`, `LateOneDies` |

`posting` has the attempts at the post that some worker is still at, those the
server has given up included. What the queries answer in a graph is a constant
here, and the subject of `ChangeCertificate`. The certificate's id, time and
signature are left out.

## 3. The runs

Deadlock is checked where the system never stops (`Reachability`). Elsewhere the
system may stop: the agent and the join end, the jobs of a certificate and the
executions of a workflow too, and the bounded number of runs and changes of the
other modules is used up; their cfg says `CHECK_DEADLOCK FALSE`.

| Run | Module / cfg | Shows | Distinct states |
|---|---|---|---|
| `agent` | `MCCallAggregator` | Types; `MessageExact`, `ClosedWindowAccounted`, `SinglePlace`; it implements `CallLedger`; counted calls leave the map and the flush loop ends | 18,906 |
| `join` | `MCRuntimePath` | From the agent's count to the graph: types; `CallsAccounted`, `DailyWithinWeekly`, `EdgesWithinCalls`, `LastSeenIsNewest`; buckets drain | 1,641,624 |
| `join_tombstone` | `MCRuntimeJoin`, `..Tombstone.cfg` | violated: a late event makes a function look unseen | - |
| `ingest` | `MCCodeIngest` | Types; `SavedIsIngested`, `FullScanIngestsCalls` | 2,278,525 |
| `labels_code` | `MCCodeLabels` | violated: after an incremental run an undisturbed label misses a path of the code | - |
| `supply` | `MCSupplyChain` | Types; `SavedDigestIsIngested`, `VettedImagesLinked` | 1,994,663 |
| `cve` | `MCCveIngest` | `LinksGrounded`, `PollLinksAll`; a daemon nobody kills links all | 266,397 |
| `reachability` | `MCReachability` | Types; `ExactLabels`, `LabelsGrounded`, `RunLabelsAll` | 1,276,699 |
| `pii` | `MCPiiFlow` | Types; `NeverBoth`, `FlowsStayFlagged`, `ScanMarksTellingNames`, `ScopeCoversEvidence` | 4,780,447 |
| `certificate` | `MCChangeCertificate` | Types; `RiskExact`, `GreenIsEarned` | 2,183,728 |
| `webhook` | `..Webhook.cfg` | `CheckOwned`, `VerdictsAreFinal`, `ChecksComplete` | 58,887 |
| `workflow` | `MCChangeWorkflow` | Types; `ReportsAgree`; executions end | 541,166 |

### Bounds, and why they are enough

- **agent**: two functions (a range loop that fails for one and not the other),
  two calls each (a bucket found and a bucket made), three windows: two that
  count, so a bucket can be held across a swap, and the one in place when the
  second is closed. `SamplesLeft` stops samples before the last window, so that
  `window < MaxWindow` in `FlushSwap` never blocks a flush.
- **join**: one location with two nodes, of which the code ingester has written
  one; two windows of the agent, two calls, two events of one or two calls each;
  three days with a tombstone period of one; two starts. That is enough to merge
  events, to write them in one batch or two, to deliver one twice, to expire an
  edge and see it again, and to crash before and after a commit. Buckets, batch
  rows and edges of different locations never meet, so that one is enough; the
  theorems are for any number. `join_tombstone` uses the least days its scenario
  needs.
- **ingest**: two files and three commits; a function that moves by a line and is
  gone later, a name both files define, a handler the parser does not find, calls
  both ways. Three runs in two processes are a full scan and an incremental one
  that overlaps another run; one move of HEAD, from any commit to any other, can
  fall anywhere in them. The processes are interchangeable, hence symmetry.
- **labels_code**: a route whose handler calls a function of the other file from
  the second commit on, and an advisory that names it; two runs of the ingester,
  a full scan and an incremental one.
- **reachability**: two endpoints, and a function that is called directly and
  through another: more rows than the LIMIT of two, so the cut
  and the ties at the cut occur. Two edges; the advisory of one may name nothing.
  Two hops stand for ten. At most two changes of evidence and advisories; calls,
  handlers and exposure only grow and bound themselves.
- **certificate**: the initial graphs are chosen for their shapes: none outside
  the change calls it (the fallback query answers); two rows of a HIGH edge hide
  the CRITICAL one (LIMIT of two); PII below an endpoint. One change of any kind
  anywhere, one push, one delivery and one request together.
- **webhook**: two deliveries without changes of the graph: the property is
  about check runs.
- **supply**: two images that share a component, one with a component that has no
  version; two runs (interchangeable, hence symmetry) and four pushes or starts,
  so that each run can be the older one, repeat the other's image, or find that
  the tag has moved; beside them polls of one process over two advisories, with
  two changes or failures. Advisories have no CVE here: nodes that meet are what
  `cve` is about.
- **cve**: two dependencies and three advisories: two with one CVE, on different
  dependencies, and one without; no severity at all, a vector against the
  database's own severity, and a vector of low impact. A daemon and another
  process; two of: a change of a score or of the feed, a failed request or query, a
  death, a poll of the other process. The daemon's own polls are not bounded.
- **pii**: two files, one name the patterns know and one in both files that only
  the context tells; a walk with a LIMIT of one, below the rows of one pair, so
  that it may cut any pair but one; two runs of the taint tracker
  (interchangeable, hence symmetry) beside a scan and the annotator; four starts
  and edits in all.
- **workflow**: two executions, so that an attempt of the first outlives it, and a
  graph that changes once, between any two answers. Two attempts at each activity,
  one to fail and one to succeed; the code has three for the queries. The graph
  is such that every query answers otherwise before and after the change.

### Fairness, and why the code justifies it

- Agent: a goroutine that can run does (weak fairness of its steps). Strong
  fairness of taking the token, since the mutex is a Go channel, which is first
  in, first out; and of `FinalFlush`, since `select` chooses among ready cases
  at random. The writer settles each message: it has a limit of attempts. None
  is assumed of samples and signals.
- Join: the loops of the flush thread and the consumer go on while the process
  lives. Nothing is assumed of Neo4j (`Upsert` or `UpsertFails`), events,
  signals or restarts.
- Ingest: no liveness is claimed and no fairness stated; nothing runs the
  ingester on a schedule.
- Reachability, SBOM, layer 4: no liveness is claimed and no fairness stated.
- CVE: `run_daemon` catches what a cycle raises, sleeps and polls again
  (`layer3/cve_ingester.py:560`), so weak fairness of the daemon's polls; none of
  other processes, of answers or of scores. No restart is assumed: a behaviour in
  which the daemon is killed is excluded by name in `DaemonLinksAll`, and a
  daemon that ended by what a cycle raised would violate it. Failures are bounded
  with the other events: feeds that fail for ever would keep links away for ever.
- Webhook: each step of a queued job ends, as queries and requests have
  timeouts; each job has a thread of its own, hence weak fairness per delivery.
- Workflow: some worker runs and takes up what the server has, and the server ends
  an attempt at its `start_to_close_timeout`, hence weak fairness of workflow and
  activity tasks together. Nothing is assumed of GitHub or of triggers. That a
  workflow task progresses is itself an assumption about the deployment: `run`
  reads the clock directly (`layer6/workflows/change_impact_workflow.py:185` and
  `:237`), which the default sandbox of the Temporal SDK may refuse; that sandbox
  is not in the repository.

## 4. The proofs

All theorems hold for every value of the constants under the named `ASSUME`s of
the modules, which say only that sets are sets of the right kind and bounds are
natural numbers (and RowLimit is not zero), in `PiiFlow` that a scan and a run
of the annotator have different names, and in `CodeIngest` that of the
definitions of a name in a file one is the last, and in `RuntimePath` that the
calls of a window are a count an event can have; TLC evaluates them in every run.
`FullScansLabelCode` states those on the engine's constants as its hypothesis.

| Theorem | Property | Argument |
|---|---|---|
| `CallAggregatorProofs!TypeCorrect` | `TypeOK` | with `MutexInv`: who holds the token is where the program counters say |
| `MessagesAreExact`, `ClosedWindowsAreAccounted`, `FunctionsHaveOnePlace` | same names as properties | see below |
| `AgentImplementsLedger` | `ImplementsLedger` | each step is a step of the ledger or a stutter, from `IInv` |
| `RuntimeJoinProofs!TypeCorrect` | `TypeOK` | with: a missing edge is all zero |
| `EveryCallIsAccounted`, `DailyNeverExceedsWeekly` | `CallsAccounted`, `DailyWithinWeekly` | proved together (`AccountInv`) |
| `LastSeenIsTheNewest` | `LastSeenIsNewest` | `OrderInv` |
| `OrderedTombstones` | - | from the order of timestamps |
| `NoCallCountedTwice` | - | `ReplayInv`, and an induction over the topic |
| `PathImplementsLedger` | - | the ledger's own invariant, then step by step |
| `PathImplementsJoin` | - | a message of the ledger is an event `Publish` may append |
| `EdgesStayWithinCalls` | `EdgesWithinCalls` | `PathInv`: see below |
| `CodeIngestProofs!TypeCorrect` | `TypeOK` | one step per action |
| `SavedCommitsAreIngested`, `FullScansIngestCalls` | `SavedIsIngested`, `FullScanIngestsCalls` | `IInv`, one part per thing on its way |
| `LabelsImplementIngest`, `LabelsImplementEngine` | - | a step of the ingester writes at most one relationship |
| `FullScansLabelCode` | - (positive side of `labels_code`) | the two before, and rows only grow with the graph |
| `ReachabilityProofs!TypeCorrect` | `TypeOK` | UNKNOWN is never written |
| `LabelsAreExact` | `ExactLabels` | `QuietRun`, `ExactInv` |
| `RunsForgetNothing` | `RunLabelsAll` | `NoneForgotten` |
| `LabelsHaveGrounds` | `LabelsGrounded` | `GroundedInv`, and an induction over paths |
| `TrailsAreTrails`, `PathsHaveTrails` | - | inductions over lengths and over the calls cut out |
| `NotReachableIsSound`, `ClaimsAreReached` | - | the two before, with `ExactInv` and `GroundedInv` |
| `ChangeCertificateProofs!TypeCorrect` | `TypeOK` | one step per action |
| `RatingsAreExact` | `RiskExact` | `RatingInv` |
| `GreenMeansClean` | `GreenIsEarned` | `RatingInv`, `CheckInv`, `GreenInv` |
| `ChecksAreOwned`, `VerdictsStay` | `CheckOwned`, `VerdictsAreFinal` | `CheckInv` |
| `CallersWithinLead`, `BlastRadiusIsComplete` | - | induction over the distance |
| `SupplyChainProofs!CveSpecInv`, `CveTypeCorrect` | `CveTypeOK` | `CveInv` |
| `LinksAreGrounded`, `PollsLinkAll` | `LinksGrounded`, `PollLinksAll` | `CveInv` |
| `SbomSpecInv`, `SbomTypeCorrect` | `SbomTypeOK` | `SbomInv` |
| `SavedDigestsAreIngested` | `SavedDigestIsIngested` | `SbomInv`, of `SbomIngest` by itself |
| `ImplementsSbom`, `ImplementsCve` | - | every step of one is a step or a stutter of the other |
| `TypeCorrect`, `ImagesStayIngested` | `TypeOK`, `SavedDigestIsIngested` | the refinements, and the theorems above |
| `SpecSupplyInv`, `ImagesAreVetted` | `VettedImagesLinked` | `SupplyInv`: see below |
| `PiiFlowProofs!TypeCorrect` | `TypeOK` | one step per action |
| `MarksExclude`, `FlagsStay` | `NeverBoth`, `FlowsStayFlagged` | `IInv` |
| `ScopeIsGrounded` | `ScopeCoversEvidence` | `AnnotatorInv` |
| `TellingNamesAreMarked` | `ScanMarksTellingNames` | `ScanInv` |
| `ChangeWorkflowProofs!TypeCorrect` | `TypeOK` | `IInv` |
| `ReportsAlwaysAgree` | `ReportsAgree` | `IInv` |

**The agent.** `MessageExact` is not inductive: it says nothing of a Record that
is about to increment. The strengthening `IInv` adds `MutexInv` (between lookup
and increment `main` holds the token, so no swap happens and the bucket it holds
is that of the open window) and `ClosedInv` (windows beyond the open one are
empty, the snapshot is a closed window, and what is pending is not empty there).
The increment then touches an open window only, and no message is about one.

**The join.** The sum of `CallsAccounted` is preserved by every action as soon
as the batch is known to be empty outside `upsert` (`BatchInv`). The order of
timestamps needs `Ordered`: the topic is sorted, and what is in the edges is no
newer than the batch, the batch no newer than the buckets, the buckets no newer
than the events still to come. It holds without lateness and replay only, which
is why the property says so, and `join_tombstone` shows the other case.
`OrderedTombstones` is the other side of that: without lateness and replay no
sweep deletes an edge that was called within the tombstone period.
`NoOvercount` compares with a sum over the topic. `ReplayInv` keeps the committed
offset at or behind the consumer, so that a start either goes back or stays where
it was, and compares what was taken with the sum. The steps of the sum (an
event adds its share, a later event changes nothing before it) are lemmas, by
induction in the form of `LeastNatural`: a nonempty set of numbers for which
something fails has a least member.

**From the call to the graph.** `PathSpec` implements the ledger and the join, so
that what is proved of each holds of the composition. What neither can say is
that the graph never shows more calls than the agent counted. `PathInv` is the
balance: of each function, the calls in the topic and those that wait with the
agent, in an open window or a message not yet arrived, are the calls counted, as
long as nothing arrived twice. The join never counts more than the topic has
(`NoOvercount`), and what waits is summed by the same recursive function as the
topic, so that the same lemmas serve both. With `AgentImplementsLedger` this reaches
from `Record` in the Go program to the relationship in the graph.

**The ingester.** `SavedIsIngested` says nothing before the state file is
written. `IInv` follows each function, route and call of the run's commit from
its file to the graph: still unread, found, to be written, or written. It needs
that a sound run sees the files of its commit (`SeesItsCommit`, with git's side
in `TreeIsHead`), that a file it could not read stays in `unread`, from commit to
commit, until a run reads it, that a file not in the diff is as it was in a commit already
ingested (`BaseIsIngested`), and that a name found is the name of a function of
the commit (`FoundIsReal`). Every part is about one run, so that a step of
another only matters through the graph, which grows (`NextGrows`).

**Labels and the code.** `LabelsSpec` implements both its parts. For the engine that
means its environment is the one `Reachability` assumes: a step of the
ingester adds one call or one handler (`OneRelationship`) or nothing the engine
can see. `FullScansLabelCode` then joins three facts: a commit saved by a sound
run over every file is in the graph with its calls and routes; an undisturbed
NOT_REACHABLE says the query has no row in the graph; and the rows for less of a
graph are among those for more of it (`RowsGrow`). After an incremental run the
first of them fails, and `labels_code` shows what follows. Files that could not be
read are left out of "the code" on both sides.

**The engine.** `QuietRun` says what the run knows while nothing changes: the
names it fetched are those in the graph, its rows are a result of the static
query now, and each endpoint it has crossed off is not exposed. `LabelOf` of the
rows of a cut query is at most that of all rows, by a lemma on labels.
`LabelsGrounded` is about a graph that does change. `GroundedInv` says of the rows
in hand that they are rows for names the advisory has had; that they stay so
is `TrailsGrow`, a path stays a path when calls are added, by the least length
at which it would not.

A Cypher path uses no relationship twice, and the recursive operator of the
query builds such trails call by call. `TrailsAreTrails` says it yields all of
them and nothing else; `PathsHaveTrails` that any path has a trail, no longer
than itself, to the same end: one that takes a call twice can be cut short
between the two. So `NotReachableIsSound` and `ClaimsAreReached` speak of plain
chains of at most `Depth` calls, whatever the query does to find them.

**Certificates.** `RatingInv` says three things of each job. `Holds`: as long as
its `span` is one graph, what it holds is what its queries would say of that
graph: ids, that the first caller query found none if the job is at the fallback,
callers, and the vulnerabilities seen. `Covers`: however the graph changes, the
functions known throughout are among its ids, and when no vulnerability was seen
there was a graph of the span without a reachable one. `RatedSound` is what the
two come to in the rating. The lemma `RatingOfSome` compares the rating of some of
the rows with that of all of them; `NoRows` turns an empty result into a
statement about labels. `CheckInv`
ties a check run to the place of its job: until it reports, its check run is in
progress, and only `Patch` gives a verdict. `CallersWithinLead` and
`BlastRadiusIsComplete` characterise the caller query in the same way as the
paths above: it returns the functions from which a chain of calls within its
depth leads to a changed one, and no other.

**The links.** `LinksGrounded` speaks of links only; `CveInv` follows an advisory
through a poll: what is in hand belongs to the dependency in hand, a record says
what its advisory says or has said (`RecordSound`), caches hold scores that were
true (`CachesSound`), and an advisory not yet linked is still before the poll
(`NothingDropped`). At `LinkVuln` the node must be there (`StepsSound`): it was
written one step before under the id the link matches, and no node is deleted.

**The images.** `SbomInv` follows the components of the image a run scans: each is
to come, or in the graph. `SupplyChain` implements both ingesters, so their
invariants hold of it. `SupplyInv` adds what only the two together know: a poll
began when the components of the image it vets were dependencies, and so each is
in its queue, in hand, or settled: gone through without a failure, hence linked
to all its advisories by `PollLinksAll`.

**The flows.** That a flow has one mark only rests on a fact about the scope no
run states: once there it stays (`ScopeKnown`), so that an answer a taint run got
before the annotator wrote can only be out of date in one direction. The flag
needs nothing more than its own history variables. `AnnotatorInv` follows a run
of the annotator and speaks of the steady fields only: what it has read of them
and of the comments is still so. `ScanInv` follows one undisturbed scan: each
declaration is unread, found, or on its node with its writer linked. They
need that the name of the scan is not that of a run of the annotator.

**The workflow.** `RecordSound` says that an activity is begun after those whose
answers it takes, so the rating of the record no longer changes once the
narrative is there; `Says`, that whatever is posted, shown or commented for
an execution is that rating while it is open and its output afterwards. `InTurn`
keeps the executions apart: an attempt given up belongs to an earlier one, whose
output is fixed.

### Model-checked only

- Everything under fairness: `CountedCallsLeaveTheMap`, `FlushLoopEnds`,
  `BucketsDrain`, `ChecksComplete`, `DaemonLinksAll`, `RunsClose`. The prover has
  no ENABLED.
- The two violated properties, of which TLC shows the counterexample. Their
  positive sides, `OrderedTombstones` and `FullScansLabelCode`, are proved.

## 5. What the code does not do as documented

`PROJECT.json` quotes the line of each. Two have a run that shows them:

| Run | Where | The code |
|---|---|---|
| `join_tombstone` | `layer2/runtime_join.py:110` | lets a late event set `last_seen` back |
| `labels_code` | `layer1/code_ingester.py:425` | resolves callees among the files of this run only, and the engine then misses the path |

The others were met while translating.

- **Agent and join.** `main` does not wait for the final flush (`Exit` in
  `CallAggregator`): the calls of the open window are lost, which no property
  forbids, as `ClosedWindowAccounted` is about closed ones. A batch of the join
  that failed to be written is forgotten (`missed` in `RuntimeJoin`), against the "exact counts" of ADR 0002. The daily
  count of a function that stays in use is never rolled.
- **Code ingester.** A plain directory is never ingested unless forced, as no
  commit equals no commit; of the functions of one name only one becomes a node;
  the verb of a route is that of the first route of its file; nothing uses
  Tree-sitter.
- **SBOM.** What is scanned may be another image than the one whose digest is
  saved (`ingested` is then not the digest's image, whose own components a later
  run skips); images without a repository digest share one for a day.
- **CVE.** Dependencies of images long gone stay linked; a severity is guessed by
  counting letters in the vector, and before the database's own; EPSS scores are
  never refreshed in a daemon; a first load of the KEV catalogue that fails
  clears `in_kev`; functions of advisories with one CVE overwrite each other;
  the GHSA half is called by nobody.
- **Engine.** Labels go by 50 paths of possibly more; no branch gives MEDIUM, no
  run skips fresh labels, an advisory without function names is NOT_REACHABLE.
- **Layer 4.** A taint run resets the flags it sets again only at its end; a refresh
  of the scope without the repository replaces one that rests on annotations; a
  service with no evidence has the scope `["NONE"]`, which counts as regulated;
  declarations of one name overwrite each other; the scope is the union of all
  evidence, where the module's header says that the highest confidence wins; the
  cross-service query matches a relationship nobody creates.
- **Certificates.** Those of one second share an id; a lost PATCH is not repeated;
  the vulnerabilities are those of the service rather than of the change, one
  row per path; the fallback query counts changed functions, and every one seen
  running, as their own callers; with an API key set, a vulnerability without a
  CVE makes the prompt of the narrative raise, and with it the job; the webhook's
  certificates are not stored.
- **Workflow.** Nothing is stored and no execution timeout is set; GitHub errors
  are never retried while a timeout repeats calls that were made; an execution
  that fails leaves its check run in progress; an attempt given up may overwrite
  the check run of the next execution; id and time are taken anew at each replay.

## 6. What is not modelled

- Text: parsing of sources, formats, prompts, narratives, signatures,
  dashboards. No property of this project is about them; what parsers and
  patterns find is a constant of the modules.
- Read-only handlers (`layer1/code_api.py`, `layer5/graph_api.py`) and
  `compute_pr_security_delta`, which they call: queries without state.
  `layer5/nl_to_cypher.py` asks a language model. The two refresh handlers of
  `code_api.py` start runs that `Reachability` and `PiiFlow` have.
- One sequential pass each, whose result no other part reads: the ownership
  ingester, the semantic index, the metrics client. The Nuclei runner's effect,
  an endpoint exposed, is an action of the surroundings of `Reachability`.
- Below the agent: probes in the kernel and the symbolizer. What reaches the
  event loop is a sample with a key.
- The Flink job: its windows and checkpoints are those of a framework that is
  not in the repository; its sink is the upsert of `RuntimeJoin`.
- In the modules above: probe attachment and process discovery of the agent;
  Kafka rebalancing among several joins; messages that do not decode; retries
  inside `with_retry`, which appear as one step that succeeds or fails; several
  services in one run (the engine and the ingesters ask about one at a time);
  `net_risk_change`; functions nobody calls (the GHSA half of the CVE ingester).
- A worker of the workflow that dies has no action: a replay continues from the
  record. `int(time.time())` and `datetime.now` in workflow code break that for
  the certificate's id and time, which the model leaves out (section 5).
- Modelled, but no property forbids it, because the code does it: the calls of
  the open window lost at the agent's exit; a label out of date by the time it is
  written, or missing after a failed run; endpoints of context-only names that
  depend on the order of files; a verdict on files of another commit than the
  check run's; a late post that overwrites the next execution's check run, or
  repeats a comment. `PROJECT.json` says so at each hazard.

## 7. Plan

Done: the modules above, in the order of a fact's way through the system. What
would come next, by weight:

1. Labels of calls a commit has removed, which stay in the graph: `CodeLabels`
   has the actions, no property says it yet.
2. One abstract certificate job that `ChangeCertificate` and `ChangeWorkflow`
   both implement.
3. `CallDepth` (entry and return probes) and `SymbolCache`, below the agent;
   `Ownership` (precedence of rules); `Retry` (which queries may be repeated).
