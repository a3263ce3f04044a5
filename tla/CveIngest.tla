------------------------------ MODULE CveIngest ------------------------------
(***************************************************************************)
(* CVE ingestion of one service (layer3/cve_ingester.py): its Dependency   *)
(* nodes are linked to the advisories OSV has on them, whose severity and  *)
(* KEV mark the links carry.  The label of a link, UNKNOWN when it is      *)
(* created and left alone afterwards, is the subject of Reachability.      *)
(*                                                                         *)
(* A step is one query or one HTTP request with its retries; each may fail *)
(* for good.  A daemon and other processes may poll at the same time, each *)
(* with caches of its own.  Nothing is ever deleted, and no program sets   *)
(* the deprecated_at the queries ask for.                                  *)
(***************************************************************************)
EXTENDS Integers, Dependencies

CONSTANTS
    Advisories,    \* OSV ids
    AffectedBy,    \* the advisories OSV has on each dependency
    Cves,
    CveOf,         \* the first CVE among the aliases of an advisory
    NoCve,
    VectorOf,      \* its CVSS vector: the number of ":H" and of ":C" in it
    NoVector,
    DbSeverityOf,  \* its database_specific.severity, or NoSeverity
    NoSeverity,
    NoRecord,      \* before the record of an advisory is built
    Pollers,       \* processes that ingest advisories
    Daemons,       \* those run with --daemon
    MaxEvents      \* bound: scores, failures and CLI runs

ASSUME AdvisoriesAssumption ==
    /\ AffectedBy \in [Deps -> SUBSET Advisories]
    /\ CveOf \in [Advisories -> Cves \union {NoCve}]
    /\ NoCve \notin Cves
    /\ VectorOf \in
          [Advisories -> [high : Nat, changed : Nat] \union {NoVector}]
    /\ DbSeverityOf \in
          [Advisories -> {"CRITICAL", "HIGH", "MEDIUM", "LOW", NoSeverity}]
    /\ NoSeverity \notin {"CRITICAL", "HIGH", "MEDIUM", "LOW"}
    /\ NoRecord \notin [advisory : Advisories, severity : {"CRITICAL", "HIGH",
                          "MEDIUM", "LOW"}, kev : BOOLEAN]
ASSUME RunsAssumption == Daemons \subseteq Pollers /\ MaxEvents \in Nat

VARIABLES
    hot,         \* CVEs with an EPSS score of 0.7 or more
    kevFeed,     \* CVEs in the KEV feed, which only grows
    events,
    nodes,       \* Vulnerability nodes
    link,        \* HAS_VULN relationships: the severity of each
    linkKev,     \* those with in_kev
    pollPc, queue, dep, todo, rec,                 \* each poll
    epss, kevSet,                                  \* caches of its process
    everHot,     \* history: CVEs that have been hot
    missed,      \* history: polls in which something failed for `dep'
    settled      \* history: dependencies some poll has completed

worldVars == <<hot, kevFeed, everHot, deps>>
vulnVars  == <<nodes, link, linkKev>>
cacheVars == <<epss, kevSet>>
pollVars  == <<pollPc, queue, dep, todo, rec, missed>>
cveVars == <<worldVars, events, vulnVars, cacheVars, pollVars, settled>>

Severities == {"CRITICAL", "HIGH", "MEDIUM", "LOW"}

\* rec.cve_id or rec.osv_id
IdOf(a) == IF CveOf[a] # NoCve THEN CveOf[a] ELSE a
Ids == {IdOf(a) : a \in Advisories}
Records == [advisory : Advisories, severity : Severities, kev : BOOLEAN]

CveInit ==
    /\ hot = {} /\ everHot = {}
    /\ kevFeed = {}
    /\ events = 0
    /\ deps = {}
    /\ nodes = {}
    /\ link = [l \in Deps \X Ids |-> "absent"]
    /\ linkKev = {}
    /\ pollPc = [p \in Pollers |-> "idle"]
    /\ queue = [p \in Pollers |-> {}]
    /\ dep = [p \in Pollers |-> NoDep]
    /\ todo = [p \in Pollers |-> {}]
    /\ rec = [p \in Pollers |-> NoRecord]
    /\ missed = [p \in Pollers |-> FALSE]
    /\ epss = [p \in Pollers |-> [c \in Cves |-> "unknown"]]
    /\ kevSet = [p \in Pollers |-> {}]
    /\ settled = {}

-----------------------------------------------------------------------------
(* The surroundings.                                                       *)

Event == events < MaxEvents /\ events' = events + 1

\* FIRST.org changes a score, CISA adds a CVE.
FeedsChange ==
    /\ \/ \E c \in Cves :
             /\ Event
             /\ hot' = IF c \in hot THEN hot \ {c} ELSE hot \union {c}
             /\ everHot' = everHot \union hot'
             /\ UNCHANGED kevFeed
       \/ \E c \in Cves \ kevFeed :
             /\ Event
             /\ kevFeed' = kevFeed \union {c}
             /\ UNCHANGED <<hot, everHot>>
    /\ UNCHANGED <<deps, vulnVars, cacheVars, pollVars, settled>>

\* SBOM ingestion writes a dependency.
DependencyAdded ==
    /\ \E d \in Deps \ deps : deps' = deps \union {d}
    /\ UNCHANGED <<hot, kevFeed, everHot, events, vulnVars, cacheVars, pollVars,
                   settled>>

-----------------------------------------------------------------------------
(* What a record says.                                                     *)

\* Mutant: no impact at all has a name of its own.
CvssSeverityNone(v) ==
    IF v.high >= 3 \/ v.changed >= 1 THEN "CRITICAL"
    ELSE IF v.high > 0 THEN "HIGH" ELSE "NONE"

\* _cvss_base_score and _cvss_to_severity: letters are counted, wherever in
\* the vector they are.
CvssSeverity(v) ==
    IF v.high >= 3 \/ v.changed >= 1 THEN "CRITICAL"
    ELSE IF v.high = 2 THEN "HIGH"
    ELSE IF v.high = 1 THEN "MEDIUM"
    ELSE "LOW"

\* _severity_from_osv, with `isHot' for what fetch_epss says.
SeverityOf(a, isHot) ==
    IF VectorOf[a] # NoVector THEN CvssSeverity(VectorOf[a])
    ELSE IF DbSeverityOf[a] # NoSeverity THEN DbSeverityOf[a]
    ELSE IF isHot THEN "HIGH" ELSE "MEDIUM"

\* fetch_epss, asked by _severity_from_osv and again for the score: a CVE in
\* the cache is never asked for again; a failed request counts as 0.0 and
\* the second may succeed where the first has not.
EpssAnswers(p, a) ==
    LET c == CveOf[a]
        now == IF c \in hot THEN "hot" ELSE "cold"
    IN  IF c = NoCve
        THEN {[isHot |-> FALSE, cache |-> epss[p]]}
        ELSE IF epss[p][c] # "unknown"
        THEN {[isHot |-> epss[p][c] = "hot", cache |-> epss[p]]}
        ELSE {[isHot |-> c \in hot, cache |-> [epss[p] EXCEPT ![c] = now]],
              [isHot |-> FALSE, cache |-> [epss[p] EXCEPT ![c] = now]],
              [isHot |-> FALSE, cache |-> epss[p]]}

\* _load_kev: a set loaded less than a day ago stands, and so does the old one
\* when it cannot be loaded.  24 hours may have passed before any of the calls.
KevAnswers(p) == {kevFeed, kevSet[p]}

-----------------------------------------------------------------------------
(* CVE ingestion: ingest_for_service().                                    *)

\* The daemon polls every six hours, for ever; the others when called.  Without
\* dependencies the poll ends at once.
PollStart(p) ==
    /\ IF p \in Daemons THEN UNCHANGED events ELSE Event
    /\ pollPc[p] = "idle"
    /\ deps # {}
    /\ queue' = [queue EXCEPT ![p] = deps]
    /\ pollPc' = [pollPc EXCEPT ![p] = "kev"]
    /\ UNCHANGED <<worldVars, vulnVars, cacheVars, dep, todo, rec, missed,
                   settled>>

\* Mutant: what a cycle raises ends the daemon.
PollFailsUncaught(p) ==
    /\ Event
    /\ pollPc[p] = "idle"
    /\ pollPc' = [pollPc EXCEPT ![p] = IF p \in Daemons THEN "ended" ELSE "idle"]
    /\ UNCHANGED <<worldVars, vulnVars, cacheVars, queue, dep, todo, rec, missed,
                   settled>>

\* The query for the services or their dependencies fails in all its attempts.
\* A process that was called ends; run_daemon logs the exception and sleeps.
PollFails(p) ==
    /\ Event
    /\ pollPc[p] = "idle"
    /\ UNCHANGED <<worldVars, vulnVars, cacheVars, pollVars, settled>>

LoadKev(p) ==
    /\ pollPc[p] = "kev"
    /\ \E k \in KevAnswers(p) : kevSet' = [kevSet EXCEPT ![p] = k]
    /\ pollPc' = [pollPc EXCEPT ![p] = "next"]
    /\ UNCHANGED <<worldVars, events, vulnVars,
                   epss, queue, dep, todo, rec, missed, settled>>

\* History: the loop has come to the end of a dependency.
Settle(p) ==
    settled' = IF dep[p] # NoDep /\ ~missed[p]
               THEN settled \union {dep[p]} ELSE settled

\* query_osv_for_package: a failure counts as no advisory.
QueryOsv(p) ==
    /\ pollPc[p] = "next"
    /\ todo[p] = {}
    /\ \E d \in queue[p] :
          /\ queue' = [queue EXCEPT ![p] = @ \ {d}]
          /\ dep' = [dep EXCEPT ![p] = d]
          /\ \/ /\ todo' = [todo EXCEPT ![p] = AffectedBy[d]]
                /\ missed' = [missed EXCEPT ![p] = FALSE]
                /\ UNCHANGED events
             \/ /\ todo' = [todo EXCEPT ![p] = {}]
                /\ missed' = [missed EXCEPT ![p] = TRUE]
                /\ Event
    /\ Settle(p)
    /\ UNCHANGED <<worldVars, vulnVars, cacheVars, pollPc, rec>>

\* fetch_osv_detail and _build_vuln_record
Build(p) ==
    /\ pollPc[p] = "next"
    /\ \E a \in todo[p] : \E e \in EpssAnswers(p, a), k \in KevAnswers(p) :
          /\ todo' = [todo EXCEPT ![p] = @ \ {a}]
          /\ rec' = [rec EXCEPT ![p] =
                [advisory |-> a, severity |-> SeverityOf(a, e.isHot),
                 kev |-> CveOf[a] \in k]]
          /\ epss' = [epss EXCEPT ![p] = e.cache]
          /\ kevSet' = IF CveOf[a] = NoCve THEN kevSet
                       ELSE [kevSet EXCEPT ![p] = k]
    /\ pollPc' = [pollPc EXCEPT ![p] = "upsert"]
    /\ UNCHANGED <<worldVars, events, vulnVars,
                   queue, dep, missed, settled>>

\* The except clause of the loop: the next advisory is taken up.
Skip(p) ==
    /\ Event
    /\ pollPc' = [pollPc EXCEPT ![p] = "next"]
    /\ rec' = [rec EXCEPT ![p] = NoRecord]
    /\ missed' = [missed EXCEPT ![p] = TRUE]

\* The detail cannot be had.
BuildFails(p) ==
    /\ pollPc[p] = "next"
    /\ \E a \in todo[p] : todo' = [todo EXCEPT ![p] = @ \ {a}]
    /\ Skip(p)
    /\ UNCHANGED <<worldVars, vulnVars, cacheVars, queue, dep, settled>>

\* Mutant: the node gets the OSV id although it has a CVE.
NodeOfOsv(p) == rec[p].advisory

\* Advisories with one CVE share a node, and the last one decides its
\* functions.
NodeOf(p) == IdOf(rec[p].advisory)

\* _upsert_vulnerability
UpsertVuln(p) ==
    /\ pollPc[p] = "upsert"
    /\ \/ /\ nodes' = nodes \union {NodeOf(p)}
          /\ pollPc' = [pollPc EXCEPT ![p] = "link"]
          /\ UNCHANGED <<events, rec, missed>>
       \/ Skip(p) /\ UNCHANGED nodes
    /\ UNCHANGED <<worldVars, link, linkKev, cacheVars, queue, dep, todo,
                   settled>>

\* Mutant: every version of the package is linked.
LinkedByName(p) == deps \X {IdOf(rec[p].advisory)}

\* The relationship the query merges: it matches both nodes.
Linked(p) ==
    ({dep[p]} \intersect deps) \X ({IdOf(rec[p].advisory)} \intersect nodes)

\* _link_dependency_to_vuln
LinkVuln(p) ==
    /\ pollPc[p] = "link"
    /\ \/ /\ link' = [l \in DOMAIN link |->
                IF l \in Linked(p) THEN rec[p].severity ELSE link[l]]
          /\ linkKev' = IF rec[p].kev THEN linkKev \union Linked(p)
                                      ELSE linkKev \ Linked(p)
          /\ pollPc' = [pollPc EXCEPT ![p] = "next"]
          /\ rec' = [rec EXCEPT ![p] = NoRecord]
          /\ UNCHANGED <<events, missed>>
       \/ Skip(p) /\ UNCHANGED <<link, linkKev>>
    /\ UNCHANGED <<worldVars, nodes, cacheVars, queue, dep, todo, settled>>

\* The locals of ingest_for_service() are gone.
FrameGone(p) ==
    /\ queue' = [queue EXCEPT ![p] = {}]
    /\ dep' = [dep EXCEPT ![p] = NoDep]
    /\ todo' = [todo EXCEPT ![p] = {}]
    /\ rec' = [rec EXCEPT ![p] = NoRecord]
    /\ missed' = [missed EXCEPT ![p] = FALSE]

\* The process is gone, and its caches with it.
Exits(p) ==
    /\ epss' = [epss EXCEPT ![p] = [c \in Cves |-> "unknown"]]
    /\ kevSet' = [kevSet EXCEPT ![p] = {}]

PollReturns(p) ==
    /\ pollPc' = [pollPc EXCEPT ![p] = "idle"]
    /\ FrameGone(p)

\* The daemon sleeps, the others exit.
PollEnds(p) ==
    /\ pollPc[p] = "next"
    /\ todo[p] = {}
    /\ queue[p] = {}
    /\ Settle(p)
    /\ PollReturns(p)
    /\ IF p \in Daemons THEN UNCHANGED cacheVars ELSE Exits(p)
    /\ UNCHANGED <<worldVars, events, vulnVars>>

\* The process is killed.  Others may be called later; nothing in the
\* repository starts a daemon again.
PollDies(p) ==
    /\ Event
    /\ pollPc[p] # "dead"
    /\ pollPc' = [pollPc EXCEPT ![p] = IF p \in Daemons THEN "dead" ELSE "idle"]
    /\ FrameGone(p)
    /\ Exits(p)
    /\ UNCHANGED <<worldVars, vulnVars, settled>>

-----------------------------------------------------------------------------
Poll(p) ==
    \/ PollStart(p) \/ PollFails(p) \/ LoadKev(p) \/ QueryOsv(p) \/ Build(p)
    \/ BuildFails(p) \/ UpsertVuln(p) \/ LinkVuln(p) \/ PollEnds(p)

\* Everything but the dependencies.
PollsAndFeeds == FeedsChange \/ \E p \in Pollers : Poll(p) \/ PollDies(p)

CveNext == DependencyAdded \/ PollsAndFeeds

CveSpec == CveInit /\ [][CveNext]_cveVars

\* A daemon that has not been killed goes on, and polls again after each sleep.
CveFairSpec == CveSpec /\ \A p \in Daemons : WF_cveVars(Poll(p))

-----------------------------------------------------------------------------
(* Properties.                                                             *)

PollPcs == {"idle", "kev", "next", "upsert", "link", "dead"}

CveTypeOK ==
    /\ hot \subseteq everHot /\ everHot \subseteq Cves
    /\ kevFeed \subseteq Cves
    /\ events \in Nat
    /\ deps \subseteq Deps
    /\ nodes \subseteq Ids
    /\ link \in [Deps \X Ids -> Severities \union {"absent"}]
    /\ linkKev \subseteq Deps \X Ids
    /\ pollPc \in [Pollers -> PollPcs]
    /\ queue \in [Pollers -> SUBSET Deps]
    /\ dep \in [Pollers -> Deps \union {NoDep}]
    /\ todo \in [Pollers -> SUBSET Advisories]
    /\ rec \in [Pollers -> Records \union {NoRecord}]
    /\ missed \in [Pollers -> BOOLEAN]
    /\ epss \in [Pollers -> [Cves -> {"unknown", "hot", "cold"}]]
    /\ kevSet \in [Pollers -> SUBSET Cves]
    /\ settled \subseteq Deps

\* Every HAS_VULN relationship is backed by an advisory OSV has on that very
\* dependency and has a severity that advisory has or has had; in_kev is only
\* said of CVEs in the feed.  Failures between the steps mix nothing up.
LinksGrounded ==
    /\ \A d \in Deps, v \in Ids : link[<<d, v>>] # "absent" =>
          \E a \in AffectedBy[d] :
              /\ IdOf(a) = v
              /\ \/ link[<<d, v>>] = SeverityOf(a, FALSE)
                 \/ /\ CveOf[a] \in everHot
                    /\ link[<<d, v>>] = SeverityOf(a, TRUE)
    /\ \A l \in linkKev : l[2] \in kevFeed

\* A dependency that a poll went through without a failure has a link to each
\* of its advisories, whatever other polls do: none is dropped because its
\* Vulnerability node is not there.
PollLinksAll ==
    \A d \in settled : \A a \in AffectedBy[d] :
        link[<<d, IdOf(a)>>] # "absent"

\* A daemon nobody kills outlives whatever fails or raises in its cycles, and
\* in the end each dependency is linked to each of its advisories.
DaemonLinksAll ==
    [](\A p \in Daemons : pollPc[p] # "dead") =>
        <>[](\A d \in deps : \A a \in AffectedBy[d] :
                 link[<<d, IdOf(a)>>] # "absent")
=============================================================================
