-------------------------- MODULE SupplyChainProofs --------------------------
(***************************************************************************)
(* First the links between dependencies and vulnerabilities, for every set *)
(* of advisories and any number of overlapping, failing and dying polls;   *)
(* then the components of images, for every set of images and any number   *)
(* of runs; last the two programs together: their composition implements   *)
(* each of them, so that it inherits what is proved of either.             *)
(***************************************************************************)
EXTENDS SupplyChain, TLAPS

-----------------------------------------------------------------------------
(* CVE ingestion.                                                          *)

\* The record of an advisory is about the dependency at hand and says what
\* the advisory says, or said when the caches were filled.
RecordSound(p) ==
    rec[p] # NoRecord =>
        /\ dep[p] \in deps
        /\ rec[p].advisory \in AffectedBy[dep[p]]
        /\ \/ rec[p].severity = SeverityOf(rec[p].advisory, FALSE)
           \/ /\ CveOf[rec[p].advisory] \in everHot
              /\ rec[p].severity = SeverityOf(rec[p].advisory, TRUE)
        /\ rec[p].kev => CveOf[rec[p].advisory] \in kevFeed

\* What a poll has in hand, step by step.
StepsSound(p) ==
    /\ queue[p] \subseteq deps
    /\ dep[p] # NoDep =>
          dep[p] \in deps /\ todo[p] \subseteq AffectedBy[dep[p]]
    /\ dep[p] = NoDep => todo[p] = {}
    /\ rec[p] # NoRecord <=> pollPc[p] \in {"upsert", "link"}
    /\ pollPc[p] = "link" => NodeOf(p) \in nodes

CachesSound(p) ==
    /\ \A c \in Cves : epss[p][c] = "hot" => c \in everHot
    /\ kevSet[p] \subseteq kevFeed

\* What a poll has not linked and not failed on is still before it.
NothingDropped(p) ==
    dep[p] # NoDep /\ ~missed[p] =>
        \A a \in AffectedBy[dep[p]] :
            \/ link[<<dep[p], IdOf(a)>>] # "absent"
            \/ a \in todo[p]
            \/ rec[p] # NoRecord /\ rec[p].advisory = a

PollSound(p) ==
    RecordSound(p) /\ StepsSound(p) /\ CachesSound(p) /\ NothingDropped(p)

CveInv ==
    /\ CveTypeOK
    /\ \A p \in Pollers : PollSound(p)
    /\ LinksGrounded
    /\ PollLinksAll

-----------------------------------------------------------------------------
(* What a record says.                                                     *)

LEMMA SeverityType ==
    ASSUME NEW a \in Advisories, NEW isHot \in BOOLEAN
    PROVE  SeverityOf(a, isHot) \in Severities
<1>1. DbSeverityOf[a] \in Severities \union {NoSeverity}
  BY AdvisoriesAssumption DEF Severities
<1> QED
  BY <1>1 DEF SeverityOf, CvssSeverity, Severities

LEMMA IdType == ASSUME NEW a \in Advisories PROVE IdOf(a) \in Ids
BY DEF Ids

Now(c) == IF c \in hot THEN "hot" ELSE "cold"

\* What EPSS may answer, case by case.
LEMMA EpssCases ==
    ASSUME NEW p \in Pollers, NEW a \in Advisories,
           NEW e \in EpssAnswers(p, a)
    PROVE  /\ e.isHot \in BOOLEAN
           /\ e.isHot => /\ CveOf[a] # NoCve
                         /\ CveOf[a] \in hot \/ epss[p][CveOf[a]] = "hot"
           /\ \/ e.cache = epss[p]
              \/ /\ CveOf[a] # NoCve
                 /\ e.cache = [epss[p] EXCEPT ![CveOf[a]] = Now(CveOf[a])]
<1> DEFINE c == CveOf[a]
           updated == [epss[p] EXCEPT ![c] = Now(c)]
<1> HIDE DEF updated
<1>1. CASE c = NoCve
  <2>1. e = [isHot |-> FALSE, cache |-> epss[p]]
    BY <1>1 DEF EpssAnswers
  <2> QED
    BY <2>1
<1>2. CASE c # NoCve /\ epss[p][c] # "unknown"
  <2>1. e = [isHot |-> epss[p][c] = "hot", cache |-> epss[p]]
    BY <1>2 DEF EpssAnswers
  <2>2. e.isHot = (epss[p][c] = "hot") /\ e.cache = epss[p]
    BY <2>1
  <2>3. e.isHot \in BOOLEAN
    BY <2>2, Zenon
  <2> QED
    BY <1>2, <2>2, <2>3
<1>3. CASE c # NoCve /\ epss[p][c] = "unknown"
  <2>1. \/ e = [isHot |-> c \in hot, cache |-> updated]
        \/ e = [isHot |-> FALSE, cache |-> updated]
        \/ e = [isHot |-> FALSE, cache |-> epss[p]]
    BY <1>3 DEF EpssAnswers, updated, Now
  <2>2. /\ e.isHot = FALSE \/ e.isHot = (c \in hot)
        /\ e.cache = epss[p] \/ e.cache = updated
    BY <2>1
  <2>3. CASE e.isHot = FALSE
    BY <1>3, <2>2, <2>3 DEF updated
  <2>4. CASE e.isHot = (c \in hot)
    <3>1. (c \in hot) \in BOOLEAN
      OBVIOUS
    <3>2. e.isHot \in BOOLEAN
      BY <2>4, <3>1, Zenon
    <3> QED
      BY <1>3, <2>2, <2>4, <3>2 DEF updated
  <2> QED
    BY <2>2, <2>3, <2>4
<1> QED
  BY <1>1, <1>2, <1>3

LEMMA EpssType ==
    ASSUME CveTypeOK, NEW p \in Pollers, NEW a \in Advisories,
           NEW e \in EpssAnswers(p, a)
    PROVE  /\ e.isHot \in BOOLEAN
           /\ e.cache \in [Cves -> {"unknown", "hot", "cold"}]
<1>1. epss[p] \in [Cves -> {"unknown", "hot", "cold"}]
  BY DEF CveTypeOK
<1>2. Now(CveOf[a]) \in {"unknown", "hot", "cold"}
  BY DEF Now
<1>3. [epss[p] EXCEPT ![CveOf[a]] = Now(CveOf[a])]
         \in [Cves -> {"unknown", "hot", "cold"}]
  BY <1>1, <1>2
<1>4. e.isHot \in BOOLEAN
  BY EpssCases
<1>5. \/ e.cache = epss[p]
      \/ e.cache = [epss[p] EXCEPT ![CveOf[a]] = Now(CveOf[a])]
  BY EpssCases
<1>6. e.cache \in [Cves -> {"unknown", "hot", "cold"}]
  BY <1>1, <1>3, <1>5
<1> QED
  BY <1>4, <1>6

\* An answer is hot only of a CVE that has been, and so is the cache.
LEMMA EpssGrounded ==
    ASSUME CveTypeOK, NEW p \in Pollers, CachesSound(p), NEW a \in Advisories,
           NEW e \in EpssAnswers(p, a)
    PROVE  /\ e.isHot => CveOf[a] \in everHot
           /\ \A c \in Cves : e.cache[c] = "hot" => c \in everHot
<1>1. CveOf[a] \in Cves \union {NoCve}
  BY AdvisoriesAssumption
<1>2. epss[p] \in [Cves -> {"unknown", "hot", "cold"}] /\ hot \subseteq everHot
  BY DEF CveTypeOK
<1>3. e.isHot => CveOf[a] \in everHot
  BY <1>1, <1>2, EpssCases DEF CachesSound
<1>4. ASSUME NEW c \in Cves,
             [epss[p] EXCEPT ![CveOf[a]] = Now(CveOf[a])][c] = "hot"
      PROVE  c \in everHot
  <2>1. CASE c = CveOf[a]
    BY <1>2, <1>4, <2>1 DEF Now
  <2>2. CASE c # CveOf[a]
    BY <1>2, <1>4, <2>2 DEF CachesSound
  <2> QED
    BY <2>1, <2>2
<1> QED
  BY <1>3, <1>4, EpssCases DEF CachesSound

-----------------------------------------------------------------------------
(* Type correctness, action by action.                                     *)

LEMMA CveInitType == CveInit => CveTypeOK
BY RunsAssumption DEF CveInit, CveTypeOK, PollPcs, NoDep

LEMMA RecordFields ==
    ASSUME CveTypeOK, NEW p \in Pollers, rec[p] # NoRecord
    PROVE  /\ rec[p].advisory \in Advisories
           /\ rec[p].severity \in Severities
           /\ rec[p].kev \in BOOLEAN
           /\ IdOf(rec[p].advisory) \in Ids
<1>1. rec[p] \in Records
  BY DEF CveTypeOK
<1> QED
  BY <1>1, IdType DEF Records

LEMMA PollType ==
    ASSUME CveTypeOK, \A q \in Pollers : PollSound(q), NEW p \in Pollers,
           Poll(p) \/ PollDies(p)
    PROVE  CveTypeOK'
<1> USE RunsAssumption DEF CveTypeOK, worldVars, vulnVars, cacheVars, pollVars,
        PollReturns, FrameGone, Exits, PollPcs
<1>1. CASE PollStart(p)
  <2>1. events' \in Nat
    BY <1>1 DEF PollStart, Event
  <2> QED
    BY <1>1, <2>1 DEF PollStart
<1>2. CASE LoadKev(p) \/ PollFails(p)
  <2>1. CASE LoadKev(p)
    BY <2>1 DEF LoadKev, KevAnswers
  <2>2. CASE PollFails(p)
    <3>1. events' \in Nat
      BY <2>2 DEF PollFails, Event
    <3> QED
      BY <2>2, <3>1 DEF PollFails
  <2> QED
    BY <1>2, <2>1, <2>2
<1>3. CASE QueryOsv(p)
  <2>1. PICK d \in queue[p] :
            /\ queue' = [queue EXCEPT ![p] = @ \ {d}]
            /\ dep' = [dep EXCEPT ![p] = d]
            /\ \E f \in {{}, AffectedBy[d]}, b \in BOOLEAN :
                  /\ todo' = [todo EXCEPT ![p] = f]
                  /\ missed' = [missed EXCEPT ![p] = b]
    BY <1>3 DEF QueryOsv
  <2>2. d \in Deps /\ AffectedBy[d] \subseteq Advisories
    BY <2>1, AdvisoriesAssumption
  <2>3. /\ todo' \in [Pollers -> SUBSET Advisories]
        /\ missed' \in [Pollers -> BOOLEAN]
        /\ dep' \in [Pollers -> Deps \union {NoDep}]
        /\ queue' \in [Pollers -> SUBSET Deps]
    BY <2>1, <2>2
  <2>4. settled' \subseteq Deps
    BY <1>3 DEF QueryOsv, Settle
  <2>5. events' \in Nat
    BY <1>3 DEF QueryOsv, Event
  <2> QED
    BY <1>3, <2>3, <2>4, <2>5 DEF QueryOsv
<1>4. CASE Build(p)
  <2>1. PICK a \in todo[p] : \E e \in EpssAnswers(p, a), k \in KevAnswers(p) :
            /\ todo' = [todo EXCEPT ![p] = @ \ {a}]
            /\ rec' = [rec EXCEPT ![p] =
                  [advisory |-> a, severity |-> SeverityOf(a, e.isHot),
                   kev |-> CveOf[a] \in k]]
            /\ epss' = [epss EXCEPT ![p] = e.cache]
            /\ kevSet' = IF CveOf[a] = NoCve THEN kevSet
                         ELSE [kevSet EXCEPT ![p] = k]
    BY <1>4 DEF Build
  <2>2. a \in Advisories
    BY <2>1
  <2>3. PICK e \in EpssAnswers(p, a), k \in KevAnswers(p) :
            /\ todo' = [todo EXCEPT ![p] = @ \ {a}]
            /\ rec' = [rec EXCEPT ![p] =
                  [advisory |-> a, severity |-> SeverityOf(a, e.isHot),
                   kev |-> CveOf[a] \in k]]
            /\ epss' = [epss EXCEPT ![p] = e.cache]
            /\ kevSet' = IF CveOf[a] = NoCve THEN kevSet
                         ELSE [kevSet EXCEPT ![p] = k]
    BY <2>1
  <2>4. [advisory |-> a, severity |-> SeverityOf(a, e.isHot),
         kev |-> CveOf[a] \in k] \in Records
    BY <2>2, EpssType, SeverityType DEF Records
  <2>5. rec' \in [Pollers -> Records \union {NoRecord}]
    BY <2>3, <2>4
  <2>6. epss' \in [Pollers -> [Cves -> {"unknown", "hot", "cold"}]]
    BY <2>2, <2>3, EpssType
  <2>7. kevSet' \in [Pollers -> SUBSET Cves]
    BY <2>3 DEF KevAnswers
  <2>8. todo' \in [Pollers -> SUBSET Advisories]
    BY <2>3
  <2> QED
    BY <1>4, <2>5, <2>6, <2>7, <2>8 DEF Build
<1>5. CASE BuildFails(p)
  BY <1>5 DEF BuildFails, Skip, Event
<1>6. CASE UpsertVuln(p)
  <2>1. rec[p] # NoRecord
    BY <1>6 DEF UpsertVuln, PollSound, StepsSound
  <2>2. nodes' \subseteq Ids
    BY <1>6, <2>1, RecordFields DEF UpsertVuln, NodeOf
  <2>3. /\ pollPc' \in [Pollers -> PollPcs]
        /\ rec' \in [Pollers -> Records \union {NoRecord}]
        /\ missed' \in [Pollers -> BOOLEAN]
        /\ events' \in Nat
    <3>1. CASE Skip(p)
      BY <3>1 DEF Skip, Event
    <3>2. CASE ~Skip(p)
      BY <1>6, <3>2 DEF UpsertVuln
    <3> QED
      BY <3>1, <3>2
  <2> QED
    BY <1>6, <2>2, <2>3 DEF UpsertVuln
<1>7. CASE LinkVuln(p)
  <2>1. rec[p] # NoRecord
    BY <1>7 DEF LinkVuln, PollSound, StepsSound
  <2>2. Linked(p) \subseteq Deps \X Ids
    BY DEF Linked
  <2>3. rec[p].severity \in Severities
    BY <2>1, RecordFields
  <2>4. link' \in [Deps \X Ids -> Severities \union {"absent"}]
    <3> DEFINE sev(l) == IF l \in Linked(p) THEN rec[p].severity ELSE link[l]
    <3>1. \A l \in Deps \X Ids : sev(l) \in Severities \union {"absent"}
      BY <2>3
    <3>2. link' = link \/ link' = [l \in Deps \X Ids |-> sev(l)]
      BY <1>7 DEF LinkVuln
    <3> HIDE DEF sev
    <3>3. CASE link' = [l \in Deps \X Ids |-> sev(l)]
      BY <3>1, <3>3
    <3> QED
      BY <3>2, <3>3
  <2>5. linkKev' \subseteq Deps \X Ids
    BY <1>7, <2>2 DEF LinkVuln
  <2>6. /\ pollPc' \in [Pollers -> PollPcs]
        /\ rec' \in [Pollers -> Records \union {NoRecord}]
        /\ missed' \in [Pollers -> BOOLEAN]
        /\ events' \in Nat
    <3>1. CASE Skip(p)
      BY <3>1 DEF Skip, Event
    <3>2. CASE ~Skip(p)
      BY <1>7, <3>2 DEF LinkVuln
    <3> QED
      BY <3>1, <3>2
  <2> QED
    BY <1>7, <2>4, <2>5, <2>6 DEF LinkVuln
<1>8. CASE PollEnds(p)
  <2>1. settled' \subseteq Deps
    BY <1>8 DEF PollEnds, Settle
  <2>2. epss' \in [Pollers -> [Cves -> {"unknown", "hot", "cold"}]]
    BY <1>8 DEF PollEnds
  <2> QED
    BY <1>8, <2>1, <2>2 DEF PollEnds, NoDep
<1>9. CASE PollDies(p)
  <2>1. epss' \in [Pollers -> [Cves -> {"unknown", "hot", "cold"}]]
    BY <1>9 DEF PollDies
  <2> QED
    BY <1>9, <2>1 DEF PollDies, Event, NoDep
<1> QED
  BY <1>1, <1>2, <1>3, <1>4, <1>5, <1>6, <1>7, <1>8, <1>9 DEF Poll

LEMMA CveNextType == CveInv /\ [CveNext]_cveVars => CveTypeOK'
<1> SUFFICES ASSUME CveInv, [CveNext]_cveVars PROVE CveTypeOK'
  OBVIOUS
<1>1. CASE UNCHANGED cveVars
  BY <1>1 DEF CveInv, CveTypeOK, cveVars, worldVars, vulnVars, cacheVars,
     pollVars
<1>2. CASE FeedsChange \/ DependencyAdded
  BY <1>2, RunsAssumption DEF CveInv, CveTypeOK, FeedsChange,
     DependencyAdded, Event, vulnVars, cacheVars, pollVars
<1> QED
  BY <1>1, <1>2, PollType DEF CveNext, PollsAndFeeds, CveInv

-----------------------------------------------------------------------------
(* Nothing is ever taken back.                                             *)

Grows ==
    /\ deps \subseteq deps' /\ everHot \subseteq everHot'
    /\ kevFeed \subseteq kevFeed' /\ nodes \subseteq nodes'
    /\ \A l \in Deps \X Ids : link[l] # "absent" => link'[l] # "absent"

LEMMA NextGrows == CveInv /\ [CveNext]_cveVars => Grows
<1> SUFFICES ASSUME CveInv, [CveNext]_cveVars PROVE Grows
  OBVIOUS
<1> USE DEF Grows, worldVars, vulnVars
<1>1. CASE UNCHANGED cveVars
  BY <1>1 DEF cveVars
<1>2. CASE FeedsChange \/ DependencyAdded
  BY <1>2 DEF FeedsChange, DependencyAdded
<1>3. ASSUME NEW p \in Pollers, Poll(p) \/ PollDies(p) PROVE Grows
  <2>1. CASE LinkVuln(p)
    <3>1. rec[p].severity # "absent"
      BY <2>1, RecordFields DEF LinkVuln, CveInv, PollSound, StepsSound,
         Severities
    <3>2. \A l \in Deps \X Ids : link[l] # "absent" => link'[l] # "absent"
      BY <2>1, <3>1 DEF LinkVuln, CveInv, CveTypeOK
    <3> QED
      BY <2>1, <3>2 DEF LinkVuln
  <2>2. CASE UpsertVuln(p)
    BY <2>2 DEF UpsertVuln
  <2> QED
    BY <1>3, <2>1, <2>2 DEF Poll, PollStart, PollFails, LoadKev, QueryOsv, Build,
       BuildFails, PollEnds, PollDies
<1> QED
  BY <1>1, <1>2, <1>3 DEF CveNext, PollsAndFeeds

LEMMA CveInitInv == CveInit => CveInv
<1> SUFFICES ASSUME CveInit PROVE CveInv
  OBVIOUS
<1>1. ASSUME NEW p \in Pollers PROVE PollSound(p)
  BY DEF CveInit, PollSound, RecordSound, StepsSound, CachesSound,
     NothingDropped
<1>2. LinksGrounded
  <2>1. \A d \in Deps, v \in Ids : link[<<d, v>>] = "absent"
    BY DEF CveInit
  <2> QED
    BY <2>1 DEF CveInit, LinksGrounded
<1>3. PollLinksAll
  BY DEF CveInit, PollLinksAll
<1> QED
  BY <1>1, <1>2, <1>3, CveInitType DEF CveInv

-----------------------------------------------------------------------------
(* A poll keeps what it has in hand while others go on.                    *)

SameLocals(q) ==
    /\ pollPc'[q] = pollPc[q] /\ queue'[q] = queue[q] /\ dep'[q] = dep[q]
    /\ todo'[q] = todo[q] /\ rec'[q] = rec[q] /\ missed'[q] = missed[q]
    /\ epss'[q] = epss[q] /\ kevSet'[q] = kevSet[q]

\* The link of an advisory that affects a dependency at hand, if there, stays.
LEMMA LinkStays ==
    ASSUME CveInv, Grows, NEW d \in Deps, NEW a \in AffectedBy[d],
           link[<<d, IdOf(a)>>] # "absent"
    PROVE  link'[<<d, IdOf(a)>>] # "absent"
<1>1. a \in Advisories
  BY AdvisoriesAssumption
<1>2. <<d, IdOf(a)>> \in Deps \X Ids
  BY <1>1, IdType
<1> QED
  BY <1>2 DEF Grows

LEMMA OthersSound ==
    ASSUME CveInv, Grows, NEW q \in Pollers, SameLocals(q)
    PROVE  PollSound(q)'
<1>1. PollSound(q)
  BY DEF CveInv
<1>2. RecordSound(q)'
  BY <1>1 DEF PollSound, RecordSound, SameLocals, Grows
<1>3. StepsSound(q)'
  BY <1>1 DEF PollSound, StepsSound, SameLocals, Grows, NodeOf
<1>4. CachesSound(q)'
  BY <1>1 DEF PollSound, CachesSound, SameLocals, Grows
<1>5. NothingDropped(q)'
  <2> SUFFICES ASSUME dep[q] # NoDep, ~missed[q], NEW a \in AffectedBy[dep[q]],
                      link'[<<dep[q], IdOf(a)>>] = "absent"
               PROVE  \/ a \in todo[q]
                      \/ rec[q] # NoRecord /\ rec[q].advisory = a
    BY DEF NothingDropped, SameLocals
  <2>1. dep[q] \in Deps
    BY <1>1 DEF PollSound, StepsSound, CveInv, CveTypeOK
  <2>2. link[<<dep[q], IdOf(a)>>] = "absent"
    BY <2>1, LinkStays
  <2> QED
    BY <1>1, <2>2 DEF PollSound, NothingDropped
<1> QED
  BY <1>2, <1>3, <1>4, <1>5 DEF PollSound

-----------------------------------------------------------------------------
(* A poll keeps what it has in hand at its own steps.                      *)

\* The steps that give the locals up, or only load the KEV set.
LEMMA StartSound ==
    ASSUME CveInv, Grows, NEW p \in Pollers, PollStart(p) \/ LoadKev(p)
    PROVE  PollSound(p)'
<1>1. PollSound(p) /\ CveTypeOK
  BY DEF CveInv
<1>2. /\ rec' = rec /\ dep' = dep /\ todo' = todo /\ missed' = missed
      /\ epss' = epss /\ link' = link /\ nodes' = nodes
      /\ rec[p] = NoRecord
      /\ pollPc'[p] \in {"kev", "next"}
  BY <1>1 DEF PollStart, LoadKev, PollSound, StepsSound, CveTypeOK, cacheVars,
     vulnVars
<1>3. queue'[p] \subseteq deps'
  BY <1>1 DEF PollStart, LoadKev, PollSound, StepsSound, CveTypeOK, worldVars
<1>4. kevSet'[p] \subseteq kevFeed'
  BY <1>1 DEF PollStart, LoadKev, PollSound, CachesSound, CveTypeOK, cacheVars,
     KevAnswers, worldVars
<1>5. RecordSound(p)'
  BY <1>2 DEF RecordSound
<1>6. StepsSound(p)'
  BY <1>1, <1>2, <1>3 DEF PollSound, StepsSound, Grows
<1>7. CachesSound(p)'
  BY <1>1, <1>2, <1>4 DEF PollSound, CachesSound, Grows
<1>8. NothingDropped(p)'
  BY <1>1, <1>2 DEF PollSound, NothingDropped
<1> QED
  BY <1>5, <1>6, <1>7, <1>8 DEF PollSound

LEMMA QuerySound ==
    ASSUME CveInv, Grows, NEW p \in Pollers, QueryOsv(p)
    PROVE  PollSound(p)'
<1>1. PollSound(p) /\ CveTypeOK
  BY DEF CveInv
<1>2. PICK d \in queue[p] :
          /\ queue' = [queue EXCEPT ![p] = @ \ {d}]
          /\ dep' = [dep EXCEPT ![p] = d]
          /\ \/ /\ todo' = [todo EXCEPT ![p] = AffectedBy[d]]
                /\ missed' = [missed EXCEPT ![p] = FALSE]
             \/ /\ todo' = [todo EXCEPT ![p] = {}]
                /\ missed' = [missed EXCEPT ![p] = TRUE]
  BY DEF QueryOsv
<1>3. /\ rec' = rec /\ pollPc' = pollPc /\ epss' = epss /\ kevSet' = kevSet
      /\ deps' = deps /\ rec[p] = NoRecord /\ pollPc[p] = "next"
  BY <1>1 DEF QueryOsv, PollSound, StepsSound, cacheVars, worldVars
<1>4. d \in deps /\ d # NoDep
  BY <1>1, <1>2, DepsAssumption DEF PollSound, StepsSound, CveTypeOK, NoDep
<1>5. /\ queue'[p] \subseteq queue[p] /\ dep'[p] = d
      /\ \/ todo'[p] = AffectedBy[d] /\ missed'[p] = FALSE
         \/ todo'[p] = {} /\ missed'[p] = TRUE
  BY <1>1, <1>2 DEF CveTypeOK
<1>6. RecordSound(p)'
  BY <1>3 DEF RecordSound
<1>7. StepsSound(p)'
  BY <1>1, <1>3, <1>4, <1>5 DEF PollSound, StepsSound
<1>8. CachesSound(p)'
  BY <1>1, <1>3 DEF PollSound, CachesSound, Grows
<1>9. NothingDropped(p)'
  BY <1>5 DEF NothingDropped
<1> QED
  BY <1>6, <1>7, <1>8, <1>9 DEF PollSound

LEMMA BuildSound ==
    ASSUME CveInv, Grows, NEW p \in Pollers, Build(p)
    PROVE  PollSound(p)'
<1>1. PollSound(p) /\ CveTypeOK /\ CachesSound(p)
  BY DEF CveInv, PollSound
<1>2. PICK a \in todo[p] : \E e \in EpssAnswers(p, a), k \in KevAnswers(p) :
          /\ todo' = [todo EXCEPT ![p] = @ \ {a}]
          /\ rec' = [rec EXCEPT ![p] =
                [advisory |-> a, severity |-> SeverityOf(a, e.isHot),
                 kev |-> CveOf[a] \in k]]
          /\ epss' = [epss EXCEPT ![p] = e.cache]
          /\ kevSet' = IF CveOf[a] = NoCve THEN kevSet
                       ELSE [kevSet EXCEPT ![p] = k]
  BY DEF Build
<1>3. PICK e \in EpssAnswers(p, a), k \in KevAnswers(p) :
          /\ todo' = [todo EXCEPT ![p] = @ \ {a}]
          /\ rec' = [rec EXCEPT ![p] =
                [advisory |-> a, severity |-> SeverityOf(a, e.isHot),
                 kev |-> CveOf[a] \in k]]
          /\ epss' = [epss EXCEPT ![p] = e.cache]
          /\ kevSet' = IF CveOf[a] = NoCve THEN kevSet
                       ELSE [kevSet EXCEPT ![p] = k]
  BY <1>2
<1>4. a \in Advisories /\ a \in AffectedBy[dep[p]] /\ dep[p] \in deps
  BY <1>1, <1>2 DEF CveTypeOK, PollSound, StepsSound
<1>5. /\ k \subseteq kevFeed
      /\ kevSet'[p] \subseteq kevFeed
  BY <1>1, <1>3 DEF KevAnswers, CachesSound, CveTypeOK
<1>6. /\ e.isHot \in BOOLEAN
      /\ e.isHot => CveOf[a] \in everHot
      /\ \A c \in Cves : e.cache[c] = "hot" => c \in everHot
  BY <1>1, <1>4, EpssType, EpssGrounded
<1>7. /\ dep' = dep /\ deps' = deps /\ queue' = queue /\ missed' = missed
      /\ everHot' = everHot /\ kevFeed' = kevFeed /\ link' = link
      /\ pollPc' = [pollPc EXCEPT ![p] = "upsert"]
  BY DEF Build, worldVars, vulnVars
<1>8. /\ pollPc'[p] = "upsert" /\ todo'[p] = todo[p] \ {a}
      /\ epss'[p] = e.cache
  BY <1>1, <1>3, <1>7 DEF CveTypeOK
<1>9. rec'[p] = [advisory |-> a, severity |-> SeverityOf(a, e.isHot),
                 kev |-> CveOf[a] \in k]
  BY <1>1, <1>3 DEF CveTypeOK
<1>10. /\ rec'[p].advisory = a
       /\ rec'[p].severity = SeverityOf(a, e.isHot)
       /\ rec'[p].kev = (CveOf[a] \in k)
  BY <1>9
<1>11. rec'[p] # NoRecord
  <2>1. rec'[p] \in Records
    BY <1>4, <1>6, <1>9, SeverityType DEF Records
  <2> QED
    BY <2>1, AdvisoriesAssumption DEF Records, Severities
<1>12. RecordSound(p)'
  <2>1. \/ rec'[p].severity = SeverityOf(a, FALSE)
        \/ CveOf[a] \in everHot /\ rec'[p].severity = SeverityOf(a, TRUE)
    BY <1>6, <1>10
  <2>2. rec'[p].kev => CveOf[a] \in kevFeed
    BY <1>5, <1>10
  <2> QED
    BY <1>4, <1>7, <1>10, <2>1, <2>2 DEF RecordSound
<1>13. StepsSound(p)'
  BY <1>1, <1>4, <1>7, <1>8, <1>11 DEF PollSound, StepsSound
<1>14. CachesSound(p)'
  BY <1>5, <1>6, <1>7, <1>8 DEF CachesSound
<1>15. NothingDropped(p)'
  <2> SUFFICES ASSUME dep[p] # NoDep, ~missed[p], NEW b \in AffectedBy[dep[p]],
                      link[<<dep[p], IdOf(b)>>] = "absent", b # a
               PROVE  b \in todo[p]
    BY <1>7, <1>8, <1>10, <1>11 DEF NothingDropped
  <2>1. rec[p] = NoRecord
    BY <1>1 DEF Build, PollSound, StepsSound
  <2> QED
    BY <1>1, <2>1 DEF PollSound, NothingDropped
<1> QED
  BY <1>12, <1>13, <1>14, <1>15 DEF PollSound

\* After a failure only the missed advisory is given up.
LEMMA SkipSound ==
    ASSUME CveInv, Grows, NEW p \in Pollers, Skip(p),
           UNCHANGED <<queue, dep, epss, kevSet>>,
           todo'[p] \subseteq todo[p]
    PROVE  PollSound(p)'
<1>1. PollSound(p) /\ CveTypeOK
  BY DEF CveInv
<1>2. rec'[p] = NoRecord /\ pollPc'[p] = "next" /\ missed'[p] = TRUE
  BY <1>1 DEF Skip, CveTypeOK
<1>3. RecordSound(p)'
  BY <1>2 DEF RecordSound
<1>4. StepsSound(p)'
  BY <1>1, <1>2 DEF PollSound, StepsSound, Grows
<1>5. CachesSound(p)'
  BY <1>1 DEF PollSound, CachesSound, Grows
<1>6. NothingDropped(p)'
  BY <1>2 DEF NothingDropped
<1> QED
  BY <1>3, <1>4, <1>5, <1>6 DEF PollSound

LEMMA UpsertSound ==
    ASSUME CveInv, Grows, NEW p \in Pollers, UpsertVuln(p), ~Skip(p)
    PROVE  PollSound(p)'
<1>1. PollSound(p) /\ CveTypeOK
  BY DEF CveInv
<1>2. /\ nodes' = nodes \union {NodeOf(p)}
      /\ pollPc'[p] = "link" /\ pollPc[p] = "upsert"
      /\ rec' = rec /\ dep' = dep /\ todo' = todo /\ missed' = missed
      /\ queue' = queue /\ epss' = epss /\ kevSet' = kevSet /\ link' = link
  BY <1>1 DEF UpsertVuln, cacheVars, CveTypeOK
<1>3. RecordSound(p)'
  BY <1>1, <1>2 DEF PollSound, RecordSound, Grows
<1>4. StepsSound(p)'
  BY <1>1, <1>2 DEF PollSound, StepsSound, Grows, NodeOf
<1>5. CachesSound(p)'
  BY <1>1, <1>2 DEF PollSound, CachesSound, Grows
<1>6. NothingDropped(p)'
  BY <1>1, <1>2 DEF PollSound, NothingDropped
<1> QED
  BY <1>3, <1>4, <1>5, <1>6 DEF PollSound

\* The query finds both nodes, so that the link is made.
LEMMA LinkMade ==
    ASSUME CveInv, NEW p \in Pollers, LinkVuln(p), ~Skip(p)
    PROVE  /\ rec[p] # NoRecord
           /\ Linked(p) = {<<dep[p], IdOf(rec[p].advisory)>>}
           /\ Linked(p) \subseteq Deps \X Ids
           /\ link' = [l \in Deps \X Ids |->
                         IF l \in Linked(p) THEN rec[p].severity ELSE link[l]]
<1>1. PollSound(p) /\ CveTypeOK
  BY DEF CveInv
<1>2. rec[p] # NoRecord /\ dep[p] \in deps /\ NodeOf(p) \in nodes
  BY <1>1 DEF LinkVuln, PollSound, StepsSound, RecordSound
<1>3. Linked(p) = {<<dep[p], IdOf(rec[p].advisory)>>}
  BY <1>2 DEF Linked, NodeOf
<1>4. Linked(p) \subseteq Deps \X Ids
  BY <1>1 DEF Linked, CveTypeOK
<1>5. DOMAIN link = Deps \X Ids
  BY <1>1 DEF CveTypeOK
<1> QED
  BY <1>2, <1>3, <1>4, <1>5 DEF LinkVuln

LEMMA LinkSound ==
    ASSUME CveInv, Grows, NEW p \in Pollers, LinkVuln(p), ~Skip(p)
    PROVE  PollSound(p)'
<1>1. PollSound(p) /\ CveTypeOK
  BY DEF CveInv
<1>2. /\ pollPc'[p] = "next" /\ rec'[p] = NoRecord
      /\ dep' = dep /\ todo' = todo /\ missed' = missed
      /\ queue' = queue /\ epss' = epss /\ kevSet' = kevSet
  BY <1>1 DEF LinkVuln, cacheVars, CveTypeOK
<1>3. RecordSound(p)'
  BY <1>2 DEF RecordSound
<1>4. StepsSound(p)'
  BY <1>1, <1>2 DEF PollSound, StepsSound, Grows
<1>5. CachesSound(p)'
  BY <1>1, <1>2 DEF PollSound, CachesSound, Grows
<1>6. NothingDropped(p)'
  <2> SUFFICES ASSUME dep[p] # NoDep, ~missed[p], NEW a \in AffectedBy[dep[p]],
                      link'[<<dep[p], IdOf(a)>>] = "absent"
               PROVE  a \in todo[p]
    BY <1>2 DEF NothingDropped
  <2>1. dep[p] \in Deps
    BY <1>1 DEF PollSound, StepsSound, CveTypeOK
  <2>2. link[<<dep[p], IdOf(a)>>] = "absent"
    BY <2>1, LinkStays
  <2>3. a # rec[p].advisory
    <3>1. rec[p].severity # "absent"
      BY LinkMade, <1>1, RecordFields DEF Severities
    <3>2. ASSUME a = rec[p].advisory PROVE FALSE
      <4>1. <<dep[p], IdOf(a)>> \in Linked(p)
        BY <3>2, LinkMade
      <4>2. link'[<<dep[p], IdOf(a)>>] = rec[p].severity
        BY <4>1, LinkMade
      <4> QED
        BY <3>1, <4>2
    <3> QED
      BY <3>2
  <2> QED
    BY <1>1, <2>2, <2>3 DEF PollSound, NothingDropped
<1> QED
  BY <1>3, <1>4, <1>5, <1>6 DEF PollSound

\* A poll that returns has nothing in hand.
LEMMA ReturnSound ==
    ASSUME CveInv, Grows, NEW p \in Pollers, PollEnds(p) \/ PollDies(p)
    PROVE  PollSound(p)'
<1>1. PollSound(p) /\ CveTypeOK
  BY DEF CveInv
<1>2. /\ pollPc'[p] \in {"idle", "dead"} /\ queue'[p] = {} /\ dep'[p] = NoDep
      /\ todo'[p] = {} /\ rec'[p] = NoRecord
  BY <1>1 DEF PollEnds, PollDies, PollReturns, FrameGone, CveTypeOK
<1>3. \/ epss' = epss /\ kevSet' = kevSet
      \/ epss'[p] = [c \in Cves |-> "unknown"] /\ kevSet'[p] = {}
  BY <1>1 DEF PollEnds, PollDies, Exits, cacheVars, CveTypeOK
<1>4. RecordSound(p)'
  BY <1>2 DEF RecordSound
<1>5. StepsSound(p)'
  BY <1>2 DEF StepsSound
<1>6. CachesSound(p)'
  BY <1>1, <1>3 DEF PollSound, CachesSound, Grows
<1>7. NothingDropped(p)'
  BY <1>2 DEF NothingDropped
<1> QED
  BY <1>4, <1>5, <1>6, <1>7 DEF PollSound

LEMMA PollOwn ==
    ASSUME CveInv, Grows, NEW p \in Pollers, Poll(p) \/ PollDies(p)
    PROVE  PollSound(p)'
<1>1. CASE Skip(p) /\ UNCHANGED <<queue, dep, epss, kevSet, todo>>
  BY <1>1, SkipSound
<1>2. CASE BuildFails(p)
  <2>1. todo'[p] \subseteq todo[p]
    BY <1>2 DEF BuildFails, CveInv, CveTypeOK
  <2> QED
    BY <1>2, <2>1, SkipSound DEF BuildFails, cacheVars
<1>3. CASE UpsertVuln(p)
  BY <1>1, <1>3, UpsertSound DEF UpsertVuln, cacheVars
<1>4. CASE LinkVuln(p)
  BY <1>1, <1>4, LinkSound DEF LinkVuln, cacheVars
<1>5. CASE PollFails(p)
  BY <1>5, OthersSound DEF PollFails, SameLocals, pollVars, cacheVars
<1> QED
  BY <1>2, <1>3, <1>4, <1>5, StartSound, QuerySound, BuildSound, ReturnSound
     DEF Poll

\* The steps of one poll leave the locals of the others alone.
LEMMA PollLeavesOthers ==
    ASSUME CveInv, NEW p \in Pollers, Poll(p) \/ PollDies(p),
           NEW q \in Pollers, q # p
    PROVE  SameLocals(q)
<1> USE DEF SameLocals, CveInv, CveTypeOK, cacheVars
<1>1. CASE PollStart(p) \/ PollFails(p)
  BY <1>1 DEF PollStart, PollFails, pollVars
<1>2. CASE LoadKev(p)
  BY <1>2 DEF LoadKev
<1>3. CASE QueryOsv(p)
  BY <1>3 DEF QueryOsv
<1>4. CASE Build(p)
  BY <1>4 DEF Build
<1>5. CASE BuildFails(p)
  BY <1>5 DEF BuildFails, Skip
<1>6. CASE UpsertVuln(p)
  BY <1>6 DEF UpsertVuln, Skip
<1>7. CASE LinkVuln(p)
  BY <1>7 DEF LinkVuln, Skip
<1>8. CASE PollEnds(p) \/ PollDies(p)
  BY <1>8 DEF PollEnds, PollDies, PollReturns, FrameGone, Exits
<1> QED
  BY <1>1, <1>2, <1>3, <1>4, <1>5, <1>6, <1>7, <1>8 DEF Poll

LEMMA NextPolls ==
    ASSUME CveInv, [CveNext]_cveVars, Grows
    PROVE  \A q \in Pollers : PollSound(q)'
<1> SUFFICES ASSUME NEW q \in Pollers PROVE PollSound(q)'
  OBVIOUS
<1>1. CASE UNCHANGED cveVars \/ FeedsChange \/ DependencyAdded
  BY <1>1, OthersSound
     DEF cveVars, FeedsChange, DependencyAdded, worldVars, cacheVars,
         pollVars, SameLocals
<1>2. ASSUME NEW p \in Pollers, Poll(p) \/ PollDies(p) PROVE PollSound(q)'
  BY <1>2, PollOwn, PollLeavesOthers, OthersSound
<1> QED
  BY <1>1, <1>2 DEF CveNext, PollsAndFeeds

-----------------------------------------------------------------------------
(* The links themselves.                                                   *)

Backed(d, v, severity) ==
    \E a \in AffectedBy[d] :
        /\ IdOf(a) = v
        /\ \/ severity = SeverityOf(a, FALSE)
           \/ /\ CveOf[a] \in everHot
              /\ severity = SeverityOf(a, TRUE)

LEMMA NextGrounded ==
    ASSUME CveInv, [CveNext]_cveVars, Grows
    PROVE  LinksGrounded'
<1>1. ASSUME UNCHANGED <<link, linkKev>> PROVE LinksGrounded'
  BY <1>1 DEF CveInv, LinksGrounded, Grows
<1>2. ASSUME NEW p \in Pollers, LinkVuln(p), ~Skip(p) PROVE LinksGrounded'
  <2>1. RecordSound(p)
    BY DEF CveInv, PollSound
  <2>2. everHot' = everHot /\ kevFeed' = kevFeed
    BY <1>2 DEF LinkVuln, worldVars
  <2>3. ASSUME NEW d \in Deps, NEW v \in Ids, link'[<<d, v>>] # "absent"
        PROVE  Backed(d, v, link'[<<d, v>>])
    <3>1. CASE <<d, v>> \in Linked(p)
      <4>1. d = dep[p] /\ v = IdOf(rec[p].advisory) /\ rec[p] # NoRecord
        BY <1>2, <3>1, LinkMade
      <4>2. link'[<<d, v>>] = rec[p].severity
        BY <1>2, <3>1, LinkMade
      <4> QED
        BY <2>1, <4>1, <4>2 DEF RecordSound, Backed
    <3>2. CASE <<d, v>> \notin Linked(p)
      <4>1. link'[<<d, v>>] = link[<<d, v>>]
        BY <1>2, <3>2, LinkMade
      <4> QED
        BY <2>3, <4>1 DEF CveInv, LinksGrounded, Backed
    <3> QED
      BY <3>1, <3>2
  <2>4. ASSUME NEW l \in linkKev' PROVE l[2] \in kevFeed
    <3>1. CASE l \in linkKev
      BY <3>1 DEF CveInv, LinksGrounded
    <3>2. CASE l \notin linkKev
      <4>1. rec[p].kev /\ l \in Linked(p)
        BY <1>2, <2>4, <3>2 DEF LinkVuln
      <4>2. rec[p] # NoRecord /\ l = <<dep[p], IdOf(rec[p].advisory)>>
        BY <1>2, <4>1, LinkMade
      <4>3. CveOf[rec[p].advisory] \in kevFeed
        BY <2>1, <4>1, <4>2 DEF RecordSound
      <4>4. CveOf[rec[p].advisory] # NoCve
        BY <4>3, AdvisoriesAssumption DEF CveInv, CveTypeOK
      <4> QED
        BY <4>2, <4>3, <4>4 DEF IdOf
    <3> QED
      BY <3>1, <3>2
  <2> QED
    BY <2>2, <2>3, <2>4 DEF LinksGrounded, Backed
<1>3. CASE UNCHANGED cveVars \/ FeedsChange \/ DependencyAdded
  BY <1>1, <1>3 DEF cveVars, FeedsChange, DependencyAdded, vulnVars
<1>4. ASSUME NEW p \in Pollers, Poll(p) \/ PollDies(p) PROVE LinksGrounded'
  <2>1. CASE LinkVuln(p)
    <3>1. CASE Skip(p)
      BY <1>1, <2>1, <3>1 DEF LinkVuln, Skip, Event, CveInv, CveTypeOK
    <3>2. CASE ~Skip(p)
      BY <1>2, <2>1, <3>2
    <3> QED
      BY <3>1, <3>2
  <2>2. CASE ~LinkVuln(p)
    BY <1>1, <1>4, <2>2 DEF Poll, PollStart, PollFails, LoadKev, QueryOsv, Build,
       BuildFails, UpsertVuln, PollEnds, PollDies, vulnVars
  <2> QED
    BY <2>1, <2>2
<1> QED
  BY <1>3, <1>4 DEF CveNext, PollsAndFeeds

LEMMA NextLinksAll ==
    ASSUME CveInv, [CveNext]_cveVars, Grows
    PROVE  PollLinksAll'
<1>1. settled \subseteq Deps
  BY DEF CveInv, CveTypeOK
<1>2. ASSUME settled' = settled PROVE PollLinksAll'
  BY <1>1, <1>2, LinkStays DEF CveInv, PollLinksAll
<1>3. ASSUME NEW p \in Pollers, QueryOsv(p) \/ PollEnds(p)
      PROVE  PollLinksAll'
  <2> SUFFICES ASSUME NEW d \in settled', d \notin settled,
                      NEW a \in AffectedBy[d]
               PROVE  link[<<d, IdOf(a)>>] # "absent" /\ d \in Deps
    BY <1>1, LinkStays DEF CveInv, PollLinksAll
  <2>1. d = dep[p] /\ dep[p] # NoDep /\ ~missed[p]
    BY <1>3 DEF QueryOsv, PollEnds, Settle
  <2>2. todo[p] = {} /\ pollPc[p] = "next"
    BY <1>3 DEF QueryOsv, PollEnds
  <2>3. PollSound(p)
    BY DEF CveInv
  <2>4. rec[p] = NoRecord /\ d \in Deps
    BY <2>1, <2>2, <2>3 DEF PollSound, StepsSound, CveInv, CveTypeOK
  <2> QED
    BY <2>1, <2>2, <2>3, <2>4 DEF PollSound, NothingDropped
<1>4. CASE UNCHANGED cveVars \/ FeedsChange \/ DependencyAdded
  BY <1>2, <1>4 DEF cveVars, FeedsChange, DependencyAdded
<1>5. ASSUME NEW p \in Pollers, Poll(p) \/ PollDies(p) PROVE PollLinksAll'
  BY <1>2, <1>3, <1>5 DEF Poll, PollStart, PollFails, LoadKev, Build, BuildFails,
     UpsertVuln, LinkVuln, PollDies
<1> QED
  BY <1>4, <1>5 DEF CveNext, PollsAndFeeds

-----------------------------------------------------------------------------
LEMMA CveNextInv == CveInv /\ [CveNext]_cveVars => CveInv'
BY NextGrows, CveNextType, NextPolls, NextGrounded, NextLinksAll DEF CveInv

\* The inductive invariant of the polls of cve_ingester.py.
THEOREM CveSpecInv == CveSpec => []CveInv
BY CveInitInv, CveNextInv, PTL DEF CveSpec

\* The variables keep their types: severities, records and caches take no
\* value _build_vuln_record and fetch_epss do not produce.
THEOREM CveTypeCorrect == CveSpec => []CveTypeOK
<1>1. CveInv => CveTypeOK
  BY DEF CveInv
<1> QED
  BY <1>1, CveSpecInv, PTL

\* Every HAS_VULN relationship written by ingest_for_service is backed by an
\* advisory on that dependency, with a severity it has had, and in_kev is only
\* said of CVEs in the feed.
THEOREM LinksAreGrounded == CveSpec => []LinksGrounded
<1>1. CveInv => LinksGrounded
  BY DEF CveInv
<1> QED
  BY <1>1, CveSpecInv, PTL

\* A dependency that ingest_for_service went through without a failure has a
\* link to each of its advisories.
THEOREM PollsLinkAll == CveSpec => []PollLinksAll
<1>1. CveInv => PollLinksAll
  BY DEF CveInv
<1> QED
  BY <1>1, CveSpecInv, PTL

-----------------------------------------------------------------------------
(* SBOM ingestion.                                                         *)

\* What a run has scanned is in the graph or still in its hands.
RunSound(s) ==
    sbomPc[s] \in {"upsert", "use"} =>
        /\ scanned[s] \in Images
        /\ Parsed(scanned[s])
              \subseteq used \union toUpsert[s] \union {comp[s]}

SbomInv ==
    /\ SbomTypeOK
    /\ \A s \in Sboms : RunSound(s)
    /\ ingested \in Images => Parsed(ingested) \subseteq used
    /\ SavedDigestIsIngested

LEMMA ParsedType ==
    ASSUME NEW i \in Images
    PROVE  Parsed(i) \subseteq Deps /\ NoDep \notin Parsed(i)
BY ImagesAssumption, DepsAssumption DEF Parsed, NoDep

LEMMA SbomInitInv == SbomInit => SbomInv
<1> SUFFICES ASSUME SbomInit PROVE SbomInv
  OBVIOUS
<1>1. SbomTypeOK
  BY BuildsAssumption DEF SbomInit, SbomTypeOK
<1>2. \A s \in Sboms : RunSound(s)
  BY DEF SbomInit, RunSound
<1>3. SavedDigestIsIngested
  BY ImagesAssumption DEF SbomInit, SavedDigestIsIngested, NoImage
<1>4. ingested \notin Images
  BY ImagesAssumption DEF SbomInit, NoImage
<1> QED
  BY <1>1, <1>2, <1>3, <1>4 DEF SbomInv

\* The locals of the other runs.
SameRun(s) ==
    /\ sbomPc'[s] = sbomPc[s] /\ digest'[s] = digest[s]
    /\ scanned'[s] = scanned[s] /\ toUpsert'[s] = toUpsert[s]
    /\ comp'[s] = comp[s]

LEMMA ReturnsRun ==
    ASSUME SbomInv, NEW s \in Sboms, SbomReturns(s)
    PROVE  /\ sbomPc'[s] = "idle" /\ comp'[s] = NoDep
           /\ sbomPc' \in
                 [Sboms -> {"idle", "compare", "syft", "upsert", "use"}]
           /\ digest' \in [Sboms -> Images \union {"day", NoImage}]
           /\ scanned' \in [Sboms -> Images \union {NoImage}]
           /\ toUpsert' \in [Sboms -> SUBSET Deps]
           /\ comp' \in [Sboms -> deps \union {NoDep}]
           /\ \A q \in Sboms \ {s} : SameRun(q)
BY DEF SbomInv, SbomTypeOK, SbomReturns, SameRun

\* A step changes the locals of one run, and the graph only grows.
LEMMA SbomLocals ==
    ASSUME SbomInv, NEW s \in Sboms, Sbom(s), NEW q \in Sboms \ {s}
    PROVE  SameRun(q) /\ used \subseteq used' /\ deps \subseteq deps'
<1> USE DEF SbomInv, SbomTypeOK, SameRun, depVars
<1>1. CASE Inspect(s)
  BY <1>1 DEF Inspect
<1>2. CASE Compare(s)
  BY <1>2, ReturnsRun DEF Compare
<1>3. CASE Syft(s)
  BY <1>3 DEF Syft
<1>4. CASE UpsertDep(s)
  BY <1>4 DEF UpsertDep
<1>5. CASE UseDep(s)
  BY <1>5 DEF UseDep
<1>6. CASE SaveDigest(s)
  BY <1>6, ReturnsRun DEF SaveDigest
<1>7. CASE SbomFails(s)
  BY <1>7, ReturnsRun DEF SbomFails
<1> QED
  BY <1>1, <1>2, <1>3, <1>4, <1>5, <1>6, <1>7 DEF Sbom

LEMMA SbomType ==
    ASSUME SbomInv, NEW s \in Sboms, Sbom(s)
    PROVE  SbomTypeOK'
<1> USE BuildsAssumption DEF SbomInv, SbomTypeOK, depVars
<1>1. CASE Inspect(s)
  BY <1>1 DEF Inspect, Triggered, Digests
<1>2. CASE Compare(s)
  <2>1. CASE SbomReturns(s)
    BY <1>2, <2>1, ReturnsRun DEF Compare, SameRun
  <2>2. CASE ~SbomReturns(s)
    BY <1>2, <2>2 DEF Compare
  <2> QED
    BY <2>1, <2>2
<1>3. CASE Syft(s)
  BY <1>3, ParsedType DEF Syft
<1>4. CASE UpsertDep(s)
  BY <1>4, DepsAssumption DEF UpsertDep, NoDep
<1>5. CASE UseDep(s)
  BY <1>5 DEF UseDep
<1>6. CASE SaveDigest(s)
  BY <1>6, ReturnsRun DEF SaveDigest, SameRun
<1>7. CASE SbomFails(s)
  BY <1>7, ReturnsRun DEF SbomFails, SameRun
<1> QED
  BY <1>1, <1>2, <1>3, <1>4, <1>5, <1>6, <1>7 DEF Sbom

\* A run keeps what it has scanned at its own steps.
LEMMA SbomOwn ==
    ASSUME SbomInv, NEW s \in Sboms, Sbom(s)
    PROVE  RunSound(s)'
<1> USE DEF SbomInv, SbomTypeOK, RunSound, depVars
<1>1. CASE Inspect(s)
  BY <1>1 DEF Inspect
<1>2. CASE Compare(s)
  BY <1>2, ReturnsRun DEF Compare
<1>3. CASE Syft(s)
  BY <1>3 DEF Syft
<1>4. CASE UpsertDep(s)
  <2>1. PICK d \in toUpsert[s] :
            /\ toUpsert' = [toUpsert EXCEPT ![s] = @ \ {d}]
            /\ comp' = [comp EXCEPT ![s] = d]
    BY <1>4 DEF UpsertDep
  <2>2. Parsed(scanned[s]) \subseteq used \union toUpsert[s] \union {NoDep}
    BY <1>4 DEF UpsertDep
  <2>3. comp'[s] = d /\ toUpsert'[s] = toUpsert[s] \ {d}
    BY <2>1
  <2> QED
    BY <1>4, <2>2, <2>3, ParsedType DEF UpsertDep
<1>5. CASE UseDep(s)
  BY <1>5 DEF UseDep
<1>6. CASE SaveDigest(s) \/ SbomFails(s)
  BY <1>6, ReturnsRun DEF SaveDigest, SbomFails
<1> QED
  BY <1>1, <1>2, <1>3, <1>4, <1>5, <1>6 DEF Sbom

\* A digest is saved when nothing of what was scanned is in hand any more.
LEMMA SbomSaves ==
    ASSUME SbomInv, NEW s \in Sboms, Sbom(s)
    PROVE  /\ SavedDigestIsIngested'
           /\ (ingested \in Images => Parsed(ingested) \subseteq used)'
<1> USE DEF SbomInv, SavedDigestIsIngested, depVars
<1>1. CASE SaveDigest(s)
  <2>1. scanned[s] \in Images /\ Parsed(scanned[s]) \subseteq used
    <3>1. scanned[s] \in Images /\ comp[s] = NoDep /\ toUpsert[s] = {}
      BY <1>1 DEF SaveDigest, SbomTypeOK, RunSound
    <3>2. Parsed(scanned[s]) \subseteq used \union {NoDep}
      BY <1>1, <3>1 DEF SaveDigest, RunSound
    <3> QED
      BY <3>1, <3>2, ParsedType
  <2> QED
    BY <1>1, <2>1 DEF SaveDigest
<1>2. CASE ~SaveDigest(s)
  <2>1. lastDigest' = lastDigest /\ ingested' = ingested /\ used \subseteq used'
    BY <1>2 DEF Sbom, Inspect, Compare, Syft, UpsertDep, UseDep, SbomFails
  <2> QED
    BY <2>1
<1> QED
  BY <1>1, <1>2

LEMMA SbomNextInv == SbomInv /\ [SbomNext]_sbomVars => SbomInv'
<1> SUFFICES ASSUME SbomInv, [SbomNext]_sbomVars PROVE SbomInv'
  OBVIOUS
<1>1. CASE UNCHANGED sbomVars \/ Push
  BY <1>1, BuildsAssumption
     DEF sbomVars, depVars, runVars, Push, Triggered, SbomInv, SbomTypeOK,
         RunSound, SavedDigestIsIngested
<1>2. ASSUME NEW s \in Sboms, Sbom(s) PROVE SbomInv'
  <2>1. ASSUME NEW q \in Sboms \ {s} PROVE RunSound(q)'
    BY <1>2, SbomLocals DEF SameRun, SbomInv, RunSound
  <2> QED
    BY <1>2, <2>1, SbomType, SbomOwn, SbomSaves DEF SbomInv
<1> QED
  BY <1>1, <1>2 DEF SbomNext

\* The inductive invariant of the runs of sbom_ingester.py.
THEOREM SbomSpecInv == SbomSpec => []SbomInv
BY SbomInitInv, SbomNextInv, PTL DEF SbomSpec

\* The variables of SBOM ingestion keep their types: a run has a component in
\* hand exactly between its two queries, and relates no component that has no
\* node.
THEOREM SbomTypeCorrect == SbomSpec => []SbomTypeOK
<1>1. SbomInv => SbomTypeOK
  BY DEF SbomInv
<1> QED
  BY <1>1, SbomSpecInv, PTL

\* For every set of images and any number of runs that overlap, fail and die,
\* wherever the tag moves meanwhile, _save_digest writes a digest when all the
\* components of the image its run has scanned are in the graph.
THEOREM SavedDigestsAreIngested == SbomSpec => []SavedDigestIsIngested
<1>1. SbomInv => SavedDigestIsIngested
  BY DEF SbomInv
<1> QED
  BY <1>1, SbomSpecInv, PTL

-----------------------------------------------------------------------------
(* The two together: each sees the other as its surroundings.              *)

LEMMA PollKeepsDeps ==
    ASSUME NEW p \in Pollers, Poll(p) \/ PollDies(p)
    PROVE  deps' = deps
BY DEF Poll, PollStart, PollFails, LoadKev, QueryOsv, Build, BuildFails, UpsertVuln,
   LinkVuln, PollEnds, PollDies, worldVars

\* A poll, or a change of the feeds, changes nothing SBOM ingestion has.
LEMMA StepOfSbom == [Next]_vars => [SbomNext]_sbomVars
<1>1. CASE SbomStep
  BY <1>1 DEF SbomStep
<1>2. CASE CveStep
  <2>1. deps' = deps
    BY <1>2, PollKeepsDeps DEF CveStep, FeedsChange
  <2> QED
    BY <1>2, <2>1 DEF CveStep, sbomVars, depVars
<1>3. CASE UNCHANGED vars
  BY <1>3 DEF vars
<1> QED
  BY <1>1, <1>2, <1>3 DEF Next

\* A step of SBOM ingestion adds a dependency, if it changes anything CVE
\* ingestion reads.
LEMMA StepOfCve == SbomTypeOK /\ [Next]_vars => [CveNext]_cveVars
<1> SUFFICES ASSUME SbomTypeOK, [Next]_vars PROVE [CveNext]_cveVars
  OBVIOUS
<1>1. CASE SbomStep
  <2>1. \/ deps' = deps
        \/ \E d \in Deps : deps' = deps \union {d}
    BY <1>1 DEF SbomStep, SbomNext, Push, Sbom, Inspect, Compare, Syft,
       UpsertDep, UseDep, SaveDigest, SbomFails, SbomTypeOK, depVars
  <2>2. CASE deps' = deps
    BY <1>1, <2>2 DEF SbomStep, cveVars, worldVars
  <2>3. CASE deps' # deps
    BY <1>1, <2>1, <2>3 DEF SbomStep, CveNext, DependencyAdded
  <2> QED
    BY <2>2, <2>3
<1>2. CASE CveStep
  BY <1>2 DEF CveStep, CveNext, PollsAndFeeds
<1>3. CASE UNCHANGED vars
  BY <1>3 DEF vars
<1> QED
  BY <1>1, <1>2, <1>3 DEF Next

\* Beside the polls, SBOM ingestion behaves as it does alone.
THEOREM ImplementsSbom == Spec => SbomSpec
<1>1. Init => SbomInit
  BY DEF Init
<1> QED
  BY <1>1, StepOfSbom, PTL DEF Spec, SbomSpec

\* Beside the runs of sbom_ingester.py, CVE ingestion behaves as it does among
\* dependencies that appear at any time: what CveIngest assumes of them is no
\* less than what ingest_components may do.
THEOREM ImplementsCve == Spec => CveSpec
<1>1. Init => CveInit
  BY DEF Init
<1>2. SbomInv => SbomTypeOK
  BY DEF SbomInv
<1> QED
  BY <1>1, <1>2, ImplementsSbom, SbomSpecInv, StepOfCve, PTL
     DEF Spec, CveSpec

-----------------------------------------------------------------------------
(* What a poll that began after the digest was saved has linked.           *)

\* The components of the image it vets are behind it or still before it.
VettingSound(p) ==
    vetting[p] \in Images =>
        /\ pollPc[p] # "idle" /\ ~missed[p]
        /\ Parsed(vetting[p]) \subseteq queue[p] \union settled \union {dep[p]}

VetInv ==
    /\ vetting \in [Pollers -> Images \union {NoImage}]
    /\ vetted \subseteq Images
    /\ \A p \in Pollers : VettingSound(p)
    /\ \A i \in vetted : Parsed(i) \subseteq settled

SupplyInv == SbomInv /\ CveInv /\ VetInv

LEMMA InitVet == Init => VetInv
BY ImagesAssumption DEF Init, VetInv, VettingSound, NoImage

LEMMA VetType ==
    ASSUME SupplyInv, NEW p \in Pollers, Vet(p)
    PROVE  /\ vetting' \in [Pollers -> Images \union {NoImage}]
           /\ \A q \in Pollers \ {p} : vetting'[q] = vetting[q]
           /\ vetting'[p] =
                  IF pollPc'[p] \in {"idle", "dead"} \/ missed'[p] THEN NoImage
                  ELSE IF pollPc[p] = "idle" THEN ingested ELSE vetting[p]
<1>1. ingested \in Images \union {NoImage}
  BY DEF SupplyInv, SbomInv, SbomTypeOK
<1>2. vetting \in [Pollers -> Images \union {NoImage}]
  BY DEF SupplyInv, VetInv
<1> QED
  BY <1>1, <1>2 DEF Vet

\* A poll takes up every dependency there is, the components of an image
\* whose digest is saved among them.
LEMMA StartVets ==
    ASSUME SupplyInv, NEW p \in Pollers, PollStart(p), Vet(p)
    PROVE  VettingSound(p)'
<1>1. queue'[p] = deps /\ pollPc'[p] = "kev" /\ pollPc[p] = "idle"
  BY DEF PollStart, SupplyInv, CveInv, CveTypeOK
<1>2. missed' = missed
  BY DEF PollStart
<1> SUFFICES ASSUME vetting'[p] \in Images
             PROVE  ~missed'[p] /\ Parsed(vetting'[p]) \subseteq queue'[p]
  BY <1>1 DEF VettingSound
<1>3. ~missed'[p] /\ vetting'[p] = ingested /\ ingested # NoImage
  BY <1>1, VetType, ImagesAssumption DEF NoImage
<1>4. Parsed(ingested) \subseteq used /\ used \subseteq deps
  BY <1>3 DEF SupplyInv, SbomInv, SbomTypeOK
<1> QED
  BY <1>1, <1>3, <1>4

\* It settles a dependency before it takes up another.
LEMMA QueryVets ==
    ASSUME SupplyInv, NEW p \in Pollers, QueryOsv(p), Vet(p)
    PROVE  VettingSound(p)'
<1>1. PICK d \in queue[p] :
          /\ queue' = [queue EXCEPT ![p] = @ \ {d}]
          /\ dep' = [dep EXCEPT ![p] = d]
  BY DEF QueryOsv
<1>2. queue'[p] = queue[p] \ {d} /\ dep'[p] = d
  BY <1>1 DEF SupplyInv, CveInv, CveTypeOK
<1>3. pollPc' = pollPc /\ pollPc[p] = "next"
  BY DEF QueryOsv
<1> SUFFICES ASSUME vetting'[p] \in Images
             PROVE  /\ ~missed'[p]
                    /\ Parsed(vetting'[p])
                          \subseteq queue'[p] \union settled' \union {dep'[p]}
  BY <1>3 DEF VettingSound
<1>4. ~missed'[p] /\ vetting'[p] = vetting[p]
  BY <1>3, VetType, ImagesAssumption DEF NoImage
<1>5. /\ ~missed[p]
      /\ Parsed(vetting[p]) \subseteq queue[p] \union settled \union {dep[p]}
  BY <1>4 DEF SupplyInv, VetInv, VettingSound
<1>6. settled' = IF dep[p] # NoDep THEN settled \union {dep[p]} ELSE settled
  BY <1>5 DEF QueryOsv, Settle
<1>7. NoDep \notin Parsed(vetting[p])
  BY <1>4, ParsedType
<1> QED
  BY <1>2, <1>4, <1>5, <1>6, <1>7

\* The other steps of a poll under way keep its queue and its dependency.
LEMMA OtherStepsVet ==
    ASSUME SupplyInv, NEW p \in Pollers, Vet(p),
           \/ LoadKev(p) \/ Build(p) \/ BuildFails(p)
           \/ UpsertVuln(p) \/ LinkVuln(p)
    PROVE  VettingSound(p)'
<1>1. /\ queue' = queue /\ dep' = dep /\ settled' = settled
      /\ pollPc[p] # "idle"
  BY DEF LoadKev, Build, BuildFails, UpsertVuln, LinkVuln
<1> SUFFICES ASSUME vetting'[p] \in Images
             PROVE  /\ pollPc'[p] # "idle" /\ ~missed'[p]
                    /\ Parsed(vetting'[p])
                          \subseteq queue'[p] \union settled' \union {dep'[p]}
  BY DEF VettingSound
<1>2. /\ pollPc'[p] # "idle" /\ ~missed'[p] /\ vetting'[p] = vetting[p]
  BY <1>1, VetType, ImagesAssumption DEF NoImage
<1> QED
  BY <1>1, <1>2 DEF SupplyInv, VetInv, VettingSound

\* A poll that has returned vets nothing.
LEMMA ReturnVets ==
    ASSUME SupplyInv, NEW p \in Pollers, Vet(p),
           PollFails(p) \/ PollEnds(p) \/ PollDies(p)
    PROVE  VettingSound(p)'
<1>1. pollPc'[p] \in {"idle", "dead"}
  BY DEF PollFails, PollEnds, PollDies, PollReturns, pollVars, SupplyInv, CveInv,
     CveTypeOK
<1> QED
  BY <1>1, VetType, ImagesAssumption DEF VettingSound, NoImage

\* At the end of a poll without a failure nothing is before it any more.
LEMMA EndVets ==
    ASSUME SupplyInv, NEW p \in Pollers, PollEnds(p), vetting[p] \in Images
    PROVE  Parsed(vetting[p]) \subseteq settled'
<1>1. /\ ~missed[p] /\ queue[p] = {}
      /\ Parsed(vetting[p]) \subseteq queue[p] \union settled \union {dep[p]}
  BY DEF PollEnds, SupplyInv, VetInv, VettingSound
<1>2. settled' = IF dep[p] # NoDep THEN settled \union {dep[p]} ELSE settled
  BY <1>1 DEF PollEnds, Settle
<1> QED
  BY <1>1, <1>2, ParsedType

LEMMA SettledGrows ==
    ASSUME NEW p \in Pollers, Poll(p) \/ PollDies(p)
    PROVE  settled \subseteq settled'
BY DEF Poll, PollStart, PollFails, LoadKev, QueryOsv, Build, BuildFails, UpsertVuln,
   LinkVuln, PollEnds, PollDies, Settle

LEMMA PollVets ==
    ASSUME SupplyInv, NEW p \in Pollers, Poll(p) \/ PollDies(p), Vet(p)
    PROVE  VetInv'
<1>1. VettingSound(p)'
  BY StartVets, QueryVets, OtherStepsVet, ReturnVets DEF Poll
<1>2. ASSUME NEW q \in Pollers \ {p} PROVE VettingSound(q)'
  <2>1. SameLocals(q) /\ vetting'[q] = vetting[q]
    BY PollLeavesOthers, VetType DEF SupplyInv
  <2> QED
    BY <2>1, SettledGrows DEF SupplyInv, VetInv, VettingSound, SameLocals
<1>3. \A i \in vetted' : i \in Images /\ Parsed(i) \subseteq settled'
  BY EndVets, SettledGrows DEF Vet, SupplyInv, VetInv
<1> QED
  BY <1>1, <1>2, <1>3, VetType DEF VetInv

LEMMA NextVet == SupplyInv /\ [Next]_vars => VetInv'
<1> SUFFICES ASSUME SupplyInv, [Next]_vars PROVE VetInv'
  OBVIOUS
<1>1. ASSUME UNCHANGED <<vetVars, pollVars, settled>> PROVE VetInv'
  BY <1>1 DEF SupplyInv, VetInv, VettingSound, vetVars, pollVars
<1>2. CASE SbomStep \/ UNCHANGED vars
  BY <1>1, <1>2 DEF SbomStep, vars, cveVars
<1>3. CASE CveStep
  BY <1>1, <1>3, PollVets DEF CveStep, FeedsChange
<1> QED
  BY <1>2, <1>3 DEF Next

\* The inductive invariant of both programs together: those of each, and what
\* a poll knows of the image whose digest stood saved when it began.
THEOREM SpecSupplyInv == Spec => []SupplyInv
<1>1. Spec => [](SbomInv /\ CveInv)
  BY ImplementsSbom, ImplementsCve, SbomSpecInv, CveSpecInv, PTL
<1>2. VetInv /\ SbomInv /\ CveInv /\ [Next]_vars => VetInv'
  BY NextVet DEF SupplyInv
<1>3. SupplyInv <=> VetInv /\ SbomInv /\ CveInv
  BY DEF SupplyInv
<1> QED
  BY <1>1, <1>2, <1>3, InitVet, PTL DEF Spec

\* The variables of both programs keep their types when they run together.
THEOREM TypeCorrect == Spec => []TypeOK
<1>1. SupplyInv => TypeOK
  BY DEF SupplyInv, SbomInv, CveInv, VetInv, TypeOK
<1> QED
  BY <1>1, SpecSupplyInv, PTL

\* Polls or no polls: while a digest is saved that makes the next ingest() skip,
\* the image scanned by the run that saved it is in the graph with all its
\* components.
THEOREM ImagesStayIngested == Spec => []SavedDigestIsIngested
BY ImplementsSbom, SavedDigestsAreIngested, PTL

\* From an image to its advisories: once a poll that began when the run that
\* scanned the image had saved its digest has come to its end without a failure,
\* every component that parse_cyclonedx found in the image is linked to each
\* advisory OSV has on it.
THEOREM ImagesAreVetted == Spec => []VettedImagesLinked
<1>1. SupplyInv => VettedImagesLinked
  BY DEF SupplyInv, VetInv, CveInv, PollLinksAll, VettedImagesLinked
<1> QED
  BY <1>1, SpecSupplyInv, PTL
=============================================================================
