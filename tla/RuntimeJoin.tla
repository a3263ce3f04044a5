----------------------------- MODULE RuntimeJoin -----------------------------
(***************************************************************************)
(* Layer 2, the standalone runtime-to-code join (layer2/runtime_join.py):  *)
(* StandaloneConsumer reads call events from the Kafka topic into a        *)
(* CallAccumulator; a flush thread drains it into RUNTIME_CALLS edges of   *)
(* the graph; a daily thread tombstones and decays those edges; a signal   *)
(* stops the process, a crash kills it, and it may be started again.       *)
(*                                                                         *)
(* Time is counted in days, the unit of every threshold of the module.     *)
(* The consumer group has one member and the topic one partition, the one  *)
(* all events of a service are in.  Its messages are those of the agents,  *)
(* which decode and have every field record reads.                         *)
(***************************************************************************)
EXTENDS Integers, Sequences

CONSTANTS
    Keys,          \* code locations: service, source file and line
    Nodes,         \* Function nodes the graph may come to hold
    KeyOf,         \* the location of each Function node
    InitialNodes,  \* the nodes the code ingester wrote before the start
    Counts,        \* values of call_count_last_60s
    TombstoneDays, \* Config.tombstone_days
    Lateness,      \* bound: days between an event and its place in the topic
    MaxDay,        \* bound: days
    MaxEvents,     \* bound: events in the topic
    MaxStarts      \* bound: starts of the process

ASSUME KeyOfAssumption == KeyOf \in [Nodes -> Keys]
ASSUME InitialNodesAssumption == InitialNodes \subseteq Nodes
ASSUME CountsAssumption == Counts \subseteq Nat \ {0}
ASSUME BoundsAssumption ==
    {TombstoneDays, Lateness, MaxDay, MaxEvents, MaxStarts} \subseteq Nat

VARIABLES
    day,       \* the clock
    topic,     \* the events of the partition
    position,  \* events the consumer has taken, this time round
    committed, \* the offset the group committed
    present,   \* Function nodes in the graph
    edges,     \* the RUNTIME_CALLS self-loop of each node
    mainPc,    \* the main thread, "down" when there is no process
    buckets,   \* CallAccumulator._buckets
    flushPc,   \* the flush thread
    batch,     \* the drained events the flush thread is writing
    sweepPc,   \* the tombstone thread
    sweepDue,  \* the day its sleep ends
    starts,    \* history: starts of the process
    replayed,  \* history: a start has gone back over events already taken
    taken,     \* history: calls recorded for each location
    missed,    \* history: of those, the calls each node's edge does not count
    newest     \* history: the latest timestamp written to each node's edge

topicVars   == <<topic, position, committed>>
graphVars   == <<present, edges>>
flushVars   == <<flushPc, batch>>
sweepVars   == <<sweepPc, sweepDue>>
historyVars == <<starts, replayed, taken, missed, newest>>
vars == <<day, topicVars, graphVars, mainPc, buckets, flushVars, sweepVars,
          historyVars>>

Event  == [key : Keys, n : Counts, ts : 0 .. MaxDay]
Bucket == [n : Nat, ts : 0 .. MaxDay]
Edge   == [there : BOOLEAN, last : 0 .. MaxDay, c24 : Nat, c7 : Nat]

NoBucket == [n |-> 0, ts |-> 0]
NoEdge   == [there |-> FALSE, last |-> 0, c24 |-> 0, c7 |-> 0]
Empty    == [k \in Keys |-> NoBucket]

Init ==
    /\ day = 0
    /\ topic = <<>>
    /\ position = 0
    /\ committed = 0
    /\ present = InitialNodes
    /\ edges = [f \in Nodes |-> NoEdge]
    /\ mainPc = "consume"
    /\ buckets = Empty
    /\ flushPc = "sleep"
    /\ batch = Empty
    /\ sweepPc = "sleep"
    /\ sweepDue = 1
    /\ starts = 1
    /\ replayed = FALSE
    /\ taken = [k \in Keys |-> 0]
    /\ missed = [f \in Nodes |-> 0]
    /\ newest = [f \in Nodes |-> 0]

Up == mainPc # "down"

\* The Event object `_stop'.
Stopped == mainPc # "consume"

-----------------------------------------------------------------------------
(* The surroundings: agents, the code ingester and the clock.              *)

\* An agent's event reaches the topic.  Agents of several hosts write for one
\* service, so events are not ordered by timestamp within a partition.
Publish(k, n, late) ==
    /\ Len(topic) < MaxEvents
    /\ late <= day
    /\ topic' = Append(topic, [key |-> k, n |-> n, ts |-> day - late])
    /\ UNCHANGED <<day, position, committed, graphVars, mainPc, buckets,
                   flushVars, sweepVars, historyVars>>

\* Layer 1 ingests the code of a function.
IngestFunction(f) ==
    /\ f \notin present
    /\ present' = present \union {f}
    /\ UNCHANGED <<day, topicVars, edges, mainPc, buckets, flushVars, sweepVars,
                   historyVars>>

NextDay ==
    /\ day < MaxDay
    /\ day' = day + 1
    /\ UNCHANGED <<topicVars, graphVars, mainPc, buckets, flushVars, sweepVars,
                   historyVars>>

-----------------------------------------------------------------------------
(* The main thread: StandaloneConsumer.run and the signal handler.         *)

\* Mutant: a second event of the interval replaces the first.
MergeReplaces(b, e) ==
    [n |-> e.n, ts |-> IF e.ts > b.ts THEN e.ts ELSE b.ts]

\* CallAccumulator.record merges an event into the bucket of its location.
Merge(b, e) ==
    IF b.n = 0
    THEN [n |-> e.n, ts |-> e.ts]
    ELSE [n |-> b.n + e.n, ts |-> IF e.ts > b.ts THEN e.ts ELSE b.ts]

\* One turn of `for msg in consumer'.
Consume ==
    /\ mainPc = "consume"
    /\ position < Len(topic)
    /\ LET e == topic[position + 1] IN
       /\ buckets' = [buckets EXCEPT ![e.key] = Merge(@, e)]
       /\ taken' = [taken EXCEPT ![e.key] = @ + e.n]
    /\ position' = position + 1
    /\ UNCHANGED <<day, topic, committed, graphVars, mainPc, flushVars,
                   sweepVars, starts, replayed, missed, newest>>

\* Mutant: the offset after the next event is committed.
AutoCommitAhead ==
    /\ mainPc = "consume"
    /\ committed' = position + 1
    /\ UNCHANGED <<day, topic, position, graphVars, mainPc, buckets, flushVars,
                   sweepVars, historyVars>>

\* enable_auto_commit: the client commits what the loop has taken.
AutoCommit ==
    /\ mainPc = "consume"
    /\ committed' = position
    /\ UNCHANGED <<day, topic, position, graphVars, mainPc, buckets, flushVars,
                   sweepVars, historyVars>>

\* The signal handler: stop(), then sys.exit unwinds the main thread into the
\* finally clause of run.
Signal ==
    /\ mainPc = "consume"
    /\ mainPc' = "closeConsumer"
    /\ UNCHANGED <<day, topicVars, graphVars, buckets, flushVars, sweepVars,
                   historyVars>>

\* The signal arrives between the client handing out a message and the end of
\* record: the message counts as taken and is in no bucket.
SignalInTurn ==
    /\ mainPc = "consume"
    /\ position < Len(topic)
    /\ position' = position + 1
    /\ mainPc' = "closeConsumer"
    /\ UNCHANGED <<day, topic, committed, graphVars, buckets, flushVars,
                   sweepVars, historyVars>>

\* consumer.close() commits a last time.  When the commit fails the client
\* logs it and closes all the same.
CloseConsumer ==
    /\ mainPc = "closeConsumer"
    /\ committed' \in {position, committed}
    /\ mainPc' = "closeWriter"
    /\ UNCHANGED <<day, topic, position, graphVars, buckets, flushVars,
                   sweepVars, historyVars>>

CloseWriter ==
    /\ mainPc = "closeWriter"
    /\ mainPc' = "exit"
    /\ UNCHANGED <<day, topicVars, graphVars, buckets, flushVars, sweepVars,
                   historyVars>>

\* The end of the process: the daemon threads die with it, wherever they are,
\* and so do the buckets and the batch.
ProcessEnd ==
    /\ mainPc' = "down"
    /\ missed' = [f \in Nodes |->
                     missed[f] + buckets[KeyOf[f]].n + batch[KeyOf[f]].n]
    /\ buckets' = Empty
    /\ batch' = Empty
    /\ UNCHANGED <<day, topicVars, graphVars, flushPc, sweepVars, starts,
                   replayed, taken, newest>>

Exit == mainPc = "exit" /\ ProcessEnd

\* SIGKILL, an eviction, a host failure.
Crash == Up /\ ProcessEnd

\* main() again: the group resumes at its committed offset.
Start ==
    /\ ~Up
    /\ starts < MaxStarts
    /\ mainPc' = "consume"
    /\ position' = committed
    /\ replayed' = (replayed \/ committed < position)
    /\ flushPc' = "sleep"
    /\ sweepPc' = "sleep"
    /\ sweepDue' = day + 1
    /\ starts' = starts + 1
    /\ UNCHANGED <<day, topic, committed, graphVars, buckets, batch, taken,
                   missed, newest>>

-----------------------------------------------------------------------------
(* The flush thread: _flush_loop and upsert_runtime_calls.                 *)

\* The condition of both daemon loops.
LoopTop == IF Stopped THEN "ended" ELSE "sleep"

\* The sleep is over and the accumulator is drained, whether or not a stop
\* was requested meanwhile.
Drain ==
    /\ Up
    /\ flushPc = "sleep"
    /\ batch' = buckets
    /\ buckets' = Empty
    /\ flushPc' = IF buckets = Empty THEN LoopTop ELSE "upsert"
    /\ UNCHANGED <<day, topicVars, graphVars, mainPc, sweepVars, historyVars>>

\* Mutant: last_seen is set ON CREATE only.
UpsertedKeepsLast(e, b) ==
    IF e.there
    THEN [e EXCEPT !.c24 = @ + b.n, !.c7 = @ + b.n]
    ELSE [there |-> TRUE, last |-> b.ts, c24 |-> b.n, c7 |-> b.n]

\* MERGE of one row of the batch: ON CREATE SET, or ON MATCH SET, which takes
\* the timestamp of the row as it is.
Upserted(e, b) ==
    IF e.there
    THEN [there |-> TRUE, last |-> b.ts, c24 |-> e.c24 + b.n, c7 |-> e.c7 + b.n]
    ELSE [there |-> TRUE, last |-> b.ts, c24 |-> b.n, c7 |-> b.n]

\* The rows of the batch that MATCH a Function node.
Matched == {f \in present : batch[KeyOf[f]].n > 0}

\* The transaction commits, all rows or none; a row without a node is skipped.
\* A driver that main has closed may still do so (version 5) or raise (6).
Upsert ==
    /\ Up
    /\ flushPc = "upsert"
    /\ edges' = [f \in Nodes |-> IF f \in Matched
                                 THEN Upserted(edges[f], batch[KeyOf[f]])
                                 ELSE edges[f]]
    /\ newest' = [f \in Nodes |->
                     IF f \in Matched /\ batch[KeyOf[f]].ts > newest[f]
                     THEN batch[KeyOf[f]].ts
                     ELSE newest[f]]
    /\ missed' = [f \in Nodes |-> IF f \in present
                                  THEN missed[f]
                                  ELSE missed[f] + batch[KeyOf[f]].n]
    /\ batch' = Empty
    /\ flushPc' = LoopTop
    /\ UNCHANGED <<day, topicVars, present, mainPc, buckets, sweepVars, starts,
                   replayed, taken>>

\* Mutant: the exception ends the flush thread.
UpsertFailsFatally ==
    /\ Up
    /\ flushPc = "upsert"
    /\ missed' = [f \in Nodes |-> missed[f] + batch[KeyOf[f]].n]
    /\ batch' = Empty
    /\ flushPc' = "ended"
    /\ UNCHANGED <<day, topicVars, graphVars, mainPc, buckets, sweepVars,
                   starts, replayed, taken, newest>>

\* upsert_runtime_calls raises: the error is logged and the drained events are
\* forgotten.  (When it raises after the commit, the step is an Upsert.)
UpsertFails ==
    /\ Up
    /\ flushPc = "upsert"
    /\ missed' = [f \in Nodes |-> missed[f] + batch[KeyOf[f]].n]
    /\ batch' = Empty
    /\ flushPc' = LoopTop
    /\ UNCHANGED <<day, topicVars, graphVars, mainPc, buckets, sweepVars,
                   starts, replayed, taken, newest>>

-----------------------------------------------------------------------------
(* The tombstone thread.                                                   *)

Expired(e) == e.there /\ e.last < day - TombstoneDays

\* tombstone_dead_edges: the edges older than the cutoff are deleted.
Tombstone ==
    /\ Up
    /\ sweepPc = "sleep"
    /\ day >= sweepDue
    /\ edges' = [f \in Nodes |-> IF Expired(edges[f]) THEN NoEdge ELSE edges[f]]
    /\ missed' = [f \in Nodes |-> IF Expired(edges[f])
                                  THEN missed[f] + edges[f].c7
                                  ELSE missed[f]]
    /\ sweepPc' = "decay"
    /\ UNCHANGED <<day, topicVars, present, mainPc, buckets, flushVars,
                   sweepDue, starts, replayed, taken, newest>>

\* Mutant: the wrong count is reset.
DecayedWeekly(e) ==
    IF e.there /\ e.last < day - 1 THEN [e EXCEPT !.c7 = 0] ELSE e

\* The 24 hour count of an edge that was not seen for a day is reset.
Decayed(e) == IF e.there /\ e.last < day - 1 THEN [e EXCEPT !.c24 = 0] ELSE e

SweepAgain == sweepPc' = LoopTop /\ sweepDue' = day + 1

\* decay_daily_counts, and back to sleep for 24 hours.
Decay ==
    /\ Up
    /\ sweepPc = "decay"
    /\ edges' = [f \in Nodes |-> Decayed(edges[f])]
    /\ SweepAgain
    /\ UNCHANGED <<day, topicVars, present, mainPc, buckets, flushVars,
                   historyVars>>

\* Either call raises: it is logged, and the rest of this round is skipped.
SweepFails ==
    /\ Up
    /\ sweepPc = "decay" \/ (sweepPc = "sleep" /\ day >= sweepDue)
    /\ SweepAgain
    /\ UNCHANGED <<day, topicVars, graphVars, mainPc, buckets, flushVars,
                   historyVars>>

-----------------------------------------------------------------------------
Surroundings ==
    \/ \E k \in Keys, n \in Counts, late \in 0 .. Lateness : Publish(k, n, late)
    \/ \E f \in Nodes : IngestFunction(f)
    \/ NextDay

MainThread ==
    \/ Consume
    \/ AutoCommit
    \/ Signal
    \/ SignalInTurn
    \/ CloseConsumer
    \/ CloseWriter
    \/ Exit
    \/ Crash
    \/ Start

FlushThread == Drain \/ Upsert \/ UpsertFails

SweepThread == Tombstone \/ Decay \/ SweepFails

Next == Surroundings \/ MainThread \/ FlushThread \/ SweepThread

Spec == Init /\ [][Next]_vars

\* The loops of the three threads go on while the process lives.  Nothing is
\* assumed of events, signals, crashes, starts, or of Neo4j succeeding.
Fairness ==
    /\ WF_vars(Consume)
    /\ WF_vars(CloseConsumer \/ CloseWriter \/ Exit)
    /\ WF_vars(Drain)
    /\ WF_vars(Upsert \/ UpsertFails)

-----------------------------------------------------------------------------
(* Properties.                                                             *)

\* The values the variables range over.
TypeOK ==
    /\ day \in 0 .. MaxDay
    /\ topic \in Seq(Event)
    /\ position \in 0 .. Len(topic)
    /\ committed \in 0 .. Len(topic)
    /\ present \subseteq Nodes
    /\ edges \in [Nodes -> Edge]
    /\ mainPc \in {"consume", "closeConsumer", "closeWriter", "exit", "down"}
    /\ buckets \in [Keys -> Bucket]
    /\ flushPc \in {"sleep", "upsert", "ended"}
    /\ batch \in [Keys -> Bucket]
    /\ sweepPc \in {"sleep", "decay", "ended"}
    /\ sweepDue \in Nat
    /\ starts \in Nat
    /\ replayed \in BOOLEAN
    /\ taken \in [Keys -> Nat]
    /\ missed \in [Nodes -> Nat]
    /\ newest \in [Nodes -> 0 .. MaxDay]

\* Every call the consumer took is, for every node of its location, counted by
\* the edge, waiting in a bucket or in the batch, or lost where the code loses
\* it: never in two places, never dropped by a drain or a merge.
CallsAccounted ==
    \A f \in Nodes :
        taken[KeyOf[f]] = edges[f].c7 + missed[f]
                          + buckets[KeyOf[f]].n + batch[KeyOf[f]].n

\* The 24 hour count never exceeds the one it is part of: no order of upserts,
\* decays and tombstones resets one of them alone.
DailyWithinWeekly == \A f \in Nodes : edges[f].c24 <= edges[f].c7

\* Calls of the events of the topic before an offset.
CallsBefore(k, offset) ==
    LET sum[i \in 0 .. offset] ==
            IF i = 0 THEN 0
            ELSE sum[i - 1] + (IF topic[i].key = k THEN topic[i].n ELSE 0)
    IN  sum[offset]

\* Unless a restart went back over taken events, an edge counts no call twice,
\* however the process stopped, failed to write, and was started.
NoOvercount ==
    ~replayed =>
        \A f \in Nodes : edges[f].c7 <= CallsBefore(KeyOf[f], position)

\* With events in the order of their timestamps and no replay, last_seen is
\* the latest time written, although ON MATCH takes whatever the row says.
LastSeenIsNewest ==
    Lateness = 0 /\ ~replayed =>
        \A f \in Nodes : edges[f].there => edges[f].last = newest[f]

\* Recorded calls leave the accumulator, to the graph or with the process: no
\* error of Neo4j and no stop request ends the flush thread too early.
BucketsDrain == \A k \in Keys : buckets[k].n > 0 ~> buckets[k].n = 0

\* "removes RUNTIME_CALLS edges for functions not seen in 30 days" (line 8 of
\* runtime_join.py): an edge is deleted only when the latest time ever written
\* to it is before the cutoff.
TombstonesOnlyUnseen ==
    [][\A f \in Nodes : edges[f].there /\ ~edges'[f].there =>
           newest[f] < day - TombstoneDays]_vars
=============================================================================
