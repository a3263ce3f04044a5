-------------------------- MODULE RuntimeJoinProofs --------------------------
(***************************************************************************)
(* The safety of RuntimeJoin for every set of locations and nodes and      *)
(* every bound: type correctness, the accounting of calls, the relation of *)
(* the two counts of an edge, the order of last_seen, and that no call is  *)
(* counted twice; then the same of RuntimePath, from the agent to the      *)
(* graph.                                                                  *)
(***************************************************************************)
EXTENDS RuntimePath, WellFoundedInduction, TLAPS

LEMMA Bounds ==
    /\ TombstoneDays \in Nat /\ Lateness \in Nat /\ MaxDay \in Nat
    /\ MaxEvents \in Nat /\ MaxStarts \in Nat
BY BoundsAssumption

LEMMA NoneTypes ==
    NoBucket \in Bucket /\ NoEdge \in Edge /\ Empty \in [Keys -> Bucket]
BY Bounds DEF NoBucket, Bucket, NoEdge, Edge, Empty

\* The merge of an event is a bucket that counts its calls, stamped no
\* earlier than either.
LEMMA MergeBucket ==
    ASSUME NEW b \in Bucket, NEW e \in Event
    PROVE  /\ Merge(b, e) \in Bucket
           /\ Merge(b, e).n = b.n + e.n
           /\ b.n > 0 => Merge(b, e).ts >= b.ts
           /\ Merge(b, e).ts >= e.ts
           /\ Merge(b, e).ts = e.ts \/ (b.n > 0 /\ Merge(b, e).ts = b.ts)
           /\ Merge(b, e).n > 0
<1>1. e.n \in Nat \ {0} /\ e.ts \in 0 .. MaxDay /\ b.n \in Nat /\ b.ts \in 0 .. MaxDay
  BY CountsAssumption DEF Event, Bucket
<1>2. CASE b.n = 0
  BY <1>1, <1>2, Bounds DEF Merge, Bucket
<1>3. CASE b.n # 0
  BY <1>1, <1>3, Bounds DEF Merge, Bucket
<1> QED
  BY <1>2, <1>3

\* An upserted edge is an edge that counts the calls of the row.
LEMMA UpsertedEdge ==
    ASSUME NEW e \in Edge, NEW b \in Bucket, ~e.there => e = NoEdge
    PROVE  /\ Upserted(e, b) \in Edge
           /\ Upserted(e, b).there
           /\ Upserted(e, b).last = b.ts
           /\ Upserted(e, b).c7 = e.c7 + b.n
           /\ Upserted(e, b).c24 = e.c24 + b.n
<1>1. CASE e.there
  BY <1>1 DEF Upserted, Edge, Bucket
<1>2. CASE ~e.there
  BY <1>2 DEF Upserted, Edge, Bucket, NoEdge
<1> QED
  BY <1>1, <1>2

LEMMA DecayedEdge ==
    ASSUME NEW e \in Edge
    PROVE  /\ Decayed(e) \in Edge
           /\ Decayed(e).there = e.there
           /\ Decayed(e).last = e.last
           /\ Decayed(e).c7 = e.c7
           /\ Decayed(e).c24 \in {e.c24, 0}
BY DEF Decayed, Edge

LEMMA InitTypeOK == Init => TypeOK
<1> SUFFICES ASSUME Init PROVE TypeOK
  OBVIOUS
<1>1. 0 \in 0 .. MaxDay
  BY Bounds
<1>2. topic \in Seq(Event) /\ Len(topic) = 0
  BY DEF Init
<1>3. position \in 0 .. Len(topic) /\ committed \in 0 .. Len(topic)
  BY <1>2 DEF Init
<1>4. edges \in [Nodes -> Edge] /\ buckets \in [Keys -> Bucket] /\ batch \in [Keys -> Bucket]
  BY NoneTypes DEF Init
<1>5. /\ taken \in [Keys -> Nat] /\ missed \in [Nodes -> Nat]
      /\ newest \in [Nodes -> 0 .. MaxDay]
  BY <1>1 DEF Init
<1> QED
  BY <1>1, <1>2, <1>3, <1>4, <1>5, InitialNodesAssumption DEF Init, TypeOK

\* An edge that is not there is NoEdge; the type invariant needs it because
\* ON CREATE sets the counts to those of the row.
AbsentEdges == \A f \in Nodes : ~edges[f].there => edges[f] = NoEdge

TypeInv == TypeOK /\ AbsentEdges

LEMMA NextTypeInv == TypeInv /\ [Next]_vars => TypeInv'
<1> SUFFICES ASSUME TypeInv, [Next]_vars PROVE TypeInv'
  OBVIOUS
<1> USE Bounds, NoneTypes, KeyOfAssumption
    DEF TypeInv, topicVars, graphVars, flushVars, sweepVars, historyVars
<1> USE DEF TypeOK
<1>1. ASSUME NEW k \in Keys, NEW n \in Counts, NEW late \in 0 .. Lateness,
             Publish(k, n, late)
      PROVE  TypeInv'
  <2>1. [key |-> k, n |-> n, ts |-> day - late] \in Event
    BY <1>1 DEF Publish, Event
  <2>2. topic' \in Seq(Event) /\ Len(topic') = Len(topic) + 1
    BY <1>1, <2>1 DEF Publish
  <2>3. position' \in 0 .. Len(topic') /\ committed' \in 0 .. Len(topic')
    BY <1>1, <2>2 DEF Publish
  <2> QED
    BY <1>1, <2>2, <2>3 DEF Publish, AbsentEdges
<1>2. ASSUME NEW f \in Nodes, IngestFunction(f) PROVE TypeInv'
  BY <1>2 DEF IngestFunction, AbsentEdges
<1>3. CASE NextDay
  BY <1>3 DEF NextDay, AbsentEdges
<1>4. CASE Consume
  <2> DEFINE e == topic[position + 1]
  <2>1. e \in Event /\ position' \in 0 .. Len(topic)
    BY <1>4 DEF Consume
  <2>2. e.key \in Keys /\ e.n \in Nat
    BY <2>1, CountsAssumption DEF Event
  <2>3. buckets' \in [Keys -> Bucket]
    BY <1>4, <2>1, <2>2, MergeBucket DEF Consume
  <2>4. taken' \in [Keys -> Nat]
    BY <1>4, <2>2 DEF Consume
  <2> QED
    BY <1>4, <2>1, <2>3, <2>4 DEF Consume, AbsentEdges
<1>5. CASE AutoCommit \/ Signal \/ SignalInTurn \/ CloseConsumer \/ CloseWriter
  BY <1>5 DEF AutoCommit, Signal, SignalInTurn, CloseConsumer, CloseWriter,
              AbsentEdges
<1>6. CASE Exit \/ Crash
  <2>1. ASSUME NEW f \in Nodes
        PROVE  missed[f] + buckets[KeyOf[f]].n + batch[KeyOf[f]].n \in Nat
    BY DEF Bucket
  <2>2. missed' \in [Nodes -> Nat]
    BY <1>6, <2>1 DEF Exit, Crash, ProcessEnd
  <2> QED
    BY <1>6, <2>2 DEF Exit, Crash, ProcessEnd, AbsentEdges
<1>7. CASE Start
  BY <1>7 DEF Start, AbsentEdges
<1>8. CASE Drain
  BY <1>8 DEF Drain, LoopTop, AbsentEdges
<1>9. CASE Upsert
  <2>1. ASSUME NEW f \in Nodes
        PROVE  /\ Upserted(edges[f], batch[KeyOf[f]]) \in Edge
               /\ Upserted(edges[f], batch[KeyOf[f]]).there
    BY UpsertedEdge DEF AbsentEdges
  <2>2. edges' \in [Nodes -> Edge] /\ AbsentEdges'
    BY <1>9, <2>1 DEF Upsert, AbsentEdges
  <2>3. newest' \in [Nodes -> 0 .. MaxDay]
    BY <1>9 DEF Upsert, Bucket
  <2>4. missed' \in [Nodes -> Nat]
    BY <1>9 DEF Upsert, Bucket
  <2> QED
    BY <1>9, <2>2, <2>3, <2>4 DEF Upsert, LoopTop
<1>10. CASE UpsertFails
  <2>1. missed' \in [Nodes -> Nat]
    BY <1>10 DEF UpsertFails, Bucket
  <2> QED
    BY <1>10, <2>1 DEF UpsertFails, LoopTop, AbsentEdges
<1>11. CASE Tombstone
  <2>1. missed' \in [Nodes -> Nat]
    BY <1>11 DEF Tombstone, Edge
  <2>2. edges' \in [Nodes -> Edge] /\ AbsentEdges'
    BY <1>11 DEF Tombstone, AbsentEdges
  <2> QED
    BY <1>11, <2>1, <2>2 DEF Tombstone
<1>12. CASE Decay
  <2>1. edges' \in [Nodes -> Edge]
    BY <1>12, DecayedEdge DEF Decay
  <2>2. AbsentEdges'
    <3> SUFFICES ASSUME NEW f \in Nodes, ~Decayed(edges[f]).there
                 PROVE  Decayed(edges[f]) = NoEdge
      BY <1>12 DEF Decay, AbsentEdges
    <3>1. ~edges[f].there
      BY DecayedEdge
    <3> QED
      BY <3>1 DEF Decayed, AbsentEdges
  <2> QED
    BY <1>12, <2>1, <2>2 DEF Decay, SweepAgain, LoopTop
<1>13. CASE SweepFails
  BY <1>13 DEF SweepFails, SweepAgain, LoopTop, AbsentEdges
<1>14. CASE UNCHANGED vars
  BY <1>14 DEF vars, AbsentEdges
<1> HIDE DEF TypeInv, TypeOK
<1> QED
  BY <1>1, <1>2, <1>3, <1>4, <1>5, <1>6, <1>7, <1>8, <1>9, <1>10, <1>11,
     <1>12, <1>13, <1>14
     DEF Next, Surroundings, MainThread, FlushThread, SweepThread

\* Counts stay natural, offsets within the topic, and so on.
THEOREM TypeCorrect == Spec => []TypeOK
<1>1. Init => TypeInv
  BY InitTypeOK DEF TypeInv, AbsentEdges, Init
<1>2. TypeInv => TypeOK
  BY DEF TypeInv
<1> QED
  BY <1>1, <1>2, NextTypeInv, PTL DEF Spec

-----------------------------------------------------------------------------
(* The accounting of calls, and the two counts of an edge.                 *)

\* The flush thread holds events only between a drain and its upsert, and a
\* process that is down holds none: a drain never overwrites a batch.
BatchInv ==
    /\ flushPc # "upsert" => batch = Empty
    /\ mainPc = "down" => batch = Empty

AccountInv == TypeInv /\ BatchInv /\ CallsAccounted /\ DailyWithinWeekly

LEMMA NextBatchInv == BatchInv /\ [Next]_vars => BatchInv'
<1> SUFFICES ASSUME BatchInv, [Next]_vars PROVE BatchInv'
  OBVIOUS
<1> USE DEF BatchInv, topicVars, graphVars, flushVars, sweepVars, historyVars
<1>1. CASE Surroundings
  BY <1>1 DEF Surroundings, Publish, IngestFunction, NextDay
<1>2. CASE MainThread
  BY <1>2 DEF MainThread, Consume, AutoCommit, Signal, SignalInTurn,
     CloseConsumer, CloseWriter, Exit, Crash, ProcessEnd, Start, Up
<1>3. CASE FlushThread
  BY <1>3 DEF FlushThread, Drain, Upsert, UpsertFails, LoopTop, Up
<1>4. CASE SweepThread
  BY <1>4 DEF SweepThread, Tombstone, Decay, SweepFails
<1>5. CASE UNCHANGED vars
  BY <1>5 DEF vars
<1> QED
  BY <1>1, <1>2, <1>3, <1>4, <1>5 DEF Next

\* The counts a step may change, as numbers.
LEMMA CountTypes ==
    ASSUME TypeInv, NEW f \in Nodes
    PROVE  /\ edges[f] \in Edge /\ edges[f].c7 \in Nat /\ edges[f].c24 \in Nat
           /\ KeyOf[f] \in Keys
           /\ buckets[KeyOf[f]] \in Bucket /\ buckets[KeyOf[f]].n \in Nat
           /\ batch[KeyOf[f]] \in Bucket /\ batch[KeyOf[f]].n \in Nat
           /\ missed[f] \in Nat /\ taken[KeyOf[f]] \in Nat
BY KeyOfAssumption DEF TypeInv, TypeOK, Edge, Bucket

\* Each place calls move from and to.
LEMMA NextAccounted == AccountInv /\ [Next]_vars => CallsAccounted'
<1> SUFFICES ASSUME AccountInv, [Next]_vars, NEW f \in Nodes
             PROVE  taken'[KeyOf[f]] = edges'[f].c7 + missed'[f]
                        + buckets'[KeyOf[f]].n + batch'[KeyOf[f]].n
  BY DEF CallsAccounted
<1> DEFINE k == KeyOf[f]
<1>0. /\ taken[k] = edges[f].c7 + missed[f] + buckets[k].n + batch[k].n
      /\ TypeInv
  BY DEF AccountInv, CallsAccounted
<1>t. /\ edges[f] \in Edge /\ edges[f].c7 \in Nat
      /\ k \in Keys
      /\ buckets[k] \in Bucket /\ buckets[k].n \in Nat
      /\ batch[k] \in Bucket /\ batch[k].n \in Nat
      /\ missed[f] \in Nat /\ taken[k] \in Nat
  BY <1>0, CountTypes
<1>e. Empty[k].n = 0 /\ NoEdge.c7 = 0
  BY <1>t DEF Empty, NoBucket, NoEdge
<1> HIDE DEF k
<1> USE DEF topicVars, graphVars, flushVars, sweepVars, historyVars
<1>1. CASE UNCHANGED <<taken, edges, missed, buckets, batch>>
  BY <1>1, <1>0 DEF k
<1>2. CASE Consume
  <2> DEFINE e == topic[position + 1]
  <2>1. e \in Event
    BY <1>2, <1>0 DEF Consume, TypeInv, TypeOK
  <2>2. e.n \in Nat /\ e.key \in Keys
    BY <2>1, CountsAssumption DEF Event
  <2>3. CASE e.key = k
    <3>1. buckets'[k].n = buckets[k].n + e.n
      BY <1>2, <1>0, <1>t, <2>1, <2>3, MergeBucket DEF Consume, TypeInv, TypeOK
    <3>2. taken'[k] = taken[k] + e.n
      BY <1>2, <1>0, <1>t, <2>3 DEF Consume, TypeInv, TypeOK
    <3>3. UNCHANGED <<edges, missed, batch>>
      BY <1>2 DEF Consume
    <3> HIDE DEF e
    <3>4. taken'[k] = edges'[f].c7 + missed'[f] + buckets'[k].n + batch'[k].n
      BY <1>0, <1>t, <2>2, <3>1, <3>2, <3>3
    <3> QED
      BY <3>4 DEF k
  <2>4. CASE e.key # k
    <3>1. buckets'[k] = buckets[k] /\ taken'[k] = taken[k]
      BY <1>2, <1>0, <1>t, <2>4 DEF Consume, TypeInv, TypeOK
    <3> QED
      BY <1>2, <1>0, <3>1 DEF Consume, k
  <2> QED
    BY <2>3, <2>4
<1>3. CASE Exit \/ Crash
  <2>1. missed'[f] = missed[f] + buckets[k].n + batch[k].n
    BY <1>3 DEF Exit, Crash, ProcessEnd, k
  <2> QED
    BY <1>3, <1>0, <1>t, <1>e, <2>1 DEF Exit, Crash, ProcessEnd, k
<1>4. CASE Drain
  <2>1. batch[k].n = 0
    BY <1>4, <1>t, <1>e DEF Drain, AccountInv, BatchInv
  <2> QED
    BY <1>4, <1>0, <1>t, <1>e, <2>1 DEF Drain, k
<1>5. CASE Upsert
  <2>1. edges[f].there \/ edges[f] = NoEdge
    BY <1>0 DEF TypeInv, AbsentEdges
  <2>2. CASE f \in Matched
    <3>1. edges'[f].c7 = edges[f].c7 + batch[k].n
      BY <1>5, <1>t, <2>1, <2>2, UpsertedEdge DEF Upsert, k
    <3>2. missed'[f] = missed[f]
      BY <1>5, <2>2 DEF Upsert, Matched
    <3> QED
      BY <1>5, <1>0, <1>t, <1>e, <3>1, <3>2 DEF Upsert, k
  <2>3. CASE f \in present /\ f \notin Matched
    <3>1. batch[k].n = 0
      BY <1>t, <2>3 DEF Matched, k
    <3> QED
      BY <1>5, <1>0, <1>t, <1>e, <2>3, <3>1 DEF Upsert, k
  <2>4. CASE f \notin present
    <3>1. missed'[f] = missed[f] + batch[k].n /\ edges'[f] = edges[f]
      BY <1>5, <2>4 DEF Upsert, Matched, k
    <3> QED
      BY <1>5, <1>0, <1>t, <1>e, <3>1 DEF Upsert, k
  <2> QED
    BY <2>2, <2>3, <2>4 DEF Matched
<1>6. CASE UpsertFails
  <2>1. missed'[f] = missed[f] + batch[k].n
    BY <1>6 DEF UpsertFails, k
  <2> QED
    BY <1>6, <1>0, <1>t, <1>e, <2>1 DEF UpsertFails, k
<1>7. CASE Tombstone
  BY <1>7, <1>0, <1>t, <1>e DEF Tombstone, k
<1>8. CASE Decay
  <2>1. edges'[f].c7 = edges[f].c7
    BY <1>8, <1>t, DecayedEdge DEF Decay
  <2> QED
    BY <1>8, <1>0, <2>1 DEF Decay, k
<1> QED
  <2>1. CASE Surroundings
    BY <2>1, <1>1 DEF Surroundings, Publish, IngestFunction, NextDay
  <2>2. CASE MainThread
    BY <2>2, <1>1, <1>2, <1>3 DEF MainThread, AutoCommit, Signal, SignalInTurn,
       CloseConsumer, CloseWriter, Start
  <2>3. CASE FlushThread
    BY <2>3, <1>4, <1>5, <1>6 DEF FlushThread
  <2>4. CASE SweepThread
    BY <2>4, <1>1, <1>7, <1>8 DEF SweepThread, SweepFails
  <2>5. CASE UNCHANGED vars
    BY <2>5, <1>1 DEF vars
  <2> QED
    BY <2>1, <2>2, <2>3, <2>4, <2>5 DEF Next

\* Upsert adds to both counts, Tombstone and ON CREATE set both, and Decay
\* only lowers the daily one.
LEMMA NextDaily == AccountInv /\ [Next]_vars => DailyWithinWeekly'
<1> SUFFICES ASSUME AccountInv, [Next]_vars, NEW f \in Nodes
             PROVE  edges'[f].c24 <= edges'[f].c7
  BY DEF DailyWithinWeekly
<1>0. /\ edges[f].c24 <= edges[f].c7 /\ TypeInv
      /\ edges[f].there \/ edges[f] = NoEdge
  BY DEF AccountInv, DailyWithinWeekly, TypeInv, AbsentEdges
<1>1. /\ edges[f] \in Edge /\ edges[f].c7 \in Nat /\ edges[f].c24 \in Nat
      /\ batch[KeyOf[f]] \in Bucket /\ batch[KeyOf[f]].n \in Nat
  BY <1>0, CountTypes
<1>2. CASE edges' = edges
  BY <1>2, <1>0
<1>3. CASE Upsert
  <2>1. edges'[f] \in {edges[f], Upserted(edges[f], batch[KeyOf[f]])}
    BY <1>3 DEF Upsert
  <2> QED
    BY <1>0, <1>1, <2>1, UpsertedEdge
<1>4. CASE Tombstone
  BY <1>4, <1>0 DEF Tombstone, NoEdge
<1>5. CASE Decay
  <2>1. edges'[f] = Decayed(edges[f])
    BY <1>5 DEF Decay
  <2> QED
    BY <1>0, <1>1, <2>1, DecayedEdge
<1> USE DEF topicVars, graphVars, flushVars, sweepVars, historyVars
<1>6. CASE Surroundings
  BY <1>6, <1>2 DEF Surroundings, Publish, IngestFunction, NextDay
<1>7. CASE MainThread
  BY <1>7, <1>2 DEF MainThread, Consume, AutoCommit, Signal, SignalInTurn,
     CloseConsumer, CloseWriter, Exit, Crash, ProcessEnd, Start
<1>8. CASE FlushThread
  BY <1>8, <1>2, <1>3 DEF FlushThread, Drain, UpsertFails
<1>9. CASE SweepThread
  BY <1>9, <1>2, <1>4, <1>5 DEF SweepThread, SweepFails
<1>10. CASE UNCHANGED vars
  BY <1>10, <1>2 DEF vars
<1> QED
  BY <1>6, <1>7, <1>8, <1>9, <1>10 DEF Next

LEMMA InitAccountInv == Init => AccountInv
<1> SUFFICES ASSUME Init PROVE AccountInv
  OBVIOUS
<1>1. TypeInv
  BY InitTypeOK DEF TypeInv, AbsentEdges, Init
<1>2. BatchInv
  BY DEF BatchInv, Init
<1>3. CallsAccounted
  BY KeyOfAssumption DEF CallsAccounted, Init, Empty, NoBucket, NoEdge
<1>4. DailyWithinWeekly
  BY DEF DailyWithinWeekly, Init, NoEdge
<1> QED
  BY <1>1, <1>2, <1>3, <1>4 DEF AccountInv

\* The inductive invariant of the counts, from the topic to the edges, whatever
\* the threads of the join do and wherever it stops.
THEOREM AccountInvariance == Spec => []AccountInv
<1>1. AccountInv /\ [Next]_vars => AccountInv'
  BY NextTypeInv, NextBatchInv, NextAccounted, NextDaily DEF AccountInv
<1> QED
  BY InitAccountInv, <1>1, PTL DEF Spec

\* Whatever the interleaving of the three threads, the failures and the
\* restarts, each call the consumer took is in exactly one place.
THEOREM EveryCallIsAccounted == Spec => []CallsAccounted
<1>1. AccountInv => CallsAccounted
  BY DEF AccountInv
<1> QED
  BY AccountInvariance, <1>1, PTL

\* The daily count of an edge never exceeds its total.
THEOREM DailyNeverExceedsWeekly == Spec => []DailyWithinWeekly
<1>1. AccountInv => DailyWithinWeekly
  BY DEF AccountInv
<1> QED
  BY AccountInvariance, <1>1, PTL

-----------------------------------------------------------------------------
(* The order of last_seen.                                                 *)

\* No event still to be taken is stamped before t, nor will a later one be.
Fresh(t, today, offset, events) ==
    t <= today /\ \A i \in offset + 1 .. Len(events) : t <= events[i].ts

\* Timestamps grow from the edges through the batch and the buckets to the
\* events still in the topic.
Ordered ==
    /\ \A i, j \in 1 .. Len(topic) : i <= j => topic[i].ts <= topic[j].ts
    /\ \A i \in 1 .. Len(topic) : topic[i].ts <= day
    /\ \A k \in Keys : buckets[k].n > 0 => Fresh(buckets[k].ts, day, position, topic)
    /\ \A k \in Keys : batch[k].n > 0 => Fresh(batch[k].ts, day, position, topic)
    /\ \A k \in Keys : buckets[k].n > 0 /\ batch[k].n > 0 =>
           batch[k].ts <= buckets[k].ts
    /\ \A f \in Nodes : Fresh(newest[f], day, position, topic)
    /\ \A f \in Nodes : buckets[KeyOf[f]].n > 0 =>
           newest[f] <= buckets[KeyOf[f]].ts
    /\ \A f \in Nodes : batch[KeyOf[f]].n > 0 => newest[f] <= batch[KeyOf[f]].ts
    /\ \A f \in Nodes : edges[f].there => edges[f].last = newest[f]

OrderInv == Lateness = 0 /\ ~replayed => Ordered

LEMMA InitOrdered == Init => Ordered
<1> SUFFICES ASSUME Init PROVE Ordered
  OBVIOUS
<1>1. \A k \in Keys : buckets[k].n = 0 /\ batch[k].n = 0
  BY DEF Init, Empty, NoBucket
<1>2. Len(topic) = 0 /\ position = 0 /\ day = 0
  BY DEF Init
<1>3. \A f \in Nodes : newest[f] = 0 /\ ~edges[f].there
  BY DEF Init, NoEdge
<1>4. \A f \in Nodes : Fresh(newest[f], day, position, topic)
  BY <1>2, <1>3 DEF Fresh
<1> QED
  BY <1>1, <1>2, <1>3, <1>4, KeyOfAssumption DEF Ordered

\* Types of the timestamps the comparisons are about.
LEMMA StampTypes ==
    ASSUME TypeInv
    PROVE  /\ day \in Nat /\ Len(topic) \in Nat /\ position \in Nat
           /\ position <= Len(topic)
           /\ \A i \in 1 .. Len(topic) : topic[i] \in Event /\ topic[i].ts \in Nat
           /\ \A k \in Keys : buckets[k] \in Bucket /\ buckets[k].ts \in Nat
                               /\ buckets[k].n \in Nat
           /\ \A k \in Keys : batch[k] \in Bucket /\ batch[k].ts \in Nat
                               /\ batch[k].n \in Nat
           /\ \A f \in Nodes : newest[f] \in Nat /\ KeyOf[f] \in Keys
<1>1. 0 .. MaxDay \subseteq Nat
  BY Bounds
<1>2. day \in Nat /\ Len(topic) \in Nat /\ position \in Nat /\ position <= Len(topic)
  BY <1>1 DEF TypeInv, TypeOK
<1>3. \A i \in 1 .. Len(topic) : topic[i] \in Event /\ topic[i].ts \in Nat
  <2>1. \A i \in 1 .. Len(topic) : topic[i] \in Event
    BY DEF TypeInv, TypeOK
  <2>2. \A e \in Event : e.ts \in Nat
    BY <1>1 DEF Event
  <2> QED
    BY <2>1, <2>2
<1>4. \A k \in Keys : buckets[k] \in Bucket /\ buckets[k].ts \in Nat /\ buckets[k].n \in Nat
  BY <1>1 DEF TypeInv, TypeOK, Bucket
<1>5. \A k \in Keys : batch[k] \in Bucket /\ batch[k].ts \in Nat /\ batch[k].n \in Nat
  BY <1>1 DEF TypeInv, TypeOK, Bucket
<1>6. \A f \in Nodes : newest[f] \in Nat /\ KeyOf[f] \in Keys
  BY <1>1, KeyOfAssumption DEF TypeInv, TypeOK
<1> QED
  BY <1>2, <1>3, <1>4, <1>5, <1>6

\* An event of today goes to the end of an ordered topic.
LEMMA PublishOrdered ==
    ASSUME TypeInv, Ordered, Lateness = 0, NEW k \in Keys, NEW n \in Counts,
           NEW late \in 0 .. Lateness, Publish(k, n, late)
    PROVE  Ordered'
<1> DEFINE e == [key |-> k, n |-> n, ts |-> day - late]
<1>1. e.ts = day /\ topic' = Append(topic, e)
  BY StampTypes DEF Publish
<1> HIDE DEF e
<1>2. /\ Len(topic') = Len(topic) + 1
      /\ \A i \in 1 .. Len(topic) : topic'[i] = topic[i]
      /\ topic'[Len(topic) + 1] = e
  BY <1>1 DEF TypeInv, TypeOK
<1>3. ASSUME NEW i \in 1 .. Len(topic')
      PROVE  \/ i \in 1 .. Len(topic) /\ topic'[i] = topic[i]
             \/ i = Len(topic) + 1 /\ topic'[i].ts = day
  <2>1. i \in 1 .. Len(topic) \/ i = Len(topic) + 1
    BY <1>2, StampTypes
  <2> QED
    BY <1>1, <1>2, <2>1
<1>4. UNCHANGED <<day, position, buckets, batch, newest, edges>>
  BY DEF Publish, topicVars, graphVars, flushVars, historyVars
<1>5. ASSUME NEW t \in Nat, Fresh(t, day, position, topic) PROVE Fresh(t, day', position', topic')
  BY <1>2, <1>3, <1>4, <1>5, StampTypes DEF Fresh
<1>6. \A i, j \in 1 .. Len(topic') : i <= j => topic'[i].ts <= topic'[j].ts
  BY <1>2, <1>3, StampTypes DEF Ordered
<1>7. \A i \in 1 .. Len(topic') : topic'[i].ts <= day
  BY <1>3, StampTypes DEF Ordered
<1> QED
  BY <1>4, <1>5, <1>6, <1>7, StampTypes DEF Ordered, Fresh

\* The event taken is no older than its bucket and no newer than the rest.
LEMMA ConsumeOrdered ==
    ASSUME TypeInv, Ordered, Consume
    PROVE  Ordered'
<1> DEFINE e == topic[position + 1]
           m == Merge(buckets[e.key], e)
<1>1. /\ position + 1 \in 1 .. Len(topic)
      /\ e \in Event /\ e.key \in Keys /\ e.ts \in Nat /\ e.ts <= day
  BY StampTypes DEF Consume, Ordered, Event
<1>2. UNCHANGED <<day, topic, batch, newest, edges>> /\ position' = position + 1
  BY DEF Consume, graphVars, flushVars
<1>3. \A k \in Keys : buckets'[k] = IF k = e.key THEN m ELSE buckets[k]
  BY <1>1 DEF Consume, TypeInv, TypeOK
<1>4. \A k \in Keys : buckets[k].n > 0 => buckets[k].ts <= e.ts
  BY <1>1, StampTypes DEF Ordered, Fresh
<1>5. m.ts = e.ts
  <2>1. buckets[e.key] \in Bucket
    BY <1>1, StampTypes
  <2> QED
    BY <1>1, <1>4, <2>1, MergeBucket, StampTypes
<1>6. \A t \in Nat : Fresh(t, day, position, topic) => t <= e.ts
  BY <1>1, StampTypes DEF Fresh
<1>7. \A t \in Nat : Fresh(t, day, position, topic) => Fresh(t, day', position', topic')
  BY <1>2, StampTypes DEF Fresh
<1>8. Fresh(e.ts, day', position', topic')
  <2>1. \A i \in position' + 1 .. Len(topic) : e.ts <= topic[i].ts
    BY <1>1, <1>2, StampTypes DEF Ordered
  <2> QED
    BY <1>1, <1>2, <2>1 DEF Fresh
<1> HIDE DEF e, m
<1>9. \A k \in Keys : buckets'[k].n > 0 => Fresh(buckets'[k].ts, day', position', topic')
  <2> SUFFICES ASSUME NEW k \in Keys, buckets'[k].n > 0
               PROVE  Fresh(buckets'[k].ts, day', position', topic')
    OBVIOUS
  <2>1. CASE k = e.key
    BY <1>3, <1>5, <1>8, <2>1 DEF Fresh
  <2>2. CASE k # e.key
    <3>1. buckets'[k] = buckets[k] /\ buckets[k].ts \in Nat
      BY <1>3, <2>2, StampTypes
    <3>2. Fresh(buckets[k].ts, day, position, topic)
      BY <3>1 DEF Ordered
    <3> QED
      BY <1>7, <3>1, <3>2 DEF Fresh
  <2> QED
    BY <2>1, <2>2
<1>10. \A k \in Keys : batch[k].n > 0 => Fresh(batch[k].ts, day', position', topic')
  BY <1>2, <1>7, StampTypes DEF Ordered
<1>11. \A k \in Keys : buckets'[k].n > 0 /\ batch[k].n > 0 =>
           batch[k].ts <= buckets'[k].ts
  <2> SUFFICES ASSUME NEW k \in Keys, buckets'[k].n > 0, batch[k].n > 0
               PROVE  batch[k].ts <= buckets'[k].ts
    OBVIOUS
  <2>1. batch[k].ts \in Nat /\ Fresh(batch[k].ts, day, position, topic)
    BY StampTypes DEF Ordered
  <2> QED
    BY <1>3, <1>5, <1>6, <2>1 DEF Ordered
<1>12. \A f \in Nodes : Fresh(newest[f], day', position', topic')
  BY <1>2, <1>7, StampTypes DEF Ordered
<1>13. \A f \in Nodes : buckets'[KeyOf[f]].n > 0 => newest[f] <= buckets'[KeyOf[f]].ts
  <2> SUFFICES ASSUME NEW f \in Nodes, buckets'[KeyOf[f]].n > 0
               PROVE  newest[f] <= buckets'[KeyOf[f]].ts
    OBVIOUS
  <2>1. newest[f] \in Nat /\ Fresh(newest[f], day, position, topic) /\ KeyOf[f] \in Keys
    BY StampTypes DEF Ordered
  <2> QED
    BY <1>3, <1>5, <1>6, <2>1 DEF Ordered
<1> QED
  BY <1>2, <1>9, <1>10, <1>11, <1>12, <1>13 DEF Ordered, Fresh

\* A row is no older than what was written to the edge before.
LEMMA UpsertOrdered ==
    ASSUME TypeInv, BatchInv, Ordered, Upsert
    PROVE  Ordered'
<1>1. UNCHANGED <<day, topic, position, buckets>> /\ batch' = Empty
  BY DEF Upsert, topicVars
<1>2. \A k \in Keys : batch'[k].n = 0
  BY <1>1 DEF Empty, NoBucket
<1>3. ASSUME NEW f \in Nodes
      PROVE  \/ /\ f \in Matched
                /\ newest'[f] = batch[KeyOf[f]].ts
                /\ edges'[f].last = batch[KeyOf[f]].ts
             \/ newest'[f] = newest[f] /\ edges'[f] = edges[f]
  <2>1. edges[f].there \/ edges[f] = NoEdge
    BY DEF TypeInv, AbsentEdges
  <2>2. KeyOf[f] \in Keys /\ batch[KeyOf[f]] \in Bucket /\ edges[f] \in Edge
    BY StampTypes DEF TypeInv, TypeOK
  <2>3. CASE f \in Matched
    <3>1. newest[f] <= batch[KeyOf[f]].ts /\ newest[f] \in Nat
          /\ batch[KeyOf[f]].ts \in Nat
      BY <2>2, <2>3, StampTypes DEF Matched, Ordered
    <3>2. edges'[f].last = batch[KeyOf[f]].ts
      BY <2>1, <2>2, <2>3, UpsertedEdge DEF Upsert
    <3>3. newest'[f] = batch[KeyOf[f]].ts
      BY <2>3, <3>1 DEF Upsert
    <3> QED
      BY <2>3, <3>2, <3>3
  <2>4. CASE f \notin Matched
    BY <2>4 DEF Upsert
  <2> QED
    BY <2>3, <2>4
<1>4. ASSUME NEW f \in Nodes, f \in Matched
      PROVE  /\ Fresh(batch[KeyOf[f]].ts, day, position, topic)
             /\ buckets[KeyOf[f]].n > 0 =>
                    batch[KeyOf[f]].ts <= buckets[KeyOf[f]].ts
  BY <1>4, StampTypes DEF Matched, Ordered
<1>5. \A f \in Nodes : Fresh(newest'[f], day, position, topic)
  BY <1>3, <1>4 DEF Ordered
<1>6. \A f \in Nodes : buckets[KeyOf[f]].n > 0 => newest'[f] <= buckets[KeyOf[f]].ts
  BY <1>3, <1>4 DEF Ordered
<1>7. \A f \in Nodes : edges'[f].there => edges'[f].last = newest'[f]
  BY <1>3 DEF Ordered
<1> QED
  BY <1>1, <1>2, <1>5, <1>6, <1>7, StampTypes DEF Ordered, Fresh

\* The batch takes the place of the buckets.
LEMMA DrainOrdered ==
    ASSUME TypeInv, BatchInv, Ordered, Drain
    PROVE  Ordered'
<1>1. /\ UNCHANGED <<day, topic, position, edges, newest>>
      /\ batch' = buckets /\ buckets' = Empty
  BY DEF Drain, topicVars, graphVars, historyVars
<1>2. \A k \in Keys : buckets'[k].n = 0
  BY <1>1 DEF Empty, NoBucket
<1> QED
  BY <1>1, <1>2, StampTypes DEF Ordered

\* Losing the batch, the buckets or an edge, the passing of a day and the
\* moves of the offset that keep the order.
LEMMA QuietOrdered ==
    ASSUME TypeInv, TypeInv', Ordered, topic' = topic, newest' = newest,
           day' >= day, position' >= position,
           buckets' = buckets \/ buckets' = Empty,
           batch' = batch \/ batch' = Empty,
           \A f \in Nodes : edges'[f].there =>
               edges[f].there /\ edges'[f].last = edges[f].last
    PROVE  Ordered'
<1>1. day' \in Nat /\ position' \in Nat
  BY StampTypes, TypeInv' DEF TypeInv, TypeOK
<1>2. \A k \in Keys : buckets'[k].n > 0 => buckets'[k] = buckets[k]
  BY DEF Empty, NoBucket
<1>3. \A k \in Keys : batch'[k].n > 0 => batch'[k] = batch[k]
  BY DEF Empty, NoBucket
<1>4. ASSUME NEW t \in Nat, Fresh(t, day, position, topic)
      PROVE  Fresh(t, day', position', topic')
  <2>1. position' + 1 .. Len(topic) \subseteq position + 1 .. Len(topic)
    BY <1>1, StampTypes
  <2>2. t <= day'
    BY <1>1, <1>4, StampTypes DEF Fresh
  <2> QED
    BY <1>4, <2>1, <2>2 DEF Fresh
<1>5. \A i \in 1 .. Len(topic) : topic[i].ts <= day'
  BY <1>1, StampTypes DEF Ordered
<1>6. \A k \in Keys : buckets'[k].n > 0 =>
          Fresh(buckets'[k].ts, day', position', topic')
  BY <1>2, <1>4, StampTypes DEF Ordered
<1>7. \A k \in Keys : batch'[k].n > 0 =>
          Fresh(batch'[k].ts, day', position', topic')
  BY <1>3, <1>4, StampTypes DEF Ordered
<1>8. \A f \in Nodes : Fresh(newest[f], day', position', topic')
  BY <1>4, StampTypes DEF Ordered
<1>9. \A k \in Keys : buckets'[k].n > 0 /\ batch'[k].n > 0 =>
          batch'[k].ts <= buckets'[k].ts
  BY <1>2, <1>3 DEF Ordered
<1>10. \A f \in Nodes :
          /\ buckets'[KeyOf[f]].n > 0 => newest[f] <= buckets'[KeyOf[f]].ts
          /\ batch'[KeyOf[f]].n > 0 => newest[f] <= batch'[KeyOf[f]].ts
  BY <1>2, <1>3, StampTypes DEF Ordered
<1> QED
  BY <1>5, <1>6, <1>7, <1>8, <1>9, <1>10 DEF Ordered

LEMMA NextOrderInv ==
    AccountInv /\ AccountInv' /\ OrderInv /\ [Next]_vars => OrderInv'
<1> SUFFICES ASSUME AccountInv, AccountInv', OrderInv, [Next]_vars,
                    Lateness = 0, ~replayed'
             PROVE  Ordered'
  BY DEF OrderInv
<1> USE DEF topicVars, graphVars, flushVars, sweepVars, historyVars
<1>1. TypeInv /\ TypeInv' /\ BatchInv
  BY DEF AccountInv
<1>2. ~replayed
  BY DEF Next, Surroundings, Publish, IngestFunction, NextDay, MainThread,
     Consume, AutoCommit, Signal, SignalInTurn, CloseConsumer, CloseWriter, Exit,
     Crash, ProcessEnd, Start, FlushThread, Drain, Upsert, UpsertFails, SweepThread,
     Tombstone, Decay, SweepFails, vars
<1>3. Ordered
  BY <1>2 DEF OrderInv
<1>4. day \in Nat /\ position \in Nat
  BY <1>1, StampTypes
<1>5. CASE Surroundings
  <2>1. ASSUME NEW k \in Keys, NEW n \in Counts, NEW late \in 0 .. Lateness,
               Publish(k, n, late)
        PROVE  Ordered'
    BY <1>1, <1>3, <2>1, PublishOrdered
  <2>2. ASSUME NEW f \in Nodes, IngestFunction(f) PROVE Ordered'
    BY <1>1, <1>3, <1>4, <2>2, QuietOrdered DEF IngestFunction
  <2>3. CASE NextDay
    BY <1>1, <1>3, <1>4, <2>3, QuietOrdered DEF NextDay
  <2> QED
    BY <1>5, <2>1, <2>2, <2>3 DEF Surroundings
<1>6. CASE MainThread
  <2>1. CASE Consume
    BY <1>1, <1>3, <2>1, ConsumeOrdered
  <2>2. CASE \/ AutoCommit \/ Signal \/ SignalInTurn \/ CloseConsumer
            \/ CloseWriter \/ Exit \/ Crash
    BY <1>1, <1>3, <1>4, <2>2, QuietOrdered
       DEF AutoCommit, Signal, SignalInTurn, CloseConsumer, CloseWriter, Exit,
           Crash, ProcessEnd
  <2>3. CASE Start
    <3>1. ~(committed < position) /\ position' = committed
      BY <2>3, Zenon DEF Start
    <3>2. position' >= position
      BY <1>1, <3>1 DEF TypeInv, TypeOK
    <3> QED
      BY <1>1, <1>3, <1>4, <2>3, <3>2, QuietOrdered DEF Start
  <2> QED
    BY <1>6, <2>1, <2>2, <2>3 DEF MainThread
<1>7. CASE FlushThread
  <2>1. CASE UpsertFails
    BY <1>1, <1>3, <1>4, <2>1, QuietOrdered DEF UpsertFails
  <2> QED
    BY <1>1, <1>3, <1>7, <2>1, DrainOrdered, UpsertOrdered DEF FlushThread
<1>8. CASE SweepThread
  <2>1. CASE Tombstone
    <3>1. \A f \in Nodes : edges'[f].there => edges'[f] = edges[f]
      BY <2>1 DEF Tombstone, NoEdge
    <3> QED
      BY <1>1, <1>3, <1>4, <2>1, <3>1, QuietOrdered DEF Tombstone
  <2>2. CASE Decay
    <3>1. \A f \in Nodes : /\ edges'[f].there = edges[f].there
                           /\ edges'[f].last = edges[f].last
      BY <1>1, <2>2, DecayedEdge DEF Decay, TypeInv, TypeOK
    <3> QED
      BY <1>1, <1>3, <1>4, <2>2, <3>1, QuietOrdered DEF Decay
  <2>3. CASE SweepFails
    BY <1>1, <1>3, <1>4, <2>3, QuietOrdered DEF SweepFails
  <2> QED
    BY <1>8, <2>1, <2>2, <2>3 DEF SweepThread
<1>9. CASE UNCHANGED vars
  BY <1>1, <1>3, <1>4, <1>9, QuietOrdered DEF vars
<1> QED
  BY <1>5, <1>6, <1>7, <1>8, <1>9 DEF Next

\* Events that reach the topic in the order of their timestamps, and are not
\* replayed, leave on each edge the latest time written to it.
THEOREM LastSeenIsTheNewest == Spec => []LastSeenIsNewest
<1>1. Init => OrderInv
  BY InitOrdered DEF OrderInv
<1>2. OrderInv => LastSeenIsNewest
  BY DEF OrderInv, Ordered, LastSeenIsNewest
<1> QED
  BY AccountInvariance, <1>1, <1>2, NextOrderInv, PTL DEF Spec

\* The tombstones of such events: an edge is deleted only when the latest time
\* ever written to it is before the cutoff.
THEOREM OrderedTombstones ==
    Spec => [][Lateness = 0 /\ ~replayed =>
                  \A f \in Nodes : edges[f].there /\ ~edges'[f].there =>
                      newest[f] < day - TombstoneDays]_vars
<1> DEFINE Unseen == \A f \in Nodes : edges[f].there /\ ~edges'[f].there =>
                         newest[f] < day - TombstoneDays
<1>1. Init => OrderInv
  BY InitOrdered DEF OrderInv
<1>2. ASSUME TypeInv, OrderInv, Next, Lateness = 0, ~replayed PROVE Unseen
  <2> USE DEF topicVars, graphVars, flushVars, sweepVars, historyVars
  <2>1. CASE UNCHANGED edges
    BY <2>1
  <2>2. CASE Upsert
    <3>1. ASSUME NEW f \in Nodes, edges[f].there PROVE edges'[f].there
      <4>1. edges'[f] \in {edges[f], Upserted(edges[f], batch[KeyOf[f]])}
        BY <2>2 DEF Upsert
      <4> QED
        BY <3>1, <4>1 DEF Upserted
    <3> QED
      BY <3>1
  <2>3. CASE Tombstone
    <3>1. ASSUME NEW f \in Nodes, edges[f].there, ~edges'[f].there
          PROVE  newest[f] < day - TombstoneDays
      <4>1. edges'[f] = IF Expired(edges[f]) THEN NoEdge ELSE edges[f]
        BY <2>3 DEF Tombstone
      <4>2. edges[f].last < day - TombstoneDays
        BY <3>1, <4>1 DEF Expired
      <4>3. edges[f].last = newest[f]
        BY <1>2, <3>1 DEF OrderInv, Ordered
      <4> QED
        BY <4>2, <4>3
    <3> QED
      BY <3>1
  <2>4. CASE Decay
    <3>1. ASSUME NEW f \in Nodes PROVE edges'[f].there = edges[f].there
      BY <1>2, <2>4, DecayedEdge DEF Decay, TypeInv, TypeOK
    <3> QED
      BY <3>1
  <2> QED
    BY <1>2, <2>1, <2>2, <2>3, <2>4
       DEF Next, Surroundings, Publish, IngestFunction, NextDay, MainThread,
           Consume, AutoCommit, Signal, SignalInTurn, CloseConsumer, CloseWriter,
           Exit, Crash, ProcessEnd, Start, FlushThread, Drain, UpsertFails,
           SweepThread, SweepFails
<1>3. TypeInv /\ OrderInv /\ [Next]_vars =>
          [Lateness = 0 /\ ~replayed => Unseen]_vars
  BY <1>2
<1> QED
  BY AccountInvariance, <1>1, <1>3, NextOrderInv, PTL DEF Spec, AccountInv

-----------------------------------------------------------------------------
(* No call is counted twice.                                               *)

\* Induction on natural numbers, as the provers can use it: a set of them that
\* is not empty has a least member.
LEMMA LeastNatural ==
    ASSUME NEW T \in SUBSET Nat, T # {}
    PROVE  \E m \in T : \A n \in T : m <= n
<1> DEFINE R == OpToRel(<, Nat)
<1>1. PICK m \in T : \A n \in T : ~(<<n, m>> \in R)
  <2> HIDE DEF R
  <2>1. IsWellFoundedOn(R, Nat)
    BY NatLessThanWellFounded DEF R
  <2> QED
    BY <2>1, WFMin
<1>2. \A n \in T : ~(n < m)
  BY <1>1 DEF OpToRel
<1> QED
  BY <1>2

\* What the i-th event of the topic t adds to the calls of the location k.
Share(t, k, i) == IF t[i].key = k THEN t[i].n ELSE 0

\* h is the function `sum' of CallsBefore.
Sums(t, k, offset, h) ==
    h = [i \in 0 .. offset |-> IF i = 0 THEN 0 ELSE h[i - 1] + Share(t, k, i)]

LEMMA SumsExist ==
    ASSUME NEW t, NEW k, NEW offset \in Nat
    PROVE  \E h : Sums(t, k, offset, h)
<1> DEFINE T == {m \in Nat : ~\E h : Sums(t, k, m, h)}
<1> SUFFICES ASSUME T # {} PROVE FALSE
  OBVIOUS
<1>0. T \in SUBSET Nat
  OBVIOUS
<1>1. PICK m \in T : \A n \in T : m <= n
  <2> HIDE DEF T
  <2> QED
    BY <1>0, LeastNatural
<1>2. m # 0
  <2> DEFINE h == [i \in 0 .. 0 |-> 0]
  <2>1. Sums(t, k, 0, h)
    BY DEF Sums
  <2> QED
    BY <2>1
<1>3. m - 1 \in Nat /\ m - 1 \notin T
  BY <1>1, <1>2
<1>4. PICK h : Sums(t, k, m - 1, h)
  BY <1>3
<1> DEFINE F(i) == IF i = 0 THEN 0 ELSE h[i - 1] + Share(t, k, i)
           g == [i \in 0 .. m |-> F(i)]
<1>5. h = [i \in 0 .. m - 1 |-> F(i)]
  BY <1>4 DEF Sums
<1>6. ASSUME NEW i \in 0 .. m, i # 0 PROVE g[i - 1] = h[i - 1]
  <2>1. i - 1 \in 0 .. m /\ i - 1 \in 0 .. m - 1
    BY <1>3, <1>6
  <2> HIDE DEF F
  <2> QED
    BY <1>5, <2>1
<1>7. Sums(t, k, m, g)
  <2> HIDE DEF g
  <2>1. g = [i \in 0 .. m |-> F(i)]
    BY DEF g
  <2> QED
    BY <1>6, <2>1 DEF Sums
<1> QED
  BY <1>1, <1>7

\* Sums over topics that begin alike begin alike.
LEMMA SumsAgree ==
    ASSUME NEW t, NEW t2, NEW k, NEW a \in Nat, NEW b \in Nat, a <= b,
           \A i \in 1 .. a : t2[i] = t[i],
           NEW h, Sums(t, k, a, h), NEW h2, Sums(t2, k, b, h2)
    PROVE  \A i \in 0 .. a : h2[i] = h[i]
<1> DEFINE T == {i \in 0 .. a : h2[i] # h[i]}
<1> SUFFICES ASSUME T # {} PROVE FALSE
  OBVIOUS
<1>0. T \in SUBSET Nat
  OBVIOUS
<1>1. PICK m \in T : \A n \in T : m <= n
  <2> HIDE DEF T
  <2> QED
    BY <1>0, LeastNatural
<1>2. m \in 0 .. a /\ m \in 0 .. b
  BY <1>1
<1>3. m # 0
  BY <1>1, <1>2 DEF Sums
<1>4. m - 1 \in 0 .. a /\ m - 1 \notin T
  BY <1>1, <1>3
<1>5. h[m] = h[m - 1] + Share(t, k, m) /\ h2[m] = h2[m - 1] + Share(t2, k, m)
  BY <1>2, <1>3 DEF Sums
<1>6. Share(t2, k, m) = Share(t, k, m)
  BY <1>2, <1>3 DEF Share
<1> QED
  BY <1>1, <1>4, <1>5, <1>6

\* CallsBefore over any topic.
CallsIn(t, k, offset) == (CHOOSE h : Sums(t, k, offset, h))[offset]

LEMMA CallsBeforeIsIn ==
    ASSUME NEW k, NEW offset
    PROVE  /\ CallsBefore(k, offset) = CallsIn(topic, k, offset)
           /\ CallsBefore(k, offset)' = CallsIn(topic', k, offset)
BY DEF CallsBefore, CallsIn, Sums, Share

LEMMA CallsInSums ==
    ASSUME NEW t, NEW k, NEW offset \in Nat, NEW h, Sums(t, k, offset, h)
    PROVE  CallsIn(t, k, offset) = h[offset]
<1> DEFINE c == CHOOSE g : Sums(t, k, offset, g)
<1>1. Sums(t, k, offset, c)
  OBVIOUS
<1>2. CallsIn(t, k, offset) = c[offset]
  BY DEF CallsIn, Sums, Share
<1> HIDE DEF c
<1>3. offset \in 0 .. offset
  OBVIOUS
<1> QED
  BY <1>1, <1>2, <1>3, SumsAgree

\* Before the first event there is no call; an event adds its share.
LEMMA CallsInFirst == \A t, k : CallsIn(t, k, 0) = 0
<1> TAKE t, k
<1>1. PICK h : Sums(t, k, 0, h)
  BY SumsExist
<1>2. h[0] = 0
  BY <1>1 DEF Sums
<1> QED
  BY <1>1, <1>2, CallsInSums

LEMMA CallsInNext ==
    ASSUME NEW t, NEW k, NEW offset \in Nat
    PROVE  CallsIn(t, k, offset + 1) =
               CallsIn(t, k, offset) + Share(t, k, offset + 1)
<1>1. PICK h : Sums(t, k, offset, h)
  BY SumsExist
<1>2. PICK g : Sums(t, k, offset + 1, g)
  BY SumsExist
<1>3. g[offset] = h[offset]
  BY <1>1, <1>2, SumsAgree
<1>4. g[offset + 1] = g[offset] + Share(t, k, offset + 1)
  BY <1>2 DEF Sums
<1> QED
  BY <1>1, <1>2, <1>3, <1>4, CallsInSums

LEMMA CallsInType ==
    ASSUME NEW t \in Seq(Event), NEW k, NEW offset \in 0 .. Len(t)
    PROVE  CallsIn(t, k, offset) \in Nat
<1> DEFINE T == {i \in 0 .. Len(t) : CallsIn(t, k, i) \notin Nat}
<1> SUFFICES ASSUME T # {} PROVE FALSE
  OBVIOUS
<1>0. T \in SUBSET Nat
  OBVIOUS
<1>1. PICK m \in T : \A n \in T : m <= n
  <2> HIDE DEF T
  <2> QED
    BY <1>0, LeastNatural
<1>2. m # 0
  BY <1>1, CallsInFirst
<1>3. m - 1 \in Nat /\ m \in 1 .. Len(t) /\ CallsIn(t, k, m - 1) \in Nat
  BY <1>1, <1>2
<1>4. Share(t, k, m) \in Nat
  <2>1. t[m] \in Event
    BY <1>3
  <2> QED
    BY <2>1, CountsAssumption DEF Share, Event
<1>5. CallsIn(t, k, (m - 1) + 1) = CallsIn(t, k, m - 1) + Share(t, k, (m - 1) + 1)
  BY <1>3, CallsInNext
<1>6. (m - 1) + 1 = m
  BY <1>3
<1>7. CallsIn(t, k, m) \in Nat
  BY <1>3, <1>4, <1>5, <1>6
<1> QED
  BY <1>1, <1>7

\* A new event at the end of a topic changes no sum before it.
LEMMA CallsInAppend ==
    ASSUME NEW t \in Seq(Event), NEW k, NEW e, NEW offset \in Nat,
           offset <= Len(t)
    PROVE  CallsIn(Append(t, e), k, offset) = CallsIn(t, k, offset)
<1>1. PICK h : Sums(t, k, offset, h)
  BY SumsExist
<1>2. Sums(Append(t, e), k, offset, h)
  <2>1. \A i \in 1 .. offset : Append(t, e)[i] = t[i]
    OBVIOUS
  <2>2. \A i \in 0 .. offset : i # 0 => Share(Append(t, e), k, i) = Share(t, k, i)
    BY <2>1 DEF Share
  <2> QED
    BY <1>1, <2>2 DEF Sums
<1> QED
  BY <1>1, <1>2, CallsInSums

\* The offset never runs ahead of the consumer: a start that does not go back
\* stays where it was.  Without one, no event was recorded twice.
ReplayInv ==
    /\ committed <= position
    /\ ~replayed =>
           \A k \in Keys : taken[k] <= CallsIn(topic, k, position)

LEMMA NextReplayInv ==
    AccountInv /\ ReplayInv /\ [Next]_vars => ReplayInv'
<1> SUFFICES ASSUME AccountInv, ReplayInv, [Next]_vars PROVE ReplayInv'
  OBVIOUS
<1> USE DEF topicVars, graphVars, flushVars, sweepVars, historyVars
<1>1. /\ topic \in Seq(Event) /\ Len(topic) \in Nat
      /\ position \in Nat /\ position <= Len(topic) /\ committed \in Nat
      /\ taken \in [Keys -> Nat]
  BY DEF AccountInv, TypeInv, TypeOK
\* Steps that take nothing.
<1>2. ASSUME UNCHANGED <<topic, position, replayed, taken>>,
             committed' \in {committed, position}
      PROVE  ReplayInv'
  BY <1>1, <1>2 DEF ReplayInv
<1>3. ASSUME NEW k \in Keys, NEW n \in Counts, NEW late \in 0 .. Lateness,
             Publish(k, n, late)
      PROVE  ReplayInv'
  <2> DEFINE e == [key |-> k, n |-> n, ts |-> day - late]
  <2>1. topic' = Append(topic, e)
    BY <1>3 DEF Publish
  <2> HIDE DEF e
  <2>2. \A l \in Keys : CallsIn(topic', l, position) = CallsIn(topic, l, position)
    BY <1>1, <2>1, CallsInAppend
  <2> QED
    BY <1>3, <2>2 DEF Publish, ReplayInv
<1>4. ASSUME NEW k \in Keys, position < Len(topic)
      PROVE  /\ CallsIn(topic, k, position) \in Nat
             /\ CallsIn(topic, k, position + 1) =
                    CallsIn(topic, k, position) + Share(topic, k, position + 1)
             /\ Share(topic, k, position + 1) \in Nat
  <2>1. topic[position + 1] \in Event
    BY <1>1, <1>4
  <2>2. Share(topic, k, position + 1) \in Nat
    BY <2>1, CountsAssumption DEF Share, Event
  <2> QED
    BY <1>1, <2>2, CallsInNext, CallsInType
<1>5. CASE Consume
  <2> DEFINE e == topic[position + 1]
  <2>1. /\ UNCHANGED <<topic, committed, replayed>>
        /\ position < Len(topic) /\ position' = position + 1
        /\ taken' = [taken EXCEPT ![e.key] = @ + e.n]
    BY <1>5 DEF Consume
  <2>2. ASSUME NEW k \in Keys
        PROVE  taken'[k] = taken[k] + Share(topic, k, position + 1)
    <3>1. CASE e.key = k
      BY <1>1, <2>1, <3>1 DEF Share
    <3>2. CASE e.key # k
      BY <1>1, <2>1, <3>2 DEF Share
    <3> QED
      BY <3>1, <3>2
  <2> HIDE DEF e
  <2>3. ASSUME ~replayed, NEW k \in Keys
        PROVE  taken'[k] <= CallsIn(topic, k, position + 1)
    BY <1>1, <1>4, <2>1, <2>2, <2>3 DEF ReplayInv
  <2> QED
    BY <1>1, <2>1, <2>3 DEF ReplayInv
<1>6. CASE SignalInTurn
  <2>1. /\ UNCHANGED <<topic, committed, replayed, taken>>
        /\ position < Len(topic) /\ position' = position + 1
    BY <1>6 DEF SignalInTurn
  <2>2. ASSUME ~replayed, NEW k \in Keys
        PROVE  taken[k] <= CallsIn(topic, k, position + 1)
    BY <1>1, <1>4, <2>1, <2>2 DEF ReplayInv
  <2> QED
    BY <1>1, <2>1, <2>2 DEF ReplayInv
<1>7. CASE Start
  <2>1. /\ UNCHANGED <<topic, committed, taken>> /\ position' = committed
        /\ ~replayed' => ~replayed /\ ~(committed < position)
    BY <1>7, Zenon DEF Start
  <2>2. ~replayed' => position' = position
    BY <1>1, <2>1 DEF ReplayInv
  <2> QED
    BY <1>1, <2>1, <2>2 DEF ReplayInv
<1>8. CASE Surroundings
  BY <1>8, <1>2, <1>3 DEF Surroundings, IngestFunction, NextDay
<1>9. CASE MainThread
  BY <1>9, <1>2, <1>5, <1>6, <1>7 DEF MainThread, AutoCommit, Signal,
     CloseConsumer, CloseWriter, Exit, Crash, ProcessEnd
<1>10. CASE FlushThread
  BY <1>10, <1>2 DEF FlushThread, Drain, Upsert, UpsertFails
<1>11. CASE SweepThread
  BY <1>11, <1>2 DEF SweepThread, Tombstone, Decay, SweepFails
<1>12. CASE UNCHANGED vars
  BY <1>12, <1>2 DEF vars
<1> QED
  BY <1>8, <1>9, <1>10, <1>11, <1>12 DEF Next

\* What an edge counts was taken from the topic.
LEMMA EdgesWithinTaken ==
    ASSUME AccountInv, NEW f \in Nodes
    PROVE  edges[f].c7 <= taken[KeyOf[f]]
<1> DEFINE k == KeyOf[f]
<1>1. /\ edges[f].c7 \in Nat /\ k \in Keys /\ taken[k] \in Nat
      /\ missed[f] \in Nat /\ buckets[k].n \in Nat /\ batch[k].n \in Nat
  BY CountTypes DEF AccountInv
<1>2. taken[k] = edges[f].c7 + missed[f] + buckets[k].n + batch[k].n
  BY DEF AccountInv, CallsAccounted
<1> HIDE DEF k
<1>3. edges[f].c7 <= taken[k]
  BY <1>1, <1>2
<1> QED
  BY <1>3 DEF k

LEMMA ReplayInvariance == Spec => [](AccountInv /\ ReplayInv)
<1>1. Init => ReplayInv
  BY CallsInFirst DEF Init, ReplayInv
<1> QED
  BY AccountInvariance, <1>1, NextReplayInv, PTL DEF Spec

\* However the process stopped, failed to write and was started, an edge
\* counts no call of the topic twice unless a start went back over it.
THEOREM NoCallCountedTwice == Spec => []NoOvercount
<1>1. AccountInv /\ ReplayInv => NoOvercount
  <2> SUFFICES ASSUME AccountInv, ReplayInv, ~replayed, NEW f \in Nodes
               PROVE  edges[f].c7 <= CallsBefore(KeyOf[f], position)
    BY DEF NoOvercount
  <2> DEFINE k == KeyOf[f]
             s == CallsIn(topic, k, position)
  <2>1. k \in Keys /\ edges[f].c7 \in Nat /\ taken[k] \in Nat
    BY CountTypes DEF AccountInv
  <2>2. edges[f].c7 <= taken[k]
    BY EdgesWithinTaken
  <2>3. s \in Nat
    BY CallsInType DEF AccountInv, TypeInv, TypeOK
  <2>4. taken[k] <= s
    BY <2>1 DEF ReplayInv
  <2>5. CallsBefore(KeyOf[f], position) = s
    BY CallsBeforeIsIn
  <2> HIDE DEF k, s
  <2>6. edges[f].c7 <= s
    BY <2>1, <2>2, <2>3, <2>4
  <2> QED
    BY <2>5, <2>6
<1> QED
  BY ReplayInvariance, <1>1, PTL

-----------------------------------------------------------------------------
(* From the agent to the graph: the sums.                                  *)

LEMMA CallsInNat ==
    ASSUME NEW t, NEW k, NEW N \in Nat,
           \A i \in 1 .. N : Share(t, k, i) \in Nat
    PROVE  \A i \in 0 .. N : CallsIn(t, k, i) \in Nat
<1> DEFINE T == {i \in 0 .. N : CallsIn(t, k, i) \notin Nat}
<1> SUFFICES ASSUME T # {} PROVE FALSE
  OBVIOUS
<1>0. T \in SUBSET Nat
  OBVIOUS
<1>1. PICK m \in T : \A n \in T : m <= n
  <2> HIDE DEF T
  <2> QED
    BY <1>0, LeastNatural
<1>2. m # 0
  BY <1>1, CallsInFirst
<1>3. m - 1 \in Nat /\ m \in 1 .. N /\ CallsIn(t, k, m - 1) \in Nat
  BY <1>1, <1>2
<1>4. (m - 1) + 1 = m
  BY <1>3
<1>5. CallsIn(t, k, m) = CallsIn(t, k, m - 1) + Share(t, k, m)
  BY <1>3, <1>4, CallsInNext
<1> QED
  BY <1>1, <1>3, <1>5

\* Two sums whose terms differ in one place differ by that.
LEMMA OneTermChanges ==
    ASSUME NEW t, NEW u, NEW k, NEW N \in Nat, NEW w \in 1 .. N,
           \A i \in 1 .. N : Share(t, k, i) \in Nat /\ Share(u, k, i) \in Nat,
           \A i \in 1 .. N : i # w => Share(u, k, i) = Share(t, k, i)
    PROVE  CallsIn(u, k, N) + Share(t, k, w) = CallsIn(t, k, N) + Share(u, k, w)
<1> DEFINE Same(i) ==
        IF i < w THEN CallsIn(u, k, i) = CallsIn(t, k, i)
        ELSE CallsIn(u, k, i) + Share(t, k, w) = CallsIn(t, k, i) + Share(u, k, w)
           T == {i \in 0 .. N : ~Same(i)}
<1>0. T \in SUBSET Nat
  OBVIOUS
<1>1. ASSUME T # {} PROVE FALSE
  <2>1. PICK m \in T : \A n \in T : m <= n
    <3> HIDE DEF T
    <3> QED
      BY <1>0, <1>1, LeastNatural
  <2>2. m # 0
    BY <2>1, CallsInFirst
  <2>3. m - 1 \in 0 .. N /\ m \in 1 .. N /\ Same(m - 1) /\ (m - 1) + 1 = m
    BY <2>1, <2>2
  <2>4. /\ CallsIn(t, k, m) = CallsIn(t, k, m - 1) + Share(t, k, m)
        /\ CallsIn(u, k, m) = CallsIn(u, k, m - 1) + Share(u, k, m)
    BY <2>3, CallsInNext
  <2>5. /\ CallsIn(t, k, m - 1) \in Nat /\ CallsIn(u, k, m - 1) \in Nat
        /\ Share(t, k, m) \in Nat /\ Share(u, k, m) \in Nat
        /\ Share(t, k, w) \in Nat /\ Share(u, k, w) \in Nat
    BY <2>3, CallsInNat
  <2>6. m # w => Share(u, k, m) = Share(t, k, m)
    BY <2>3
  <2>7. Same(m)
    <3>1. CASE m < w
      BY <2>3, <2>4, <2>5, <2>6, <3>1
    <3>2. CASE m = w
      BY <2>3, <2>4, <2>5, <3>2
    <3>3. CASE m > w
      BY <2>3, <2>4, <2>5, <2>6, <3>3
    <3> QED
      BY <2>3, <3>1, <3>2, <3>3
  <2> QED
    BY <2>1, <2>7
<1>2. N \in 0 .. N /\ ~(N < w)
  OBVIOUS
<1> QED
  BY <1>1, <1>2

LEMMA NoTerms ==
    ASSUME NEW t, NEW k, NEW N \in Nat, \A i \in 1 .. N : Share(t, k, i) = 0
    PROVE  CallsIn(t, k, N) = 0
<1> DEFINE T == {i \in 0 .. N : CallsIn(t, k, i) # 0}
<1>0. T \in SUBSET Nat
  OBVIOUS
<1>1. ASSUME T # {} PROVE FALSE
  <2>1. PICK m \in T : \A n \in T : m <= n
    <3> HIDE DEF T
    <3> QED
      BY <1>0, <1>1, LeastNatural
  <2>2. m # 0
    BY <2>1, CallsInFirst
  <2>3. /\ m - 1 \in Nat /\ m \in 1 .. N /\ CallsIn(t, k, m - 1) = 0
        /\ (m - 1) + 1 = m
    BY <2>1, <2>2
  <2>4. CallsIn(t, k, m) = CallsIn(t, k, m - 1) + Share(t, k, m)
    BY <2>3, CallsInNext
  <2> QED
    BY <2>1, <2>3, <2>4
<1> QED
  BY <1>1

\* A part of the topic holds no more calls than the whole.
LEMMA CallsInGrow ==
    ASSUME NEW t \in Seq(Event), NEW k, NEW offset \in 0 .. Len(t)
    PROVE  CallsIn(t, k, offset) <= CallsIn(t, k, Len(t))
<1> DEFINE T == {i \in Nat : /\ offset + i <= Len(t)
                             /\ CallsIn(t, k, offset + i) < CallsIn(t, k, offset)}
<1>0. T \in SUBSET Nat /\ Len(t) \in Nat /\ offset \in Nat
  OBVIOUS
<1>1. ASSUME T # {} PROVE FALSE
  <2>1. PICK m \in T : \A n \in T : m <= n
    <3> HIDE DEF T
    <3> QED
      BY <1>0, <1>1, LeastNatural
  <2>2. CallsIn(t, k, offset) \in Nat
    BY CallsInType
  <2>3. m # 0
    BY <1>0, <2>1, <2>2
  <2>4. /\ m - 1 \in Nat /\ offset + (m - 1) \in 0 .. Len(t)
        /\ (offset + (m - 1)) + 1 = offset + m /\ offset + m \in 1 .. Len(t)
        /\ m - 1 \notin T
    BY <1>0, <2>1, <2>3
  <2>5. CallsIn(t, k, offset + (m - 1)) \in Nat
    BY <2>4, CallsInType
  <2>6. Share(t, k, offset + m) \in Nat
    <3>1. t[offset + m] \in Event
      BY <2>4
    <3> QED
      BY <3>1, CountsAssumption DEF Share, Event
  <2>7. CallsIn(t, k, offset + m) =
            CallsIn(t, k, offset + (m - 1)) + Share(t, k, offset + m)
    BY <2>4, CallsInNext
  <2>8. CallsIn(t, k, offset) <= CallsIn(t, k, offset + (m - 1))
    BY <1>0, <2>2, <2>4, <2>5
  <2>9. CallsIn(t, k, offset + m) < CallsIn(t, k, offset)
    BY <2>1
  <2> QED
    BY <2>2, <2>5, <2>6, <2>7, <2>8, <2>9
<1>2. Len(t) - offset \in Nat /\ offset + (Len(t) - offset) = Len(t)
  BY <1>0
<1>3. Len(t) - offset \notin T
  BY <1>1
<1>4. CallsIn(t, k, offset) \in Nat /\ CallsIn(t, k, Len(t)) \in Nat
  BY <1>0, CallsInType
<1> QED
  BY <1>0, <1>2, <1>3, <1>4

-----------------------------------------------------------------------------
(* From the agent to the graph: the invariant.                             *)

Sent(w, k) == \E m \in published : m.win = w /\ m.key = k

\* The calls of a function that wait with the agent, window after window.
Waiting(k) ==
    [i \in 1 .. MaxWindow + 1 |->
        [key |-> k, n |-> IF Sent(i - 1, k) THEN 0 ELSE tally[i - 1][k]]]

\* The agent's own account, and what it sends fits an event.
LedgerInv ==
    /\ tally \in [0 .. MaxWindow -> [Keys -> Nat]]
    /\ open \in 0 .. MaxWindow
    /\ \A m \in published : m.win \in 0 .. open - 1
    /\ \A w \in 0 .. MaxWindow, k \in Keys : Sent(w, k) => tally[w][k] > 0
    /\ called \in [Keys -> 0 .. MaxCalls]
    /\ \A w \in 0 .. MaxWindow, k \in Keys : tally[w][k] <= called[k]

\* A call the agent counted is in the topic, or waits with the agent.
PathInv ==
    ~repeated =>
        \A k \in Keys :
            CallsIn(topic, k, Len(topic)) + CallsIn(Waiting(k), k, MaxWindow + 1)
                = called[k]

LEMMA InitLedgerInv == PathInit => LedgerInv
BY PathAssumption DEF PathInit, Agent!Init, LedgerInv, Sent

LEMMA NextLedgerInv ==
    LedgerInv /\ [PathNext]_<<vars, agentVars>> => LedgerInv'
<1> SUFFICES ASSUME LedgerInv, [PathNext]_<<vars, agentVars>> PROVE LedgerInv'
  OBVIOUS
<1> USE PathAssumption DEF LedgerInv
<1>1. ASSUME NEW k \in Keys, CallSeen(k) PROVE LedgerInv'
  <2>1. /\ tally' = [tally EXCEPT ![open][k] = @ + 1]
        /\ called' = [called EXCEPT ![k] = @ + 1]
        /\ UNCHANGED <<open, published>> /\ called[k] < MaxCalls
    BY <1>1 DEF CallSeen, Agent!Call
  <2>2. tally' \in [0 .. MaxWindow -> [Keys -> Nat]]
    BY <2>1
  <2>3. called' \in [Keys -> 0 .. MaxCalls]
    BY <2>1
  <2>4. \A w \in 0 .. MaxWindow, l \in Keys : tally'[w][l] <= called'[l]
    <3> TAKE w \in 0 .. MaxWindow, l \in Keys
    <3>1. tally[w][l] \in Nat /\ called[l] \in Nat /\ tally[w][l] <= called[l]
      OBVIOUS
    <3>2. CASE l = k
      <4>1. called'[l] = called[l] + 1
        BY <2>1, <3>2
      <4>2. tally'[w][l] \in {tally[w][l], tally[w][l] + 1}
        BY <2>1, <3>2
      <4> QED
        BY <3>1, <4>1, <4>2
    <3>3. CASE l # k
      BY <2>1, <3>1, <3>3
    <3> QED
      BY <3>2, <3>3
  <2>5. \A w \in 0 .. MaxWindow, l \in Keys : Sent(w, l)' => tally'[w][l] > 0
    <3> TAKE w \in 0 .. MaxWindow, l \in Keys
    <3>1. tally[w][l] \in Nat /\ tally'[w][l] \in {tally[w][l], tally[w][l] + 1}
      BY <2>1
    <3>2. Sent(w, l)' <=> Sent(w, l)
      BY <2>1 DEF Sent
    <3>3. Sent(w, l) => tally[w][l] > 0
      OBVIOUS
    <3> QED
      BY <3>1, <3>2, <3>3
  <2> QED
    BY <2>1, <2>2, <2>3, <2>4, <2>5
<1>2. CASE WindowCloses
  BY <1>2 DEF WindowCloses, Agent!Close, Sent
<1>3. ASSUME NEW w \in 0 .. MaxWindow, NEW k \in Keys, NEW late \in 0 .. Lateness,
             EventArrives(w, k, late)
      PROVE  LedgerInv'
  <2>1. /\ UNCHANGED <<tally, open, called>> /\ w < open /\ tally[w][k] > 0
        /\ published' = published \union
               {[win |-> w, key |-> k, n |-> tally[w][k]]}
    BY <1>3 DEF EventArrives, Agent!Publish
  <2>2. \A v \in 0 .. MaxWindow, l \in Keys :
            Sent(v, l)' => Sent(v, l) \/ (v = w /\ l = k)
    BY <2>1 DEF Sent
  <2> QED
    BY <2>1, <2>2
<1>4. ASSUME NEW w \in 0 .. MaxWindow, NEW k \in Keys, NEW late \in 0 .. Lateness,
             EventArrivesAgain(w, k, late)
      PROVE  LedgerInv'
  BY <1>4 DEF EventArrivesAgain, Sent
<1>5. CASE JoinStep \/ UNCHANGED <<vars, agentVars>>
  BY <1>5 DEF JoinStep, agentVars, Sent
<1> QED
  BY <1>1, <1>2, <1>3, <1>4, <1>5 DEF PathNext

LEMMA TallyIsACount ==
    ASSUME LedgerInv, NEW w \in 0 .. MaxWindow, NEW k \in Keys, tally[w][k] > 0
    PROVE  tally[w][k] \in Counts
<1>1. /\ tally[w][k] \in Nat /\ tally[w][k] <= called[k]
      /\ called[k] \in 0 .. MaxCalls
  BY DEF LedgerInv
<1>2. tally[w][k] \in 1 .. MaxCalls
  BY <1>1, PathAssumption
<1> QED
  BY <1>2, PathAssumption

\* Every step of the path is a step of the join, or none.
LEMMA PathStepsJoin ==
    LedgerInv /\ [PathNext]_<<vars, agentVars>> => [Next]_vars
<1> SUFFICES ASSUME LedgerInv, [PathNext]_<<vars, agentVars>> PROVE [Next]_vars
  OBVIOUS
<1>1. ASSUME NEW w \in 0 .. MaxWindow, NEW k \in Keys, NEW late \in 0 .. Lateness,
             EventArrives(w, k, late)
      PROVE  Next
  <2>1. tally[w][k] \in Counts
    BY <1>1, TallyIsACount DEF EventArrives, Agent!Publish
  <2> QED
    BY <1>1, <2>1 DEF EventArrives, Next, Surroundings
<1>2. ASSUME NEW w \in 0 .. MaxWindow, NEW k \in Keys, NEW late \in 0 .. Lateness,
             EventArrivesAgain(w, k, late)
      PROVE  Next
  <2>1. tally[w][k] > 0
    BY <1>2 DEF EventArrivesAgain, LedgerInv, Sent
  <2>2. tally[w][k] \in Counts
    BY <2>1, TallyIsACount
  <2> QED
    BY <1>2, <2>2 DEF EventArrivesAgain, Next, Surroundings
<1>3. CASE JoinStep
  BY <1>3 DEF JoinStep, Next, Surroundings
<1>4. ASSUME NEW k \in Keys, CallSeen(k) PROVE UNCHANGED vars
  BY <1>4 DEF CallSeen
<1>5. CASE WindowCloses
  BY <1>5 DEF WindowCloses
<1>6. CASE UNCHANGED <<vars, agentVars>>
  BY <1>6
<1> QED
  BY <1>1, <1>2, <1>3, <1>4, <1>5, <1>6 DEF PathNext

LEMMA WaitingShare ==
    ASSUME LedgerInv, NEW k \in Keys, NEW i \in 1 .. MaxWindow + 1
    PROVE  /\ Share(Waiting(k), k, i) =
                  IF Sent(i - 1, k) THEN 0 ELSE tally[i - 1][k]
           /\ Share(Waiting(k), k, i) \in Nat
<1>1. i - 1 \in 0 .. MaxWindow
  BY PathAssumption
<1>2. tally[i - 1][k] \in Nat
  BY <1>1 DEF LedgerInv
<1> QED
  BY <1>2 DEF Waiting, Share

LEMMA InitPathInv == PathInit => PathInv
<1> SUFFICES ASSUME PathInit, NEW k \in Keys
             PROVE  CallsIn(topic, k, Len(topic))
                        + CallsIn(Waiting(k), k, MaxWindow + 1) = called[k]
  BY DEF PathInv
<1>1. Len(topic) = 0 /\ called[k] = 0
  BY DEF PathInit, Init
<1>2. CallsIn(topic, k, Len(topic)) = 0
  BY <1>1, CallsInFirst
<1>3. \A i \in 1 .. MaxWindow + 1 : Share(Waiting(k), k, i) = 0
  <2> TAKE i \in 1 .. MaxWindow + 1
  <2>1. i - 1 \in 0 .. MaxWindow
    BY PathAssumption
  <2>2. tally[i - 1][k] = 0
    BY <2>1 DEF PathInit, Agent!Init
  <2> QED
    BY <2>2, InitLedgerInv, WaitingShare
<1>4. CallsIn(Waiting(k), k, MaxWindow + 1) = 0
  BY <1>3, NoTerms, PathAssumption
<1> QED
  BY <1>1, <1>2, <1>4

LEMMA NextPathInv ==
    /\ TypeInv /\ LedgerInv /\ LedgerInv' /\ PathInv
    /\ [PathNext]_<<vars, agentVars>>
    => PathInv'
<1> SUFFICES ASSUME TypeInv, LedgerInv, LedgerInv', PathInv,
                    [PathNext]_<<vars, agentVars>>, ~repeated', NEW k \in Keys
             PROVE  CallsIn(topic', k, Len(topic'))
                        + CallsIn(Waiting(k)', k, MaxWindow + 1) = called'[k]
  BY DEF PathInv
<1> USE DEF topicVars, graphVars, flushVars, sweepVars, historyVars
<1> DEFINE N == MaxWindow + 1
<1>n. N \in Nat /\ \A w \in 0 .. MaxWindow : w + 1 \in 1 .. N /\ (w + 1) - 1 = w
  BY PathAssumption
<1>t. topic \in Seq(Event) /\ Len(topic) \in Nat
  BY DEF TypeInv, TypeOK
<1>c. CallsIn(topic, k, Len(topic)) \in Nat
  BY <1>t, CallsInType
<1>w. \A i \in 1 .. N : Share(Waiting(k), k, i) \in Nat
  BY WaitingShare
<1>v. \A i \in 1 .. N : /\ Share(Waiting(k)', k, i) \in Nat
                         /\ Share(Waiting(k)', k, i) =
                                IF Sent(i - 1, k)' THEN 0 ELSE tally'[i - 1][k]
  <2> TAKE i \in 1 .. N
  <2>1. i - 1 \in 0 .. MaxWindow
    BY PathAssumption
  <2>2. tally'[i - 1][k] \in Nat
    BY <2>1 DEF LedgerInv
  <2> QED
    BY <2>2 DEF Waiting, Share
<1>s. /\ CallsIn(Waiting(k), k, N) \in Nat
      /\ CallsIn(Waiting(k)', k, N) \in Nat
  <2>1. N \in Nat /\ N \in 0 .. N
    BY <1>n
  <2>2. CallsIn(Waiting(k), k, N) \in Nat
    BY <1>w, <2>1, CallsInNat
  <2>3. \A i \in 1 .. N : Share(Waiting(k)', k, i) \in Nat
    BY <1>v
  <2> DEFINE later == Waiting(k)'
  <2> HIDE DEF later
  <2>4. CallsIn(later, k, N) \in Nat
    BY <2>1, <2>3, CallsInNat DEF later
  <2> QED
    BY <2>2, <2>4 DEF later
<1>i. ~repeated => CallsIn(topic, k, Len(topic)) + CallsIn(Waiting(k), k, N)
                       = called[k]
  BY DEF PathInv
<1> HIDE DEF N
\* Steps that leave the account of this function alone.
<1>q. ASSUME ~repeated, UNCHANGED <<topic, called[k], Waiting(k)>>
      PROVE  CallsIn(topic', k, Len(topic')) + CallsIn(Waiting(k)', k, N)
                 = called'[k]
  BY <1>q, <1>i
<1>1. ASSUME NEW l \in Keys, CallSeen(l)
      PROVE  CallsIn(topic', k, Len(topic')) + CallsIn(Waiting(k)', k, N)
                 = called'[k]
  <2>1. /\ tally' = [tally EXCEPT ![open][l] = @ + 1]
        /\ called' = [called EXCEPT ![l] = @ + 1]
        /\ UNCHANGED <<open, published, repeated, topic>>
    BY <1>1 DEF CallSeen, Agent!Call, vars
  <2>2. CASE l # k
    <3>1. \A w \in 0 .. MaxWindow : tally'[w][k] = tally[w][k]
      BY <2>1, <2>2 DEF LedgerInv
    <3>2. called'[k] = called[k]
      BY <2>1, <2>2 DEF LedgerInv
    <3>3. \A i \in 1 .. N : tally'[i - 1][k] = tally[i - 1][k]
      BY <3>1, PathAssumption DEF N
    <3>4. Waiting(k)' = Waiting(k)
      BY <2>1, <3>3 DEF Waiting, Sent, N
    <3> QED
      BY <1>q, <2>1, <3>2, <3>4
  <2>3. CASE l = k
    <3>1. ~Sent(open, k) /\ open \in 0 .. MaxWindow
      BY DEF Sent, LedgerInv
    <3>2. Share(Waiting(k)', k, open + 1) = Share(Waiting(k), k, open + 1) + 1
      <4>1. /\ Share(Waiting(k), k, open + 1) = tally[open][k]
            /\ Share(Waiting(k)', k, open + 1) = tally'[open][k]
        BY <1>n, <1>v, <2>1, <3>1, WaitingShare DEF Sent, N
      <4>2. tally'[open][k] = tally[open][k] + 1
        BY <2>1, <2>3, <3>1 DEF LedgerInv
      <4> QED
        BY <4>1, <4>2
    <3>3. \A i \in 1 .. N : i # open + 1 =>
              Share(Waiting(k)', k, i) = Share(Waiting(k), k, i)
      <4> SUFFICES ASSUME NEW i \in 1 .. N, i # open + 1
                   PROVE  Share(Waiting(k)', k, i) = Share(Waiting(k), k, i)
        OBVIOUS
      <4>1. i - 1 \in 0 .. MaxWindow /\ i - 1 # open
        BY <3>1, PathAssumption DEF N
      <4>2. tally'[i - 1][k] = tally[i - 1][k]
        BY <2>1, <4>1 DEF LedgerInv
      <4> QED
        BY <1>v, <2>1, <4>2, WaitingShare DEF Sent, N
    <3>4. open + 1 \in 1 .. N
      BY <1>n, <3>1
    <3>5. CallsIn(Waiting(k)', k, N) + Share(Waiting(k), k, open + 1) =
              CallsIn(Waiting(k), k, N) + Share(Waiting(k)', k, open + 1)
      BY <1>n, <1>w, <1>v, <3>3, <3>4, OneTermChanges
    <3>6. CallsIn(Waiting(k)', k, N) = CallsIn(Waiting(k), k, N) + 1
      BY <1>w, <1>s, <3>2, <3>4, <3>5
    <3>7. called'[k] = called[k] + 1 /\ called[k] \in Nat
      BY <2>1, <2>3 DEF LedgerInv
    <3> QED
      BY <1>c, <1>i, <1>s, <2>1, <3>6, <3>7
  <2> QED
    BY <2>2, <2>3
<1>2. CASE WindowCloses
  <2>1. UNCHANGED <<tally, published, called, repeated, topic>>
    BY <1>2 DEF WindowCloses, Agent!Close, vars
  <2> QED
    BY <1>q, <2>1 DEF Waiting, Sent, N
<1>3. ASSUME NEW w \in 0 .. MaxWindow, NEW l \in Keys, NEW late \in 0 .. Lateness,
             EventArrives(w, l, late)
      PROVE  CallsIn(topic', k, Len(topic')) + CallsIn(Waiting(k)', k, N)
                 = called'[k]
  <2> DEFINE e == [key |-> l, n |-> tally[w][l], ts |-> day - late]
  <2>1. /\ UNCHANGED <<tally, open, called, repeated>>
        /\ ~Sent(w, l)
        /\ published' = published \union
               {[win |-> w, key |-> l, n |-> tally[w][l]]}
    BY <1>3 DEF EventArrives, Agent!Publish, Sent
  <2>2. topic' = Append(topic, e)
    BY <1>3 DEF EventArrives, Publish
  <2>3. \A v \in 0 .. MaxWindow :
            Sent(v, k)' <=> Sent(v, k) \/ (v = w /\ k = l)
    <3> DEFINE sent == [win |-> w, key |-> l, n |-> tally[w][l]]
    <3>1. sent.win = w /\ sent.key = l
      OBVIOUS
    <3>2. published' = published \union {sent}
      BY <2>1
    <3> HIDE DEF sent
    <3> QED
      BY <3>1, <3>2, Zenon DEF Sent
  <2>4. Len(topic') = Len(topic) + 1 /\ topic'[Len(topic) + 1] = e
    BY <1>t, <2>2
  <2>5. CallsIn(topic', k, Len(topic')) =
            CallsIn(topic, k, Len(topic)) + Share(topic', k, Len(topic) + 1)
    <3>1. CallsIn(topic', k, Len(topic) + 1) =
              CallsIn(topic', k, Len(topic)) + Share(topic', k, Len(topic) + 1)
      BY <1>t, CallsInNext
    <3>2. CallsIn(Append(topic, e), k, Len(topic)) = CallsIn(topic, k, Len(topic))
      BY <1>t, CallsInAppend
    <3> QED
      BY <2>2, <2>4, <3>1, <3>2
  <2>6. Share(topic', k, Len(topic) + 1) = IF l = k THEN tally[w][l] ELSE 0
    BY <2>4 DEF Share
  <2> HIDE DEF e
  <2>7. CASE l # k
    <3>1. \A i \in 1 .. N : Sent(i - 1, k)' <=> Sent(i - 1, k)
      BY <2>3, <2>7, PathAssumption DEF N
    <3>2. Waiting(k)' = Waiting(k)
      BY <2>1, <3>1 DEF Waiting, N
    <3> QED
      BY <1>c, <1>i, <2>1, <2>5, <2>6, <2>7, <3>2
  <2>8. CASE l = k
    <3>1. w + 1 \in 1 .. N /\ (w + 1) - 1 = w
      BY <1>n
    <3>2. /\ Share(Waiting(k), k, w + 1) = tally[w][k]
          /\ Share(Waiting(k)', k, w + 1) = 0
      BY <1>v, <2>1, <2>3, <2>8, <3>1, WaitingShare DEF N
    <3>3. \A i \in 1 .. N : i # w + 1 =>
              Share(Waiting(k)', k, i) = Share(Waiting(k), k, i)
      <4> SUFFICES ASSUME NEW i \in 1 .. N, i # w + 1
                   PROVE  Share(Waiting(k)', k, i) = Share(Waiting(k), k, i)
        OBVIOUS
      <4>1. i - 1 \in 0 .. MaxWindow /\ i - 1 # w
        BY <3>1, PathAssumption DEF N
      <4>2. Sent(i - 1, k)' <=> Sent(i - 1, k)
        BY <2>3, <4>1
      <4> QED
        BY <1>v, <2>1, <4>2, WaitingShare DEF N
    <3>5. CallsIn(Waiting(k)', k, N) + Share(Waiting(k), k, w + 1) =
              CallsIn(Waiting(k), k, N) + Share(Waiting(k)', k, w + 1)
      BY <1>n, <1>w, <1>v, <3>1, <3>3, OneTermChanges
    <3>6. tally[w][k] \in Nat
      BY DEF LedgerInv
    <3>7. CallsIn(Waiting(k)', k, N) + tally[w][k] = CallsIn(Waiting(k), k, N)
      BY <1>s, <3>2, <3>5, <3>6
    <3> QED
      BY <1>c, <1>i, <1>s, <2>1, <2>5, <2>6, <2>8, <3>6, <3>7
  <2> QED
    BY <2>7, <2>8
<1>4. ASSUME NEW w \in 0 .. MaxWindow, NEW l \in Keys, NEW late \in 0 .. Lateness,
             EventArrivesAgain(w, l, late)
      PROVE  FALSE
  BY <1>4 DEF EventArrivesAgain
<1>5. CASE JoinStep
  <2>1. UNCHANGED <<tally, published, called, repeated>>
    BY <1>5 DEF JoinStep, agentVars
  <2>2. UNCHANGED topic
    BY <1>5 DEF JoinStep, IngestFunction, NextDay, MainThread, Consume,
       AutoCommit, Signal, SignalInTurn, CloseConsumer, CloseWriter, Exit, Crash,
       ProcessEnd, Start, FlushThread, Drain, Upsert, UpsertFails, SweepThread,
       Tombstone, Decay, SweepFails
  <2> QED
    BY <1>q, <2>1, <2>2 DEF Waiting, Sent, N
<1>6. CASE UNCHANGED <<vars, agentVars>>
  BY <1>q, <1>6 DEF vars, agentVars, Waiting, Sent, N
<1> QED
  BY <1>1, <1>2, <1>3, <1>4, <1>5, <1>6 DEF PathNext, N

-----------------------------------------------------------------------------
(* From the agent to the graph: the theorems.                              *)

\* The agent and the topic it writes to are surroundings the join was proved
\* correct in: every theorem above holds of the composition.
THEOREM PathImplementsJoin == PathSpec => Spec /\ []LedgerInv
<1>1. PathInit => Init
  BY DEF PathInit
<1> QED
  BY <1>1, InitLedgerInv, NextLedgerInv, PathStepsJoin, PTL DEF PathSpec, Spec

\* The agent of the composition is the one the ledger promises, which the
\* agent's own threads implement.
THEOREM PathImplementsLedger == PathSpec => Agent!Spec
<1>1. PathInit => Agent!Init
  BY DEF PathInit
<1>2. [PathNext]_<<vars, agentVars>> => [Agent!Next]_Agent!ledgerVars
  <2> SUFFICES ASSUME [PathNext]_<<vars, agentVars>>
               PROVE  Agent!Next \/ UNCHANGED <<tally, open, published>>
    BY DEF Agent!ledgerVars
  <2>1. ASSUME NEW k \in Keys, CallSeen(k) PROVE Agent!Next
    BY <2>1 DEF CallSeen, Agent!Next
  <2>2. CASE WindowCloses
    BY <2>2 DEF WindowCloses, Agent!Next
  <2>3. ASSUME NEW w \in 0 .. MaxWindow, NEW k \in Keys,
               NEW late \in 0 .. Lateness, EventArrives(w, k, late)
        PROVE  Agent!Next
    BY <2>3 DEF EventArrives, Agent!Next
  <2>4. ASSUME NEW w \in 0 .. MaxWindow, NEW k \in Keys,
               NEW late \in 0 .. Lateness, EventArrivesAgain(w, k, late)
        PROVE  UNCHANGED <<tally, open, published>>
    BY <2>4 DEF EventArrivesAgain
  <2>5. CASE JoinStep \/ UNCHANGED <<vars, agentVars>>
    BY <2>5 DEF JoinStep, agentVars
  <2> QED
    BY <2>1, <2>2, <2>3, <2>4, <2>5 DEF PathNext
<1> QED
  BY <1>1, <1>2, PTL DEF PathSpec, Agent!Spec

\* From end to end, whatever the agent loses, the broker delays, the join
\* crashes over and Neo4j refuses: unless an event was appended twice or taken
\* twice, the graph shows no more calls of a function than the agent counted.
THEOREM EdgesStayWithinCalls == PathSpec => []EdgesWithinCalls
<1>1. TypeInv /\ LedgerInv /\ LedgerInv' /\ PathInv
      /\ [PathNext]_<<vars, agentVars>> => PathInv'
  BY NextPathInv
<1>2. AccountInv => TypeInv
  BY DEF AccountInv
<1>3. AccountInv /\ ReplayInv /\ LedgerInv /\ PathInv => EdgesWithinCalls
  <2> SUFFICES ASSUME AccountInv, ReplayInv, LedgerInv, PathInv,
                      ~replayed, ~repeated, NEW f \in Nodes
               PROVE  edges[f].c7 <= called[KeyOf[f]]
    BY DEF EdgesWithinCalls
  <2> DEFINE k == KeyOf[f]
             part == CallsIn(topic, k, position)
             whole == CallsIn(topic, k, Len(topic))
             waiting == CallsIn(Waiting(k), k, MaxWindow + 1)
  <2>1. k \in Keys /\ edges[f].c7 \in Nat /\ taken[k] \in Nat
    BY CountTypes DEF AccountInv
  <2>2. topic \in Seq(Event) /\ position \in 0 .. Len(topic)
    BY DEF AccountInv, TypeInv, TypeOK
  <2>3. part \in Nat /\ whole \in Nat /\ part <= whole
    BY <2>2, CallsInType, CallsInGrow
  <2>4. waiting \in Nat
    <3>1. \A i \in 1 .. MaxWindow + 1 : Share(Waiting(k), k, i) \in Nat
      BY <2>1, WaitingShare
    <3>2. MaxWindow + 1 \in Nat
      BY PathAssumption
    <3>3. MaxWindow + 1 \in 0 .. MaxWindow + 1
      BY <3>2
    <3> QED
      BY <3>1, <3>2, <3>3, CallsInNat
  <2>5. whole + waiting = called[k]
    BY <2>1 DEF PathInv
  <2>6. taken[k] <= part
    BY <2>1 DEF ReplayInv
  <2>7. edges[f].c7 <= taken[k]
    BY EdgesWithinTaken
  <2> HIDE DEF part, whole, waiting
  <2>8. edges[f].c7 <= called[k]
    BY <2>1, <2>3, <2>4, <2>5, <2>6, <2>7
  <2> QED
    BY <2>8
<1> QED
  BY PathImplementsJoin, ReplayInvariance, InitPathInv, <1>1, <1>2, <1>3, PTL
     DEF PathSpec
=============================================================================
