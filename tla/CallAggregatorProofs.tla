------------------------ MODULE CallAggregatorProofs ------------------------
(***************************************************************************)
(* The safety of CallAggregator for every set of functions and every       *)
(* bound: type correctness, the exactness of messages, the accounting of   *)
(* closed windows, and the implementation of CallLedger.                   *)
(***************************************************************************)
EXTENDS CallAggregator, TLAPS

\* Nobody flushes or increments without the token, so the bucket Record holds
\* is always one of the open window.
MutexInv ==
    /\ mainPc = "increment" => mu = "main" /\ mainWindow = window
    /\ flushPc = "swap" => mu = "flush"

\* What has left the open window belongs to an earlier one.
ClosedInv ==
    /\ flushPc = "emit" => snapWindow < window
    /\ flushPc = "emit" => \A k \in pending : count[snapWindow][k] > 0
    /\ \A m \in Sent : m.n > 0
    /\ \A x \in failed : x[1] < window
    /\ queue \intersect topic = {}

\* The inductive invariant.
IInv ==
    /\ TypeOK
    /\ MutexInv
    /\ ClosedInv
    /\ MessageExact
    /\ ClosedWindowAccounted
    /\ SinglePlace

LEMMA InitTypeOK == Init => TypeOK
<1> SUFFICES ASSUME Init PROVE TypeOK
  OBVIOUS
<1>1. 0 \in Windows
  BY WindowAssumption DEF Windows
<1>2. count \in [Windows -> [Keys -> Nat]]
  BY DEF Init
<1>3. /\ queue \subseteq Message
      /\ topic \subseteq Message
      /\ failed \subseteq Windows \X Keys
      /\ pending \subseteq Keys
  BY DEF Init
<1> QED
  BY <1>1, <1>2, <1>3 DEF Init, TypeOK

\* Every variable keeps its type.
LEMMA NextTypeOK == TypeOK /\ [Next]_vars => TypeOK'
<1> SUFFICES ASSUME TypeOK, [Next]_vars PROVE TypeOK'
  OBVIOUS
<1> USE WindowAssumption DEF TypeOK, Windows, aggregatorVars, mainVars,
        flushVars, writerVars
<1>1. CASE CheckContext
  BY <1>1 DEF CheckContext
<1>2. CASE SkipSample
  BY <1>2 DEF SkipSample
<1>3. ASSUME NEW k \in Keys, ReadSample(k) PROVE TypeOK'
  BY <1>3 DEF ReadSample
<1>4. CASE RecordLookup
  BY <1>4 DEF RecordLookup
<1>5. CASE RecordIncrement
  BY <1>5 DEF RecordIncrement
<1>6. CASE CloseWriter
  BY <1>6 DEF CloseWriter
<1>7. CASE Exit
  BY <1>7 DEF Exit
<1>8. CASE Tick
  BY <1>8 DEF Tick
<1>9. CASE FinalFlush
  BY <1>9 DEF FinalFlush
<1>10. CASE FlushLock
  BY <1>10 DEF FlushLock
<1>11. CASE FlushSwap
  BY <1>11 DEF FlushSwap
<1>12. CASE FlushSwapEmpty
  BY <1>12 DEF FlushSwapEmpty, AfterFlush
<1>13. ASSUME NEW k \in Keys, EmitAccepted(k) PROVE TypeOK'
  <2>1. MessageOf(k) \in Message
    BY DEF MessageOf, Message
  <2> QED
    BY <1>13, <2>1 DEF EmitAccepted
<1>14. ASSUME NEW k \in Keys, EmitFailed(k) PROVE TypeOK'
  BY <1>14 DEF EmitFailed
<1>15. CASE FlushReturn
  BY <1>15 DEF FlushReturn, AfterFlush
<1>16. ASSUME NEW m \in queue, Deliver(m) PROVE TypeOK'
  BY <1>16 DEF Deliver
<1>17. ASSUME NEW m \in queue, GiveUp(m) PROVE TypeOK'
  <2>1. m \in Message
    OBVIOUS
  <2>2. <<m.win, m.key>> \in Windows \X Keys
    BY ONLY <2>1 DEF Message
  <2>3. failed' \subseteq Windows \X Keys
    BY ONLY <1>17, <2>2, TypeOK DEF GiveUp, TypeOK
  <2>4. queue' \subseteq Message
    BY ONLY <1>17, TypeOK DEF GiveUp, TypeOK
  <2> QED
    BY ONLY <1>17, <2>3, <2>4, TypeOK
       DEF GiveUp, TypeOK, aggregatorVars, mainVars, flushVars
<1>18. CASE Signal
  BY <1>18 DEF Signal
<1>19. CASE Kill
  <2>1. \A m \in queue : <<m.win, m.key>> \in Windows \X Keys
    BY ONLY TypeOK DEF TypeOK, Message
  <2>2. failed' \subseteq Windows \X Keys
    BY ONLY <1>19, <2>1, TypeOK DEF Kill, TypeOK
  <2> QED
    BY ONLY <1>19, <2>2, TypeOK
       DEF Kill, TypeOK, aggregatorVars, flushVars
<1>20. CASE UNCHANGED vars
  BY <1>20 DEF vars
<1> QED
  BY <1>1, <1>2, <1>3, <1>4, <1>5, <1>6, <1>7, <1>8, <1>9, <1>10, <1>11,
     <1>12, <1>13, <1>14, <1>15, <1>16, <1>17, <1>18, <1>19, <1>20
     DEF Next, EventLoop, FlushLoop, Environment

\* The variables keep their types: counts never become negative, and every
\* window, message and failure is one of the agent's windows and functions.
THEOREM TypeCorrect == Spec => []TypeOK
BY InitTypeOK, NextTypeOK, PTL DEF Spec

-----------------------------------------------------------------------------
LEMMA InitIInv == Init => IInv
<1> SUFFICES ASSUME Init PROVE IInv
  OBVIOUS
<1>1. TypeOK
  BY InitTypeOK
<1>2. MutexInv /\ ClosedInv
  BY DEF Init, MutexInv, ClosedInv, Sent
<1>3. MessageExact
  BY DEF Init, MessageExact, Sent
<1>4. ClosedWindowAccounted
  BY DEF Init, ClosedWindowAccounted, Windows
<1>5. SinglePlace
  BY DEF Init, SinglePlace, MessagesFor, Sent
<1> QED
  BY <1>1, <1>2, <1>3, <1>4, <1>5 DEF IInv

\* Messages of one window and function are one message.
LEMMA MessageUnique ==
    ASSUME TypeOK, MessageExact,
           NEW m1 \in Sent, NEW m2 \in Sent,
           m1.win = m2.win, m1.key = m2.key
    PROVE  m1 = m2
<1>1. m1 \in Message /\ m2 \in Message
  BY DEF TypeOK, Sent
<1>2. m1.n = m2.n
  BY DEF MessageExact
<1> QED
  BY <1>1, <1>2 DEF Message

LEMMA NextMutexInv == IInv /\ [Next]_vars => MutexInv'
<1> SUFFICES ASSUME IInv, [Next]_vars PROVE MutexInv'
  OBVIOUS
<1> USE NobodyAssumption DEF IInv, MutexInv, aggregatorVars, mainVars,
        flushVars, writerVars, AfterFlush
<1>1. CASE EventLoop
  BY <1>1 DEF EventLoop, CheckContext, SkipSample, ReadSample, RecordLookup,
     RecordIncrement, CloseWriter, Exit
<1>2. CASE FlushLoop
  BY <1>2 DEF FlushLoop, Tick, FinalFlush, FlushLock, FlushSwap,
     FlushSwapEmpty, EmitAccepted, EmitFailed, FlushReturn
<1>3. CASE Environment
  BY <1>3 DEF Environment, Deliver, GiveUp, Signal, Kill
<1>4. CASE UNCHANGED vars
  BY <1>4 DEF vars
<1> QED
  BY <1>1, <1>2, <1>3, <1>4 DEF Next

LedgerInv == ClosedInv /\ MessageExact /\ ClosedWindowAccounted /\ SinglePlace

\* A call is added to the open window, which no message describes yet.
LEMMA IncrementLedgerInv ==
    ASSUME IInv, RecordIncrement PROVE LedgerInv'
<1> USE DEF RecordIncrement, IInv, flushVars, writerVars
<1>1. mainWindow = window /\ flushPc # "swap"
  BY NobodyAssumption DEF MutexInv
<1>2. \A w \in Windows, k \in Keys :
          /\ count'[w][k] >= count[w][k]
          /\ w # window => count'[w][k] = count[w][k]
  BY <1>1 DEF TypeOK
<1>3. Sent' = Sent /\ \A w, k : MessagesFor(w, k)' = MessagesFor(w, k)
  BY DEF Sent, MessagesFor
<1>4. \A m \in Sent : m.win \in Windows /\ m.key \in Keys
  BY DEF Sent, TypeOK, Message
<1>5. MessageExact'
  <2> SUFFICES ASSUME NEW m \in Sent PROVE m.win < window /\ m.n = count'[m.win][m.key]
    BY <1>3 DEF MessageExact
  <2>1. m.win < window /\ m.n = count[m.win][m.key] /\ m.win # window
    BY <1>4 DEF MessageExact, TypeOK, Windows
  <2> QED
    BY <2>1, <1>2, <1>4
<1>6. ClosedInv'
  <2>1. flushPc = "emit" => \A k \in pending : count'[snapWindow][k] > 0
    <3> SUFFICES ASSUME flushPc = "emit", NEW k \in pending
                 PROVE  count'[snapWindow][k] > 0
      OBVIOUS
    <3>1. k \in Keys /\ snapWindow \in Windows /\ snapWindow # window
      BY DEF TypeOK, ClosedInv, Windows
    <3> QED
      BY <3>1, <1>2 DEF ClosedInv
  <2> QED
    BY <2>1, <1>3 DEF ClosedInv
<1>7. ClosedWindowAccounted'
  <2> SUFFICES ASSUME NEW w \in Windows, NEW k \in Keys,
                      w < window, count'[w][k] > 0
               PROVE  \/ flushPc = "emit" /\ w = snapWindow /\ k \in pending
                      \/ MessagesFor(w, k) # {}
                      \/ <<w, k>> \in failed
    BY <1>3 DEF ClosedWindowAccounted
  <2>1. w # window
    BY DEF TypeOK, Windows
  <2> QED
    BY <2>1, <1>2 DEF ClosedWindowAccounted
<1>8. SinglePlace'
  BY <1>3 DEF SinglePlace
<1> QED
  BY <1>5, <1>6, <1>7, <1>8 DEF LedgerInv

\* The swap closes the window: its functions become pending, and nothing of
\* a window that was still open can have been sent or given up.
LEMMA SwapLedgerInv ==
    ASSUME IInv, FlushSwap PROVE LedgerInv'
<1> USE DEF FlushSwap, IInv, mainVars, writerVars
<1>0. window \in Nat /\ Windows \subseteq Nat /\ window' = window + 1
  BY WindowAssumption DEF TypeOK, Windows
<1>1. Sent' = Sent /\ \A w, k : MessagesFor(w, k)' = MessagesFor(w, k)
  BY DEF Sent, MessagesFor
<1>2. \A m \in Sent : m.win < window /\ m.win \in Windows
  BY DEF MessageExact, TypeOK, Sent, Message
<1>3. \A x \in failed : x[1] < window /\ x[1] \in Windows
  BY DEF ClosedInv, TypeOK
<1>4. MessageExact'
  <2>1. ASSUME NEW m \in Sent PROVE m.win < window'
    <3>1. m.win < window /\ m.win \in Nat
      BY <1>0, <1>2
    <3> QED
      BY <1>0, <3>1
  <2> QED
    BY <1>1, <2>1 DEF MessageExact
<1>5. ClosedInv'
  <2>1. ASSUME NEW x \in failed PROVE x[1] < window'
    <3>1. x[1] < window /\ x[1] \in Nat
      BY <1>0, <1>3
    <3> QED
      BY <1>0, <3>1
  <2>2. snapWindow' < window'
    BY <1>0
  <2> QED
    BY <1>1, <2>1, <2>2 DEF ClosedInv
<1>6. ClosedWindowAccounted'
  <2> SUFFICES ASSUME NEW w \in Windows, NEW k \in Keys,
                      w < window', count[w][k] > 0
               PROVE  \/ w = window /\ k \in pending'
                      \/ MessagesFor(w, k) # {}
                      \/ <<w, k>> \in failed
    BY <1>1 DEF ClosedWindowAccounted
  <2>1. CASE w = window
    BY <2>1
  <2>2. CASE w < window
    BY <2>2 DEF ClosedWindowAccounted
  <2> QED
    BY <1>0, <2>1, <2>2
<1>7. SinglePlace'
  <2>1. \A k : MessagesFor(window, k) = {} /\ <<window, k>> \notin failed
    BY <1>0, <1>2, <1>3 DEF MessagesFor
  <2> QED
    BY <2>1, <1>1 DEF SinglePlace
<1> QED
  BY <1>4, <1>5, <1>6, <1>7 DEF LedgerInv

\* A message is built from a bucket nobody adds to any more.
LEMMA EmitAcceptedLedgerInv ==
    ASSUME IInv, NEW k \in Keys, EmitAccepted(k) PROVE LedgerInv'
<1> USE DEF EmitAccepted, IInv, aggregatorVars, mainVars
<1> DEFINE m0 == MessageOf(k)
<1>1. /\ m0.win = snapWindow /\ m0.key = k /\ m0.n = count[snapWindow][k]
      /\ snapWindow < window /\ m0.n > 0
  BY DEF MessageOf, ClosedInv
<1>2. MessagesFor(snapWindow, k) = {} /\ <<snapWindow, k>> \notin failed
  BY DEF SinglePlace, TypeOK
<1>3. Sent' = Sent \union {m0}
  BY DEF Sent
<1>4. m0 \notin Sent
  BY <1>1, <1>2 DEF MessagesFor
<1>5. \A w, j : w # snapWindow \/ j # k => MessagesFor(w, j)' = MessagesFor(w, j)
  BY <1>1, <1>3 DEF MessagesFor
<1>6. m0 \in MessagesFor(snapWindow, k)'
  BY <1>1, <1>3 DEF MessagesFor
<1> HIDE DEF m0
<1>7. MessageExact'
  BY <1>1, <1>3 DEF MessageExact
<1>8. ClosedInv'
  <2>1. \A m \in Sent' : m.n > 0
    BY <1>1, <1>3 DEF ClosedInv
  <2>2. queue' \intersect topic' = {}
    BY <1>4 DEF ClosedInv, Sent, m0
  <2> QED
    BY <2>1, <2>2 DEF ClosedInv
<1>9. ClosedWindowAccounted'
  <2> SUFFICES ASSUME NEW w \in Windows, NEW j \in Keys, w < window, count[w][j] > 0
               PROVE  \/ w = snapWindow /\ j \in pending'
                      \/ MessagesFor(w, j)' # {}
                      \/ <<w, j>> \in failed
    BY DEF ClosedWindowAccounted
  <2>1. CASE w = snapWindow /\ j = k
    BY <2>1, <1>6
  <2>2. CASE w # snapWindow \/ j # k
    <3>1. MessagesFor(w, j)' = MessagesFor(w, j)
      BY <2>2, <1>5, Zenon
    <3>2. \/ w = snapWindow /\ j \in pending
          \/ MessagesFor(w, j) # {}
          \/ <<w, j>> \in failed
      BY DEF ClosedWindowAccounted
    <3> QED
      BY <2>2, <3>1, <3>2
  <2> QED
    BY <2>1, <2>2
<1>10. SinglePlace'
  <2> SUFFICES ASSUME NEW w \in Windows, NEW j \in Keys
               PROVE  /\ ~(MessagesFor(w, j)' # {} /\ <<w, j>> \in failed)
                      /\ w = snapWindow /\ j \in pending' =>
                             MessagesFor(w, j)' = {} /\ <<w, j>> \notin failed
    BY DEF SinglePlace
  <2>1. CASE w = snapWindow /\ j = k
    BY <2>1, <1>2
  <2>2. CASE w # snapWindow \/ j # k
    BY <2>2, <1>5 DEF SinglePlace
  <2> QED
    BY <2>1, <2>2
<1> QED
  BY <1>7, <1>8, <1>9, <1>10 DEF LedgerInv

\* A failed Emit moves the function from pending to failed.
LEMMA EmitFailedLedgerInv ==
    ASSUME IInv, NEW k \in Keys, EmitFailed(k) PROVE LedgerInv'
<1> USE DEF EmitFailed, IInv, aggregatorVars, mainVars
<1>1. Sent' = Sent /\ \A w, j : MessagesFor(w, j)' = MessagesFor(w, j)
  BY DEF Sent, MessagesFor
<1>2. MessagesFor(snapWindow, k) = {}
  BY DEF SinglePlace, TypeOK
<1>3. MessageExact'
  BY <1>1 DEF MessageExact
<1>4. ClosedInv'
  BY <1>1 DEF ClosedInv
<1>5. ClosedWindowAccounted'
  BY <1>1 DEF ClosedWindowAccounted
<1>6. SinglePlace'
  BY <1>1, <1>2 DEF SinglePlace
<1> QED
  BY <1>3, <1>4, <1>5, <1>6 DEF LedgerInv

\* The acknowledgement of a message moves it from the queue to the topic.
LEMMA DeliverLedgerInv ==
    ASSUME IInv, NEW m \in queue, Deliver(m) PROVE LedgerInv'
<1> USE DEF Deliver, IInv, aggregatorVars, mainVars, flushVars
<1>1. Sent' = Sent
  BY DEF Sent
<1>2. \A w, j : MessagesFor(w, j)' = MessagesFor(w, j)
  BY <1>1 DEF MessagesFor
<1>3. MessageExact' /\ ClosedInv'
  BY <1>1 DEF MessageExact, ClosedInv
<1>4. ClosedWindowAccounted' /\ SinglePlace'
  BY <1>2 DEF ClosedWindowAccounted, SinglePlace
<1> QED
  BY <1>3, <1>4 DEF LedgerInv

\* Messages dropped from the queue, one of GiveUp or all of Kill, become
\* failures of their windows; they are the only messages of those.
LEMMA DropLedgerInv ==
    ASSUME IInv, NEW D \in SUBSET queue,
           queue' = queue \ D,
           failed' = failed \union {<<m.win, m.key>> : m \in D},
           UNCHANGED <<count, window, flushPc, snapWindow, pending, topic>>
    PROVE  LedgerInv'
<1> USE DEF IInv
<1>1. Sent' = Sent \ D
  BY DEF Sent, ClosedInv
<1>2. \A m \in Sent : m.win \in Windows /\ m.key \in Keys /\ m.win < window
  BY DEF TypeOK, Sent, Message, MessageExact
<1>3. \A d \in D : MessagesFor(d.win, d.key)' = {}
  <2> SUFFICES ASSUME NEW d \in D, NEW m \in Sent', m.win = d.win, m.key = d.key
               PROVE  FALSE
    BY DEF MessagesFor
  <2> QED
    BY <1>1, MessageUnique DEF Sent
<1>4. \A w, j : \/ \E d \in D : w = d.win /\ j = d.key
               \/ MessagesFor(w, j)' = MessagesFor(w, j)
  BY <1>1 DEF MessagesFor
<1>5. \A d \in D : d \in MessagesFor(d.win, d.key)
  BY DEF MessagesFor, Sent
<1>6. MessageExact'
  BY <1>1 DEF MessageExact
<1>7. ClosedInv'
  <2>1. \A x \in failed' : x[1] < window'
    BY <1>2 DEF ClosedInv, Sent
  <2> QED
    BY <1>1, <2>1 DEF ClosedInv
<1>8. ClosedWindowAccounted'
  BY <1>4 DEF ClosedWindowAccounted
<1>9. SinglePlace'
  <2> SUFFICES ASSUME NEW w \in Windows, NEW j \in Keys
               PROVE  /\ ~(MessagesFor(w, j)' # {} /\ <<w, j>> \in failed')
                      /\ flushPc = "emit" /\ w = snapWindow /\ j \in pending =>
                             MessagesFor(w, j)' = {} /\ <<w, j>> \notin failed'
    BY DEF SinglePlace
  <2>1. CASE \E d \in D : w = d.win /\ j = d.key
    BY <2>1, <1>3, <1>5 DEF SinglePlace
  <2>2. CASE ~ \E d \in D : w = d.win /\ j = d.key
    BY <2>2, <1>4 DEF SinglePlace
  <2> QED
    BY <2>1, <2>2
<1> QED
  BY <1>6, <1>7, <1>8, <1>9 DEF LedgerInv

\* The range loop is over, and the flush goroutine is in no hurry to emit.
LEMMA FlushPcLedgerInv ==
    ASSUME IInv, UNCHANGED <<count, window, snapWindow, pending, queue, topic, failed>>,
           \/ flushPc' = flushPc
           \/ flushPc' # "emit" /\ (flushPc = "emit" => pending = {})
    PROVE  LedgerInv'
<1> USE DEF IInv
<1>1. Sent' = Sent /\ \A w, j : MessagesFor(w, j)' = MessagesFor(w, j)
  BY DEF Sent, MessagesFor
<1>2. MessageExact' /\ ClosedInv'
  BY <1>1 DEF MessageExact, ClosedInv
<1>3. ClosedWindowAccounted' /\ SinglePlace'
  BY <1>1 DEF ClosedWindowAccounted, SinglePlace
<1> QED
  BY <1>2, <1>3 DEF LedgerInv

LEMMA NextLedgerInv == IInv /\ [Next]_vars => LedgerInv'
<1> SUFFICES ASSUME IInv, [Next]_vars PROVE LedgerInv'
  OBVIOUS
<1> USE DEF aggregatorVars, mainVars, flushVars, writerVars
<1>1. CASE RecordIncrement
  BY <1>1, IncrementLedgerInv
<1>2. CASE \/ CheckContext \/ SkipSample \/ RecordLookup \/ CloseWriter \/ Exit
           \/ \E k \in Keys : ReadSample(k)
  BY <1>2, FlushPcLedgerInv
     DEF CheckContext, SkipSample, RecordLookup, CloseWriter, Exit, ReadSample
<1>3. CASE Tick \/ FinalFlush \/ FlushLock \/ FlushSwapEmpty \/ FlushReturn
  BY <1>3, FlushPcLedgerInv
     DEF Tick, FinalFlush, FlushLock, FlushSwapEmpty, FlushReturn, AfterFlush
<1>4. CASE FlushSwap
  BY <1>4, SwapLedgerInv
<1>5. CASE \E k \in Keys : EmitAccepted(k) \/ EmitFailed(k)
  BY <1>5, EmitAcceptedLedgerInv, EmitFailedLedgerInv
<1>6. ASSUME NEW m \in queue, Deliver(m) PROVE LedgerInv'
  BY <1>6, DeliverLedgerInv
<1>7. ASSUME NEW m \in queue, GiveUp(m) PROVE LedgerInv'
  <2>1. failed' = failed \union {<<d.win, d.key>> : d \in {m}}
    BY <1>7 DEF GiveUp
  <2> QED
    BY <1>7, <2>1, DropLedgerInv DEF GiveUp
<1>8. CASE Signal \/ UNCHANGED vars
  BY <1>8, FlushPcLedgerInv DEF Signal, vars
<1>9. CASE Kill
  <2>1. queue' = queue \ queue
    BY <1>9 DEF Kill
  <2> QED
    BY <1>9, <2>1, DropLedgerInv DEF Kill
<1> QED
  BY <1>1, <1>2, <1>3, <1>4, <1>5, <1>6, <1>7, <1>8, <1>9
     DEF Next, EventLoop, FlushLoop, Environment

\* IInv is inductive.
THEOREM Invariance == Spec => []IInv
<1>1. IInv /\ [Next]_vars => IInv'
  BY NextTypeOK, NextMutexInv, NextLedgerInv DEF IInv, LedgerInv
<1> QED
  BY InitIInv, <1>1, PTL DEF Spec

\* A published count is exactly what its window counted: no call recorded
\* concurrently with the flush is added to a bucket that was already read.
THEOREM MessagesAreExact == Spec => []MessageExact
<1>1. IInv => MessageExact
  BY DEF IInv
<1> QED
  BY Invariance, <1>1, PTL

\* The swap and the range loop lose no bucket: what a closed window counted
\* is pending, sent, or given up at a place where the code logs an error.
THEOREM ClosedWindowsAreAccounted == Spec => []ClosedWindowAccounted
<1>1. IInv => ClosedWindowAccounted
  BY DEF IInv
<1> QED
  BY Invariance, <1>1, PTL

\* No function of a window is in two of those places.
THEOREM FunctionsHaveOnePlace == Spec => []SinglePlace
<1>1. IInv => SinglePlace
  BY DEF IInv
<1> QED
  BY Invariance, <1>1, PTL

-----------------------------------------------------------------------------
(* The refinement.                                                         *)

LEMMA InitLedger == Init => Ledger!Init
BY DEF Init, Ledger!Init, Windows

LEMMA NextLedger == IInv /\ [Next]_vars => [Ledger!Next]_Ledger!ledgerVars
<1> SUFFICES ASSUME IInv, [Next]_vars PROVE [Ledger!Next]_Ledger!ledgerVars
  OBVIOUS
<1> USE DEF aggregatorVars, mainVars, flushVars, writerVars, Ledger!ledgerVars
<1>1. CASE RecordIncrement
  <2>1. Ledger!Call(mainKey)
    BY <1>1 DEF RecordIncrement, Ledger!Call, IInv, MutexInv
  <2> QED
    BY <2>1 DEF Ledger!Next, IInv, TypeOK
<1>2. CASE FlushSwap
  BY <1>2 DEF FlushSwap, Ledger!Close, Ledger!Next
<1>3. ASSUME NEW m \in queue, Deliver(m) PROVE [Ledger!Next]_Ledger!ledgerVars
  <2>1. /\ m \in Message /\ m.win < window /\ m.n = count[m.win][m.key]
        /\ m.n > 0 /\ m \notin topic
    BY DEF IInv, TypeOK, ClosedInv, MessageExact, Sent
  <2>2. m = [win |-> m.win, key |-> m.key, n |-> count[m.win][m.key]]
    BY <2>1 DEF Message
  <2>3. \A t \in topic : ~(t.win = m.win /\ t.key = m.key)
    BY <2>1, MessageUnique DEF IInv, Sent
  <2>4. Ledger!Publish(m.win, m.key)
    BY <1>3, <2>1, <2>2, <2>3 DEF Deliver, Ledger!Publish
  <2> QED
    BY <2>1, <2>4 DEF Ledger!Next, Message, Windows
<1>4. CASE \/ CheckContext \/ SkipSample \/ RecordLookup \/ CloseWriter \/ Exit
           \/ \E k \in Keys : ReadSample(k)
  BY <1>4 DEF CheckContext, SkipSample, RecordLookup, CloseWriter, Exit, ReadSample
<1>5. CASE \/ Tick \/ FinalFlush \/ FlushLock \/ FlushSwapEmpty \/ FlushReturn
           \/ \E k \in Keys : EmitAccepted(k) \/ EmitFailed(k)
  BY <1>5 DEF Tick, FinalFlush, FlushLock, FlushSwapEmpty, FlushReturn,
     EmitAccepted, EmitFailed
<1>6. CASE Signal \/ Kill \/ \E m \in queue : GiveUp(m)
  BY <1>6 DEF Signal, Kill, GiveUp
<1>7. CASE UNCHANGED vars
  BY <1>7 DEF vars
<1> QED
  BY <1>1, <1>2, <1>3, <1>4, <1>5, <1>6, <1>7
     DEF Next, EventLoop, FlushLoop, Environment

\* The agent publishes each function of a closed window at most once, with
\* the exact count, and adds calls to the open window only.
THEOREM AgentImplementsLedger == Spec => ImplementsLedger
BY Invariance, InitLedger, NextLedger, PTL DEF Spec, ImplementsLedger, Ledger!Spec
=============================================================================
