--------------------------- MODULE CallAggregator ---------------------------
(***************************************************************************)
(* The Go runtime agent (runtime_agent/): the event loop of main() records *)
(* function calls in a CallAggregator, the goroutine RunFlushLoop swaps    *)
(* the map of counts every 60 seconds and hands one message per function   *)
(* to an asynchronous kafka-go writer, and a signal starts the shutdown    *)
(* of both.                                                                *)
(*                                                                         *)
(* Every make(map) of the code is one window here: `window' is the one     *)
(* a.counts points to, and count[w][k] is the bucket of k in the map of    *)
(* window w, zero when the map has none.                                   *)
(***************************************************************************)
EXTENDS Integers

CONSTANTS
    Keys,        \* callKey values: service, symbol, file and line
    MaxWindow,   \* bound: number of maps created after the first
    MaxCount,    \* bound: calls of one function within one window
    Nobody       \* the mutex token is in the channel

ASSUME WindowAssumption == MaxWindow \in Nat
ASSUME CountAssumption == MaxCount \in Nat
ASSUME NobodyAssumption == Nobody \notin {"main", "flush"}

VARIABLES
    count,      \* calls held by the bucket of each window and key
    window,     \* the window a.counts points to
    mu,         \* who took the token of the channel mutex
    mainPc,     \* where the event loop is
    mainKey,    \* the key Record was called with
    mainWindow, \* the window of the bucket Record looked up
    flushPc,    \* where the flush goroutine is
    final,      \* whether the running Flush is the one of ctx.Done
    snapWindow, \* the window of the local variable `snapshot'
    pending,    \* keys of the snapshot the range loop has not reached
    ctxDone,    \* a signal cancelled the context
    writer,     \* "open", or "closed" once Close was called
    queue,      \* messages the asynchronous writer has accepted
    topic,      \* messages the broker has
    failed      \* history: <<window, key>> whose message was given up

aggregatorVars == <<count, window, mu>>
mainVars       == <<mainPc, mainKey, mainWindow>>
flushVars      == <<flushPc, final, snapWindow, pending>>
writerVars     == <<writer, queue, topic, failed>>
vars == <<aggregatorVars, mainVars, flushVars, ctxDone, writerVars>>

Windows == 0 .. MaxWindow
Message == [win : Windows, key : Keys, n : Nat]

Init ==
    /\ count = [w \in Windows |-> [k \in Keys |-> 0]]
    /\ window = 0
    /\ mu = Nobody
    /\ mainPc = "select"
    /\ mainKey \in Keys
    /\ mainWindow = 0
    /\ flushPc = "wait"
    /\ final = FALSE
    /\ snapWindow = 0
    /\ pending = {}
    /\ ctxDone = FALSE
    /\ writer = "open"
    /\ queue = {}
    /\ topic = {}
    /\ failed = {}

-----------------------------------------------------------------------------
(* The event loop of main().                                               *)

Running == mainPc # "exited"

\* Bound: no sample arrives in the last two windows, so that neither a call
\* in flight nor the flush after it meets the end of Windows.
SamplesLeft == window + 1 < MaxWindow

\* The select at the top of the loop.  Returning runs the deferred calls,
\* of which producer.Close is the one with a visible effect.
CheckContext ==
    /\ mainPc = "select"
    /\ mainPc' = IF ctxDone THEN "close" ELSE "read"
    /\ UNCHANGED <<aggregatorVars, mainKey, mainWindow, flushVars, ctxDone,
                   writerVars>>

\* rd.Read returned an error or a sample the loop discards: undecodable, a
\* return probe, or one whose binary or symbol cannot be resolved.
SkipSample ==
    /\ mainPc = "read"
    /\ mainPc' = "select"
    /\ UNCHANGED <<aggregatorVars, mainKey, mainWindow, flushVars, ctxDone,
                   writerVars>>

\* rd.Read returned an entry sample that resolves to k, and Record is called.
ReadSample(k) ==
    /\ mainPc = "read"
    /\ SamplesLeft
    /\ count[window][k] < MaxCount
    /\ mainPc' = "lock"
    /\ mainKey' = k
    /\ UNCHANGED <<aggregatorVars, mainWindow, flushVars, ctxDone, writerVars>>

\* Mutant: Record does not take the token.
RecordLookupUnlocked ==
    /\ mainPc = "lock"
    /\ mainWindow' = window
    /\ mainPc' = "increment"
    /\ UNCHANGED <<count, window, mu, mainKey, flushVars, ctxDone, writerVars>>

\* Record, up to the lookup: it takes the token and finds or makes the bucket.
RecordLookup ==
    /\ mainPc = "lock"
    /\ mu = Nobody
    /\ mu' = "main"
    /\ mainWindow' = window
    /\ mainPc' = "increment"
    /\ UNCHANGED <<count, window, mainKey, flushVars, ctxDone, writerVars>>

\* Mutant: the bucket is decremented.
RecordDecrement ==
    /\ mainPc = "increment"
    /\ count' = [count EXCEPT ![mainWindow][mainKey] = @ - 1]
    /\ mu' = Nobody
    /\ mainPc' = "select"
    /\ UNCHANGED <<window, mainKey, mainWindow, flushVars, ctxDone, writerVars>>

\* Record, the rest: the bucket it holds is incremented, the token returned.
RecordIncrement ==
    /\ mainPc = "increment"
    /\ count' = [count EXCEPT ![mainWindow][mainKey] = @ + 1]
    /\ mu' = Nobody
    /\ mainPc' = "select"
    /\ UNCHANGED <<window, mainKey, mainWindow, flushVars, ctxDone, writerVars>>

\* producer.Close: the writer refuses new messages from here on.
CloseWriter ==
    /\ mainPc = "close"
    /\ writer' = "closed"
    /\ mainPc' = "drain"
    /\ UNCHANGED <<aggregatorVars, mainKey, mainWindow, flushVars, ctxDone,
                   queue, topic, failed>>

\* Close returns once the accepted messages are settled; main returns after
\* it, and the flush goroutine dies with the process wherever it is.
Exit ==
    /\ mainPc = "drain"
    /\ queue = {}
    /\ mainPc' = "exited"
    /\ UNCHANGED <<aggregatorVars, mainKey, mainWindow, flushVars, ctxDone,
                   writerVars>>

-----------------------------------------------------------------------------
(* The goroutine RunFlushLoop.                                             *)

\* Mutant: a timer in place of the ticker, which fires once.
TickOnce ==
    /\ Running
    /\ flushPc = "wait"
    /\ window = 0
    /\ flushPc' = "lock"
    /\ UNCHANGED <<aggregatorVars, mainVars, final, snapWindow, pending,
                   ctxDone, writerVars>>

\* The ticker fires and the loop calls Flush.
Tick ==
    /\ Running
    /\ flushPc = "wait"
    /\ flushPc' = "lock"
    /\ UNCHANGED <<aggregatorVars, mainVars, final, snapWindow, pending,
                   ctxDone, writerVars>>

\* ctx.Done is ready: the last call of Flush.  When the ticker is ready too,
\* select takes either.
FinalFlush ==
    /\ Running
    /\ flushPc = "wait"
    /\ ctxDone
    /\ flushPc' = "lock"
    /\ final' = TRUE
    /\ UNCHANGED <<aggregatorVars, mainVars, snapWindow, pending, ctxDone,
                   writerVars>>

\* Flush takes the token.
FlushLock ==
    /\ Running
    /\ flushPc = "lock"
    /\ mu = Nobody
    /\ mu' = "flush"
    /\ flushPc' = "swap"
    /\ UNCHANGED <<count, window, mainVars, final, snapWindow, pending,
                   ctxDone, writerVars>>

AfterFlush == IF final THEN "done" ELSE "wait"

\* Mutant: Flush forgets to put a fresh map in place.
FlushSwapKeepsMap ==
    /\ Running
    /\ flushPc = "swap"
    /\ \E k \in Keys : count[window][k] > 0
    /\ snapWindow' = window
    /\ pending' = {k \in Keys : count[window][k] > 0}
    /\ mu' = Nobody
    /\ flushPc' = "emit"
    /\ UNCHANGED <<count, window, mainVars, final, ctxDone, writerVars>>

\* Flush puts an empty map in place of a non-empty one and returns the token.
FlushSwap ==
    /\ Running
    /\ flushPc = "swap"
    /\ \E k \in Keys : count[window][k] > 0
    /\ window < MaxWindow   \* never false: SamplesLeft
    /\ snapWindow' = window
    /\ pending' = {k \in Keys : count[window][k] > 0}
    /\ window' = window + 1
    /\ mu' = Nobody
    /\ flushPc' = "emit"
    /\ UNCHANGED <<count, mainVars, final, ctxDone, writerVars>>

\* Mutant: Flush returns early on an empty map and keeps the token.
FlushSwapEmptyKeepsToken ==
    /\ Running
    /\ flushPc = "swap"
    /\ \A k \in Keys : count[window][k] = 0
    /\ flushPc' = AfterFlush
    /\ UNCHANGED <<aggregatorVars, mainVars, final, snapWindow, pending,
                   ctxDone, writerVars>>

\* Flush swaps one empty map for another: no window is closed by it.
FlushSwapEmpty ==
    /\ Running
    /\ flushPc = "swap"
    /\ \A k \in Keys : count[window][k] = 0
    /\ mu' = Nobody
    /\ flushPc' = AfterFlush
    /\ UNCHANGED <<count, window, mainVars, final, snapWindow, pending,
                   ctxDone, writerVars>>

MessageOf(k) == [win |-> snapWindow, key |-> k, n |-> count[snapWindow][k]]

\* One turn of the range loop, in the arbitrary order of a Go map, that the
\* writer accepts.  With a cancelled context it may still do so.
EmitAccepted(k) ==
    /\ Running
    /\ flushPc = "emit"
    /\ k \in pending
    /\ writer = "open"
    /\ queue' = queue \union {MessageOf(k)}
    /\ pending' = pending \ {k}
    /\ UNCHANGED <<aggregatorVars, mainVars, flushPc, final, snapWindow,
                   ctxDone, writer, topic, failed>>

\* Mutant: Flush returns at the first error instead of logging it.
EmitFailedReturns(k) ==
    /\ Running
    /\ flushPc = "emit"
    /\ k \in pending
    /\ failed' = failed \union {<<snapWindow, k>>}
    /\ pending' = pending \ {k}
    /\ flushPc' = AfterFlush
    /\ UNCHANGED <<aggregatorVars, mainVars, final, snapWindow, ctxDone,
                   writer, queue, topic>>

\* Mutant: a key that failed stays in the range loop.
EmitFailedRetries(k) ==
    /\ Running
    /\ flushPc = "emit"
    /\ k \in pending
    /\ failed' = failed \union {<<snapWindow, k>>}
    /\ UNCHANGED <<aggregatorVars, mainVars, flushPc, final, snapWindow,
                   pending, ctxDone, writer, queue, topic>>

\* Emit returns an error, which Flush logs: the count is gone.  The writer
\* fails before it accepts a message, when the context is cancelled or the
\* metadata of the topic cannot be read, and always once it is closed.
EmitFailed(k) ==
    /\ Running
    /\ flushPc = "emit"
    /\ k \in pending
    /\ failed' = failed \union {<<snapWindow, k>>}
    /\ pending' = pending \ {k}
    /\ UNCHANGED <<aggregatorVars, mainVars, flushPc, final, snapWindow,
                   ctxDone, writer, queue, topic>>

\* The range loop is over.
FlushReturn ==
    /\ Running
    /\ flushPc = "emit"
    /\ pending = {}
    /\ flushPc' = AfterFlush
    /\ UNCHANGED <<aggregatorVars, mainVars, final, snapWindow, pending,
                   ctxDone, writerVars>>

-----------------------------------------------------------------------------
(* The writer of kafka-go, a signal, and a kill.                           *)

\* The broker acknowledges a message.
Deliver(m) ==
    /\ Running
    /\ m \in queue
    /\ topic' = topic \union {m}
    /\ queue' = queue \ {m}
    /\ UNCHANGED <<aggregatorVars, mainVars, flushVars, ctxDone, writer, failed>>

\* The writer has used up its attempts: it calls ErrorLogger, and nobody
\* is told, since WriteMessages returned long ago.
GiveUp(m) ==
    /\ Running
    /\ m \in queue
    /\ failed' = failed \union {<<m.win, m.key>>}
    /\ queue' = queue \ {m}
    /\ UNCHANGED <<aggregatorVars, mainVars, flushVars, ctxDone, writer, topic>>

\* SIGINT or SIGTERM.
Signal ==
    /\ Running
    /\ ~ctxDone
    /\ ctxDone' = TRUE
    /\ UNCHANGED <<aggregatorVars, mainVars, flushVars, writerVars>>

\* SIGKILL or a crash: what the process holds in memory is gone.
Kill ==
    /\ Running
    /\ mainPc' = "exited"
    /\ failed' = failed \union {<<m.win, m.key>> : m \in queue}
    /\ queue' = {}
    /\ UNCHANGED <<aggregatorVars, mainKey, mainWindow, flushVars, ctxDone,
                   writer, topic>>

-----------------------------------------------------------------------------
EventLoop ==
    \/ CheckContext
    \/ SkipSample
    \/ \E k \in Keys : ReadSample(k)
    \/ RecordLookup
    \/ RecordIncrement
    \/ CloseWriter
    \/ Exit

FlushLoop ==
    \/ Tick
    \/ FinalFlush
    \/ FlushLock
    \/ FlushSwap
    \/ FlushSwapEmpty
    \/ \E k \in Keys : EmitAccepted(k) \/ EmitFailed(k)
    \/ FlushReturn

Environment ==
    \/ \E m \in queue : Deliver(m) \/ GiveUp(m)
    \/ Signal
    \/ Kill

Next == EventLoop \/ FlushLoop \/ Environment

Spec == Init /\ [][Next]_vars

\* What Go and the writer give: a goroutine that can run does, the waiting
\* goroutine gets the token (a channel is first in, first out, and Record
\* would otherwise overtake Flush forever), the ticker fires again, and the
\* writer settles every message.  No fairness on samples and signals.
Fairness ==
    /\ WF_vars(CheckContext \/ RecordIncrement \/ CloseWriter \/ Exit)
    /\ SF_vars(RecordLookup)
    /\ WF_vars(Tick \/ FinalFlush \/ FlushSwap \/ FlushSwapEmpty \/ FlushReturn)
    /\ SF_vars(FlushLock)
    /\ SF_vars(FinalFlush)
    /\ WF_vars(\E k \in Keys : EmitAccepted(k) \/ EmitFailed(k))
    /\ WF_vars(\E m \in queue : Deliver(m) \/ GiveUp(m))

FairSpec == Spec /\ Fairness

-----------------------------------------------------------------------------
(* Properties.                                                             *)

\* The states the variables range over.
TypeOK ==
    /\ count \in [Windows -> [Keys -> Nat]]
    /\ window \in Windows
    /\ mu \in {Nobody, "main", "flush"}
    /\ mainPc \in {"select", "read", "lock", "increment", "close", "drain",
                   "exited"}
    /\ mainKey \in Keys
    /\ mainWindow \in Windows
    /\ flushPc \in {"wait", "lock", "swap", "emit", "done"}
    /\ final \in BOOLEAN
    /\ snapWindow \in Windows
    /\ pending \subseteq Keys
    /\ ctxDone \in BOOLEAN
    /\ writer \in {"open", "closed"}
    /\ queue \subseteq Message
    /\ topic \subseteq Message
    /\ failed \subseteq Windows \X Keys

Sent == queue \union topic

\* A message carries every call its window counted for the function: no
\* Record that looked its bucket up before the swap adds to it afterwards.
MessageExact ==
    \A m \in Sent : m.win < window /\ m.n = count[m.win][m.key]

MessagesFor(w, k) == {m \in Sent : m.win = w /\ m.key = k}

\* Every call counted in a closed window is still to be emitted, was emitted,
\* or was given up where the code logs an error: a swap loses no bucket.
ClosedWindowAccounted ==
    \A w \in Windows, k \in Keys :
        w < window /\ count[w][k] > 0 =>
            \/ flushPc = "emit" /\ w = snapWindow /\ k \in pending
            \/ MessagesFor(w, k) # {}
            \/ <<w, k>> \in failed

\* A function of a window is in one of those places only, so its calls are
\* never published twice by the agent itself.
SinglePlace ==
    \A w \in Windows, k \in Keys :
        /\ ~(MessagesFor(w, k) # {} /\ <<w, k>> \in failed)
        /\ flushPc = "emit" /\ w = snapWindow /\ k \in pending =>
               MessagesFor(w, k) = {} /\ <<w, k>> \notin failed

\* While the agent lives, a counted call does not stay in the map: the ticker
\* or the final flush takes it to the producer.
CountedCallsLeaveTheMap ==
    \A w \in Windows, k \in Keys :
        count[w][k] > 0 ~> window > w \/ flushPc = "done" \/ ~Running

\* The flush goroutine finishes its final flush or dies with the process: no
\* shutdown leaves it waiting for the mutex.
FlushLoopEnds == ctxDone ~> flushPc = "done" \/ ~Running

\* The agent implements a ledger of windows (CallLedger): a call is counted
\* in the open window, and a closed one is published at most once and exactly.
Ledger == INSTANCE CallLedger WITH
    tally <- count, open <- window, published <- topic

ImplementsLedger == Ledger!Spec
=============================================================================
