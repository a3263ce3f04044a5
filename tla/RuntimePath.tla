------------------------------ MODULE RuntimePath ------------------------------
(***************************************************************************)
(* A call's way from a traced process to the graph: the ledger its agent   *)
(* keeps (CallLedger, which CallAggregator implements), the Kafka topic,   *)
(* and the standalone join (RuntimeJoin).  The agent sends one event for   *)
(* each function of a closed window; the broker may not get it, and may    *)
(* get it twice.                                                           *)
(*                                                                         *)
(* One agent; a function is known by its location, as the join knows it.   *)
(***************************************************************************)
EXTENDS RuntimeJoin

CONSTANTS
    MaxWindow, \* bound: windows closed
    MaxCalls   \* bound: calls of one function

ASSUME PathAssumption ==
    /\ MaxWindow \in Nat
    /\ MaxCalls \in Nat
    /\ 1 .. MaxCalls \subseteq Counts

VARIABLES
    tally,     \* calls the agent counted, by window and function
    open,      \* the agent's open window
    published, \* the messages the broker acknowledged
    called,    \* history: calls of each function the agent counted
    repeated   \* history: a message reached the topic more than once

agentVars == <<tally, open, published, called, repeated>>

Agent == INSTANCE CallLedger

PathInit ==
    /\ Init
    /\ Agent!Init
    /\ called = [k \in Keys |-> 0]
    /\ repeated = FALSE

\* A traced function is called on the agent's host.
CallSeen(k) ==
    /\ called[k] < MaxCalls
    /\ Agent!Call(k)
    /\ called' = [called EXCEPT ![k] = @ + 1]
    /\ UNCHANGED <<vars, repeated>>

\* The agent's flush takes the window.
WindowCloses ==
    /\ open < MaxWindow
    /\ Agent!Close
    /\ UNCHANGED <<vars, called, repeated>>

\* Mutant: the flush does not empty the map, and an event has the calls of all
\* windows so far.
EventArrivesWhole(w, k, late) ==
    /\ Agent!Publish(w, k)
    /\ Publish(k, called[k], late)
    /\ UNCHANGED <<called, repeated>>

\* The broker appends the event of a function of a closed window.
EventArrives(w, k, late) ==
    /\ Agent!Publish(w, k)
    /\ Publish(k, tally[w][k], late)
    /\ UNCHANGED <<called, repeated>>

\* The acknowledgement was lost: the writer, which is not an idempotent
\* producer, sends the event again.
EventArrivesAgain(w, k, late) ==
    /\ \E m \in published : m.win = w /\ m.key = k
    /\ Publish(k, tally[w][k], late)
    /\ repeated' = TRUE
    /\ UNCHANGED <<tally, open, published, called>>

\* Everything else that happens to the topic and behind it.
JoinStep ==
    /\ \/ \E f \in Nodes : IngestFunction(f)
       \/ NextDay
       \/ MainThread
       \/ FlushThread
       \/ SweepThread
    /\ UNCHANGED agentVars

PathNext ==
    \/ \E k \in Keys : CallSeen(k)
    \/ WindowCloses
    \/ \E w \in 0 .. MaxWindow, k \in Keys, late \in 0 .. Lateness :
           EventArrives(w, k, late) \/ EventArrivesAgain(w, k, late)
    \/ JoinStep

PathSpec == PathInit /\ [][PathNext]_<<vars, agentVars>>

PathFairSpec == PathSpec /\ Fairness

-----------------------------------------------------------------------------
(* Properties.                                                             *)

\* From end to end: unless the broker got an event twice, or a start of the
\* join went back over taken events, the graph never shows more calls of a
\* function than its agent counted.
EdgesWithinCalls ==
    ~replayed /\ ~repeated =>
        \A f \in Nodes : edges[f].c7 <= called[KeyOf[f]]
=============================================================================
