----------------------------- MODULE CallLedger -----------------------------
(***************************************************************************)
(* What the runtime agent promises the rest of the system: calls are       *)
(* counted in the open window; once a window is closed nothing is added to *)
(* it, and each of its functions is published at most once, with exactly   *)
(* the calls counted for it.  A publication may be missing, never doubled. *)
(***************************************************************************)
EXTENDS Naturals

CONSTANTS
    Keys,      \* the functions
    MaxWindow  \* bound: windows closed

VARIABLES
    tally,     \* calls of each window and function
    open,      \* the open window
    published  \* what readers of the topic see

ledgerVars == <<tally, open, published>>

Init ==
    /\ tally = [w \in 0 .. MaxWindow |-> [k \in Keys |-> 0]]
    /\ open = 0
    /\ published = {}

Call(k) ==
    /\ tally' = [tally EXCEPT ![open][k] = @ + 1]
    /\ UNCHANGED <<open, published>>

\* Only a window that counted something is ever closed.
Close ==
    /\ \E k \in Keys : tally[open][k] > 0
    /\ open' = open + 1
    /\ UNCHANGED <<tally, published>>

Publish(w, k) ==
    /\ w < open
    /\ tally[w][k] > 0
    /\ \A m \in published : ~(m.win = w /\ m.key = k)
    /\ published' = published \union {[win |-> w, key |-> k, n |-> tally[w][k]]}
    /\ UNCHANGED <<tally, open>>

Next ==
    \/ \E k \in Keys : Call(k)
    \/ Close
    \/ \E w \in 0 .. MaxWindow, k \in Keys : Publish(w, k)

Spec == Init /\ [][Next]_ledgerVars
=============================================================================
