--------------------------- MODULE MCChangeWorkflow ---------------------------
(***************************************************************************)
(* A pull request that changes one function.  The old graph does not know  *)
(* it; in the new one an endpoint calls it and a CVE of the service is     *)
(* CRITICAL.                                                               *)
(***************************************************************************)
EXTENDS ChangeWorkflow, TLC

MCResolvedIn == "old" :> {} @@ "new" :> {"f"}
MCBlastIn ==
    [g \in {"old", "new"} |->
        [fs \in SUBSET {"f"} |->
            IF g = "new" /\ fs # {} THEN "endpoint" ELSE "empty"]]
MCDeltaIn ==
    "old" :> [fs \in SUBSET {"f"} |-> "clean"]
    @@ "new" :> [fs \in SUBSET {"f"} |-> "critical"]
MCRiskOf ==
    [d \in {"clean", "critical"} |->
        [b \in {"empty", "endpoint"} |->
            IF d = "critical" THEN "HIGH"
            ELSE IF b = "endpoint" THEN "LOW" ELSE "NONE"]]
=============================================================================
