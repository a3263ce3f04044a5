----------------------------- MODULE MCCveIngest -----------------------------
(***************************************************************************)
(* Two advisories share a CVE, one on each dependency: one without any     *)
(* severity, and one whose vector says CRITICAL and its record LOW.  The   *)
(* third has no CVE.                                                       *)
(***************************************************************************)
EXTENDS CveIngest, TLC

MCAffectedBy == "d1" :> {"ghsa", "osv"} @@ "d2" :> {"pysec"}
MCCveOf == "ghsa" :> "cve" @@ "pysec" :> "cve" @@ "osv" :> NoCve
MCVectorOf == "ghsa" :> NoVector @@ "osv" :> [high |-> 0, changed |-> 0]
              @@ "pysec" :> [high |-> 0, changed |-> 1]
MCDbSeverityOf ==
    "ghsa" :> NoSeverity @@ "pysec" :> "LOW" @@ "osv" :> NoSeverity
=============================================================================
