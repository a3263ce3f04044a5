---------------------------- MODULE MCSupplyChain ----------------------------
(***************************************************************************)
(* Two images share a component; another has no version.  The advisories   *)
(* have no CVE: scores and the KEV feed are the subject of MCCveIngest.    *)
(***************************************************************************)
EXTENDS SupplyChain, TLC

MCComponentsOf == "i1" :> {"a", "b"} @@ "i2" :> {"b", "unversioned"}
MCSymmetry == Permutations(Sboms)

MCAffectedBy == "a" :> {"osv"} @@ "b" :> {"ghsa"} @@ "unversioned" :> {}
MCCveOf == "ghsa" :> NoCve @@ "osv" :> NoCve
MCVectorOf == "ghsa" :> NoVector @@ "osv" :> [high |-> 0, changed |-> 0]
MCDbSeverityOf == "ghsa" :> NoSeverity @@ "osv" :> NoSeverity
=============================================================================
