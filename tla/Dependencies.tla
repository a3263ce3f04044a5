---------------------------- MODULE Dependencies ----------------------------
(***************************************************************************)
(* The Dependency nodes of one service, which SBOM ingestion writes and    *)
(* CVE ingestion reads.  One stands for its id                             *)
(* <service>:<ecosystem>:<name>:<version>.                                 *)
(***************************************************************************)
CONSTANT Deps  \* dependencies SBOM ingestion may add

ASSUME DepsAssumption == "none" \notin Deps

VARIABLE deps  \* the nodes in the graph

\* Python's None
NoDep == "none"
=============================================================================
