----------------------------- MODULE SbomIngest -----------------------------
(***************************************************************************)
(* SBOM ingestion of one service (layer3/sbom_ingester.py): the components *)
(* Syft finds in its image become Dependency nodes, and the digest of the  *)
(* image is kept so that the next run may skip it.                         *)
(*                                                                         *)
(* A step is one query or one process call with its retries.  Runs overlap *)
(* (one per CI build) and may fail or die at any step.  The archive is     *)
(* left out: its errors are swallowed and nobody reads it.                 *)
(***************************************************************************)
EXTENDS Integers, Dependencies

CONSTANTS
    Images,        \* images the reference of the service may point at
    ComponentsOf,  \* the components of each image
    Versioned,     \* those that have a name and a version
    Sboms,         \* runs that may overlap
    MaxBuilds      \* bound: pushes and starts of runs

ASSUME ImagesAssumption ==
    /\ ComponentsOf \in [Images -> SUBSET Deps]
    /\ Images \intersect {"day", "none"} = {}
ASSUME BuildsAssumption == MaxBuilds \in Nat

VARIABLES
    tag,         \* the image the reference points at
    builds,
    used,        \* the Dependency nodes with a USES_DEPENDENCY relationship
    lastDigest,  \* Service.last_sbom_digest
    sbomPc, digest, scanned, toUpsert, comp,   \* each run
    ingested     \* history: the image scanned by the run that saved its digest
                 \* last; another than that of the digest when the tag moved

depVars == <<deps, used>>
runVars == <<sbomPc, digest, scanned, toUpsert, comp>>
sbomVars == <<tag, builds, depVars, lastDigest, runVars, ingested>>

NoImage == "none"

SbomInit ==
    /\ tag \in Images
    /\ builds = 0
    /\ deps = {} /\ used = {}
    /\ lastDigest = NoImage
    /\ sbomPc = [s \in Sboms |-> "idle"]
    /\ digest = [s \in Sboms |-> NoImage]
    /\ scanned = [s \in Sboms |-> NoImage]
    /\ toUpsert = [s \in Sboms |-> {}]
    /\ comp = [s \in Sboms |-> NoDep]
    /\ ingested = NoImage

Triggered == builds < MaxBuilds /\ builds' = builds + 1

\* A build pushes the tag.
Push ==
    /\ Triggered
    /\ tag' \in Images \ {tag}
    /\ UNCHANGED <<depVars, lastDigest, runVars, ingested>>

-----------------------------------------------------------------------------
(* SBOM ingestion: ingest().                                               *)

\* _image_digest: the same for all images of a day when the image has no
\* repository digest or docker does not answer.
Digests == {tag, "day"}

Inspect(s) ==
    /\ Triggered
    /\ sbomPc[s] = "idle"
    /\ \E g \in Digests : digest' = [digest EXCEPT ![s] = g]
    /\ sbomPc' = [sbomPc EXCEPT ![s] = "compare"]
    /\ UNCHANGED <<tag, depVars, lastDigest, ingested, scanned, toUpsert, comp>>

\* Mutant: the component of the loop is remembered.
SbomReturnsHalfway(s) ==
    /\ sbomPc' = [sbomPc EXCEPT ![s] = "idle"]
    /\ digest' = [digest EXCEPT ![s] = NoImage]
    /\ scanned' = [scanned EXCEPT ![s] = NoImage]
    /\ toUpsert' = [toUpsert EXCEPT ![s] = {}]
    /\ UNCHANGED comp

\* The locals of ingest() are gone.
SbomReturns(s) ==
    /\ sbomPc' = [sbomPc EXCEPT ![s] = "idle"]
    /\ digest' = [digest EXCEPT ![s] = NoImage]
    /\ scanned' = [scanned EXCEPT ![s] = NoImage]
    /\ toUpsert' = [toUpsert EXCEPT ![s] = {}]
    /\ comp' = [comp EXCEPT ![s] = NoDep]

\* _last_digest, and the early return that only --force passes over.
Compare(s) ==
    /\ sbomPc[s] = "compare"
    /\ \/ lastDigest = digest[s] /\ SbomReturns(s)
       \/ /\ sbomPc' = [sbomPc EXCEPT ![s] = "syft"]
          /\ UNCHANGED <<digest, scanned, toUpsert, comp>>
    /\ UNCHANGED <<tag, builds, depVars, lastDigest, ingested>>

\* parse_cyclonedx and _dep_id
Parsed(i) == ComponentsOf[i] \intersect Versioned

\* run_syft is given the reference, not the digest.
Syft(s) ==
    /\ sbomPc[s] = "syft"
    /\ scanned' = [scanned EXCEPT ![s] = tag]
    /\ toUpsert' = [toUpsert EXCEPT ![s] = Parsed(tag)]
    /\ sbomPc' = [sbomPc EXCEPT ![s] = "upsert"]
    /\ UNCHANGED <<tag, builds, depVars, lastDigest, ingested, digest, comp>>

\* ingest_components, one component at a time: first the node ...
UpsertDep(s) ==
    /\ sbomPc[s] = "upsert"
    /\ \E d \in toUpsert[s] :
          /\ toUpsert' = [toUpsert EXCEPT ![s] = @ \ {d}]
          /\ comp' = [comp EXCEPT ![s] = d]
          /\ deps' = deps \union {d}
    /\ sbomPc' = [sbomPc EXCEPT ![s] = "use"]
    /\ UNCHANGED <<tag, builds, used, lastDigest, ingested, digest, scanned>>

\* ... then its relationship, if the node is there.
UseDep(s) ==
    /\ sbomPc[s] = "use"
    /\ used' = used \union ({comp[s]} \intersect deps)
    /\ comp' = [comp EXCEPT ![s] = NoDep]
    /\ sbomPc' = [sbomPc EXCEPT ![s] = "upsert"]
    /\ UNCHANGED <<tag, builds, deps, lastDigest, ingested, digest, scanned,
                   toUpsert>>

\* Mutant: the digest is saved when the first component is.
SaveDigestEarly(s) ==
    /\ sbomPc[s] = "upsert"
    /\ lastDigest' = digest[s]
    /\ ingested' = scanned[s]
    /\ SbomReturns(s)
    /\ UNCHANGED <<tag, builds, depVars>>

\* _save_digest
SaveDigest(s) ==
    /\ sbomPc[s] = "upsert"
    /\ toUpsert[s] = {}
    /\ lastDigest' = digest[s]
    /\ ingested' = scanned[s]
    /\ SbomReturns(s)
    /\ UNCHANGED <<tag, builds, depVars>>

\* Syft or a query fails three times, or the process dies.
SbomFails(s) ==
    /\ sbomPc[s] # "idle"
    /\ SbomReturns(s)
    /\ UNCHANGED <<tag, builds, depVars, lastDigest, ingested>>

-----------------------------------------------------------------------------
Sbom(s) ==
    \/ Inspect(s) \/ Compare(s) \/ Syft(s) \/ UpsertDep(s) \/ UseDep(s)
    \/ SaveDigest(s) \/ SbomFails(s)

SbomNext == Push \/ \E s \in Sboms : Sbom(s)

SbomSpec == SbomInit /\ [][SbomNext]_sbomVars

-----------------------------------------------------------------------------
(* Properties.                                                             *)

SbomTypeOK ==
    /\ tag \in Images
    /\ builds \in Nat
    /\ deps \subseteq Deps /\ used \subseteq deps
    /\ lastDigest \in Images \union {"day", NoImage}
    /\ sbomPc \in [Sboms -> {"idle", "compare", "syft", "upsert", "use"}]
    /\ digest \in [Sboms -> Images \union {"day", NoImage}]
    /\ scanned \in [Sboms -> Images \union {NoImage}]
    /\ toUpsert \in [Sboms -> SUBSET Deps]
    /\ comp \in [Sboms -> deps \union {NoDep}]
    /\ \A s \in Sboms : comp[s] # NoDep <=> sbomPc[s] = "use"
    /\ ingested \in Images \union {NoImage}

\* A digest is saved for an image whose components are all in the graph by
\* then, whatever runs overlap, fail or die and wherever the tag moves: the
\* image scanned by the run that saved it, which the next run relies on when it
\* finds the digest and skips.
SavedDigestIsIngested ==
    lastDigest # NoImage =>
        ingested \in Images /\ Parsed(ingested) \subseteq used
=============================================================================
