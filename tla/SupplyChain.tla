---------------------------- MODULE SupplyChain ----------------------------
(***************************************************************************)
(* SBOM ingestion and CVE ingestion of one service together.  They are     *)
(* separate programs that meet in the graph alone: ingest_components       *)
(* writes the Dependency nodes that ingest_for_service reads at the start  *)
(* of a poll, and neither waits for the other.                             *)
(***************************************************************************)
EXTENDS SbomIngest, CveIngest

VARIABLES
    vetting,  \* history: the image ingested with the digest saved when the poll
              \* began, as long as nothing has failed in it
    vetted    \* history: the images of the polls that came to their end so

vetVars == <<vetting, vetted>>
vars == <<sbomVars, cveVars, vetVars>>

Init ==
    /\ SbomInit
    /\ CveInit
    /\ vetting = [p \in Pollers |-> NoImage]
    /\ vetted = {}

SbomStep ==
    /\ SbomNext
    /\ UNCHANGED <<hot, kevFeed, everHot, events, vulnVars, cacheVars,
                   pollVars, settled, vetVars>>

\* The history of a step of poll p.
Vet(p) ==
    /\ vetting' = [vetting EXCEPT ![p] =
          IF pollPc'[p] \in {"idle", "dead"} \/ missed'[p] THEN NoImage
          ELSE IF pollPc[p] = "idle" THEN ingested ELSE @]
    /\ vetted' = IF PollEnds(p)
                 THEN vetted \union ({vetting[p]} \intersect Images)
                 ELSE vetted

CveStep ==
    /\ \/ FeedsChange /\ UNCHANGED vetVars
       \/ \E p \in Pollers : (Poll(p) \/ PollDies(p)) /\ Vet(p)
    /\ UNCHANGED <<tag, builds, used, lastDigest, runVars, ingested>>

Next == SbomStep \/ CveStep

Spec == Init /\ [][Next]_vars

-----------------------------------------------------------------------------
(* Properties.                                                             *)

TypeOK ==
    /\ SbomTypeOK
    /\ CveTypeOK
    /\ vetting \in [Pollers -> Images \union {NoImage}]
    /\ vetted \subseteq Images

\* An image for which a digest was saved is covered by the next poll: once a
\* poll that began after it has come to its end without a failure, every
\* component of the image is linked to each of its advisories, whatever other
\* runs and polls were under way and wherever the tag went.
VettedImagesLinked ==
    \A i \in vetted : \A d \in Parsed(i) : \A a \in AffectedBy[d] :
        link[<<d, IdOf(a)>>] # "absent"
=============================================================================
