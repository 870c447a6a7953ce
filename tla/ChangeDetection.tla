-------------------------- MODULE ChangeDetection --------------------------
(***************************************************************************)
(* Which documents an ingestion run ingests: the downloads, the comparison *)
(* with the manifest of the run before, the processing of what changed,    *)
(* the cutover or, in a dry run, none, and the new manifest, over several  *)
(* runs that may stop anywhere while the site changes under them.          *)
(*                                                                         *)
(* detect_changes and write_manifest take download results, and this is    *)
(* the order that gives them some; cutover is one step here and a module   *)
(* of its own (Cutover).  Contents are abstracted to a version number,     *)
(* which stands for its SHA-256.                                           *)
(***************************************************************************)
EXTENDS Naturals, FiniteSets

CONSTANTS
    Urls,        \* of the documents
    MaxVersion,  \* bound: versions of a document
    AbortOneIn   \* 1 / _ABORT_THRESHOLD

ASSUME ChangeDetectionAssumption ==
    /\ IsFiniteSet(Urls)
    /\ MaxVersion \in Nat \ {0}
    /\ AbortOneIn \in Nat \ {0}

VARIABLES
    listed,    \* documents on the site's list
    version,   \* what the site serves for each
    manifest,  \* the latest manifest file: sha256 by url, 0 for no entry
    torn,      \* TRUE: that file is cut off
    at,        \* where the run stands; "rehearsed" is a dry run without cutover
    pending,   \* candidates not downloaded yet
    results,   \* content_hash of the successful downloads, 0 for the others
    changed,   \* detect_changes' NEW and MODIFIED
    removed,   \* ... and REMOVED
    staged,    \* what the staging collection holds, by version
    index,     \* what the live collection holds
    ingested,  \* for the properties: versions the live collection came to hold
    tolerated  \* ... and those a run went on without ingesting

detectionVars == <<listed, version, manifest, torn, at, pending, results, changed,
                  removed, staged, index, ingested, tolerated>>

site     == <<listed, version>>
records  == <<manifest, torn>>
history  == <<ingested, tolerated>>
contents == <<staged, index, history>>

-----------------------------------------------------------------------------
Hashes == 0..MaxVersion
None   == [d \in Urls |-> 0]

DetectionTypeOK ==
    /\ listed \subseteq Urls
    /\ version \in [Urls -> 1..MaxVersion]
    /\ manifest \in [Urls -> Hashes]
    /\ torn \in BOOLEAN
    /\ at \in {"idle", "downloading", "detected", "processed", "published",
              "rehearsed", "writing"}
    /\ pending \subseteq Urls
    /\ results \in [Urls -> Hashes]
    /\ changed \subseteq Urls
    /\ removed \subseteq Urls
    /\ staged \in [Urls -> Hashes]
    /\ index \in [Urls -> Hashes]
    /\ ingested \subseteq Urls \X Hashes
    /\ tolerated \subseteq Urls \X Hashes

DetectionInit ==
    /\ listed = Urls
    /\ version = [d \in Urls |-> 1]
    /\ manifest = None /\ torn = FALSE
    /\ at = "idle"
    /\ pending = {} /\ results = None
    /\ changed = {} /\ removed = {}
    /\ staged = None /\ index = None
    /\ ingested = {} /\ tolerated = {}

-----------------------------------------------------------------------------
Updated(d) ==
    /\ version[d] < MaxVersion
    /\ version' = [version EXCEPT ![d] = @ + 1]
    /\ UNCHANGED <<listed, at, pending, results, changed, removed, records, contents>>

ListChanges ==
    /\ listed' \in SUBSET Urls
    /\ listed' # listed
    /\ UNCHANGED <<version, at, pending, results, changed, removed, records, contents>>

-----------------------------------------------------------------------------
Scrape ==
    /\ at = "idle"
    /\ at' = "downloading"
    /\ pending' = listed
    /\ results' = None
    /\ changed' = {} /\ removed' = {}
    /\ UNCHANGED <<site, records, contents>>

Downloaded(d) ==
    /\ at = "downloading"
    /\ d \in pending
    /\ pending' = pending \ {d}
    /\ results' = [results EXCEPT ![d] = version[d]]
    /\ UNCHANGED <<site, at, changed, removed, records, contents>>

\* Mutant: the hash of nothing goes into the result.
FailureWithHash(d) ==
    /\ at = "downloading"
    /\ d \in pending
    /\ pending' = pending \ {d}
    /\ results' = [results EXCEPT ![d] = MaxVersion + 1]
    /\ UNCHANGED <<site, at, changed, removed, records, contents>>

\* A timeout, an HTTP error, no PDF, too small, or the wrong language.
DownloadFailed(d) ==
    /\ at = "downloading"
    /\ d \in pending
    /\ pending' = pending \ {d}
    /\ UNCHANGED <<site, at, results, changed, removed, records, contents>>

\* Mutant: the manifest is brought up to date where it is compared.
DetectAndRecord ==
    /\ at = "downloading" /\ pending = {}
    /\ ~torn
    /\ changed' = {d \in Urls : results[d] # 0 /\ manifest[d] # results[d]}
    /\ removed' = {d \in Urls : results[d] = 0 /\ manifest[d] # 0}
    /\ at' = IF changed' = {} THEN "idle" ELSE "detected"
    /\ manifest' = results
    /\ UNCHANGED <<site, pending, results, torn, contents>>

\* Without a change the run ends here, and writes no manifest.  A cut off
\* manifest is a JSON error, which only RunStops gets past.
DetectChanges ==
    /\ at = "downloading" /\ pending = {}
    /\ ~torn
    /\ changed' = {d \in Urls : results[d] # 0 /\ manifest[d] # results[d]}
    /\ removed' = {d \in Urls : results[d] = 0 /\ manifest[d] # 0}
    /\ at' = IF changed' = {} THEN "idle" ELSE "detected"
    /\ UNCHANGED <<site, pending, results, records, contents>>

\* The staging collection is wiped and takes the changed documents, except
\* those that fail to parse; too many of them abort the run (RunStops).
Process ==
    /\ at = "detected"
    /\ \E failed \in SUBSET changed :
        /\ Cardinality(failed) * AbortOneIn <= Cardinality(changed)
        /\ staged' = [d \in Urls |-> IF d \in changed \ failed THEN results[d] ELSE 0]
    /\ at' = "processed"
    /\ UNCHANGED <<site, pending, results, changed, removed, records, index, history>>

\* The versions of some documents as they were downloaded.
Versions(documents) == {<<d, results[d]>> : d \in documents}

\* The cutover, with those that failed to parse left behind.
Publish ==
    /\ at = "processed"
    /\ index' = staged
    /\ ingested' = ingested \cup Versions({d \in changed : staged[d] = results[d]})
    /\ tolerated' = tolerated \cup Versions({d \in changed : staged[d] # results[d]})
    /\ at' = "published"
    /\ UNCHANGED <<site, pending, results, changed, removed, records, staged>>

\* dry_run, the argument every run has anew, is looked at here only: no cutover,
\* but the manifest all the same.
SkipCutover ==
    /\ at = "processed"
    /\ tolerated' = tolerated \cup Versions(changed)
    /\ at' = "rehearsed"
    /\ UNCHANGED <<site, pending, results, changed, removed, records, staged, index,
                   ingested>>

\* open(manifest_file, "w") ...
OpenManifest ==
    /\ at \in {"published", "rehearsed"}
    /\ torn' = TRUE
    /\ at' = "writing"
    /\ UNCHANGED <<site, manifest, pending, results, changed, removed, contents>>

\* ... json.dump.
WriteManifest ==
    /\ at = "writing"
    /\ manifest' = results
    /\ torn' = FALSE
    /\ at' = "idle"
    /\ UNCHANGED <<site, pending, results, changed, removed, contents>>

\* An exception or a crash.
RunStops ==
    /\ at # "idle"
    /\ at' = "idle"
    /\ UNCHANGED <<site, pending, results, changed, removed, records, contents>>

DetectionNext ==
    \/ \E d \in Urls : Updated(d) \/ Downloaded(d) \/ DownloadFailed(d)
    \/ ListChanges
    \/ Scrape \/ DetectChanges \/ Process \/ Publish \/ SkipCutover
    \/ OpenManifest \/ WriteManifest
    \/ RunStops

DetectionSpec == DetectionInit /\ [][DetectionNext]_detectionVars

-----------------------------------------------------------------------------
\* A version that counts as unchanged (change_detector.py:110) was in the live
\* collection once, unless a run that reached its manifest went on without it:
\* it had failed to parse there, or the run was dry (pipeline.py:278, 345).  No
\* stop, failed download or change of the site makes a run skip another one.
RecordedWasHandled ==
    \A d \in Urls : manifest[d] # 0 => <<d, manifest[d]>> \in ingested \cup tolerated

\* "If True, skip cutover (steps 12-13)" (pipeline.py:212), step 13 being the
\* manifest: a dry run does not begin to write one.
DryRunRecordsNothing == [][at = "rehearsed" => at' # "writing"]_detectionVars

\* "Only new/modified documents need re-ingestion" (change_detector.py:5): when
\* a run has recorded its manifest, the live collection has every version that
\* counts as unchanged from now on.
UnchangedIsServed ==
    [][ torn /\ ~torn' => \A d \in Urls : manifest'[d] # 0 => index'[d] = manifest'[d] ]_detectionVars
=============================================================================
