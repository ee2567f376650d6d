----------------------------- MODULE Provenance -----------------------------
(***************************************************************************)
(* What `refresh` records about the framework repo beside its records: the *)
(* pin that was asked for (framework_version), the release observed in the *)
(* checkout (indexed_framework_version), the deprecation map on disk and   *)
(* the commit the map was built from; and the version check_deprecation    *)
(* reads back from them.                                                   *)
(*                                                                         *)
(* The map is saved before the metadata batch is committed, either may     *)
(* fail and the run may die between the two.                               *)
(***************************************************************************)
EXTENDS RefreshRun

CONSTANTS
    Framework,  \* pipecat-ai/pipecat
    Release     \* revisions of it that a release tag names

ASSUME FrameworkIsRepo == Framework \in Repo
ASSUME ReleasesAreRevisions == Release \subseteq RevisionOf[Framework]
ASSUME SentinelsAreNoRevisions == {"head", "latest"} \intersect (Revision \union {None}) = {}

Pin == {"head", "latest"} \union Release

VARIABLES
    map,        \* revision of the deprecation map on disk
    pin,        \* framework_version
    stamp,      \* revision that indexed_framework_version and commits_ahead describe
    mapStamp,   \* deprecation_map_commit_sha
    runPin,     \* the run's framework version
    purged,     \* records_purged_this_run
    published,  \* deprecation_map_published
    stage       \* how far the end of the run has come

keys == <<pin, stamp, mapStamp>>
run == <<runPin, purged, published, stage>>
allVars == <<vars, map, keys, run>>

ProvenanceTypeOK ==
    /\ TypeOK
    /\ {map, stamp, mapStamp} \subseteq Revision \union {None}
    /\ pin \in Pin \union {None}
    /\ runPin \in Pin \union {None}
    /\ purged \in BOOLEAN /\ published \in BOOLEAN
    /\ stage \in {"none", "mapped", "written"}
    /\ stage # "none" => pc = "finish"
    /\ runPin = None <=> pc = "closed"

PInit ==
    /\ Init
    /\ map = None /\ pin = None /\ stamp = None /\ mapStamp = None
    /\ runPin = None /\ purged = FALSE /\ published = FALSE /\ stage = "none"

ForgetProvenance == pin' = None /\ stamp' = None /\ mapStamp' = None

-----------------------------------------------------------------------------

\* --reset-index does not rebuild over a map it could not delete.
PStart(repos, gone) ==
    /\ \/ (\E f \in BOOLEAN : Start(f, repos, gone)) /\ UNCHANGED <<map, keys>>
       \/ StartReset(repos, gone) /\ map' = None /\ ForgetProvenance
    /\ runPin' \in Pin
    /\ UNCHANGED <<purged, published, stage>>

\* What the pin lets a clone of the framework resolve to.
Resolved ==
    CASE runPin = "head" -> RevisionOf[Framework]
      [] runPin = "latest" -> Release
      [] OTHER -> {runPin}

PClone(r, rev) ==
    /\ r = Framework => rev \in Resolved
    /\ (\E recovered \in BOOLEAN : Clone(r, rev, recovered)) \/ CloneTainted(r, rev)
    /\ UNCHANGED <<map, keys, run>>

\* Once the framework's records and marker are gone the keys go with them,
\* in the same batch.
PPurgeMark ==
    /\ PurgeMark
    /\ IF cur = Framework /\ marker'[cur] = None THEN ForgetProvenance ELSE UNCHANGED keys
    /\ UNCHANGED <<map, run>>

PPurgePartial ==
    /\ PurgePartial
    /\ purged' = (purged \/ cur = Framework)
    /\ UNCHANGED <<map, keys, runPin, published, stage>>

\* The other steps of a run do not concern the framework's keys.
PElsewhere ==
    /\ \/ DistrustSkipMarkers
       \/ DocsFetchFails \/ DocsUnchanged \/ (\E rev \in RevisionOf[Docs] : DocsDropMarker(rev))
       \/ DocsDelete \/ DocsIngest \/ DocsMark
       \/ \E r \in Repo :
             Cleanup(r) \/ CloneFails(r) \/ IngestAbandoned(r) \/ FlagDelete(r) \/ Bookkeep(r)
       \/ CleanupDone \/ PurgeDelete \/ CloneDone
       \/ DeleteStale \/ Ingest \/ ClearPending \/ ClearVectorEmpty \/ IngestDone
       \/ BookkeepDone
       \/ LoseVectors
    /\ UNCHANGED <<map, keys, run>>

-----------------------------------------------------------------------------
(* The end of a run *)

replaced == Framework \in changed \intersect ingested

\* The framework is in the index as this run resolved it.
Ready ==
    /\ fetched[Framework] # None
    /\ Framework \notin frozen
    /\ Framework \in changed => Framework \in ingested

\* A registry that cannot be read, or a map that cannot be saved, leaves the
\* map of an earlier run in place.
BuildMap ==
    /\ pc = "finish" /\ stage = "none"
    /\ stage' = "mapped"
    /\ \/ Ready /\ map' = fetched[Framework] /\ published' = TRUE
       \/ UNCHANGED <<map, published>>
    /\ UNCHANGED <<vars, keys, runPin, purged>>

WriteMetadata_StampsReady ==   \* mutant: the stamp does not wait for the map
    /\ pc = "finish" /\ stage = "mapped"
    /\ stage' = "written"
    /\ CASE Ready ->
              /\ pin' = runPin
              /\ stamp' = fetched[Framework]
              /\ mapStamp' = IF published THEN fetched[Framework] ELSE mapStamp
         [] ~Ready /\ purged -> ForgetProvenance
         [] OTHER -> UNCHANGED keys
    /\ UNCHANGED <<vars, map, runPin, purged, published>>

WriteMetadata_KeepsOldStamp ==   \* mutant: a checkout that no release describes leaves the old stamp
    /\ pc = "finish" /\ stage = "mapped"
    /\ stage' = "written"
    /\ CASE Ready /\ published ->
              /\ pin' = runPin
              /\ stamp' = fetched[Framework] \/ (fetched[Framework] \notin Release /\ stamp' = stamp)
              /\ mapStamp' = fetched[Framework]
         [] Ready /\ ~published /\ ~replaced ->
              pin' = runPin /\ UNCHANGED <<stamp, mapStamp>>
         [] (Ready /\ ~published /\ replaced) \/ (~Ready /\ purged) -> ForgetProvenance
         [] OTHER -> UNCHANGED keys
    /\ UNCHANGED <<vars, map, runPin, purged, published>>

\* One batch.  A checkout that no release describes has no stamp.
WriteMetadata ==
    /\ pc = "finish" /\ stage = "mapped"
    /\ stage' = "written"
    /\ CASE Ready /\ published ->
              /\ pin' = runPin
              /\ stamp' = fetched[Framework] \/ (fetched[Framework] \notin Release /\ stamp' = None)
              /\ mapStamp' = fetched[Framework]
         [] Ready /\ ~published /\ ~replaced ->
              pin' = runPin /\ UNCHANGED <<stamp, mapStamp>>
         [] (Ready /\ ~published /\ replaced) \/ (~Ready /\ purged) -> ForgetProvenance
         [] OTHER -> UNCHANGED keys
    /\ UNCHANGED <<vars, map, runPin, purged, published>>

PStop ==
    /\ Stop
    /\ runPin' = None /\ purged' = FALSE /\ published' = FALSE /\ stage' = "none"
    /\ UNCHANGED <<map, keys>>

PNext ==
    \/ \E repos \in SUBSET Repo : \E gone \in SUBSET (Repo \ repos) : PStart(repos, gone)
    \/ \E r \in Repo : \E rev \in RevisionOf[r] : PClone(r, rev)
    \/ PPurgeMark \/ PPurgePartial \/ PElsewhere
    \/ BuildMap \/ WriteMetadata
    \/ PStop

PSpec == PInit /\ [][PNext]_allVars

-----------------------------------------------------------------------------
(* Properties *)

\* resolve_framework_version, with the map loaded: the stamp answers when it
\* is exact and the map does not contradict it,
StampedAnswer ==
    IF stamp \in Release /\ (None \in {mapStamp, map} \/ mapStamp = map) THEN stamp ELSE None

\* else, with no stamp at all, the pin, when it names a release.
Answer ==
    IF stamp # None THEN StampedAnswer
    ELSE IF pin \in Release THEN pin ELSE None

\* A version answered from the stamp is the version the loaded map is of,
\* though the map and the stamp are committed apart and a crash may separate
\* them (resolve_framework_version's cross-check).
StampMatchesMap ==
    pc = "closed" /\ stamp # None /\ Answer # None /\ map # None => map = Answer

\* After a run that publishes a map, whatever else of it failed, a release pin
\* is what check_deprecation answers, and nothing but what the run fetched is,
\* whatever earlier runs left behind.
PublishedPinIsAnswered ==
    stage = "written" /\ published =>
        /\ map = fetched[Framework]
        /\ runPin \in Release => Answer = runPin
        /\ Answer \in {None, fetched[Framework]}

\* No key describes the framework once cleanup has forgotten it: they go in
\* the batch that drops its marker, and come back only after it
\* (_delete_repo_index_data: the pin is never left standing alone).
KeysNeedMarker == marker[Framework] = None => {pin, stamp, mapStamp} = {None}
=============================================================================
