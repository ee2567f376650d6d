--------------------------- MODULE Refresh_proofs ---------------------------
(***************************************************************************)
(* RefreshRun for any repos, revisions and number of runs: what a run      *)
(* skips is whole, the docs marker is honest, a run without an error heals *)
(* what it covers, and a commit marker outlives its repo's records.        *)
(*                                                                         *)
(* Provenance for any repos, revisions and releases: its runs are runs of  *)
(* RefreshRun; the version answered from the stamp is always the version   *)
(* of the map it is answered with; a run that publishes a map has its      *)
(* release pin answered; and no key outlives the framework's marker.       *)
(***************************************************************************)
EXTENDS Provenance, TLAPS

-----------------------------------------------------------------------------
(* The markers of a run *)

Whole(s, rev) == content[s] = [rev |-> rev, part |-> "all"]
Trusted(r) == r \notin pending \union vectorEmpty

\* No marker is believed wrongly.  Until a run has looked at the vector half,
\* its being empty is the other way to know.
MarkersSound ==
    /\ marker[Docs] # None => Whole(Docs, marker[Docs])
    /\ \A r \in Repo : marker[r] # None /\ Trusted(r) /\ HasRows(r) => content[r].part = "all"

Before == {"closed", "open"}
DocsPass == {"docs", "docsDelete", "docsIngest", "docsMark"}
Purging == {"purge", "purgeMark"}
Replacing == {"delete", "write", "purgePartial", "clear", "clearVector"}

\* The run has planned nothing yet.
Fresh ==
    /\ pc \in Before => ~failed
    /\ pc \in Before \union DocsPass \union {"cleanup"} \/ (pc \in Purging /\ cur \notin configured) =>
          /\ \A r \in Repo : fetched[r] = None
          /\ frozen = {} /\ changed = {}
    /\ pc \in Before \union DocsPass \union {"cleanup", "clone"} \union Purging => ingested = {}
    /\ pc \in Before \union DocsPass => todo = {}

DocsDone ==
    /\ pc \in {"docsDelete", "docsIngest", "docsMark"} =>
          marker[Docs] = None /\ fetched[Docs] # None
    /\ pc = "docsMark" => Whole(Docs, fetched[Docs])
    /\ pc \notin Before \union DocsPass /\ ~failed =>
          fetched[Docs] # None /\ Whole(Docs, fetched[Docs])

\* The clone pass: the count taken at the start still holds for what it has
\* not come to, and every repo it has passed without error was fetched.
ClonePass ==
    /\ pc \in DocsPass \union {"cleanup", "clone"} \union Purging =>
          \A r \in configured \intersect counted : fetched[r] = None => HasRows(r)
    /\ pc = "cleanup" => todo \subseteq unwanted
    /\ pc = "clone" => todo \subseteq configured
    /\ pc \in Purging => cur \in unwanted \union frozen /\ cur \in pending
    /\ pc \in Purging /\ cur \in configured => todo \subseteq configured
    /\ pc \in Purging /\ cur \in unwanted => todo \subseteq unwanted
    /\ pc = "clone" \/ (pc \in Purging /\ cur \in configured) =>
          /\ \A r \in todo : fetched[r] = None
          /\ ~failed => \A r \in configured \ todo : fetched[r] # None
    /\ \A r \in frozen \union changed : fetched[r] # None
    /\ pc = "purgeMark" => ~HasRows(cur)

\* What the run skips, and what it has ingested, stays as it was then.
Settled ==
    /\ \A r \in Skipped : content[r].part = "all" /\ marker[r] = fetched[r] /\ Trusted(r)
    /\ \A r \in ingested : Whole(r, fetched[r]) /\ Trusted(r)

IngestPass ==
    /\ pc \in {"ingest"} \union Replacing =>
          /\ todo \subseteq changed \ ingested
          /\ ~failed => changed \subseteq ingested \union todo
    /\ pc \in Replacing => cur \in todo
    /\ pc \in {"delete", "write", "purgePartial", "clear"} => cur \in pending
    /\ pc \in {"clear", "clearVector"} => Whole(cur, fetched[cur])
    /\ pc = "clearVector" => cur \notin pending
    /\ pc = "purgePartial" => failed
    /\ pc \in {"ingest", "bookkeep", "finish"} \union Replacing /\ ~failed =>
          \A r \in configured : fetched[r] # None

BookkeepPass ==
    /\ pc \in {"bookkeep", "finish"} /\ ~failed => changed \subseteq ingested
    /\ pc = "bookkeep" =>
          \A r \in todo : r \in configured \ frozen /\ fetched[r] # None
    /\ pc \in {"bookkeep", "finish"} /\ ~failed =>
          \A r \in configured \ frozen : r \in todo \/ marker[r] = fetched[r]
    /\ pc = "finish" => todo = {}

IInv ==
    /\ TypeOK
    /\ MarkersSound \/ (pc \in Before /\ VectorHalfEmpty)
    /\ Fresh /\ DocsDone /\ ClonePass /\ Settled /\ IngestPass /\ BookkeepPass

-----------------------------------------------------------------------------

\* A machine that has never run a refresh satisfies the invariant.
LEMMA InitIInv == Init => IInv
  BY DocsIsNoRepo, NoneIsNoRevision, NoneIsNoRepo
  DEF Init, IInv, TypeOK, Fresh, DocsDone, ClonePass, Settled, IngestPass, BookkeepPass,
      MarkersSound, VectorHalfEmpty, Source, Content, Empty, Pc, NoFetch, Skipped, HasRows, Whole,
      Trusted, Before, DocsPass, Purging, Replacing

\* What a partial delete leaves is again the content of a source.
LEMMA ErodedIsContent ==
  ASSUME NEW c \in Content, NEW d \in Eroded(c) PROVE d \in Content
  BY DEF Eroded, Content

\* So is nothing at all,
LEMMA EmptyIsContent == Empty \in Content
  BY DEF Content

\* and what an ingest leaves.
LEMMA WrittenIsContent ==
  ASSUME NEW rev \in Revision, NEW c \in Written(rev) PROVE c \in Content
  BY DEF Written, Content

\* Every step of a run, of its death and of the environment preserves it.
LEMMA NextIInv == IInv /\ [Next]_vars => IInv'
  <1> SUFFICES ASSUME IInv, [Next]_vars PROVE IInv'
    OBVIOUS
  <1> USE DocsIsNoRepo, NoneIsNoRevision, NoneIsNoRepo, RevisionsOfSources
  <1> USE DEF IInv, TypeOK, Fresh, DocsDone, ClonePass, Settled, IngestPass, BookkeepPass,
      MarkersSound, Source, Content, Part, Empty, Pc, Skipped, HasRows, Whole,
      Trusted, Before, DocsPass, Purging, Replacing, Goto, disk, args, plan
  <1>1. ASSUME NEW f \in BOOLEAN, NEW repos \in SUBSET Repo, NEW gone \in SUBSET (Repo \ repos), Start(f, repos, gone) PROVE IInv'
    BY <1>1 DEF Start, VectorHalfEmpty
  <1>2. ASSUME NEW repos \in SUBSET Repo, NEW gone \in SUBSET (Repo \ repos), StartReset(repos, gone) PROVE IInv'
    BY <1>2 DEF StartReset
  <1>3. CASE DistrustSkipMarkers
    BY <1>3 DEF DistrustSkipMarkers
  <1>4. CASE DocsFetchFails
    BY <1>4 DEF DocsFetchFails, ToCleanup, docsUnchanged, Report
  <1>5. CASE DocsUnchanged
    BY <1>5 DEF DocsUnchanged, ToCleanup, docsUnchanged, Report
  <1>6. ASSUME NEW rev \in RevisionOf[Docs], DocsDropMarker(rev) PROVE IInv'
    <2>1. TypeOK'
      <3> HIDE DEF Content, Empty, Part
      <3>1. content' \in [Source -> Content]
        BY <1>6, DocsIsNoRepo DEF DocsDropMarker, docsUnchanged
      <3>2. rev \in Revision
        BY DEF Source
      <3>3. marker' \in [Source -> Revision \union {None}] /\ fetched' \in [Source -> Revision \union {None}]
        BY <1>6, <3>2 DEF DocsDropMarker
      <3>4. QED
        BY <3>1, <3>3, <1>6 DEF DocsDropMarker, ToCleanup, docsUnchanged, Report
    <2>2. (MarkersSound \/ (pc \in Before /\ VectorHalfEmpty))'
      BY <1>6 DEF DocsDropMarker, ToCleanup, docsUnchanged, Report
    <2>3. Fresh'
      BY <1>6 DEF DocsDropMarker, ToCleanup, docsUnchanged, Report
    <2>4. DocsDone'
      BY <1>6 DEF DocsDropMarker, ToCleanup, docsUnchanged, Report
    <2>5. ClonePass'
      BY <1>6 DEF DocsDropMarker, ToCleanup, docsUnchanged, Report
    <2>6. Settled'
      BY <1>6 DEF DocsDropMarker, ToCleanup, docsUnchanged, Report
    <2>7. IngestPass'
      BY <1>6 DEF DocsDropMarker, ToCleanup, docsUnchanged, Report
    <2>8. BookkeepPass'
      BY <1>6 DEF DocsDropMarker, ToCleanup, docsUnchanged, Report
    <2>9. QED
      BY <2>1, <2>2, <2>3, <2>4, <2>5, <2>6, <2>7, <2>8
  <1>7. CASE DocsDelete
    <2>1. TypeOK'
      <3> HIDE DEF Content, Empty, Part
      <3>1. content' \in [Source -> Content]
        BY <1>7, ErodedIsContent, EmptyIsContent DEF DocsDelete
      <3>2. QED
        BY <3>1, <1>7 DEF DocsDelete, ToCleanup, docsUnchanged, Report
    <2>2. (MarkersSound \/ (pc \in Before /\ VectorHalfEmpty))'
      BY <1>7 DEF DocsDelete, ToCleanup, docsUnchanged, Report, Eroded
    <2>3. Fresh'
      BY <1>7 DEF DocsDelete, ToCleanup, docsUnchanged, Report, Eroded
    <2>4. DocsDone'
      BY <1>7 DEF DocsDelete, ToCleanup, docsUnchanged, Report, Eroded
    <2>5. ClonePass'
      BY <1>7 DEF DocsDelete, ToCleanup, docsUnchanged, Report, Eroded
    <2>6. Settled'
      BY <1>7 DEF DocsDelete, ToCleanup, docsUnchanged, Report, Eroded
    <2>7. IngestPass'
      BY <1>7 DEF DocsDelete, ToCleanup, docsUnchanged, Report, Eroded
    <2>8. BookkeepPass'
      BY <1>7 DEF DocsDelete, ToCleanup, docsUnchanged, Report, Eroded
    <2>9. QED
      BY <2>1, <2>2, <2>3, <2>4, <2>5, <2>6, <2>7, <2>8
  <1>8. CASE DocsIngest
    <2>1. TypeOK'
      <3> HIDE DEF Content, Empty, Part
      <3>1. content' \in [Source -> Content]
        BY <1>8, WrittenIsContent DEF DocsIngest
      <3>2. QED
        BY <3>1, <1>8 DEF DocsIngest, ToCleanup, docsUnchanged, Report
    <2>2. (MarkersSound \/ (pc \in Before /\ VectorHalfEmpty))'
      BY <1>8 DEF DocsIngest, ToCleanup, docsUnchanged, Report, Written
    <2>3. Fresh'
      BY <1>8 DEF DocsIngest, ToCleanup, docsUnchanged, Report, Written
    <2>4. DocsDone'
      BY <1>8 DEF DocsIngest, ToCleanup, docsUnchanged, Report, Written
    <2>5. ClonePass'
      BY <1>8 DEF DocsIngest, ToCleanup, docsUnchanged, Report, Written
    <2>6. Settled'
      BY <1>8 DEF DocsIngest, ToCleanup, docsUnchanged, Report, Written
    <2>7. IngestPass'
      BY <1>8 DEF DocsIngest, ToCleanup, docsUnchanged, Report, Written
    <2>8. BookkeepPass'
      BY <1>8 DEF DocsIngest, ToCleanup, docsUnchanged, Report, Written
    <2>9. QED
      BY <2>1, <2>2, <2>3, <2>4, <2>5, <2>6, <2>7, <2>8
  <1>9. CASE DocsMark
    BY <1>9 DEF DocsMark, ToCleanup, docsUnchanged
  <1>10. ASSUME NEW r \in Repo, Cleanup(r) PROVE IInv'
    <2>1. TypeOK'
      BY <1>10 DEF Cleanup, PurgeBegin, Report
    <2>2. (MarkersSound \/ (pc \in Before /\ VectorHalfEmpty))'
      BY <1>10 DEF Cleanup, PurgeBegin, Report
    <2>3. Fresh'
      BY <1>10 DEF Cleanup, PurgeBegin, Report
    <2>4. DocsDone'
      BY <1>10 DEF Cleanup, PurgeBegin, Report
    <2>5. ClonePass'
      BY <1>10 DEF Cleanup, PurgeBegin, Report
    <2>6. Settled'
      BY <1>10 DEF Cleanup, PurgeBegin, Report
    <2>7. IngestPass'
      BY <1>10 DEF Cleanup, PurgeBegin, Report
    <2>8. BookkeepPass'
      BY <1>10 DEF Cleanup, PurgeBegin, Report
    <2>9. QED
      BY <2>1, <2>2, <2>3, <2>4, <2>5, <2>6, <2>7, <2>8
  <1>11. CASE CleanupDone
    BY <1>11 DEF CleanupDone
  <1>12. CASE PurgeDelete
    <2>1. TypeOK'
      <3> HIDE DEF Content, Empty, Part
      <3>1. content' \in [Source -> Content]
        BY <1>12, ErodedIsContent, EmptyIsContent DEF PurgeDelete
      <3>2. QED
        BY <3>1, <1>12 DEF PurgeDelete, PurgeReturns, Report
    <2>2. (MarkersSound \/ (pc \in Before /\ VectorHalfEmpty))'
      BY <1>12 DEF PurgeDelete, PurgeReturns, Report, Eroded
    <2>3. Fresh'
      BY <1>12 DEF PurgeDelete, PurgeReturns, Report, Eroded
    <2>4. DocsDone'
      BY <1>12 DEF PurgeDelete, PurgeReturns, Report, Eroded
    <2>5. ClonePass'
      BY <1>12 DEF PurgeDelete, PurgeReturns, Report, Eroded
    <2>6. Settled'
      BY <1>12 DEF PurgeDelete, PurgeReturns, Report, Eroded
    <2>7. IngestPass'
      BY <1>12 DEF PurgeDelete, PurgeReturns, Report, Eroded
    <2>8. BookkeepPass'
      BY <1>12 DEF PurgeDelete, PurgeReturns, Report, Eroded
    <2>9. QED
      BY <2>1, <2>2, <2>3, <2>4, <2>5, <2>6, <2>7, <2>8
  <1>13. CASE PurgeMark
    <2>1. TypeOK'
      BY <1>13 DEF PurgeMark, PurgeReturns, Report
    <2>2. (MarkersSound \/ (pc \in Before /\ VectorHalfEmpty))'
      BY <1>13 DEF PurgeMark, PurgeReturns, Report
    <2>3. Fresh'
      BY <1>13 DEF PurgeMark, PurgeReturns, Report
    <2>4. DocsDone'
      BY <1>13 DEF PurgeMark, PurgeReturns, Report
    <2>5. ClonePass'
      BY <1>13 DEF PurgeMark, PurgeReturns, Report
    <2>6. Settled'
      BY <1>13 DEF PurgeMark, PurgeReturns, Report
    <2>7. IngestPass'
      BY <1>13 DEF PurgeMark, PurgeReturns, Report
    <2>8. BookkeepPass'
      BY <1>13 DEF PurgeMark, PurgeReturns, Report
    <2>9. QED
      BY <2>1, <2>2, <2>3, <2>4, <2>5, <2>6, <2>7, <2>8
  <1>14. ASSUME NEW r \in Repo, CloneFails(r) PROVE IInv'
    BY <1>14 DEF CloneFails, Report
  <1>15. ASSUME NEW r \in Repo, NEW rev \in RevisionOf[r], NEW recovered \in BOOLEAN, Clone(r, rev, recovered) PROVE IInv'
    BY <1>15 DEF Clone, Skippable
  <1>16. ASSUME NEW r \in Repo, NEW rev \in RevisionOf[r], CloneTainted(r, rev) PROVE IInv'
    <2>1. TypeOK'
      <3> HIDE DEF Content, Empty, Part
      <3>1. content' \in [Source -> Content]
        BY <1>16, NoneIsNoRepo DEF CloneTainted
      <3>2. rev \in Revision
        BY DEF Source
      <3>3. marker' \in [Source -> Revision \union {None}] /\ fetched' \in [Source -> Revision \union {None}]
        BY <1>16, <3>2 DEF CloneTainted
      <3>4. r \in configured /\ fetched[r] = None
        BY <1>16 DEF CloneTainted
      <3>5. frozen' \subseteq configured /\ changed' \subseteq configured \ frozen'
        BY <1>16, <3>4 DEF CloneTainted
      <3>6. QED
        BY <3>1, <3>3, <3>5, <1>16 DEF CloneTainted, PurgeBegin, Report
    <2>2. (MarkersSound \/ (pc \in Before /\ VectorHalfEmpty))'
      BY <1>16 DEF CloneTainted, PurgeBegin, Report
    <2>3. Fresh'
      BY <1>16 DEF CloneTainted, PurgeBegin, Report
    <2>4. DocsDone'
      BY <1>16 DEF CloneTainted, PurgeBegin, Report
    <2>5. ClonePass'
      BY <1>16 DEF CloneTainted, PurgeBegin, Report
    <2>6. Settled'
      BY <1>16 DEF CloneTainted, PurgeBegin, Report
    <2>7. IngestPass'
      BY <1>16 DEF CloneTainted, PurgeBegin, Report
    <2>8. BookkeepPass'
      BY <1>16 DEF CloneTainted, PurgeBegin, Report
    <2>9. QED
      BY <2>1, <2>2, <2>3, <2>4, <2>5, <2>6, <2>7, <2>8
  <1>17. CASE CloneDone
    BY <1>17 DEF CloneDone
  <1>18. ASSUME NEW r \in Repo, IngestAbandoned(r) PROVE IInv'
    BY <1>18 DEF IngestAbandoned, Report, ingestUnchanged
  <1>19. ASSUME NEW r \in Repo, FlagDelete(r) PROVE IInv'
    BY <1>19 DEF FlagDelete, ingestUnchanged
  <1>20. CASE DeleteStale
    <2>1. TypeOK'
      <3> HIDE DEF Content, Empty, Part
      <3>1. content' \in [Source -> Content]
        BY <1>20, ErodedIsContent, EmptyIsContent DEF DeleteStale
      <3>2. QED
        BY <3>1, <1>20 DEF DeleteStale, NextRepo, Report, ingestUnchanged
    <2>2. (MarkersSound \/ (pc \in Before /\ VectorHalfEmpty))'
      BY <1>20 DEF DeleteStale, NextRepo, Report, Eroded, ingestUnchanged
    <2>3. Fresh'
      BY <1>20 DEF DeleteStale, NextRepo, Report, Eroded, ingestUnchanged
    <2>4. DocsDone'
      BY <1>20 DEF DeleteStale, NextRepo, Report, Eroded, ingestUnchanged
    <2>5. ClonePass'
      BY <1>20 DEF DeleteStale, NextRepo, Report, Eroded, ingestUnchanged
    <2>6. Settled'
      BY <1>20 DEF DeleteStale, NextRepo, Report, Eroded, ingestUnchanged
    <2>7. IngestPass'
      BY <1>20 DEF DeleteStale, NextRepo, Report, Eroded, ingestUnchanged
    <2>8. BookkeepPass'
      BY <1>20 DEF DeleteStale, NextRepo, Report, Eroded, ingestUnchanged
    <2>9. QED
      BY <2>1, <2>2, <2>3, <2>4, <2>5, <2>6, <2>7, <2>8
  <1>21. CASE Ingest
    <2>1. TypeOK'
      <3> HIDE DEF Content, Empty, Part
      <3>1. content' \in [Source -> Content]
        BY <1>21, WrittenIsContent DEF Ingest
      <3>2. QED
        BY <3>1, <1>21 DEF Ingest, Report, ingestUnchanged
    <2>2. (MarkersSound \/ (pc \in Before /\ VectorHalfEmpty))'
      BY <1>21 DEF Ingest, Written, Report, ingestUnchanged
    <2>3. Fresh'
      BY <1>21 DEF Ingest, Written, Report, ingestUnchanged
    <2>4. DocsDone'
      BY <1>21 DEF Ingest, Written, Report, ingestUnchanged
    <2>5. ClonePass'
      BY <1>21 DEF Ingest, Written, Report, ingestUnchanged
    <2>6. Settled'
      BY <1>21 DEF Ingest, Written, Report, ingestUnchanged
    <2>7. IngestPass'
      BY <1>21 DEF Ingest, Written, Report, ingestUnchanged
    <2>8. BookkeepPass'
      BY <1>21 DEF Ingest, Written, Report, ingestUnchanged
    <2>9. QED
      BY <2>1, <2>2, <2>3, <2>4, <2>5, <2>6, <2>7, <2>8
  <1>22. CASE PurgePartial
    BY <1>22 DEF PurgePartial, NextRepo, Eroded, ingestUnchanged
  <1>23. CASE ClearPending
    BY <1>23 DEF ClearPending, ingestUnchanged
  <1>24. CASE ClearVectorEmpty
    BY <1>24 DEF ClearVectorEmpty, NextRepo, ingestUnchanged
  <1>25. CASE IngestDone
    BY <1>25 DEF IngestDone, ingestUnchanged
  <1>26. ASSUME NEW r \in Repo, Bookkeep(r) PROVE IInv'
    <2>1. TypeOK'
      BY <1>26 DEF Bookkeep
    <2>2. (MarkersSound \/ (pc \in Before /\ VectorHalfEmpty))'
      <3>1. CASE r \in changed \ ingested
        BY <1>26, <3>1 DEF Bookkeep
      <3>2. CASE r \in ingested
        <4>1. content[r].part = "all"
          <5>1. content[r] = [rev |-> fetched[r], part |-> "all"]
            BY ONLY <3>2, IInv DEF IInv, Settled, Whole
          <5>2. QED
            BY ONLY <5>1
        <4>2. MarkersSound
          BY <1>26 DEF Bookkeep
        <4>3. QED
          BY <1>26, <3>2, <4>1, <4>2 DEF Bookkeep
      <3>3. CASE r \notin changed
        <4>1. r \in Skipped
          BY <1>26, <3>3 DEF Bookkeep
        <4>2. marker' = marker /\ pending' = pending
          BY <1>26, <3>3, <4>1 DEF Bookkeep
        <4>3. QED
          BY <1>26, <4>2 DEF Bookkeep
      <3>4. QED
        BY <3>1, <3>2, <3>3
    <2>3. Fresh'
      BY <1>26 DEF Bookkeep
    <2>4. DocsDone'
      BY <1>26 DEF Bookkeep
    <2>5. ClonePass'
      BY <1>26 DEF Bookkeep
    <2>6. Settled'
      BY <1>26 DEF Bookkeep
    <2>7. IngestPass'
      BY <1>26 DEF Bookkeep
    <2>8. BookkeepPass'
      BY <1>26 DEF Bookkeep
    <2>9. QED
      BY <2>1, <2>2, <2>3, <2>4, <2>5, <2>6, <2>7, <2>8
  <1>27. CASE BookkeepDone
    BY <1>27 DEF BookkeepDone
  <1>28. CASE Stop
    <2>1. TypeOK'
      BY <1>28 DEF Stop, NoFetch
    <2>2. (MarkersSound \/ (pc \in Before /\ VectorHalfEmpty))'
      BY <1>28 DEF Stop, NoFetch, VectorHalfEmpty
    <2>3. Fresh'
      BY <1>28 DEF Stop, NoFetch
    <2>4. DocsDone'
      BY <1>28 DEF Stop, NoFetch
    <2>5. ClonePass'
      BY <1>28 DEF Stop, NoFetch
    <2>6. Settled'
      BY <1>28 DEF Stop, NoFetch
    <2>7. IngestPass'
      BY <1>28 DEF Stop, NoFetch
    <2>8. BookkeepPass'
      BY <1>28 DEF Stop, NoFetch
    <2>9. QED
      BY <2>1, <2>2, <2>3, <2>4, <2>5, <2>6, <2>7, <2>8
  <1>29. CASE LoseVectors
    BY <1>29 DEF LoseVectors, VectorHalfEmpty
  <1>30. CASE UNCHANGED vars
    <2>1. TypeOK'
      BY <1>30 DEF vars
    <2>2. (MarkersSound \/ (pc \in Before /\ VectorHalfEmpty))'
      BY <1>30 DEF vars, VectorHalfEmpty
    <2>3. Fresh'
      BY <1>30 DEF vars
    <2>4. DocsDone'
      BY <1>30 DEF vars
    <2>5. ClonePass'
      BY <1>30 DEF vars
    <2>6. Settled'
      BY <1>30 DEF vars
    <2>7. IngestPass'
      BY <1>30 DEF vars
    <2>8. BookkeepPass'
      BY <1>30 DEF vars
    <2>9. QED
      BY <2>1, <2>2, <2>3, <2>4, <2>5, <2>6, <2>7, <2>8
  <1>31. ASSUME Run PROVE IInv'
    <2> HIDE DEF IInv
    <2>1. QED
      BY <1>31, <1>3, <1>4, <1>5, <1>6, <1>7, <1>8, <1>9, <1>10, <1>11, <1>12, <1>13, <1>14, <1>15, <1>16, <1>17, <1>18, <1>19, <1>20, <1>21, <1>22, <1>23, <1>24, <1>25, <1>26, <1>27 DEF Run
  <1>32. ASSUME Next PROVE IInv'
    <2> HIDE DEF IInv
    <2>1. QED
      BY <1>32, <1>1, <1>2, <1>28, <1>29, <1>31 DEF Next
  <1>33. QED
    BY <1>30, <1>32

\* IInv holds in every reachable state of any number of runs.
THEOREM Invariant == Spec => []IInv
  <1>1. QED
    BY InitIInv, NextIInv, PTL DEF Spec

\* Type correctness; that no tainted repo is ingested is part of it.
THEOREM TypeCorrect == Spec => []TypeOK
  <1>1. IInv => TypeOK
    BY DEF IInv
  <1>2. QED
    BY <1>1, Invariant, PTL

\* The skip shortcut never trusts an incomplete repo, after any crash,
\* failure or loss.
THEOREM SkipIsSafe == Spec => []SkippedAreWhole
  <1>1. IInv => SkippedAreWhole
    BY DEF IInv, Settled, SkippedAreWhole
  <1>2. QED
    BY <1>1, Invariant, PTL

\* The docs hash vouches only for complete docs records of that very text.
THEOREM DocsMarkerHonest == Spec => []DocsMarkerIsHonest
  <1>1. IInv => DocsMarkerIsHonest
    BY DEF IInv, MarkersSound, DocsMarkerIsHonest, Whole, Before
  <1>2. QED
    BY <1>1, Invariant, PTL

\* One run without an error repairs whatever earlier runs left behind.
THEOREM CleanRunsHeal == Spec => []CleanRunHeals
  <1>1. IInv => CleanRunHeals
    <2> SUFFICES ASSUME IInv, pc = "finish", ~failed
                 PROVE  /\ Whole(Docs, fetched[Docs])
                        /\ \A r \in configured \ frozen :
                              /\ content[r].part = "all"
                              /\ marker[r] = fetched[r]
                              /\ Trusted(r)
      BY DEF CleanRunHeals, Whole, Trusted
    <2>1. Whole(Docs, fetched[Docs])
      BY DEF IInv, DocsDone, Before, DocsPass
    <2>2. ASSUME NEW r \in configured \ frozen
          PROVE  content[r].part = "all" /\ marker[r] = fetched[r] /\ Trusted(r)
      <3>1. fetched[r] # None /\ marker[r] = fetched[r]
        BY DEF IInv, IngestPass, BookkeepPass
      <3>2. r \in Skipped \/ r \in ingested
        BY <3>1 DEF IInv, BookkeepPass, Skipped
      <3>3. CASE r \in Skipped
        BY <3>1, <3>3 DEF IInv, Settled
      <3>4. CASE r \in ingested
        <4>1. content[r] = [rev |-> fetched[r], part |-> "all"] /\ Trusted(r)
          BY <3>4 DEF IInv, Settled, Whole
        <4>2. content[r].part = "all"
          BY ONLY <4>1
        <4>3. QED
          BY <3>1, <4>1, <4>2
      <3>5. QED
        BY <3>2, <3>3, <3>4
    <2>3. QED
      BY <2>1, <2>2
  <1>2. QED
    BY <1>1, Invariant, PTL

\* The key that cleanup and --prune find a repo by is never dropped while the
\* index still holds something of the repo.
THEOREM MarkersOutliveRecords == Spec => MarkerOutlivesRecords
  <1> DEFINE Kept == \A r \in Repo : marker[r] # None /\ marker'[r] = None => content'[r] = Empty
  <1>1. IInv /\ [Next]_vars => [Kept]_vars
    <2> SUFFICES ASSUME IInv, Next, NEW r \in Repo, marker[r] # None, marker'[r] = None
                 PROVE  content'[r] = Empty
      OBVIOUS
    <2> USE DocsIsNoRepo DEF IInv, TypeOK, Source
    <2>1. CASE PurgeMark
      BY <2>1 DEF PurgeMark, ClonePass, HasRows
    <2>2. CASE \E repos \in SUBSET Repo : \E gone \in SUBSET (Repo \ repos) :
                  StartReset(repos, gone)
      BY <2>2 DEF StartReset
    <2>3. ASSUME NEW q \in Repo, Bookkeep(q)
          PROVE  FALSE
      <3>1. fetched[q] # None
        BY <2>3 DEF Bookkeep, BookkeepPass
      <3>2. QED
        BY <2>3, <3>1 DEF Bookkeep
    <2>4. CASE DistrustSkipMarkers \/ DocsMark \/ \E rev \in RevisionOf[Docs] : DocsDropMarker(rev)
      BY <2>4 DEF DistrustSkipMarkers, DocsMark, DocsDropMarker
    <2>5. CASE marker' = marker
      BY <2>5
    <2>6. Next => \/ PurgeMark
                  \/ \E repos \in SUBSET Repo : \E gone \in SUBSET (Repo \ repos) :
                        StartReset(repos, gone)
                  \/ \E q \in Repo : Bookkeep(q)
                  \/ DistrustSkipMarkers \/ DocsMark
                  \/ \E rev \in RevisionOf[Docs] : DocsDropMarker(rev)
                  \/ marker' = marker
      BY DEF Next, Run, Start, DocsFetchFails, DocsUnchanged, DocsDelete, DocsIngest,
             Cleanup, CleanupDone, PurgeDelete, CloneFails, Clone, CloneTainted, CloneDone,
             IngestAbandoned, FlagDelete, DeleteStale, Ingest, PurgePartial, ClearPending,
             ClearVectorEmpty, IngestDone, BookkeepDone, Stop, LoseVectors, disk
    <2>7. QED
      BY <2>1, <2>2, <2>3, <2>4, <2>5, <2>6
  <1>2. QED
    BY <1>1, Invariant, PTL DEF Spec, MarkerOutlivesRecords

-----------------------------------------------------------------------------
(* A run with its provenance is a run *)

\* Every step of a run with provenance is a step of a run, or, at its end,
\* none: the map and the batch of keys are written beside the records.
LEMMA PNextIsNext == [PNext]_allVars => [Next]_vars
  <1> SUFFICES ASSUME PNext PROVE [Next]_vars
    BY DEF allVars
  <1>1. ASSUME NEW repos \in SUBSET Repo, NEW gone \in SUBSET (Repo \ repos), PStart(repos, gone)
        PROVE  Next
    BY <1>1 DEF PStart, Next
  <1>2. ASSUME NEW r \in Repo, NEW rev \in RevisionOf[r], PClone(r, rev)
        PROVE  Run
    BY <1>2 DEF PClone, Run
  <1>3. CASE PPurgeMark \/ PPurgePartial
    BY <1>3 DEF PPurgeMark, PPurgePartial, Next, Run
  <1>4. CASE PElsewhere
    BY <1>4 DEF PElsewhere, Next, Run
  <1>5. CASE BuildMap \/ WriteMetadata
    BY <1>5 DEF BuildMap, WriteMetadata
  <1>6. CASE PStop
    BY <1>6 DEF PStop, Next
  <1>7. QED
    BY <1>1, <1>2, <1>3, <1>4, <1>5, <1>6 DEF PNext, Next

\* Keeping the framework's keys and map changes nothing of what a run does to
\* the index: whatever holds of RefreshRun holds here.
THEOREM Refinement == PSpec => Spec
  <1>1. PInit => Init
    BY DEF PInit
  <1>2. QED
    BY <1>1, PNextIsNext, PTL DEF PSpec, Spec

\* So its invariant is one here.
LEMMA RunsHold == PSpec => []IInv
  BY Refinement, Invariant, PTL

-----------------------------------------------------------------------------
(* Types *)

\* What the provenance adds to a run's state is of its type.
KeysTyped ==
    /\ {map, stamp, mapStamp} \subseteq Revision \union {None}
    /\ pin \in Pin \union {None}
    /\ runPin \in Pin \union {None}
    /\ purged \in BOOLEAN /\ published \in BOOLEAN
    /\ stage \in {"none", "mapped", "written"}
    /\ stage # "none" => pc = "finish"
    /\ runPin = None <=> pc = "closed"

\* No pin is None, so a run that goes on has one.
LEMMA NoneIsNoPin == None \notin Pin
  BY SentinelsAreNoRevisions, ReleasesAreRevisions, RevisionsOfSources, FrameworkIsRepo, NoneIsNoRevision
  DEF Pin, Source

\* pc only goes from and to "closed" where a run starts and ends.
LEMMA PcGoesOn ==
  ASSUME TypeOK,
         \/ \E r \in Repo : \E rev \in RevisionOf[r] : PClone(r, rev)
         \/ PPurgeMark \/ PPurgePartial \/ PElsewhere
  PROVE  /\ pc' = "closed" <=> pc = "closed"
         /\ pc # "finish"
         /\ run' = <<runPin, purged', published, stage>>
         /\ purged \in BOOLEAN => purged' \in BOOLEAN
  <1>1. ASSUME NEW r \in Repo, NEW rev \in RevisionOf[r], PClone(r, rev)
        PROVE  pc = "clone" /\ pc' \in {"clone", "purge"} /\ UNCHANGED run
    BY <1>1 DEF PClone, Clone, CloneTainted, PurgeBegin, Goto
  <1>2. CASE PPurgeMark
    <2>1. pc = "purgeMark" /\ pc' \in {"clone", "cleanup"} /\ UNCHANGED run
      BY <1>2 DEF PPurgeMark, PurgeMark, PurgeReturns, Goto
    <2>2. QED
      BY <2>1 DEF run
  <1>3. CASE PPurgePartial
    <2>1. pc = "purgePartial" /\ pc' = "ingest" /\ run' = <<runPin, purged', published, stage>>
      BY <1>3 DEF PPurgePartial, PurgePartial, NextRepo, Goto, run
    <2>2. purged' = (purged \/ cur = Framework)
      BY <1>3 DEF PPurgePartial
    <2>3. QED
      BY <2>1, <2>2
  <1>4. CASE PElsewhere
    <2>1. UNCHANGED run
      BY <1>4 DEF PElsewhere
    <2>2. /\ pc' = "closed" <=> pc = "closed"
          /\ pc # "finish"
      <3>1. CASE \/ DistrustSkipMarkers
                 \/ DocsFetchFails \/ DocsUnchanged \/ (\E rev \in RevisionOf[Docs] : DocsDropMarker(rev))
                 \/ DocsDelete \/ DocsIngest \/ DocsMark
        BY <3>1 DEF DistrustSkipMarkers, DocsFetchFails, DocsUnchanged, DocsDropMarker, DocsDelete, DocsIngest,
                    DocsMark, ToCleanup, Goto
      <3>2. CASE \E r \in Repo : Cleanup(r) \/ CloneFails(r) \/ IngestAbandoned(r) \/ FlagDelete(r) \/ Bookkeep(r)
        BY <3>2 DEF Cleanup, PurgeBegin, CloneFails, IngestAbandoned, FlagDelete, Bookkeep, Goto
      <3>3. CASE CleanupDone \/ PurgeDelete \/ CloneDone \/ DeleteStale \/ Ingest
        BY <3>3 DEF CleanupDone, PurgeDelete, PurgeReturns, CloneDone, DeleteStale, NextRepo, Ingest, Goto
      <3>4. CASE ClearPending \/ ClearVectorEmpty \/ IngestDone \/ BookkeepDone \/ LoseVectors
        BY <3>4 DEF ClearPending, ClearVectorEmpty, NextRepo, IngestDone, BookkeepDone, LoseVectors, Goto
      <3>5. QED
        BY <1>4, <3>1, <3>2, <3>3, <3>4 DEF PElsewhere
    <2>3. QED
      BY <2>1, <2>2 DEF run
  <1>5. QED
    BY <1>1, <1>2, <1>3, <1>4 DEF run

\* The revision of a source that was fetched is one.
LEMMA FetchedIsRevision ==
  ASSUME TypeOK PROVE fetched[Framework] \in Revision \union {None}
  BY FrameworkIsRepo DEF TypeOK, Source

LEMMA KeysStayTyped == IInv /\ KeysTyped /\ [PNext]_allVars => KeysTyped'
  <1> SUFFICES ASSUME IInv, KeysTyped, [PNext]_allVars PROVE KeysTyped'
    OBVIOUS
  <1>0. TypeOK
    BY DEF IInv
  <1> USE NoneIsNoPin DEF KeysTyped
  <1>1. ASSUME NEW repos \in SUBSET Repo, NEW gone \in SUBSET (Repo \ repos), PStart(repos, gone)
        PROVE  KeysTyped'
    <2>1. pc = "closed" /\ pc' = "open"
      BY <1>1 DEF PStart, Start, StartReset, Goto
    <2>2. /\ runPin' \in Pin /\ UNCHANGED <<purged, published, stage>>
          /\ UNCHANGED <<map, pin, stamp, mapStamp>> \/ {map', pin', stamp', mapStamp'} = {None}
      BY <1>1 DEF PStart, keys, ForgetProvenance
    <2>3. QED
      BY <2>1, <2>2
  <1>2. CASE \/ \E r \in Repo : \E rev \in RevisionOf[r] : PClone(r, rev)
             \/ PPurgeMark \/ PPurgePartial \/ PElsewhere
    <2>1. UNCHANGED <<map, keys>> \/ (map' = map /\ ForgetProvenance)
      BY <1>2 DEF PClone, PPurgeMark, PPurgePartial, PElsewhere
    <2>2. /\ map' = map /\ stamp' \in {stamp, None} /\ mapStamp' \in {mapStamp, None} /\ pin' \in {pin, None}
      BY <2>1 DEF keys, ForgetProvenance
    <2>3. /\ pc' = "closed" <=> pc = "closed"
          /\ pc # "finish"
          /\ runPin' = runPin /\ published' = published /\ stage' = stage /\ purged' \in BOOLEAN
      BY <1>0, <1>2, PcGoesOn DEF run
    <2>4. QED
      BY <2>2, <2>3
  <1>3. CASE BuildMap
    BY <1>0, <1>3, FetchedIsRevision DEF BuildMap, vars, keys
  <1>4. CASE WriteMetadata
    <2>1. /\ pc = "finish" /\ stage' = "written"
          /\ UNCHANGED <<pc, map, runPin, purged, published>>
      BY <1>4 DEF WriteMetadata, vars
    <2>2. /\ pin' \in {pin, runPin, None}
          /\ stamp' \in {stamp, fetched[Framework], None}
          /\ mapStamp' \in {mapStamp, fetched[Framework], None}
      <3>1. CASE Ready /\ published
        BY <1>4, <3>1 DEF WriteMetadata
      <3>2. CASE ~(Ready /\ published)
        BY <1>4, <3>2 DEF WriteMetadata, ForgetProvenance, keys
      <3>3. QED
        BY <3>1, <3>2
    <2>3. QED
      BY <1>0, <2>1, <2>2, FetchedIsRevision
  <1>5. CASE PStop
    BY <1>5 DEF PStop, Stop, Goto, keys
  <1>6. CASE UNCHANGED allVars
    BY <1>6 DEF allVars, vars, keys, run
  <1>7. QED
    BY <1>1, <1>2, <1>3, <1>4, <1>5, <1>6 DEF PNext

\* The map, the keys and the run's own flags are always of their types, and a
\* run has a pin exactly while it goes on.
THEOREM ProvenanceTypeCorrect == PSpec => []ProvenanceTypeOK
  <1>1. PInit => KeysTyped
    BY DEF PInit, KeysTyped, Init
  <1>2. IInv /\ KeysTyped => ProvenanceTypeOK
    BY DEF IInv, KeysTyped, ProvenanceTypeOK
  <1>3. QED
    BY <1>1, <1>2, RunsHold, KeysStayTyped, PTL DEF PSpec

-----------------------------------------------------------------------------
(* The stamp and the map *)

\* The stamp and the map's commit are written, and forgotten, in one batch.
StampedTogether == stamp # None => mapStamp = stamp

\* They are, whatever is written to the map between two batches.
LEMMA StampsTogether == PSpec => []StampedTogether
  <1>1. PInit => StampedTogether
    BY DEF PInit, StampedTogether
  <1>2. StampedTogether /\ [PNext]_allVars => StampedTogether'
    <2> SUFFICES ASSUME StampedTogether, [PNext]_allVars PROVE StampedTogether'
      OBVIOUS
    <2> USE DEF StampedTogether, keys, ForgetProvenance
    <2>1. ASSUME NEW repos \in SUBSET Repo, NEW gone \in SUBSET (Repo \ repos), PStart(repos, gone)
          PROVE  StampedTogether'
      BY <2>1 DEF PStart
    <2>2. ASSUME NEW r \in Repo, NEW rev \in RevisionOf[r], PClone(r, rev)
          PROVE  StampedTogether'
      BY <2>2 DEF PClone
    <2>3. CASE PPurgeMark
      BY <2>3 DEF PPurgeMark
    <2>4. CASE PPurgePartial \/ PElsewhere \/ BuildMap \/ PStop
      BY <2>4 DEF PPurgePartial, PElsewhere, BuildMap, PStop
    <2>5. CASE WriteMetadata
      <3>1. CASE Ready /\ published
        BY <2>5, <3>1 DEF WriteMetadata
      <3>2. CASE ~(Ready /\ published)
        <4>1. UNCHANGED <<stamp, mapStamp>> \/ ForgetProvenance
          BY <2>5, <3>2 DEF WriteMetadata
        <4>2. QED
          BY <4>1
      <3>3. QED
        BY <3>1, <3>2
    <2>6. CASE UNCHANGED allVars
      BY <2>6 DEF allVars
    <2>7. QED
      BY <2>1, <2>2, <2>3, <2>4, <2>5, <2>6 DEF PNext
  <1>3. QED
    BY <1>1, <1>2, PTL DEF PSpec

\* resolve_framework_version never pairs an exact version with another
\* revision's map, though a crash may part the map from the stamp.
THEOREM StampIsOfMap == PSpec => []StampMatchesMap
  <1>1. StampedTogether => StampMatchesMap
    BY DEF StampedTogether, StampMatchesMap, Answer, StampedAnswer
  <1>2. QED
    BY <1>1, StampsTogether, PTL

-----------------------------------------------------------------------------
(* What a run fetched of the framework, and what it publishes *)

\* Nothing but a clone changes what was fetched of a repo while a run goes on,
\* and what was fetched is forgotten between runs.
LEMMA FetchStays ==
  ASSUME IInv, NEW r \in Repo,
         Next, ~(\E rev \in RevisionOf[r] : (\E b \in BOOLEAN : Clone(r, rev, b)) \/ CloneTainted(r, rev))
  PROVE  fetched'[r] = fetched[r] \/ fetched'[r] = None
  <1> USE DocsIsNoRepo DEF IInv, TypeOK, Source
  <1>1. CASE \/ \E repos \in SUBSET Repo : \E gone \in SUBSET (Repo \ repos) :
                  (\E f \in BOOLEAN : Start(f, repos, gone)) \/ StartReset(repos, gone)
             \/ LoseVectors
    BY <1>1 DEF Start, StartReset, LoseVectors, plan
  <1>2. CASE Stop
    BY <1>2 DEF Stop, NoFetch
  <1>3. CASE DocsUnchanged \/ \E rev \in RevisionOf[Docs] : DocsDropMarker(rev)
    BY <1>3 DEF DocsUnchanged, DocsDropMarker
  <1>4. CASE DistrustSkipMarkers \/ DocsFetchFails \/ DocsDelete \/ DocsIngest \/ DocsMark
    BY <1>4 DEF DistrustSkipMarkers, DocsFetchFails, DocsDelete, DocsIngest, DocsMark
  <1>5. CASE \/ (\E q \in Repo : Cleanup(q)) \/ CleanupDone \/ PurgeDelete \/ PurgeMark
             \/ \E q \in Repo : CloneFails(q)
    BY <1>5 DEF Cleanup, CleanupDone, PurgeDelete, PurgeMark, CloneFails, plan
  <1>6. ASSUME NEW q \in Repo, NEW rev \in RevisionOf[q],
               (\E b \in BOOLEAN : Clone(q, rev, b)) \/ CloneTainted(q, rev)
        PROVE  fetched'[r] = fetched[r]
    <2>1. q # r
      BY <1>6
    <2>2. fetched' = [fetched EXCEPT ![q] = rev]
      BY <1>6 DEF Clone, CloneTainted
    <2>3. QED
      BY <2>1, <2>2
  <1>7. CASE CloneDone \/ IngestDone \/ BookkeepDone \/ \E q \in Repo : Bookkeep(q)
    BY <1>7 DEF CloneDone, IngestDone, BookkeepDone, Bookkeep, plan, ingestUnchanged
  <1>8. CASE \/ \E q \in Repo : IngestAbandoned(q) \/ FlagDelete(q)
             \/ DeleteStale \/ Ingest \/ PurgePartial \/ ClearPending \/ ClearVectorEmpty
    BY <1>8 DEF IngestAbandoned, FlagDelete, DeleteStale, Ingest, PurgePartial, ClearPending, ClearVectorEmpty,
                ingestUnchanged, plan
  <1>9. QED
    BY <1>1, <1>2, <1>3, <1>4, <1>5, <1>6, <1>7, <1>8 DEF Next, Run

\* A run fetches what its pin lets it; a published map is of that revision,
\* and once the batch is written so is everything that tells the version.
Published ==
    /\ fetched[Framework] # None => fetched[Framework] \in Resolved
    /\ published => stage # "none" /\ Ready /\ map = fetched[Framework]
    /\ published /\ stage = "written" =>
          /\ pin = runPin /\ mapStamp = fetched[Framework]
          /\ stamp = fetched[Framework] \/ (fetched[Framework] \notin Release /\ stamp = None)

LEMMA PublishedStays == IInv /\ KeysTyped /\ Published /\ [PNext]_allVars => Published'
  <1> SUFFICES ASSUME IInv, KeysTyped, Published, [PNext]_allVars PROVE Published'
    OBVIOUS
  <1>0. TypeOK
    BY DEF IInv
  <1>n. [Next]_vars
    BY PNextIsNext
  <1>t. /\ stage # "none" => pc = "finish"
        /\ fetched \in [Source -> Revision \union {None}] /\ Framework \in Source
    BY <1>0, FrameworkIsRepo DEF KeysTyped, TypeOK, Source
  <1>1. ASSUME NEW repos \in SUBSET Repo, NEW gone \in SUBSET (Repo \ repos), PStart(repos, gone)
        PROVE  Published'
    <2>1. pc = "closed" /\ fetched' = fetched /\ UNCHANGED <<published, stage>>
      BY <1>1 DEF PStart, Start, StartReset, plan
    <2>2. fetched[Framework] = None /\ ~published
      BY <2>1, <1>t, FrameworkIsRepo DEF IInv, Fresh, Before, Published
    <2>3. QED
      BY <2>1, <2>2 DEF Published
  <1>2. ASSUME NEW r \in Repo, NEW rev \in RevisionOf[r], PClone(r, rev)
        PROVE  Published'
    <2>1. pc = "clone" /\ fetched' = [fetched EXCEPT ![r] = rev] /\ UNCHANGED <<runPin, published, stage>>
      BY <1>2 DEF PClone, Clone, CloneTainted, run
    <2>2. ~published
      BY <2>1, <1>t DEF Published
    <2>3. fetched'[Framework] = fetched[Framework] \/ fetched'[Framework] \in Resolved
      BY <2>1, <1>t, <1>2 DEF PClone
    <2>4. Resolved' = Resolved
      BY <2>1 DEF Resolved
    <2>5. QED
      BY <2>1, <2>2, <2>3, <2>4 DEF Published
  <1>3. CASE PPurgeMark \/ PPurgePartial \/ PElsewhere
    <2>1. pc # "finish" /\ UNCHANGED <<runPin, published, stage>>
      BY <1>0, <1>3, PcGoesOn DEF run
    <2>2. ~published
      BY <2>1, <1>t DEF Published
    <2>3. fetched'[Framework] = fetched[Framework] \/ fetched'[Framework] = None
      <3>1. CASE PPurgeMark
        BY <3>1 DEF PPurgeMark, PurgeMark, plan
      <3>2. CASE PPurgePartial
        BY <3>2 DEF PPurgePartial, PurgePartial, ingestUnchanged, plan
      <3>3. CASE PElsewhere
        <4>1. ASSUME NEW rev \in RevisionOf[Framework],
                     (\E b \in BOOLEAN : Clone(Framework, rev, b)) \/ CloneTainted(Framework, rev)
              PROVE  fetched'[Framework] = fetched[Framework]
          <5>1. pc = "clone" /\ Framework \in todo /\ Framework \notin todo'
            BY <4>1 DEF Clone, CloneTainted
          <5>2. (\E q \in Repo : CloneFails(q)) \/ fetched' = fetched
            BY <3>3, <5>1
            DEF PElsewhere, DistrustSkipMarkers, DocsFetchFails, DocsUnchanged, DocsDropMarker, DocsDelete,
                DocsIngest, DocsMark, Cleanup, IngestAbandoned, FlagDelete, Bookkeep, CleanupDone, PurgeDelete,
                CloneDone, DeleteStale, Ingest, ClearPending, ClearVectorEmpty, IngestDone, BookkeepDone,
                LoseVectors, plan, ingestUnchanged
          <5>3. QED
            BY <5>2 DEF CloneFails, plan
        <4>2. Next
          BY <3>3 DEF PElsewhere, Next, Run
        <4>3. QED
          BY <4>1, <4>2, FetchStays, FrameworkIsRepo
      <3>4. QED
        BY <1>3, <3>1, <3>2, <3>3
    <2>4. Resolved' = Resolved
      BY <2>1 DEF Resolved
    <2>5. QED
      BY <2>1, <2>2, <2>3, <2>4 DEF Published
  <1>4. CASE BuildMap
    <2>1. /\ UNCHANGED <<fetched, frozen, changed, ingested, runPin>>
          /\ stage' = "mapped" /\ stage = "none"
          /\ (Ready /\ map' = fetched[Framework] /\ published') \/ UNCHANGED <<map, published>>
      BY <1>4 DEF BuildMap, vars, plan
    <2>2. Resolved' = Resolved /\ Ready' = Ready
      BY <2>1 DEF Resolved, Ready
    <2>3. QED
      BY <2>1, <2>2 DEF Published
  <1>5. CASE WriteMetadata
    <2>1. UNCHANGED <<fetched, frozen, changed, ingested, map, runPin, published>> /\ stage' = "written"
      BY <1>5 DEF WriteMetadata, vars, plan
    <2>2. Resolved' = Resolved /\ Ready' = Ready
      BY <2>1 DEF Resolved, Ready
    <2>3. ASSUME published
          PROVE  /\ pin' = runPin /\ mapStamp' = fetched[Framework]
                 /\ stamp' = fetched[Framework] \/ (fetched[Framework] \notin Release /\ stamp' = None)
      BY <1>5, <2>3 DEF WriteMetadata, Published
    <2>4. QED
      BY <2>1, <2>2, <2>3 DEF Published
  <1>6. CASE PStop
    BY <1>6, <1>t DEF PStop, Stop, NoFetch, Published
  <1>7. CASE UNCHANGED allVars
    BY <1>7 DEF allVars, vars, plan, keys, run, Published, Resolved, Ready
  <1>8. QED
    BY <1>1, <1>2, <1>3, <1>4, <1>5, <1>6, <1>7 DEF PNext

\* A published map has the run's release pin answered, and nothing but what
\* the run fetched: neither a stamp nor a pin of an earlier run shows through.
THEOREM PublishedPinAnswered == PSpec => []PublishedPinIsAnswered
  <1>1. PInit => Published
    BY FrameworkIsRepo DEF PInit, Init, NoFetch, Published, Source
  <1>2. ASSUME Published, KeysTyped, stage = "written", published
        PROVE  /\ map = fetched[Framework]
               /\ runPin \in Release => Answer = runPin
               /\ Answer \in {None, fetched[Framework]}
    <2>1. /\ map = fetched[Framework] /\ pin = runPin /\ mapStamp = fetched[Framework]
          /\ stamp = fetched[Framework] \/ (fetched[Framework] \notin Release /\ stamp = None)
          /\ fetched[Framework] # None
      BY <1>2 DEF Published, Ready
    <2>2. runPin \in Release => fetched[Framework] = runPin
      <3>1. Release \intersect {"head", "latest"} = {}
        BY SentinelsAreNoRevisions, ReleasesAreRevisions, RevisionsOfSources, FrameworkIsRepo DEF Source
      <3>2. QED
        BY <1>2, <2>1, <3>1 DEF Published, Resolved
    <2>3. QED
      BY <2>1, <2>2 DEF Answer, StampedAnswer
  <1>3. KeysTyped /\ Published => PublishedPinIsAnswered
    BY <1>2 DEF PublishedPinIsAnswered
  <1>4. PInit => KeysTyped
    BY DEF PInit, KeysTyped, Init
  <1>5. QED
    BY <1>1, <1>3, <1>4, RunsHold, KeysStayTyped, PublishedStays, PTL DEF PSpec

-----------------------------------------------------------------------------
(* The framework's keys and its marker *)

\* What was fetched belongs to a configured repo, and bookkeeping leaves no
\* such repo without a marker, ingested or not.
Marked ==
    /\ \A r \in Repo : fetched[r] # None => r \in configured
    /\ pc \in {"bookkeep", "finish"} =>
          \A r \in configured \ frozen : fetched[r] # None => r \in todo \/ marker[r] # None

LEMMA MarkedStays == IInv /\ Marked /\ [Next]_vars => Marked'
  <1> SUFFICES ASSUME IInv, Marked, [Next]_vars PROVE Marked'
    OBVIOUS
  <1> USE DocsIsNoRepo, NoneIsNoRevision, NoneIsNoRepo, RevisionsOfSources
  <1>0. TypeOK
    BY DEF IInv
  <1>1. CASE \/ \E repos \in SUBSET Repo : \E gone \in SUBSET (Repo \ repos) :
                  (\E f \in BOOLEAN : Start(f, repos, gone)) \/ StartReset(repos, gone)
             \/ Stop \/ LoseVectors
    <2>1. pc' \in Before /\ \A r \in Repo : fetched'[r] = None
      BY <1>1 DEF Start, StartReset, Stop, LoseVectors, Goto, plan, NoFetch, Source, IInv, Fresh, Before
    <2>2. QED
      BY <2>1 DEF Marked, Before
  <1>2. CASE \/ DistrustSkipMarkers
             \/ DocsFetchFails \/ DocsUnchanged \/ (\E rev \in RevisionOf[Docs] : DocsDropMarker(rev))
             \/ DocsDelete \/ DocsIngest \/ DocsMark
    <2>1. pc' \notin {"bookkeep", "finish"} /\ configured' = configured
      BY <1>2 DEF DistrustSkipMarkers, DocsFetchFails, DocsUnchanged, DocsDropMarker, DocsDelete, DocsIngest,
                  DocsMark, ToCleanup, Goto, docsUnchanged, args
    <2>2. \A r \in Repo : fetched'[r] = fetched[r]
      BY <1>0, <1>2 DEF DistrustSkipMarkers, DocsFetchFails, DocsUnchanged, DocsDropMarker, DocsDelete,
                        DocsIngest, DocsMark, TypeOK, Source
    <2>3. QED
      BY <2>1, <2>2 DEF Marked
  <1>3. CASE (\E r \in Repo : Cleanup(r) \/ CloneFails(r)) \/ CleanupDone \/ PurgeDelete \/ PurgeMark \/ CloneDone
    <2>1. /\ pc' \notin {"bookkeep", "finish"}
          /\ configured' = configured /\ fetched' = fetched
      BY <1>3 DEF Cleanup, PurgeBegin, CloneFails, CleanupDone, PurgeDelete, PurgeMark, PurgeReturns, CloneDone,
                  Goto, args, plan
    <2>2. QED
      BY <2>1 DEF Marked
  <1>4. ASSUME NEW r \in Repo, NEW rev \in RevisionOf[r],
               (\E b \in BOOLEAN : Clone(r, rev, b)) \/ CloneTainted(r, rev)
        PROVE  Marked'
    <2>1. pc = "clone" /\ r \in todo /\ pc' \notin {"bookkeep", "finish"}
      BY <1>4 DEF Clone, CloneTainted, PurgeBegin, Goto
    <2>2. r \in configured
      BY <2>1 DEF IInv, ClonePass
    <2>3. fetched' = [fetched EXCEPT ![r] = rev] /\ configured' = configured
      BY <1>4 DEF Clone, CloneTainted, args
    <2>4. QED
      BY <1>0, <2>1, <2>2, <2>3 DEF Marked, TypeOK, Source
  <1>5. CASE \/ \E r \in Repo : IngestAbandoned(r) \/ FlagDelete(r)
             \/ DeleteStale \/ Ingest \/ PurgePartial \/ ClearPending \/ ClearVectorEmpty
    <2>1. /\ pc' \notin {"bookkeep", "finish"}
          /\ configured' = configured /\ fetched' = fetched
      BY <1>5 DEF IngestAbandoned, FlagDelete, DeleteStale, Ingest, PurgePartial, ClearPending, ClearVectorEmpty,
                  NextRepo, Goto, ingestUnchanged, args, plan
    <2>2. QED
      BY <2>1 DEF Marked
  <1>6. CASE IngestDone
    BY <1>6 DEF IngestDone, Goto, ingestUnchanged, args, plan, Marked
  <1>7. ASSUME NEW r \in Repo, Bookkeep(r)
        PROVE  Marked'
    <2>1. /\ pc = "bookkeep" /\ r \in todo /\ todo' = todo \ {r}
          /\ UNCHANGED <<pc, configured, fetched, frozen>>
      BY <1>7 DEF Bookkeep, args, plan
    <2>2. fetched[r] # None
      BY <2>1 DEF IInv, BookkeepPass
    <2>3. marker'[r] # None /\ \A q \in Repo : q # r => marker'[q] = marker[q]
      BY <1>0, <1>7, <2>2 DEF Bookkeep, TypeOK, Source
    <2>4. configured \subseteq Repo
      BY <1>0 DEF TypeOK
    <2>5. QED
      BY <2>1, <2>3, <2>4 DEF Marked
  <1>8. CASE BookkeepDone
    BY <1>8 DEF BookkeepDone, Goto, disk, args, plan, Marked
  <1>9. CASE UNCHANGED vars
    BY <1>9 DEF vars, disk, args, plan, Marked
  <1>10. QED
    BY <1>1, <1>2, <1>3, <1>4, <1>5, <1>6, <1>7, <1>8, <1>9 DEF Next, Run

\* A marker is dropped by a purge or a reset alone.
LEMMA MarkerStays ==
  ASSUME IInv, NEW r \in Repo, Next, ~PurgeMark,
         ~(\E repos \in SUBSET Repo : \E gone \in SUBSET (Repo \ repos) : StartReset(repos, gone)),
         marker'[r] = None
  PROVE  marker[r] = None
  <1> USE DocsIsNoRepo, NoneIsNoRevision DEF IInv, TypeOK, Source
  <1>1. CASE DistrustSkipMarkers \/ DocsMark \/ \E rev \in RevisionOf[Docs] : DocsDropMarker(rev)
    BY <1>1 DEF DistrustSkipMarkers, DocsMark, DocsDropMarker
  <1>2. ASSUME NEW q \in Repo, Bookkeep(q)
        PROVE  marker[r] = None
    BY <1>2 DEF Bookkeep, BookkeepPass
  <1>3. CASE \/ \E repos \in SUBSET Repo : \E gone \in SUBSET (Repo \ repos) : \E f \in BOOLEAN : Start(f, repos, gone)
             \/ Stop \/ LoseVectors
    BY <1>3 DEF Start, Stop, LoseVectors, disk
  <1>4. CASE DocsFetchFails \/ DocsUnchanged \/ DocsDelete \/ DocsIngest
    BY <1>4 DEF DocsFetchFails, DocsUnchanged, DocsDelete, DocsIngest
  <1>5. CASE \/ \E q \in Repo : \/ Cleanup(q) \/ CloneFails(q)
                               \/ \E rev \in RevisionOf[q] : (\E b \in BOOLEAN : Clone(q, rev, b)) \/ CloneTainted(q, rev)
             \/ CleanupDone \/ PurgeDelete \/ CloneDone
    BY <1>5 DEF Cleanup, CloneFails, Clone, CloneTainted, CleanupDone, PurgeDelete, CloneDone, disk
  <1>6. CASE \/ \E q \in Repo : IngestAbandoned(q) \/ FlagDelete(q)
             \/ DeleteStale \/ Ingest \/ PurgePartial \/ ClearPending \/ ClearVectorEmpty \/ IngestDone \/ BookkeepDone
    BY <1>6 DEF IngestAbandoned, FlagDelete, DeleteStale, Ingest, PurgePartial, ClearPending, ClearVectorEmpty,
                IngestDone, BookkeepDone, disk
  <1>7. QED
    BY <1>1, <1>2, <1>3, <1>4, <1>5, <1>6 DEF Next, Run

LEMMA KeysStayMarked ==
  IInv /\ KeysTyped /\ Marked /\ KeysNeedMarker /\ [PNext]_allVars => KeysNeedMarker'
  <1> SUFFICES ASSUME IInv, KeysTyped, Marked, KeysNeedMarker, [PNext]_allVars PROVE KeysNeedMarker'
    OBVIOUS
  <1> USE FrameworkIsRepo
  <1>n. [Next]_vars
    BY PNextIsNext
  <1>1. CASE UNCHANGED allVars
    BY <1>1 DEF allVars, vars, disk, keys, KeysNeedMarker
  <1>2. CASE ForgetProvenance
    BY <1>2 DEF ForgetProvenance, KeysNeedMarker
  <1>3. CASE PNext /\ UNCHANGED keys
    <2>1. CASE \E repos \in SUBSET Repo : \E gone \in SUBSET (Repo \ repos) : StartReset(repos, gone)
      <3>1. pc = "closed" /\ pc' = "open"
        BY <2>1 DEF StartReset, Goto
      <3>2. PICK repos \in SUBSET Repo : \E gone \in SUBSET (Repo \ repos) : PStart(repos, gone)
        BY <1>3, <3>1, PcGoesOn
        DEF PNext, BuildMap, WriteMetadata, PStop, Stop, IInv, PPurgeMark, PurgeMark, PPurgePartial, PurgePartial
      <3>3. CASE ForgetProvenance
        BY <3>3, <1>2
      <3>4. CASE \E gone \in SUBSET (Repo \ repos), f \in BOOLEAN : Start(f, repos, gone)
        BY <3>4, <1>3 DEF Start, disk, keys, KeysNeedMarker
      <3>5. QED
        BY <3>2, <3>3, <3>4 DEF PStart
    <2>2. CASE PurgeMark
      <3>1. pc = "purgeMark"
        BY <2>2 DEF PurgeMark
      <3>2. cur \in Repo /\ marker \in [Source -> Revision \union {None}]
        BY <3>1 DEF IInv, TypeOK
      <3>3. marker' = marker \/ (marker' = [marker EXCEPT ![cur] = None])
        BY <2>2 DEF PurgeMark
      <3>4. CASE marker'[Framework] = marker[Framework]
        BY <3>4, <1>3 DEF KeysNeedMarker, keys
      <3>5. CASE marker'[Framework] # marker[Framework]
        <4>1. cur = Framework /\ marker'[cur] = None /\ marker[Framework] # None
          BY <3>2, <3>3, <3>5 DEF Source
        <4>2. pc' \in {"clone", "cleanup"}
          BY <2>2 DEF PurgeMark, PurgeReturns, Goto
        <4>3. PPurgeMark
          <5>1. ~(\E repos \in SUBSET Repo : \E gone \in SUBSET (Repo \ repos) : PStart(repos, gone))
            BY <3>1 DEF PStart, Start, StartReset
          <5>2. ~(\E r \in Repo : \E rev \in RevisionOf[r] : PClone(r, rev))
            BY <3>1 DEF PClone, Clone, CloneTainted
          <5>3. ~PPurgePartial /\ ~BuildMap /\ ~WriteMetadata
            BY <3>1 DEF PPurgePartial, PurgePartial, BuildMap, WriteMetadata
          <5>4. ~PStop
            BY <4>2 DEF PStop, Stop, Goto
          <5>5. ~PElsewhere
            BY <3>1, <3>5
            DEF PElsewhere, DistrustSkipMarkers, DocsFetchFails, DocsUnchanged, DocsDropMarker, DocsDelete,
                DocsIngest, DocsMark, Cleanup, CloneFails, IngestAbandoned, FlagDelete, Bookkeep, CleanupDone,
                PurgeDelete, CloneDone, DeleteStale, Ingest, ClearPending, ClearVectorEmpty, IngestDone,
                BookkeepDone, LoseVectors
          <5>6. QED
            BY <1>3, <5>1, <5>2, <5>3, <5>4, <5>5 DEF PNext
        <4>4. QED
          BY <4>1, <4>3, <1>2 DEF PPurgeMark
      <3>6. QED
        BY <3>4, <3>5
    <2>3. CASE UNCHANGED vars
      BY <2>3, <1>3 DEF vars, disk, keys, KeysNeedMarker
    <2>4. CASE Next /\ ~PurgeMark /\ ~(\E repos \in SUBSET Repo : \E gone \in SUBSET (Repo \ repos) : StartReset(repos, gone))
      BY <2>4, <1>3, MarkerStays DEF KeysNeedMarker, keys
    <2>5. QED
      BY <1>n, <2>1, <2>2, <2>3, <2>4
  <1>4. CASE WriteMetadata
    <2>1. pc = "finish" /\ marker' = marker
      BY <1>4 DEF WriteMetadata, vars, disk
    <2>2. CASE Ready
      <3>1. marker[Framework] # None
        BY <2>1, <2>2 DEF Ready, Marked, IInv, BookkeepPass
      <3>2. QED
        BY <2>1, <3>1 DEF KeysNeedMarker
    <2>3. CASE ~Ready
      BY <1>4, <2>3, <1>2, <2>1 DEF WriteMetadata, keys, KeysNeedMarker
    <2>4. QED
      BY <2>2, <2>3
  <1>5. PNext => UNCHANGED keys \/ ForgetProvenance \/ WriteMetadata
    BY DEF PNext, PStart, PClone, PPurgeMark, PPurgePartial, PElsewhere, BuildMap, PStop
  <1>6. QED
    BY <1>1, <1>2, <1>3, <1>4, <1>5

\* No pin, stamp or map commit outlives the framework's marker, nor is written
\* before there is one: check_deprecation never answers for a framework that
\* cleanup has forgotten.
THEOREM KeysFollowMarker == PSpec => []KeysNeedMarker
  <1>1. Init => Marked
    BY DEF Init, Marked, NoFetch, Source
  <1>2. Spec => []Marked
    BY <1>1, MarkedStays, Invariant, PTL DEF Spec
  <1>3. PInit => KeysTyped /\ KeysNeedMarker
    BY DEF PInit, KeysTyped, Init, KeysNeedMarker
  <1>4. QED
    BY <1>2, <1>3, Refinement, RunsHold, KeysStayTyped, KeysStayMarked, PTL DEF PSpec
=============================================================================
