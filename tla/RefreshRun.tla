----------------------------- MODULE RefreshRun -----------------------------
(***************************************************************************)
(* `refresh` (cli.py): one run after another over the docs site and the    *)
(* repos, each replacing the records of the sources that changed.          *)
(*                                                                         *)
(* A run skips a source whose marker in the keyword half names what it has *)
(* fetched: `docs:content_hash` or `repo:<slug>:commit_sha`.  Markers are  *)
(* not written with the records, a run may fail at any step or die between *)
(* two, and the same revision may come back later, so two flags per repo   *)
(* tell the next run not to trust a marker.                                *)
(*                                                                         *)
(* The two halves of the index are IndexStore's; here what a source has in *)
(* them is one value, since no step leaves vectors without keyword rows    *)
(* (IndexStore, VectorsBacked).                                            *)
(***************************************************************************)

CONSTANTS
    Repo,      \* slugs of repos that may be configured
    Docs,      \* the docs site
    Revision,  \* commits of the repos, contents of the docs site
    RevisionOf, \* the revisions of each source
    None

ASSUME DocsIsNoRepo == Docs \notin Repo
ASSUME NoneIsNoRevision == None \notin Revision
ASSUME NoneIsNoRepo == None \notin Repo

Source == Repo \union {Docs}
ASSUME RevisionsOfSources == RevisionOf \in [Source -> SUBSET Revision]

\* What the index holds of a source: keyword rows only, both halves but not
\* all of it, or all of it.
Part == {"rows", "some", "all"}
Empty == [rev |-> None, part |-> "none"]
Content == {Empty} \union [rev : Revision, part : Part]

VARIABLES
    content,     \* what the index holds of each source
    marker,      \* the skip marker of each source
    pending,     \* repos flagged cleanup_failed: a delete that no clean ingest followed
    vectorEmpty, \* repos flagged vector_empty: the vectors were lost since the marker
    pc,          \* what the run is about to do
    force,       \* --force, or --reset-index
    configured,  \* the run's effective repos
    unwanted,    \* repos not configured that are tainted, or pruned
    counted,     \* pre_counts: repos with keyword rows when the run began
    fetched,     \* what the run cloned of each repo, or fetched of the docs
    frozen,      \* repos cloned at a tainted ref
    changed,     \* repos to ingest
    ingested,    \* repos ingested without an error
    todo,        \* repos the current loop has not come to
    cur,         \* the repo the current loop is at
    failed       \* all_errors is not empty

disk == <<content, marker, pending, vectorEmpty>>
args == <<force, configured, unwanted>>
plan == <<counted, fetched, frozen, changed>>
vars == <<disk, pc, args, plan, ingested, todo, cur, failed>>

Pc == {"closed", "open", "docs", "docsDelete", "docsIngest", "docsMark", "cleanup", "clone",
       "purge", "purgeMark", "ingest", "delete", "write", "purgePartial", "clear", "clearVector",
       "bookkeep", "finish"}

TypeOK ==
    /\ content \in [Source -> Content]
    /\ marker \in [Source -> Revision \union {None}]
    /\ pending \subseteq Repo /\ vectorEmpty \subseteq Repo
    /\ pc \in Pc
    /\ force \in BOOLEAN /\ failed \in BOOLEAN
    /\ configured \subseteq Repo /\ unwanted \subseteq Repo \ configured
    /\ fetched \in [Source -> Revision \union {None}]
    /\ counted \subseteq Repo /\ frozen \subseteq configured
    /\ changed \subseteq configured \ frozen /\ ingested \subseteq changed
    /\ todo \subseteq Repo
    /\ cur \in Repo \union {None}
    /\ cur # None <=> pc \in {"purge", "purgeMark", "delete", "write", "purgePartial", "clear",
                             "clearVector"}

NoFetch == [s \in Source |-> None]

Init ==
    /\ content = [s \in Source |-> Empty]
    /\ marker = [s \in Source |-> None]
    /\ pending = {} /\ vectorEmpty = {}
    /\ pc = "closed" /\ force = FALSE /\ configured = {} /\ unwanted = {}
    /\ counted = {} /\ fetched = NoFetch /\ frozen = {} /\ changed = {}
    /\ ingested = {} /\ todo = {} /\ cur = None /\ failed = FALSE

HasRows(s) == content[s] # Empty
VectorHalfEmpty == \A s \in Source : content[s].part \in {"none", "rows"}

\* What a delete of the records c may leave: vectors go first, in batches,
\* then the keyword rows in one commit.
Eroded(c) ==
    {Empty} \union {d \in Content : /\ d.rev = c.rev
                                    /\ d.part = "all" => c.part = "all"
                                    /\ d.part = "some" => c.part \in {"some", "all"}}

\* What an ingest of rev may leave: keyword rows go first.
Written(rev) == {Empty} \union [rev : {rev}, part : Part]

Goto(p) == pc' = p
Report == failed' = TRUE

-----------------------------------------------------------------------------
(* Start *)

\* A refresh without --force refuses an index whose vectors were lost
\* (IndexStore, WriterVerdict).
Start(f, repos, gone) ==
    /\ pc = "closed"
    /\ f \/ ~VectorHalfEmpty \/ \A s \in Source : ~HasRows(s)
    /\ Goto("open")
    /\ force' = f /\ configured' = repos /\ unwanted' = gone
    /\ UNCHANGED <<disk, plan, ingested, todo, cur, failed>>

\* --reset-index deletes the index first; the run is then a forced one.
StartReset(repos, gone) ==
    /\ pc = "closed"
    /\ Goto("open")
    /\ force' = TRUE /\ configured' = repos /\ unwanted' = gone
    /\ content' = [s \in Source |-> Empty]
    /\ marker' = [s \in Source |-> None]
    /\ pending' = {} /\ vectorEmpty' = {}
    /\ UNCHANGED <<plan, ingested, todo, cur, failed>>

DistrustSkipMarkers_KeepsDocs ==   \* mutant: the docs hash survives the loss of the vectors
    /\ pc = "open"
    /\ Goto("docs")
    /\ vectorEmpty' = IF VectorHalfEmpty
                      THEN vectorEmpty \union {r \in Repo : marker[r] # None} ELSE vectorEmpty
    /\ counted' = {r \in Repo : HasRows(r)}
    /\ UNCHANGED <<content, marker, pending, args, fetched, frozen, changed, ingested, todo, cur,
                   failed>>

\* On a vector half that opened empty no marker is believed.  Then the
\* records of each repo are counted, once for the whole run.
DistrustSkipMarkers ==
    /\ pc = "open"
    /\ Goto("docs")
    /\ IF VectorHalfEmpty
       THEN /\ vectorEmpty' = vectorEmpty \union {r \in Repo : marker[r] # None}
            /\ marker' = [marker EXCEPT ![Docs] = None]
       ELSE UNCHANGED <<vectorEmpty, marker>>
    /\ counted' = {r \in Repo : HasRows(r)}
    /\ UNCHANGED <<content, pending, args, fetched, frozen, changed, ingested, todo, cur, failed>>

-----------------------------------------------------------------------------
(* Docs *)

ToCleanup ==
    /\ Goto("cleanup")
    /\ todo' = {r \in unwanted : marker[r] # None}

docsUnchanged == <<pending, vectorEmpty, args, counted, frozen, changed, ingested, cur>>

DocsFetchFails ==
    /\ pc = "docs"
    /\ ToCleanup /\ Report
    /\ UNCHANGED <<content, marker, fetched, docsUnchanged>>

DocsUnchanged ==
    /\ pc = "docs"
    /\ ~force /\ marker[Docs] # None
    /\ fetched' = [fetched EXCEPT ![Docs] = marker[Docs]]
    /\ ToCleanup
    /\ UNCHANGED <<content, marker, failed, docsUnchanged>>

\* Write-ahead: the marker is dropped before the records are touched, or
\* nothing is.
DocsDropMarker(rev) ==
    /\ pc = "docs"
    /\ force \/ marker[Docs] # rev
    /\ \/ /\ marker' = [marker EXCEPT ![Docs] = None]
          /\ fetched' = [fetched EXCEPT ![Docs] = rev]
          /\ Goto("docsDelete")
          /\ UNCHANGED <<todo, failed>>
       \/ /\ ToCleanup /\ Report
          /\ UNCHANGED <<marker, fetched>>
    /\ UNCHANGED <<content, docsUnchanged>>

DocsDelete ==
    /\ pc = "docsDelete"
    /\ \/ /\ content' = [content EXCEPT ![Docs] = Empty]
          /\ Goto("docsIngest")
          /\ UNCHANGED <<todo, failed>>
       \/ /\ \E c \in Eroded(content[Docs]) : content' = [content EXCEPT ![Docs] = c]
          /\ ToCleanup /\ Report
    /\ UNCHANGED <<marker, fetched, docsUnchanged>>

DocsIngest ==
    /\ pc = "docsIngest"
    /\ \E c \in Written(fetched[Docs]) : content' = [content EXCEPT ![Docs] = c]
    /\ \/ content'[Docs].part = "all" /\ Goto("docsMark") /\ UNCHANGED <<todo, failed>>
       \/ ToCleanup /\ Report
    /\ UNCHANGED <<marker, fetched, docsUnchanged>>

DocsMark ==
    /\ pc = "docsMark"
    /\ marker' = [marker EXCEPT ![Docs] = fetched[Docs]]
    /\ ToCleanup
    /\ UNCHANGED <<content, fetched, failed, docsUnchanged>>

-----------------------------------------------------------------------------
(* _delete_repo_index_data: of an unwanted repo in the cleanup pass, of a *)
(* configured one whose ref is tainted in the clone pass                   *)

PurgeReturns ==
    /\ Goto(IF cur \in configured THEN "clone" ELSE "cleanup")
    /\ cur' = None

\* Write-ahead: the flag first; if it cannot be written nothing is deleted.
PurgeBegin(r) ==
    /\ pending' = pending \union {r}
    /\ cur' = r
    /\ Goto("purge")

PurgeDelete_ContinuesOnError ==   \* mutant: a failed delete does not stop the bookkeeping
    /\ pc = "purge"
    /\ \/ content' = [content EXCEPT ![cur] = Empty] /\ UNCHANGED failed
       \/ /\ \E c \in Eroded(content[cur]) : content' = [content EXCEPT ![cur] = c]
          /\ Report
    /\ Goto("purgeMark")
    /\ UNCHANGED <<marker, pending, vectorEmpty, args, plan, ingested, todo, cur>>

PurgeDelete ==
    /\ pc = "purge"
    /\ \/ /\ content' = [content EXCEPT ![cur] = Empty]
          /\ Goto("purgeMark")
          /\ UNCHANGED <<cur, failed>>
       \/ /\ \E c \in Eroded(content[cur]) : content' = [content EXCEPT ![cur] = c]
          /\ PurgeReturns /\ Report
    /\ UNCHANGED <<marker, pending, vectorEmpty, args, plan, ingested, todo>>

PurgeMark ==
    /\ pc = "purgeMark"
    /\ \/ /\ marker' = [marker EXCEPT ![cur] = None]
          /\ pending' = pending \ {cur}
          /\ vectorEmpty' = vectorEmpty \ {cur}
          /\ UNCHANGED failed
       \/ Report /\ UNCHANGED <<marker, pending, vectorEmpty>>
    /\ PurgeReturns
    /\ UNCHANGED <<content, args, plan, ingested, todo>>

Cleanup(r) ==
    /\ pc = "cleanup" /\ r \in todo
    /\ todo' = todo \ {r}
    /\ \/ PurgeBegin(r) /\ UNCHANGED failed
       \/ Report /\ UNCHANGED <<pending, cur, pc>>
    /\ UNCHANGED <<content, marker, vectorEmpty, args, plan, ingested>>

CleanupDone ==
    /\ pc = "cleanup" /\ todo = {}
    /\ Goto("clone") /\ todo' = configured
    /\ UNCHANGED <<disk, args, plan, ingested, cur, failed>>

-----------------------------------------------------------------------------
(* Clone or fetch every configured repo and decide what changed *)

CloneFails(r) ==
    /\ pc = "clone" /\ r \in todo
    /\ todo' = todo \ {r} /\ Report
    /\ UNCHANGED <<disk, pc, args, plan, ingested, cur>>

Skippable_IgnoresPending(r, rev) ==   \* mutant: a matching marker and some rows are enough
    /\ ~force /\ marker[r] = rev
    /\ r \in counted
    /\ r \notin vectorEmpty

\* The unchanged-skip shortcut.
Skippable(r, rev) ==
    /\ ~force /\ marker[r] = rev
    /\ r \in counted
    /\ r \notin pending \union vectorEmpty

\* A clone recovered from a corrupt state is never skipped.
Clone(r, rev, recovered) ==
    /\ pc = "clone" /\ r \in todo
    /\ todo' = todo \ {r}
    /\ fetched' = [fetched EXCEPT ![r] = rev]
    /\ changed' = IF Skippable(r, rev) /\ ~recovered THEN changed ELSE changed \union {r}
    /\ UNCHANGED <<disk, pc, args, counted, frozen, ingested, cur, failed>>

\* The ref that was fetched is tainted; the one indexed may be.
CloneTainted(r, rev) ==
    /\ pc = "clone" /\ r \in todo
    /\ todo' = todo \ {r}
    /\ fetched' = [fetched EXCEPT ![r] = rev]
    /\ frozen' = frozen \union {r}
    /\ \/ marker[r] # None /\ PurgeBegin(r) /\ UNCHANGED failed
       \/ marker[r] # None /\ Report /\ UNCHANGED <<pending, cur, pc>>
       \/ marker[r] # rev /\ UNCHANGED <<pending, cur, pc, failed>>
    /\ UNCHANGED <<content, marker, vectorEmpty, args, counted, changed, ingested>>

CloneDone ==
    /\ pc = "clone" /\ todo = {}
    /\ Goto("ingest") /\ todo' = changed
    /\ UNCHANGED <<disk, args, plan, ingested, cur, failed>>

-----------------------------------------------------------------------------
(* Delete and re-ingest each changed repo *)

NextRepo ==
    /\ Goto("ingest")
    /\ cur' = None
    /\ todo' = todo \ {cur}

ingestUnchanged == <<args, plan>>

\* The checkout fails, or the write-ahead flag cannot be written.
IngestAbandoned(r) ==
    /\ pc = "ingest" /\ r \in todo
    /\ todo' = todo \ {r} /\ Report
    /\ UNCHANGED <<disk, pc, ingested, cur, ingestUnchanged>>

FlagDelete_Late(r) ==   \* mutant: the write-ahead flag is left for the bookkeeping
    /\ pc = "ingest" /\ r \in todo
    /\ cur' = r
    /\ Goto("delete")
    /\ UNCHANGED <<content, marker, pending, vectorEmpty, ingested, todo, failed, ingestUnchanged>>

FlagDelete(r) ==
    /\ pc = "ingest" /\ r \in todo
    /\ pending' = pending \union {r}
    /\ cur' = r
    /\ Goto("delete")
    /\ UNCHANGED <<content, marker, vectorEmpty, ingested, todo, failed, ingestUnchanged>>

DeleteStale ==
    /\ pc = "delete"
    /\ \/ /\ content' = [content EXCEPT ![cur] = Empty]
          /\ Goto("write")
          /\ UNCHANGED <<cur, todo, failed>>
       \/ /\ \E c \in Eroded(content[cur]) : content' = [content EXCEPT ![cur] = c]
          /\ NextRepo /\ Report
    /\ UNCHANGED <<marker, pending, vectorEmpty, ingested, ingestUnchanged>>

\* Code, then source.  With an error anywhere the records do not count.
Ingest ==
    /\ pc = "write"
    /\ \E c \in Written(fetched[cur]) : content' = [content EXCEPT ![cur] = c]
    /\ \/ content'[cur].part = "all" /\ Goto("clear") /\ UNCHANGED failed
       \/ Goto("purgePartial") /\ Report
    /\ UNCHANGED <<marker, pending, vectorEmpty, ingested, todo, cur, ingestUnchanged>>

PurgePartial ==
    /\ pc = "purgePartial"
    /\ \E c \in Eroded(content[cur]) : content' = [content EXCEPT ![cur] = c]
    /\ NextRepo
    /\ UNCHANGED <<marker, pending, vectorEmpty, ingested, failed, ingestUnchanged>>

\* A clean ingest clears both flags, one commit each.
ClearPending ==
    /\ pc = "clear"
    /\ pending' = pending \ {cur}
    /\ Goto("clearVector")
    /\ UNCHANGED <<content, marker, vectorEmpty, ingested, todo, cur, failed, ingestUnchanged>>

ClearVectorEmpty ==
    /\ pc = "clearVector"
    /\ vectorEmpty' = vectorEmpty \ {cur}
    /\ ingested' = ingested \union {cur}
    /\ NextRepo
    /\ UNCHANGED <<content, marker, pending, failed, ingestUnchanged>>

IngestDone ==
    /\ pc = "ingest" /\ todo = {}
    /\ Goto("bookkeep")
    /\ todo' = {r \in configured \ frozen : fetched[r] # None}
    /\ UNCHANGED <<disk, ingested, cur, failed, ingestUnchanged>>

-----------------------------------------------------------------------------
(* Bookkeeping, at the end of the run *)

Bookkeep(r) ==
    /\ pc = "bookkeep" /\ r \in todo
    /\ todo' = todo \ {r}
    /\ IF r \in changed \ ingested
       THEN /\ marker' = [marker EXCEPT ![r] = IF @ = None THEN fetched[r] ELSE @]
            /\ pending' = pending \union {r}
       ELSE marker' = [marker EXCEPT ![r] = fetched[r]] /\ UNCHANGED pending
    /\ UNCHANGED <<content, vectorEmpty, pc, args, plan, ingested, cur, failed>>

BookkeepDone ==
    /\ pc = "bookkeep" /\ todo = {}
    /\ Goto("finish")
    /\ UNCHANGED <<disk, args, plan, ingested, todo, cur, failed>>

-----------------------------------------------------------------------------
(* The end of the process, expected or not *)

\* The run ends, exits on a FatalIndexError, is interrupted, or dies.
Stop ==
    /\ pc # "closed"
    /\ Goto("closed")
    /\ force' = FALSE /\ configured' = {} /\ unwanted' = {}
    /\ counted' = {} /\ fetched' = NoFetch /\ frozen' = {} /\ changed' = {}
    /\ ingested' = {} /\ todo' = {} /\ cur' = None /\ failed' = FALSE
    /\ UNCHANGED disk

\* The vector half's files disappear between two runs.
LoseVectors ==
    /\ pc = "closed"
    /\ content' = [s \in Source |->
                     IF HasRows(s) THEN [content[s] EXCEPT !.part = "rows"] ELSE Empty]
    /\ UNCHANGED <<marker, pending, vectorEmpty, pc, args, plan, ingested, todo, cur, failed>>

Run ==
    \/ DistrustSkipMarkers
    \/ DocsFetchFails \/ DocsUnchanged \/ (\E rev \in RevisionOf[Docs] : DocsDropMarker(rev))
    \/ DocsDelete \/ DocsIngest \/ DocsMark
    \/ (\E r \in Repo : Cleanup(r)) \/ CleanupDone
    \/ PurgeDelete \/ PurgeMark
    \/ \E r \in Repo :
          \/ CloneFails(r)
          \/ \E rev \in RevisionOf[r] :
                \/ \E recovered \in BOOLEAN : Clone(r, rev, recovered)
                \/ CloneTainted(r, rev)
    \/ CloneDone
    \/ \E r \in Repo : IngestAbandoned(r) \/ FlagDelete(r)
    \/ DeleteStale \/ Ingest \/ PurgePartial \/ ClearPending \/ ClearVectorEmpty \/ IngestDone
    \/ (\E r \in Repo : Bookkeep(r)) \/ BookkeepDone

Next ==
    \/ \E repos \in SUBSET Repo : \E gone \in SUBSET (Repo \ repos) :
          \/ \E f \in BOOLEAN : Start(f, repos, gone)
          \/ StartReset(repos, gone)
    \/ Run
    \/ Stop \/ LoseVectors

Spec == Init /\ [][Next]_vars

-----------------------------------------------------------------------------
(* Properties *)

Skipped == {r \in configured \ (changed \union frozen) : fetched[r] # None}

\* A repo the run skips as unchanged has all its records in both halves,
\* whatever the runs before it failed at or died of (the comments on the skip
\* shortcut: the marker "is bookkeeping, not proof").
SkippedAreWhole == \A r \in Skipped : content[r].part = "all"

\* docs:content_hash never vouches for docs records that are gone, partial or
\* of another text (the write-ahead comment of the docs pass).
DocsMarkerIsHonest ==
    pc \notin {"closed", "open"} /\ marker[Docs] # None =>
        content[Docs] = [rev |-> marker[Docs], part |-> "all"]

\* A run that reports no error leaves every source it covers with all its
\* records, its marker on what was fetched and no flag, whatever state it
\* found (a plain refresh after a failure repairs the index).
CleanRunHeals ==
    pc = "finish" /\ ~failed =>
        /\ content[Docs] = [rev |-> fetched[Docs], part |-> "all"]
        /\ \A r \in configured \ frozen :
              /\ content[r].part = "all"
              /\ marker[r] = fetched[r]
              /\ r \notin pending \union vectorEmpty

\* A repo's commit marker, the only key cleanup and --prune find it by, goes
\* only once its records are gone (_delete_repo_index_data).
MarkerOutlivesRecords ==
    [][\A r \in Repo : marker[r] # None /\ marker'[r] = None => content'[r] = Empty]_vars

\* The docstring of _FrameworkProvenance: records "left untouched because the
\* repo was unchanged" are those of the revision that was fetched.
SkippedAreCurrent == \A r \in Skipped : content[r].rev = fetched[r]
=============================================================================
