----------------------------- MODULE IndexStore -----------------------------
(***************************************************************************)
(* The on-disk index of services/index: a keyword half (SQLite FTS) and a  *)
(* vector half (Chroma), written by one `refresh` at a time and opened by  *)
(* readers when no refresh runs.  There is no transaction across the two   *)
(* halves: each step below is one commit of one half, and the process may  *)
(* stop (exit, exception or crash) between any two of them.                *)
(*                                                                         *)
(* Chroma keeps three collections: the one in use ("latest"), the copy a   *)
(* compaction builds ("staging") and the old one it parks while it swaps   *)
(* the copy in ("backup").                                                 *)
(***************************************************************************)
EXTENDS FiniteSets

CONSTANTS
    Record,    \* indexable chunks
    Owner,     \* what records are deleted by: a repo, or the docs site
    OwnerOf    \* the owner of each record

ASSUME RecordsAreFinite == IsFiniteSet(Record)
ASSUME OwnerAssumption == OwnerOf \in [Record -> Owner]

CollectionName == {"latest", "staging", "backup"}
Mode == {"plain", "force", "reset"}

VARIABLES
    keywordReady,  \* index.db exists with its complete schema
    rows,          \* records in index.db
    keywordLost,   \* history: what removed index.db beside a vector half with records
    chroma,        \* chroma.sqlite3 exists
    names,         \* collections that exist
    held,          \* records of each collection
    pc,            \* what the writing process is about to do
    mode,          \* flags of the writing `refresh`
    handle,        \* collection the process's VectorIndex points at
    scope,         \* records the operation in progress was asked to touch
    todo           \* records it still has to write to, or delete from, the vectors

keywordVars == <<keywordReady, rows, keywordLost>>
vectorVars == <<chroma, names, held>>
disk == <<keywordVars, vectorVars>>
vars == <<disk, pc, mode, handle, scope, todo>>

OpenPc == {"idle", "upKeyword", "upVector", "delVector", "delKeyword"}
CompactPc == {"dropStaging", "dropBackup", "create", "copy", "park", "promote",
              "unpark", "settle", "finish"}
Pc == {"closed", "wipe", "openVector", "compacted"} \union OpenPc \union CompactPc

TypeOK ==
    /\ keywordReady \in BOOLEAN /\ rows \in SUBSET Record /\ keywordLost \in {"no", "reset", "external"}
    /\ chroma \in BOOLEAN
    /\ names \in SUBSET CollectionName
    /\ held \in [CollectionName -> SUBSET Record]
    /\ pc \in Pc /\ mode \in Mode
    /\ handle \in CollectionName \union {"none"}
    /\ scope \in SUBSET Record /\ todo \in SUBSET Record
    /\ ~keywordReady => rows = {}
    /\ names # {} => chroma
    /\ \A n \in CollectionName \ names : held[n] = {}
    /\ handle \in names <=> pc \notin {"closed", "wipe", "openVector"}

Init ==
    /\ keywordReady = FALSE /\ rows = {} /\ keywordLost = "no"
    /\ chroma = FALSE /\ names = {} /\ held = [n \in CollectionName |-> {}]
    /\ pc = "closed" /\ mode = "plain" /\ handle = "none"
    /\ scope = {} /\ todo = {}

OwnedBy(o) == {r \in Record : OwnerOf[r] = o}
Indexed == rows # {}

\* The records the next open loads: a compaction that died between its two
\* renames left them under the backup name.
Live == IF "latest" \in names THEN held["latest"] ELSE held["backup"]

Goto(p) == pc' = p /\ UNCHANGED mode

\* A collection's new name; Chroma refuses a name that exists.
Rename(from, to) ==
    /\ to \notin names
    /\ names' = (names \ {from}) \union {to}
    /\ held' = [held EXCEPT ![to] = held[from], ![from] = {}]

Drop(n) ==
    /\ names' = names \ {n}
    /\ held' = [held EXCEPT ![n] = {}]

-----------------------------------------------------------------------------
(* Opening *)

\* VectorIndex: what an open finds, before it creates or restores anything.
Interrupted == "latest" \notin names /\ "backup" \in names

VectorVerdict_ReadsThrough(create, recover) ==   \* mutant: no check for a parked collection
    IF names \intersect {"latest", "backup"} = {} /\ ~create THEN "missingVector" ELSE "ok"

VectorVerdict(create, recover) ==
    CASE Interrupted /\ ~recover -> "interrupted"
      [] names \intersect {"latest", "backup"} = {} /\ ~create -> "missingVector"
      [] OTHER -> "ok"

\* IndexStore: the two halves compared, once both are open.
HalvesVerdict(rebuild) ==
    CASE Indexed /\ Live = {} /\ ~rebuild -> "missingVector"
      [] ~Indexed /\ Live # {} -> "lostKeyword"
      [] OTHER -> "ok"

\* open_ready_index_store: the one open of every reader.
ReaderVerdict ==
    LET vector == VectorVerdict(FALSE, FALSE)
    IN CASE ~keywordReady /\ ~chroma -> "notBuilt"
         [] ~keywordReady /\ chroma ->
               CASE vector = "interrupted" -> "interrupted"
                 [] vector = "ok" /\ Live # {} -> "missingKeyword"
                 [] OTHER -> "notBuilt"
         [] keywordReady /\ vector # "ok" -> vector
         [] OTHER ->
               IF HalvesVerdict(FALSE) # "ok" THEN HalvesVerdict(FALSE)
               ELSE IF Indexed THEN "ok" ELSE "notBuilt"

\* The open of `refresh`, which may create and restore; rebuild is --force.
MayCreateVector(rebuild) == rebuild \/ ~Indexed

WriterVerdict(rebuild) ==
    LET vector == VectorVerdict(MayCreateVector(rebuild), TRUE)
    IN IF vector # "ok" THEN vector ELSE HalvesVerdict(rebuild)

Remedy_PlainForMissing(verdict) ==   \* mutant: a lost vector half is answered with a plain refresh
    IF verdict \in {"notBuilt", "interrupted", "missingVector"} THEN "plain" ELSE "reset"

\* The refresh each error message tells the operator to run.
Remedy(verdict) ==
    CASE verdict \in {"notBuilt", "interrupted"} -> "plain"
      [] verdict = "missingVector" -> "force"
      [] OTHER -> "reset"

\* `refresh` opens the keyword half first, creating it when missing.
OpenKeyword(m) ==
    /\ pc = "closed" /\ m \in {"plain", "force"}
    /\ pc' = "openVector" /\ mode' = m
    /\ keywordReady' = TRUE
    /\ UNCHANGED <<rows, keywordLost, vectorVars, handle, scope, todo>>

\* Then the vector half: the parked collection is renamed back, or "latest"
\* is created, or the open fails with the disk as it was.
OpenVector ==
    /\ pc = "openVector"
    /\ LET rebuild == mode # "plain"
           vector == VectorVerdict(MayCreateVector(rebuild), TRUE)
           opened == WriterVerdict(rebuild) = "ok"
       IN \/ /\ vector = "ok"
             /\ chroma' = TRUE
             /\ IF Interrupted
                THEN Rename("backup", "latest")
                ELSE names' = names \union {"latest"} /\ UNCHANGED held
             /\ IF opened THEN Goto("idle") /\ handle' = "latest"
                          ELSE Goto("closed") /\ UNCHANGED handle
          \/ /\ \/ vector # "ok"
                \/ Interrupted  \* the restore rename failed
             /\ Goto("closed")
             /\ UNCHANGED <<vectorVars, handle>>
    /\ UNCHANGED <<keywordVars, scope, todo>>

\* refresh --reset-index removes the data directory, then opens a new index;
\* what could not be deleted stops it (by Stop).
ResetBegin ==
    /\ pc = "closed"
    /\ pc' = "wipe" /\ mode' = "reset"
    /\ UNCHANGED <<disk, handle, scope, todo>>

WipeKeyword(by) ==
    /\ keywordReady' = FALSE
    /\ rows' = {}
    /\ keywordLost' = IF Live = {} THEN "no" ELSE by
    /\ UNCHANGED vectorVars

WipeVector ==
    /\ chroma' = FALSE
    /\ names' = {}
    /\ held' = [n \in CollectionName |-> {}]
    /\ keywordLost' = "no"
    /\ UNCHANGED <<keywordReady, rows>>

ResetDelete ==
    /\ pc = "wipe"
    /\ \/ WipeKeyword("reset")
       \/ WipeVector
    /\ UNCHANGED <<pc, mode, handle, scope, todo>>

ResetOpen ==
    /\ pc = "wipe"
    /\ ~keywordReady /\ ~chroma
    /\ Goto("openVector")
    /\ keywordReady' = TRUE
    /\ UNCHANGED <<rows, keywordLost, vectorVars, handle, scope, todo>>

-----------------------------------------------------------------------------
(* Writing records *)

UpsertBegin_VectorsFirst(records) ==   \* mutant: the halves in the order of a delete
    /\ pc = "idle"
    /\ scope' = records
    /\ \/ Goto("upKeyword") /\ UNCHANGED todo
       \/ Goto("upVector") /\ todo' = records
    /\ UNCHANGED <<disk, handle>>

UpsertBegin(records) ==
    /\ pc = "idle"
    /\ Goto("upKeyword")
    /\ scope' = records
    /\ UNCHANGED <<disk, handle, todo>>

\* Keyword rows first, in one commit.  Records without an embedding get no
\* vector.
UpsertKeyword ==
    /\ pc = "upKeyword"
    /\ Goto("upVector")
    /\ rows' = rows \union scope
    /\ todo' \in SUBSET scope
    /\ UNCHANGED <<keywordReady, keywordLost, vectorVars, handle, scope>>

\* The statement of one row raised: the rows before it stay in the open
\* transaction, which the next commit on the connection makes durable.
UpsertKeywordFails ==
    /\ pc = "upKeyword"
    /\ Goto("idle")
    /\ \E part \in SUBSET scope : rows' = rows \union part
    /\ scope' = {}
    /\ UNCHANGED <<keywordReady, keywordLost, vectorVars, handle, todo>>

\* Vectors second, batch by batch.
UpsertVectorBatch ==
    /\ pc = "upVector"
    /\ \E batch \in SUBSET todo \ {{}} :
          /\ held' = [held EXCEPT ![handle] = @ \union batch]
          /\ todo' = todo \ batch
    /\ UNCHANGED <<keywordVars, chroma, names, pc, mode, handle, scope>>

\* Deletes run the other way: vectors first.  The ids are read once.
DeleteBegin(o) ==
    /\ pc = "idle"
    /\ Goto("delVector")
    /\ scope' = OwnedBy(o)
    /\ todo' = held[handle] \intersect OwnedBy(o)
    /\ UNCHANGED <<disk, handle>>

DeleteVectorBatch ==
    /\ pc = "delVector"
    /\ \E batch \in SUBSET todo \ {{}} :
          /\ held' = [held EXCEPT ![handle] = @ \ batch]
          /\ todo' = todo \ batch
    /\ UNCHANGED <<keywordVars, chroma, names, pc, mode, handle, scope>>

DeleteKeyword ==
    /\ pc = "delVector" /\ todo = {}
    /\ Goto("delKeyword")
    /\ rows' = rows \ scope
    /\ UNCHANGED <<keywordReady, keywordLost, vectorVars, handle, scope, todo>>

\* The operation returns, or raised part way: nothing is rolled back.
OperationEnds ==
    /\ pc \in OpenPc \ {"idle"}
    /\ Goto("idle")
    /\ scope' = {} /\ todo' = {}
    /\ UNCHANGED <<disk, handle>>

-----------------------------------------------------------------------------
(* Compaction: the last thing a forced refresh does to the vector half *)

UnchangedInCompaction == UNCHANGED <<keywordVars, chroma, scope, todo>>

CompactBegin ==
    /\ pc = "idle" /\ mode = "force"
    /\ Goto("dropStaging")
    /\ UNCHANGED <<disk, handle, scope, todo>>

\* Leftovers of an interrupted run; a failure to drop one is suppressed.
CompactDropLeftover ==
    /\ \/ pc = "dropStaging" /\ Goto("dropBackup") /\ (Drop("staging") \/ UNCHANGED <<names, held>>)
       \/ pc = "dropBackup" /\ Goto("create") /\ (Drop("backup") \/ UNCHANGED <<names, held>>)
    /\ UnchangedInCompaction /\ UNCHANGED handle

CompactCreate ==
    /\ pc = "create"
    /\ IF "staging" \in names
       THEN Goto("compacted") /\ UNCHANGED names
       ELSE Goto("copy") /\ names' = names \union {"staging"}
    /\ UnchangedInCompaction /\ UNCHANGED <<held, handle>>

CompactCopyPage ==
    /\ pc = "copy"
    /\ \E page \in SUBSET (held[handle] \ held["staging"]) \ {{}} :
          held' = [held EXCEPT !["staging"] = @ \union page]
    /\ UnchangedInCompaction /\ UNCHANGED <<names, pc, mode, handle>>

CopyComplete_Unchecked == TRUE   \* mutant: the copy is not counted

\* A page came back empty, or everything was copied: the copy is counted.
CopyComplete == Cardinality(held["staging"]) = Cardinality(held[handle])

CompactVerify ==
    /\ pc = "copy"
    /\ \/ CopyComplete /\ Goto("park")
       \/ Goto("settle")   \* the count, a page or the graph check failed
    /\ UnchangedInCompaction /\ UNCHANGED <<names, held, handle>>

\* Each rename may commit, fail, or commit and still raise.
CompactPark ==
    /\ pc = "park"
    /\ \/ Rename("latest", "backup") /\ handle' = "backup" /\ (Goto("promote") \/ Goto("settle"))
       \/ UNCHANGED <<names, held, handle>> /\ Goto("settle")
    /\ UnchangedInCompaction

CompactPromote ==
    /\ pc = "promote"
    /\ \/ Rename("staging", "latest") /\ (Goto("finish") \/ Goto("unpark"))
       \/ UNCHANGED <<names, held>> /\ Goto("unpark")
    /\ UnchangedInCompaction /\ UNCHANGED handle

CompactUnpark ==
    /\ pc = "unpark"
    /\ \/ Rename("backup", "latest") /\ handle' = "latest"
       \/ UNCHANGED <<names, held, handle>>
    /\ Goto("settle")
    /\ UnchangedInCompaction

\* After a failure: decide by the collections that exist.  With no "latest",
\* or when they cannot be listed, nothing is deleted.
CompactSettle ==
    /\ pc = "settle"
    /\ \/ UNCHANGED <<names, held, handle>>
       \/ /\ "latest" \in names
          /\ handle' \in {handle, "latest"}
          /\ Drop("staging") \/ UNCHANGED <<names, held>>
    /\ Goto("compacted")
    /\ UnchangedInCompaction

CompactFinish ==
    /\ pc = "finish"
    /\ handle' = "latest"
    /\ Drop("backup") \/ UNCHANGED <<names, held>>
    /\ Goto("compacted")
    /\ UnchangedInCompaction

-----------------------------------------------------------------------------
(* The environment *)

\* The process closes the store, exits or dies: SQLite and Chroma keep what
\* each had committed.
Stop ==
    /\ pc # "closed"
    /\ Goto("closed")
    /\ handle' = "none" /\ scope' = {} /\ todo' = {}
    /\ UNCHANGED disk

\* A half's files disappear while no process has them open.
LoseHalf ==
    /\ pc = "closed"
    /\ WipeKeyword("external") \/ WipeVector
    /\ UNCHANGED <<pc, mode, handle, scope, todo>>

Compact ==
    \/ CompactBegin \/ CompactDropLeftover \/ CompactCreate \/ CompactCopyPage
    \/ CompactVerify \/ CompactPark \/ CompactPromote \/ CompactUnpark
    \/ CompactSettle \/ CompactFinish

Next ==
    \/ \E m \in Mode : OpenKeyword(m)
    \/ OpenVector
    \/ ResetBegin \/ ResetDelete \/ ResetOpen
    \/ \E records \in SUBSET Record \ {{}} : UpsertBegin(records)
    \/ UpsertKeyword \/ UpsertKeywordFails \/ UpsertVectorBatch
    \/ \E o \in Owner : DeleteBegin(o)
    \/ DeleteVectorBatch \/ DeleteKeyword
    \/ OperationEnds
    \/ Compact
    \/ Stop \/ LoseHalf

Spec == Init /\ [][Next]_vars

-----------------------------------------------------------------------------
(* Properties *)

Durable == INSTANCE DurableIndex WITH vecs <- Live, touching <- scope

\* The index keeps the promises of DurableIndex: an interrupted write or
\* compaction leaves the records it did not name as they were, and no write
\* leaves a vector without its keyword row (store.py: upsert and the deletes
\* order the halves; vector.py: compact and _open_collection).
KeepsItsPromise == Durable!Spec

\* Every live vector has its keyword row, whatever step the process stopped
\* at, unless index.db itself was removed (the docstring of upsert).
VectorsBacked == keywordLost = "no" => Live \subseteq rows

\* A process that has the store open for writing never works on a vector half
\* whose keyword half was lost: __init__ refuses it, with --force too.
NoWriteOnLostKeyword == pc \notin {"closed", "openVector", "wipe"} => keywordLost = "no"

\* No reader and no refresh is told to delete the index (the reset advice)
\* because a write, a compaction or another refresh was interrupted.  (Only a
\* restore whose rename fails, CompactionRestoreError, advises it as well.)
Verdicts == {ReaderVerdict, WriterVerdict(FALSE), WriterVerdict(TRUE)}
ResetOnlyAfterLoss ==
    pc = "closed" /\ keywordLost = "no" => \A v \in Verdicts : v = "ok" \/ Remedy(v) # "reset"

\* An operator who runs what a reader's error says, and then what that
\* refresh's error says, gets an index that opens: the messages never send
\* anyone round in circles.
Opens(m) == m = "reset" \/ WriterVerdict(m = "force") = "ok"
AdviceWorks ==
    pc = "closed" /\ ReaderVerdict # "ok" =>
        LET first == Remedy(ReaderVerdict)
        IN Opens(first) \/ Opens(Remedy(WriterVerdict(first = "force")))

\* A reader that opens the index finds vectors to search, none of them
\* without keyword rows, and nothing left half-swapped.
ReaderSeesWholeIndex ==
    pc = "closed" /\ ReaderVerdict = "ok" =>
        /\ held["latest"] # {}
        /\ held["latest"] \subseteq rows
=============================================================================
