--------------------------- MODULE ReopeningStore ---------------------------
(***************************************************************************)
(* `serve` beside `refresh`: the index handle of services/index/reopening, *)
(* dropped and reopened after a refresh, and the refresh lock beside the   *)
(* data directory (shared/index_lock), whose generation every refresh      *)
(* steps.                                                                  *)
(*                                                                         *)
(* A thread is one tool call.  It passes a gate that opens the index if    *)
(* needed, then reads the index once or more, checking the store out for   *)
(* each read.  A thread that opens the index keeps the handle's RLock, so  *)
(* the others wait, and a shared hold on the refresh lock, so no refresh   *)
(* begins.  Any number of refreshes run one after another, and shutdown    *)
(* closes the store whoever has it checked out.                            *)
(*                                                                         *)
(* A read is a search in a worker thread that the call awaits.  The worker *)
(* of a cancelled call goes on if it has begun; each half of the store has *)
(* a lock that a search and close() take (VectorIndex._op_lock,            *)
(* FTSIndex._lock), so closing waits for a search that has it.             *)
(***************************************************************************)
EXTENDS Naturals

CONSTANTS
    Thread,
    MaxRefresh,  \* bound: refreshes that take the lock
    None

ASSUME MaxRefreshIsNat == MaxRefresh \in Nat
ASSUME NoneIsNoNumber == None \notin Nat
ASSUME NoneIsNoRecord == None \notin [generation : Nat, seen : Nat, users : SUBSET Thread,
                                      retired : BOOLEAN]

VARIABLES
    writer,      \* the refresh: "none", holds the lock ("locked"), has marked it ("writing")
    generation,  \* refresh_generation(): the mark on the lock file
    index,       \* generation of the refresh that last wrote the index
    phase,       \* how far `serve` has come: "boot", "map", "serving"
    closed,      \* the store was closed for good
    handle,      \* the current handle
    open,        \* stores that are open, each named by its handle's generation
    loaded,      \* generation at which the deprecation map in memory was read
    pc,          \* what each thread is about to do
    purpose,     \* what it wants the store for: the gate, or a read
    using,       \* generation of the store it has checked out
    seen,        \* the index that store was opened on
    since,       \* history: generation and index when its call passed the gate
    mapSeen,     \* the `loaded` of the map its call took
    abandoned,   \* the store that the worker of a cancelled call is to search, or searches
    searching    \* those of them that have the lock of a half

lockVars == <<writer, generation, index>>
serveVars == <<phase, closed, handle, open, loaded>>
callVars == <<purpose, since, mapSeen, abandoned, searching>>
vars == <<lockVars, serveVars, pc, using, seen, callVars>>

TypeOK ==
    /\ writer \in {"none", "locked", "writing"}
    /\ generation \in Nat /\ index \in Nat
    /\ phase \in {"boot", "map", "serving"} /\ closed \in BOOLEAN
    /\ \/ handle = None
       \/ /\ handle \in [generation : Nat, seen : Nat, users : SUBSET Thread, retired : BOOLEAN]
          /\ handle.users = {t \in Thread : using[t] = handle.generation}
    /\ open \in SUBSET Nat /\ loaded \in Nat
    /\ pc \in [Thread -> {"idle", "wants", "opening", "using", "gated"}]
    /\ purpose \in [Thread -> {"gate", "read", "cancelled"}]
    /\ using \in [Thread -> Nat \union {None}] /\ seen \in [Thread -> Nat]
    /\ since \in [Thread -> [generation : Nat, index : Nat]]
    /\ mapSeen \in [Thread -> Nat \union {None}] /\ abandoned \in [Thread -> Nat \union {None}]
    /\ searching \in SUBSET {t \in Thread : abandoned[t] # None}
    /\ \A t \in Thread : using[t] # None <=> pc[t] = "using"

Init ==
    /\ writer = "none" /\ generation = 0 /\ index = 0
    /\ phase = "boot" /\ closed = FALSE /\ handle = None /\ open = {} /\ loaded = 0
    /\ pc = [t \in Thread |-> "idle"] /\ purpose = [t \in Thread |-> "gate"]
    /\ using = [t \in Thread |-> None] /\ seen = [t \in Thread |-> 0]
    /\ since = [t \in Thread |-> [generation |-> 0, index |-> 0]]
    /\ mapSeen = [t \in Thread |-> None]
    /\ abandoned = [t \in Thread |-> None] /\ searching = {}

\* Nobody has the RLock for longer than a step, or a hold on the refresh lock.
NoneOpening == \A t \in Thread : pc[t] # "opening"

NewHandle(users) ==
    [generation |-> generation, seen |-> index, users |-> users, retired |-> FALSE]

\* A worker that was left behind has a lock that closing the store needs.
Searched == handle # None /\ \E t \in searching : abandoned[t] = handle.generation

-----------------------------------------------------------------------------
(* refresh *)

RefreshLock ==
    /\ writer = "none" /\ NoneOpening /\ generation < MaxRefresh
    /\ writer' = "locked"
    /\ UNCHANGED <<generation, index, serveVars, pc, using, seen, callVars>>

RefreshMark ==
    /\ writer = "locked"
    /\ writer' = "writing"
    /\ generation' = generation + 1
    /\ UNCHANGED <<index, serveVars, pc, using, seen, callVars>>

RefreshWrite ==
    /\ writer = "writing"
    /\ index' = generation
    /\ UNCHANGED <<writer, generation, serveVars, pc, using, seen, callVars>>

\* The command ends, or its process dies and the system drops the lock.
RefreshEnds ==
    /\ writer # "none"
    /\ writer' = "none"
    /\ UNCHANGED <<generation, index, serveVars, pc, using, seen, callVars>>

-----------------------------------------------------------------------------
(* serve, before it answers calls and when it ends *)

\* The first open; it is put off when a refresh runs.
BootOpen ==
    /\ phase = "boot"
    /\ phase' = "map"
    /\ IF writer = "none"
       THEN handle' = NewHandle({}) /\ open' = {generation}
       ELSE UNCHANGED <<handle, open>>
    /\ UNCHANGED <<lockVars, closed, loaded, pc, using, seen, callVars>>

\* The map, read with no hold on the lock.
BootMap ==
    /\ phase = "map"
    /\ phase' = "serving"
    /\ loaded' = generation
    /\ UNCHANGED <<lockVars, closed, handle, open, pc, using, seen, callVars>>

Close ==
    /\ phase = "serving" /\ ~closed /\ NoneOpening
    /\ ~Searched
    /\ closed' = TRUE
    /\ handle' = None
    /\ open' = IF handle = None THEN open ELSE open \ {handle.generation}
    /\ UNCHANGED <<lockVars, phase, loaded, pc, using, seen, callVars>>

-----------------------------------------------------------------------------
(* A tool call *)

\* unavailable_reason answers for the index when it is closed or a refresh
\* runs; else the call goes on to open_now.  Bound: one worker left behind for
\* each thread.
Gate(t) ==
    /\ phase = "serving" /\ pc[t] = "idle" /\ abandoned[t] = None
    /\ ~closed /\ writer = "none"
    /\ pc' = [pc EXCEPT ![t] = "wants"]
    /\ purpose' = [purpose EXCEPT ![t] = "gate"]
    /\ since' = [since EXCEPT ![t] = [generation |-> generation, index |-> index]]
    /\ mapSeen' = [mapSeen EXCEPT ![t] = None]
    /\ UNCHANGED <<lockVars, serveVars, using, seen, abandoned, searching>>

Stale_ByFlag == handle # None /\ handle.retired   \* mutant: the generation is not compared

Stale == handle # None /\ (handle.retired \/ handle.generation # generation)

InUse == handle # None /\ handle.users # {}

\* _close_quietly gets the stale store's locks.  It waits for them with the
\* handle's RLock: what others do in the meantime, they do before.
Closable == Stale /\ ~InUse /\ ~Searched

\* What is open once a stale handle that nobody uses is closed.
OpenWithoutStale == IF Stale THEN open \ {handle.generation} ELSE open

Acquires(t) == pc[t] = "wants" /\ NoneOpening

\* Shut down; a call still has the stale store; or a refresh runs.
AcquireRefused(t) ==
    /\ Acquires(t)
    /\ \/ closed /\ UNCHANGED <<handle, open>>
       \/ /\ ~closed /\ Stale /\ InUse
          /\ handle' = [handle EXCEPT !.retired = TRUE]
          /\ UNCHANGED open
       \/ /\ ~closed /\ writer # "none"
          /\ handle = None \/ Closable
          /\ handle' = None /\ open' = OpenWithoutStale
    /\ pc' = [pc EXCEPT ![t] = "idle"]
    /\ UNCHANGED <<lockVars, phase, closed, loaded, using, seen, callVars>>

AcquireCurrent(t) ==
    /\ Acquires(t)
    /\ ~closed /\ handle # None /\ ~Stale
    /\ handle' = [handle EXCEPT !.users = @ \union {t}]
    /\ using' = [using EXCEPT ![t] = handle.generation]
    /\ seen' = [seen EXCEPT ![t] = handle.seen]
    /\ pc' = [pc EXCEPT ![t] = "using"]
    /\ UNCHANGED <<lockVars, phase, closed, open, loaded, callVars>>

AcquireOpens_ClosesInUse(t) ==   \* mutant: the stale store is closed under the calls using it
    /\ Acquires(t)
    /\ ~closed /\ writer = "none"
    /\ handle = None \/ Stale
    /\ handle' = None /\ open' = OpenWithoutStale
    /\ pc' = [pc EXCEPT ![t] = "opening"]
    /\ UNCHANGED <<lockVars, phase, closed, loaded, using, seen, callVars>>

\* The hold on the refresh lock is taken and the opener called.
AcquireOpens(t) ==
    /\ Acquires(t)
    /\ ~closed /\ writer = "none"
    /\ handle = None \/ Closable
    /\ handle' = None /\ open' = OpenWithoutStale
    /\ pc' = [pc EXCEPT ![t] = "opening"]
    /\ UNCHANGED <<lockVars, phase, closed, loaded, using, seen, callVars>>

OpenSucceeds_NoListener(t) ==   \* mutant: the map is not reloaded with the index
    /\ pc[t] = "opening"
    /\ handle' = NewHandle({t})
    /\ open' = open \union {generation}
    /\ using' = [using EXCEPT ![t] = generation]
    /\ seen' = [seen EXCEPT ![t] = index]
    /\ pc' = [pc EXCEPT ![t] = "using"]
    /\ UNCHANGED <<lockVars, phase, closed, loaded, callVars>>

\* The listener reloads the map before the hold is released.
OpenSucceeds(t) ==
    /\ pc[t] = "opening"
    /\ handle' = NewHandle({t})
    /\ open' = open \union {generation}
    /\ loaded' = generation
    /\ using' = [using EXCEPT ![t] = generation]
    /\ seen' = [seen EXCEPT ![t] = index]
    /\ pc' = [pc EXCEPT ![t] = "using"]
    /\ UNCHANGED <<lockVars, phase, closed, callVars>>

\* The opener found no index it can read; the call is answered with that.
OpenFails(t) ==
    /\ pc[t] = "opening"
    /\ pc' = [pc EXCEPT ![t] = "idle"]
    /\ UNCHANGED <<lockVars, serveVars, using, seen, callVars>>

\* check_deprecation takes the map in memory before it reads the index.
Read(t) ==
    /\ pc[t] = "gated"
    /\ pc' = [pc EXCEPT ![t] = "wants"]
    /\ purpose' = [purpose EXCEPT ![t] = "read"]
    /\ mapSeen' = [mapSeen EXCEPT ![t] = IF @ = None THEN loaded ELSE @]
    /\ UNCHANGED <<lockVars, serveVars, using, seen, since, abandoned, searching>>

HasCurrent(t) == handle # None /\ handle.generation = using[t]

\* The call goes on to its first, or another, read; or is answered.
Returns(t) ==
    /\ using' = [using EXCEPT ![t] = None]
    /\ \E next \in CASE purpose[t] = "gate" -> {"gated"}
                     [] purpose[t] = "read" -> {"gated", "idle"}
                     [] purpose[t] = "cancelled" -> {"idle"} :
          pc' = [pc EXCEPT ![t] = next]

Release_LeavesStore(t) ==   \* mutant: a retired store is left to the next acquire
    /\ pc[t] = "using" /\ NoneOpening
    /\ IF HasCurrent(t)
       THEN handle' = [handle EXCEPT !.users = @ \ {t}]
       ELSE UNCHANGED handle
    /\ Returns(t)
    /\ UNCHANGED <<lockVars, phase, closed, open, loaded, seen, callVars>>

\* The last user of a retired store closes it.
CheckIn(t) ==
    IF ~HasCurrent(t)
    THEN UNCHANGED <<handle, open>>
    ELSE IF handle.retired /\ handle.users = {t}
         THEN /\ ~Searched
              /\ handle' = None /\ open' = open \ {handle.generation}
         ELSE handle' = [handle EXCEPT !.users = @ \ {t}] /\ UNCHANGED open

Release(t) ==
    /\ pc[t] = "using" /\ NoneOpening
    /\ CheckIn(t)
    /\ Returns(t)
    /\ UNCHANGED <<lockVars, phase, closed, loaded, seen, callVars>>

\* The client cancels a call that awaits a search, and the `finally` will check
\* the store in.  A worker that is still queued is cancelled with it; one that
\* has begun stays, with the lock of its half or on the way to it.
Cancel(t) ==
    /\ pc[t] = "using" /\ purpose[t] = "read"
    /\ purpose' = [purpose EXCEPT ![t] = "cancelled"]
    /\ \/ UNCHANGED <<abandoned, searching>>
       \/ /\ abandoned' = [abandoned EXCEPT ![t] = using[t]]
          /\ searching' \in {searching, searching \union {t}}
    /\ UNCHANGED <<lockVars, serveVars, pc, using, seen, since, mapSeen>>

\* It waited for another search on its store, or had only just begun.
WorkerSearches(t) ==
    /\ abandoned[t] # None /\ t \notin searching
    /\ searching' = searching \union {t}
    /\ UNCHANGED <<lockVars, serveVars, pc, using, seen, purpose, since, mapSeen, abandoned>>

WorkerEnds(t) ==
    /\ t \in searching
    /\ searching' = searching \ {t}
    /\ abandoned' = [abandoned EXCEPT ![t] = None]
    /\ UNCHANGED <<lockVars, serveVars, pc, using, seen, purpose, since, mapSeen>>

Call(t) ==
    \/ Gate(t) \/ AcquireRefused(t) \/ AcquireCurrent(t) \/ AcquireOpens(t)
    \/ OpenSucceeds(t) \/ OpenFails(t) \/ Read(t) \/ Release(t) \/ Cancel(t)
    \/ WorkerSearches(t) \/ WorkerEnds(t)

Next ==
    \/ RefreshLock \/ RefreshMark \/ RefreshWrite \/ RefreshEnds
    \/ BootOpen \/ BootMap \/ Close
    \/ \E t \in Thread : Call(t)

Spec == Init /\ [][Next]_vars

\* A search ends, whatever it found, and its call checks the store in.
FairSpec == Spec /\ \A t \in Thread : WF_vars(Release(t)) /\ WF_vars(WorkerEnds(t))

-----------------------------------------------------------------------------
(* Properties *)

\* While a store is being opened none is open in the process and no refresh
\* is writing: a store that a call still uses delays the next (the docstring
\* of ReopeningIndexStore: "There is only ever one store").
OpensAlone == \A t \in Thread : pc[t] = "opening" => open = {} /\ writer = "none"

\* A read gets an index no older than the one on disk when its call passed
\* the gate, however many refreshes began or ended since the store was opened
\* ("a refresh that started and finished between two calls is still noticed").
FreshReads == \A t \in Thread : pc[t] = "using" => seen[t] >= since[t].index

\* Nobody has a closed store checked out, except at shutdown.
ReadsOpenStore == closed \/ \A t \in Thread : pc[t] = "using" => using[t] \in open

\* After close() nothing is open, though calls that passed the gate before it
\* acquire after it (close: "Terminal").
ClosedForGood == closed => open = {}

\* A call during which no refresh began pairs the index with the deprecation
\* map of the same refresh, though the map is first loaded outside any hold.
PairedWhenQuiet ==
    \A t \in Thread :
        pc[t] = "using" /\ purpose[t] = "read" /\ using[t] = since[t].generation =>
            mapSeen[t] = using[t]

\* A retired store is closed once the calls using it end: calls that keep
\* arriving do not keep it alive (REOPEN_PENDING_MESSAGE: "Retry in a few
\* seconds").
StaleStoreCloses ==
    \A g \in 0..MaxRefresh :
        (handle # None /\ handle.retired /\ handle.generation = g) ~> g \notin open

\* The docstring of ReopeningIndexStore: "Each read checks the store out for
\* the duration of the call", so no search finds its store closed, except at
\* shutdown.
StoreOutlivesReads == closed \/ \A t \in searching : abandoned[t] \in open
=============================================================================
