------------------------ MODULE ReopeningStore_proofs ------------------------
(* Proofs about ReopeningStore, for any threads and any number of refreshes. *)
EXTENDS ReopeningStore, TLAPS

\* Exactly the current handle's store is open, and an opener works alone.
OneStore ==
    /\ open = IF handle = None THEN {} ELSE {handle.generation}
    /\ closed => handle = None
    /\ phase = "boot" => handle = None /\ ~closed
    /\ \A t \in Thread : pc[t] = "opening" => handle = None /\ writer = "none" /\ ~closed
    /\ \A t, u \in Thread : pc[t] = "opening" /\ pc[u] = "opening" => t = u
    /\ \A t \in Thread : pc[t] # "idle" => phase = "serving"

\* What each generation, and each copy of one, is worth.
Generations ==
    /\ index <= generation
    /\ handle # None => /\ handle.generation <= generation
                        /\ handle.generation = generation =>
                              handle.seen = index /\ writer # "writing"
    /\ \A t \in Thread : since[t].index <= index /\ since[t].generation <= generation

\* Outside shutdown a thread can only have the current store.
Checkout ==
    closed \/ \A t \in Thread : using[t] # None => handle # None /\ using[t] = handle.generation

\* A call that saw no refresh begin finds the map of the current generation.
MapLoaded ==
    /\ phase = "serving" /\ handle # None /\ handle.generation = generation =>
          loaded = generation
    /\ \A t \in Thread :
          /\ purpose[t] = "read" => mapSeen[t] # None
          /\ since[t].generation = generation =>
                /\ pc[t] \in {"using", "gated"} => loaded = generation
                /\ mapSeen[t] \in {None, generation}

IInv ==
    /\ TypeOK /\ OneStore /\ Generations /\ Checkout /\ FreshReads
    /\ MapLoaded /\ PairedWhenQuiet

-----------------------------------------------------------------------------

\* A server that has not started satisfies the invariant.
LEMMA InitIInv == Init => IInv
  <1> SUFFICES ASSUME Init PROVE IInv
    OBVIOUS
  <1> USE NoneIsNoNumber DEF Init
  <1>1. TypeOK
    BY DEF TypeOK
  <1>2. OneStore /\ Generations
    BY DEF OneStore, Generations
  <1>3. Checkout /\ FreshReads /\ PairedWhenQuiet
    BY DEF Checkout, FreshReads, PairedWhenQuiet
  <1>4. MapLoaded
    BY DEF MapLoaded
  <1>5. QED
    BY <1>1, <1>2, <1>3, <1>4 DEF IInv

\* A handle that was just opened is a handle, of the current generation.
LEMMA NewHandleIsHandle ==
  ASSUME generation \in Nat, index \in Nat, NEW users \in SUBSET Thread
  PROVE  NewHandle(users) # None /\ NewHandle(users).generation = generation
  <1>1. NewHandle(users) \in [generation : Nat, seen : Nat, users : SUBSET Thread,
                              retired : BOOLEAN]
    BY DEF NewHandle
  <1>2. NewHandle(users) # None
    BY <1>1, NoneIsNoRecord
  <1>3. QED
    BY <1>2 DEF NewHandle

\* Every step of a refresh, of the server and of a call preserves it.
LEMMA NextIInv == IInv /\ [Next]_vars => IInv'
  <1> SUFFICES ASSUME IInv, [Next]_vars PROVE IInv'
    OBVIOUS
  <1> USE NoneIsNoNumber, NoneIsNoRecord DEF IInv, lockVars, serveVars, callVars, NoneOpening
  <1>1. CASE RefreshLock
    <2> USE <1>1 DEF RefreshLock
    <2>1. TypeOK'
      BY DEF TypeOK, OneStore, Generations, Checkout
    <2>2. OneStore'
      BY DEF TypeOK, OneStore, Generations, Checkout
    <2>3. Generations'
      BY DEF TypeOK, Generations, OneStore, Checkout
    <2>4. Checkout'
      BY DEF TypeOK, Checkout, OneStore, Generations
    <2>5. FreshReads'
      BY DEF TypeOK, FreshReads, OneStore, Generations, Checkout
    <2>6. MapLoaded'
      BY DEF TypeOK, MapLoaded, OneStore, Generations, Checkout
    <2>7. PairedWhenQuiet'
      BY DEF TypeOK, PairedWhenQuiet, OneStore, Generations, Checkout, MapLoaded
    <2>8. QED
      BY <2>1, <2>2, <2>3, <2>4, <2>5, <2>6, <2>7
  <1>2. CASE RefreshMark
    <2> USE <1>2 DEF RefreshMark
    <2>1. TypeOK'
      BY DEF TypeOK, OneStore, Generations, Checkout
    <2>2. OneStore'
      BY DEF TypeOK, OneStore, Generations, Checkout
    <2>3. Generations'
      BY DEF TypeOK, Generations, OneStore, Checkout
    <2>4. Checkout'
      BY DEF TypeOK, Checkout, OneStore, Generations
    <2>5. FreshReads'
      BY DEF TypeOK, FreshReads, OneStore, Generations, Checkout
    <2>6. MapLoaded'
      BY DEF TypeOK, MapLoaded, OneStore, Generations, Checkout
    <2>7. PairedWhenQuiet'
      BY DEF TypeOK, PairedWhenQuiet, OneStore, Generations, Checkout, MapLoaded
    <2>8. QED
      BY <2>1, <2>2, <2>3, <2>4, <2>5, <2>6, <2>7
  <1>3. CASE RefreshWrite
    <2> USE <1>3 DEF RefreshWrite
    <2>1. TypeOK'
      BY DEF TypeOK, OneStore, Generations, Checkout
    <2>2. OneStore'
      BY DEF TypeOK, OneStore, Generations, Checkout
    <2>3. Generations'
      BY DEF TypeOK, Generations, OneStore, Checkout
    <2>4. Checkout'
      BY DEF TypeOK, Checkout, OneStore, Generations
    <2>5. FreshReads'
      BY DEF TypeOK, FreshReads, OneStore, Generations, Checkout
    <2>6. MapLoaded'
      BY DEF TypeOK, MapLoaded, OneStore, Generations, Checkout
    <2>7. PairedWhenQuiet'
      BY DEF TypeOK, PairedWhenQuiet, OneStore, Generations, Checkout, MapLoaded
    <2>8. QED
      BY <2>1, <2>2, <2>3, <2>4, <2>5, <2>6, <2>7
  <1>4. CASE RefreshEnds
    <2> USE <1>4 DEF RefreshEnds
    <2>1. TypeOK'
      BY DEF TypeOK, OneStore, Generations, Checkout
    <2>2. OneStore'
      BY DEF TypeOK, OneStore, Generations, Checkout
    <2>3. Generations'
      BY DEF TypeOK, Generations, OneStore, Checkout
    <2>4. Checkout'
      BY DEF TypeOK, Checkout, OneStore, Generations
    <2>5. FreshReads'
      BY DEF TypeOK, FreshReads, OneStore, Generations, Checkout
    <2>6. MapLoaded'
      BY DEF TypeOK, MapLoaded, OneStore, Generations, Checkout
    <2>7. PairedWhenQuiet'
      BY DEF TypeOK, PairedWhenQuiet, OneStore, Generations, Checkout, MapLoaded
    <2>8. QED
      BY <2>1, <2>2, <2>3, <2>4, <2>5, <2>6, <2>7
  <1>5. CASE BootOpen
    <2> USE <1>5 DEF BootOpen, NewHandle
    <2>0. handle = None /\ open = {} /\ \A t \in Thread : using[t] = None
      BY DEF TypeOK, OneStore
    <2>1. TypeOK'
      <3>1. CASE writer = "none"
        <4>1. handle' = [generation |-> generation, seen |-> index, users |-> {},
                         retired |-> FALSE] /\ open' = {generation} /\ UNCHANGED using
          BY <3>1
        <4>2. handle'.users = {t \in Thread : using'[t] = handle'.generation}
          BY <2>0, <4>1 DEF TypeOK
        <4>3. QED
          BY <4>1, <4>2 DEF TypeOK
      <3>2. CASE writer # "none"
        BY <2>0, <3>2 DEF TypeOK
      <3>3. QED
        BY <3>1, <3>2
    <2>2. OneStore'
      <3>1. CASE writer = "none"
        <4>1. handle' = [generation |-> generation, seen |-> index, users |-> {},
                         retired |-> FALSE] /\ open' = {generation}
          BY <3>1
        <4>2. handle' # None /\ handle'.generation = generation
          BY <3>1, NewHandleIsHandle DEF TypeOK
        <4>3. QED
          BY <2>0, <4>1, <4>2 DEF TypeOK, OneStore
      <3>2. CASE writer # "none"
        BY <2>0, <3>2 DEF TypeOK, OneStore
      <3>3. QED
        BY <3>1, <3>2
    <2>3. Generations'
      BY DEF TypeOK, Generations, OneStore, Checkout
    <2>4. Checkout'
      BY DEF TypeOK, Checkout, OneStore, Generations
    <2>5. FreshReads'
      BY DEF TypeOK, FreshReads, OneStore, Generations, Checkout
    <2>6. MapLoaded'
      BY DEF TypeOK, MapLoaded, OneStore, Generations, Checkout
    <2>7. PairedWhenQuiet'
      BY DEF TypeOK, PairedWhenQuiet, OneStore, Generations, Checkout, MapLoaded
    <2>8. QED
      BY <2>1, <2>2, <2>3, <2>4, <2>5, <2>6, <2>7
  <1>6. CASE BootMap
    <2> USE <1>6 DEF BootMap
    <2>1. TypeOK'
      BY DEF TypeOK, OneStore, Generations, Checkout
    <2>2. OneStore'
      BY DEF TypeOK, OneStore, Generations, Checkout
    <2>3. Generations'
      BY DEF TypeOK, Generations, OneStore, Checkout
    <2>4. Checkout'
      BY DEF TypeOK, Checkout, OneStore, Generations
    <2>5. FreshReads'
      BY DEF TypeOK, FreshReads, OneStore, Generations, Checkout
    <2>6. MapLoaded'
      BY DEF TypeOK, MapLoaded, OneStore, Generations, Checkout
    <2>7. PairedWhenQuiet'
      BY DEF TypeOK, PairedWhenQuiet, OneStore, Generations, Checkout, MapLoaded
    <2>8. QED
      BY <2>1, <2>2, <2>3, <2>4, <2>5, <2>6, <2>7
  <1>7. CASE Close
    <2> USE <1>7 DEF Close
    <2>1. TypeOK'
      BY DEF TypeOK, OneStore, Generations, Checkout
    <2>2. OneStore'
      BY DEF TypeOK, OneStore, Generations, Checkout
    <2>3. Generations'
      BY DEF TypeOK, Generations, OneStore, Checkout
    <2>4. Checkout'
      BY DEF TypeOK, Checkout, OneStore, Generations
    <2>5. FreshReads'
      BY DEF TypeOK, FreshReads, OneStore, Generations, Checkout
    <2>6. MapLoaded'
      BY DEF TypeOK, MapLoaded, OneStore, Generations, Checkout
    <2>7. PairedWhenQuiet'
      BY DEF TypeOK, PairedWhenQuiet, OneStore, Generations, Checkout, MapLoaded
    <2>8. QED
      BY <2>1, <2>2, <2>3, <2>4, <2>5, <2>6, <2>7
  <1>8. ASSUME NEW t \in Thread, Gate(t) PROVE IInv'
    <2> USE <1>8 DEF Gate
    <2>1. TypeOK'
      BY DEF TypeOK, OneStore, Generations, Checkout
    <2>2. OneStore'
      BY DEF TypeOK, OneStore, Generations, Checkout
    <2>3. Generations'
      BY DEF TypeOK, Generations, OneStore, Checkout
    <2>4. Checkout'
      BY DEF TypeOK, Checkout, OneStore, Generations
    <2>5. FreshReads'
      BY DEF TypeOK, FreshReads, OneStore, Generations, Checkout
    <2>6. MapLoaded'
      BY DEF TypeOK, MapLoaded, OneStore, Generations, Checkout
    <2>7. PairedWhenQuiet'
      BY DEF TypeOK, PairedWhenQuiet, OneStore, Generations, Checkout, MapLoaded
    <2>8. QED
      BY <2>1, <2>2, <2>3, <2>4, <2>5, <2>6, <2>7
  <1>9. ASSUME NEW t \in Thread, AcquireRefused(t) PROVE IInv'
    <2> USE <1>9 DEF AcquireRefused, Acquires, Stale, InUse, Closable, OpenWithoutStale
    <2>1. CASE closed /\ UNCHANGED <<handle, open>>
      BY <2>1 DEF TypeOK, OneStore, Generations, Checkout, FreshReads, MapLoaded, PairedWhenQuiet
    <2>2. CASE ~closed /\ Stale /\ InUse /\ UNCHANGED open
               /\ handle' = [handle EXCEPT !.retired = TRUE]
      <3>1. handle # None /\ handle' # None /\ handle'.generation = handle.generation
            /\ handle'.seen = handle.seen /\ handle'.users = handle.users
        BY <2>2 DEF TypeOK
      <3>2. TypeOK'
        BY <2>2, <3>1 DEF TypeOK
      <3>3. OneStore' /\ Checkout'
        BY <2>2, <3>1 DEF TypeOK, OneStore, Checkout
      <3>4. Generations' /\ FreshReads' /\ PairedWhenQuiet'
        BY <2>2, <3>1 DEF TypeOK, Generations, FreshReads, PairedWhenQuiet
      <3>5. MapLoaded'
        BY <2>2, <3>1 DEF TypeOK, MapLoaded
      <3>6. QED
        BY <3>2, <3>3, <3>4, <3>5
    <2>3. CASE ~closed /\ handle' = None /\ open' = OpenWithoutStale
               /\ (handle = None \/ Closable)
      <3>1. \A u \in Thread : using[u] = None
        BY <2>3 DEF TypeOK, Checkout
      <3>2. open' = {}
        BY <2>3 DEF OneStore
      <3>3. TypeOK' /\ OneStore' /\ Checkout'
        BY <2>3, <3>1, <3>2 DEF TypeOK, OneStore, Checkout
      <3>4. Generations' /\ FreshReads' /\ MapLoaded' /\ PairedWhenQuiet'
        BY <2>3, <3>1 DEF TypeOK, Generations, FreshReads, MapLoaded, PairedWhenQuiet
      <3>5. QED
        BY <3>3, <3>4
    <2>4. QED
      BY <2>1, <2>2, <2>3
  <1>10. ASSUME NEW t \in Thread, AcquireCurrent(t) PROVE IInv'
    <2> USE <1>10 DEF AcquireCurrent, Acquires, Stale
    <2>1. TypeOK'
      BY DEF TypeOK, OneStore, Generations, Checkout
    <2>2. OneStore'
      BY DEF TypeOK, OneStore, Generations, Checkout
    <2>3. Generations'
      BY DEF TypeOK, Generations, OneStore, Checkout
    <2>4. Checkout'
      BY DEF TypeOK, Checkout, OneStore, Generations
    <2>5. FreshReads'
      BY DEF TypeOK, FreshReads, OneStore, Generations, Checkout
    <2>6. MapLoaded'
      BY DEF TypeOK, MapLoaded, OneStore, Generations, Checkout
    <2>7. PairedWhenQuiet'
      BY DEF TypeOK, PairedWhenQuiet, OneStore, Generations, Checkout, MapLoaded
    <2>8. QED
      BY <2>1, <2>2, <2>3, <2>4, <2>5, <2>6, <2>7
  <1>11. ASSUME NEW t \in Thread, AcquireOpens(t) PROVE IInv'
    <2> USE <1>11 DEF AcquireOpens, Acquires, Stale, InUse, Closable, OpenWithoutStale
    <2>1. TypeOK'
      BY DEF TypeOK, OneStore, Generations, Checkout
    <2>2. OneStore'
      BY DEF TypeOK, OneStore, Generations, Checkout
    <2>3. Generations'
      BY DEF TypeOK, Generations, OneStore, Checkout
    <2>4. Checkout'
      BY DEF TypeOK, Checkout, OneStore, Generations
    <2>5. FreshReads'
      BY DEF TypeOK, FreshReads, OneStore, Generations, Checkout
    <2>6. MapLoaded'
      BY DEF TypeOK, MapLoaded, OneStore, Generations, Checkout
    <2>7. PairedWhenQuiet'
      BY DEF TypeOK, PairedWhenQuiet, OneStore, Generations, Checkout, MapLoaded
    <2>8. QED
      BY <2>1, <2>2, <2>3, <2>4, <2>5, <2>6, <2>7
  <1>12. ASSUME NEW t \in Thread, OpenSucceeds(t) PROVE IInv'
    <2> USE <1>12 DEF OpenSucceeds, NewHandle
    <2>0. /\ \A u \in Thread : using[u] = None
          /\ handle' # None /\ handle'.generation = generation
          /\ \A u \in Thread : using'[u] # None => using'[u] = generation
      <3>1. \A u \in Thread : using[u] = None
        BY DEF OneStore, Checkout
      <3>3. handle' # None /\ handle'.generation = generation
        BY NewHandleIsHandle DEF TypeOK
      <3>4. QED
        BY <3>1, <3>3 DEF TypeOK
    <2>1. TypeOK'
      BY DEF TypeOK, OneStore, Generations, Checkout
    <2>2. OneStore'
      BY <2>0 DEF TypeOK, OneStore, Generations, Checkout
    <2>3. Generations'
      BY DEF TypeOK, Generations, OneStore, Checkout
    <2>4. Checkout'
      BY <2>0 DEF TypeOK, Checkout, OneStore, Generations
    <2>5. FreshReads'
      BY DEF TypeOK, FreshReads, OneStore, Generations, Checkout
    <2>6. MapLoaded'
      BY DEF TypeOK, MapLoaded, OneStore, Generations, Checkout
    <2>7. PairedWhenQuiet'
      BY DEF TypeOK, PairedWhenQuiet, OneStore, Generations, Checkout, MapLoaded
    <2>8. QED
      BY <2>1, <2>2, <2>3, <2>4, <2>5, <2>6, <2>7
  <1>13. ASSUME NEW t \in Thread, OpenFails(t) PROVE IInv'
    <2> USE <1>13 DEF OpenFails
    <2>1. TypeOK'
      BY DEF TypeOK, OneStore, Generations, Checkout
    <2>2. OneStore'
      BY DEF TypeOK, OneStore, Generations, Checkout
    <2>3. Generations'
      BY DEF TypeOK, Generations, OneStore, Checkout
    <2>4. Checkout'
      BY DEF TypeOK, Checkout, OneStore, Generations
    <2>5. FreshReads'
      BY DEF TypeOK, FreshReads, OneStore, Generations, Checkout
    <2>6. MapLoaded'
      BY DEF TypeOK, MapLoaded, OneStore, Generations, Checkout
    <2>7. PairedWhenQuiet'
      BY DEF TypeOK, PairedWhenQuiet, OneStore, Generations, Checkout, MapLoaded
    <2>8. QED
      BY <2>1, <2>2, <2>3, <2>4, <2>5, <2>6, <2>7
  <1>14. ASSUME NEW t \in Thread, Read(t) PROVE IInv'
    <2> USE <1>14 DEF Read
    <2>1. TypeOK'
      BY DEF TypeOK, OneStore, Generations, Checkout
    <2>2. OneStore'
      BY DEF TypeOK, OneStore, Generations, Checkout
    <2>3. Generations'
      BY DEF TypeOK, Generations, OneStore, Checkout
    <2>4. Checkout'
      BY DEF TypeOK, Checkout, OneStore, Generations
    <2>5. FreshReads'
      BY DEF TypeOK, FreshReads, OneStore, Generations, Checkout
    <2>6. MapLoaded'
      BY DEF TypeOK, MapLoaded, OneStore, Generations, Checkout
    <2>7. PairedWhenQuiet'
      BY DEF TypeOK, PairedWhenQuiet, OneStore, Generations, Checkout, MapLoaded
    <2>8. QED
      BY <2>1, <2>2, <2>3, <2>4, <2>5, <2>6, <2>7
  <1>15. ASSUME NEW t \in Thread, Release(t) PROVE IInv'
    <2>0. /\ pc[t] = "using" /\ NoneOpening /\ CheckIn(t)
          /\ using' = [using EXCEPT ![t] = None]
          /\ pc' \in [Thread -> {"idle", "wants", "opening", "using", "gated"}]
          /\ pc'[t] \in {"gated", "idle"} /\ \A u \in Thread \ {t} : pc'[u] = pc[u]
          /\ UNCHANGED <<lockVars, phase, closed, loaded, seen, callVars>>
      <3>1. purpose[t] \in {"gate", "read", "cancelled"}
        BY DEF TypeOK
      <3>2. PICK next \in {"gated", "idle"} : pc' = [pc EXCEPT ![t] = next]
        BY <1>15, <3>1 DEF Release, Returns
      <3>3. QED
        BY <1>15, <3>2 DEF Release, Returns, TypeOK
    <2> USE <2>0 DEF CheckIn, HasCurrent
    <2>1. TypeOK'
      <3>1. \A u \in Thread : using'[u] # None <=> pc'[u] = "using"
        BY <2>0 DEF TypeOK
      <3>2. handle' = None \/
              /\ handle' \in [generation : Nat, seen : Nat, users : SUBSET Thread,
                              retired : BOOLEAN]
              /\ handle'.users = {u \in Thread : using'[u] = handle'.generation}
        <4>1. CASE handle = None
          BY <4>1
        <4>2. CASE handle # None /\ ~HasCurrent(t)
          BY <2>0, <4>2 DEF TypeOK
        <4>3. CASE handle # None /\ HasCurrent(t) /\ handle' # None
          <5>1. handle' = [handle EXCEPT !.users = @ \ {t}]
            BY <4>3
          <5>2. handle'.generation = handle.generation /\ handle'.users = handle.users \ {t}
            BY <4>3, <5>1 DEF TypeOK
          <5>3. handle'.users = {u \in Thread : using'[u] = handle'.generation}
            BY <2>0, <4>3, <5>2 DEF TypeOK
          <5>4. QED
            BY <4>3, <5>1, <5>3 DEF TypeOK
        <4>4. QED
          BY <4>1, <4>2, <4>3
      <3>3. QED
        BY <2>0, <3>1, <3>2 DEF TypeOK
    <2>2. OneStore'
      <3>1. open' = IF handle' = None THEN {} ELSE {handle'.generation}
        BY DEF TypeOK, OneStore
      <3>2. handle = None => handle' = None
        OBVIOUS
      <3>3. QED
        BY <3>1, <3>2 DEF TypeOK, OneStore
    <2>3. Generations'
      BY DEF TypeOK, Generations, OneStore, Checkout
    <2>4. Checkout'
      <3>1. CASE handle' = None /\ handle # None
        <4>1. handle.users = {t} /\ HasCurrent(t)
          <5>1. [handle EXCEPT !.users = @ \ {t}] # None
            BY <3>1 DEF TypeOK
          <5>2. QED
            BY <3>1, <5>1
        <4>2. QED
          BY <2>0, <3>1, <4>1 DEF TypeOK, Checkout
      <3>2. CASE handle' # None \/ handle = None
        <4>1. handle # None => handle'.generation = handle.generation
          BY <3>2 DEF TypeOK
        <4>2. QED
          BY <2>0, <3>2, <4>1 DEF TypeOK, Checkout
      <3>3. QED
        BY <3>1, <3>2
    <2>5. FreshReads'
      BY DEF TypeOK, FreshReads, OneStore, Generations, Checkout
    <2>6. MapLoaded'
      BY DEF TypeOK, MapLoaded, OneStore, Generations, Checkout
    <2>7. PairedWhenQuiet'
      BY DEF TypeOK, PairedWhenQuiet, OneStore, Generations, Checkout, MapLoaded
    <2>8. QED
      BY <2>1, <2>2, <2>3, <2>4, <2>5, <2>6, <2>7
  <1>16. ASSUME NEW t \in Thread, Cancel(t) PROVE IInv'
    <2>1. UNCHANGED <<lockVars, serveVars, pc, using, seen, since, mapSeen>>
          /\ purpose' = [purpose EXCEPT ![t] = "cancelled"]
      BY <1>16 DEF Cancel
    <2>2. abandoned' \in [Thread -> Nat \union {None}]
          /\ searching' \in SUBSET {u \in Thread : abandoned'[u] # None}
      <3>1. using[t] \in Nat
        BY <1>16 DEF Cancel, TypeOK
      <3>2. abandoned' = abandoned \/ abandoned' = [abandoned EXCEPT ![t] = using[t]]
        BY <1>16 DEF Cancel
      <3>3. abandoned' \in [Thread -> Nat \union {None}]
        BY <3>1, <3>2 DEF TypeOK
      <3>4. \A u \in Thread : abandoned[u] # None => abandoned'[u] # None
        BY <3>1, <3>2 DEF TypeOK
      <3>5. searching' \subseteq searching \union {u \in Thread : abandoned'[u] # None}
        <4>1. CASE UNCHANGED searching
          BY <4>1
        <4>2. CASE abandoned' = [abandoned EXCEPT ![t] = using[t]]
          <5>1. abandoned'[t] # None
            BY <3>1, <4>2 DEF TypeOK
          <5>2. QED
            BY <1>16, <4>2, <5>1 DEF Cancel
        <4>3. QED
          BY <1>16, <4>1, <4>2 DEF Cancel
      <3>6. QED
        BY <3>3, <3>4, <3>5 DEF TypeOK
    <2>3. TypeOK'
      BY <2>1, <2>2 DEF TypeOK
    <2>4. OneStore' /\ Generations' /\ Checkout' /\ FreshReads'
      BY <2>1 DEF OneStore, Generations, Checkout, FreshReads
    <2>5. MapLoaded' /\ PairedWhenQuiet'
      BY <2>1 DEF TypeOK, MapLoaded, PairedWhenQuiet
    <2>6. QED
      BY <2>3, <2>4, <2>5
  <1>17. ASSUME NEW t \in Thread, WorkerSearches(t) \/ WorkerEnds(t) PROVE IInv'
    BY <1>17 DEF WorkerSearches, WorkerEnds, TypeOK, OneStore, Generations, Checkout, FreshReads, MapLoaded,
                PairedWhenQuiet
  <1>18. CASE UNCHANGED vars
    BY <1>18 DEF vars, TypeOK, OneStore, Generations, Checkout, FreshReads, MapLoaded,
                PairedWhenQuiet
  <1>19. QED
    BY <1>1, <1>2, <1>3, <1>4, <1>5, <1>6, <1>7, <1>8, <1>9, <1>10, <1>11, <1>12, <1>13, <1>14, <1>15,
       <1>16, <1>17, <1>18 DEF Next, Call

-----------------------------------------------------------------------------

\* The inductive invariant holds throughout.
THEOREM Invariant == Spec => []IInv
  BY InitIInv, NextIInv, PTL DEF Spec

\* Type correctness; the users counted in a handle are the threads using it.
THEOREM TypeCorrect == Spec => []TypeOK
  <1>1. IInv => TypeOK
    BY DEF IInv
  <1>2. QED
    BY <1>1, Invariant, PTL

\* The index is never opened beside another open store or under a refresh.
THEOREM OpenersAreAlone == Spec => []OpensAlone
  <1>1. IInv => OpensAlone
    BY DEF IInv, OneStore, OpensAlone
  <1>2. QED
    BY <1>1, Invariant, PTL

\* No read is served from an index older than the one its call found.
THEOREM ReadsAreFresh == Spec => []FreshReads
  <1>1. IInv => FreshReads
    BY DEF IInv
  <1>2. QED
    BY <1>1, Invariant, PTL

\* Only shutdown closes a store that a call has checked out.
THEOREM NoReadOfClosedStore == Spec => []ReadsOpenStore
  <1>1. IInv => ReadsOpenStore
    BY DEF IInv, TypeOK, OneStore, Checkout, ReadsOpenStore
  <1>2. QED
    BY <1>1, Invariant, PTL

\* A closed server opens nothing again.
THEOREM CloseIsTerminal == Spec => []ClosedForGood
  <1>1. IInv => ClosedForGood
    BY DEF IInv, OneStore, ClosedForGood
  <1>2. QED
    BY <1>1, Invariant, PTL

\* A call no refresh overlaps pairs index and map of one generation.
THEOREM QuietCallsPair == Spec => []PairedWhenQuiet
  <1>1. IInv => PairedWhenQuiet
    BY DEF IInv
  <1>2. QED
    BY <1>1, Invariant, PTL
=============================================================================
