---------------------------- MODULE Index_proofs ----------------------------
(***************************************************************************)
(* The index: what is written to it and what is found in it.               *)
(*                                                                         *)
(* IndexStore, for every finite set of records and every ownership: type   *)
(* correctness, no vector without its keyword row, no write on an index    *)
(* whose keyword half was lost, no reset advice after a mere interruption, *)
(* and the refinement of DurableIndex.                                     *)
(*                                                                         *)
(* Retrieval, for every set of chunks, every index of every generation and *)
(* every score of the cross-encoder: each concept of a query is served,    *)
(* sources are spread as far as the results allow, a limit only truncates  *)
(* what is asked without one, and an answer says of itself what it is.     *)
(***************************************************************************)
EXTENDS IndexStore, Retrieval, FiniteSetTheorems, WellFoundedInduction, TLAPS

-----------------------------------------------------------------------------
(* IndexStore. *)


\* What makes the properties inductive: what each pc knows of the two halves
\* and of the collections.
Compacting == {"dropStaging", "dropBackup", "create", "copy", "park"}
IInv ==
    /\ TypeOK
    /\ VectorsBacked
    /\ NoWriteOnLostKeyword
    /\ keywordLost # "no" => rows = {} /\ Live # {}
    /\ pc \notin {"closed", "wipe"} => keywordReady
    /\ handle # "staging"
    /\ pc \in {"closed", "wipe", "openVector"} => handle = "none"
    /\ pc \notin OpenPc \ {"idle"} => scope = {} /\ todo = {}
    /\ pc \in OpenPc \union Compacting => handle = "latest" /\ "latest" \in names
    /\ pc = "upKeyword" => todo = {}
    /\ pc = "upVector" => todo \subseteq scope /\ scope \subseteq rows
    /\ pc = "delVector" => todo \subseteq scope /\ held["latest"] \intersect scope \subseteq todo
    /\ pc = "copy" => held["staging"] \subseteq held["latest"]
    /\ pc \in {"copy", "park", "promote"} => "staging" \in names
    /\ pc = "park" => held["staging"] = held["latest"]
    /\ pc = "promote" => "latest" \notin names /\ held["staging"] = held["backup"]
    /\ pc \in {"promote", "unpark", "finish"} => handle = "backup" /\ "backup" \in names
    /\ pc \in {"unpark", "finish"} /\ "latest" \in names => held["latest"] = held["backup"]
    /\ pc = "finish" => "latest" \in names


-----------------------------------------------------------------------------

\* An index that was never built satisfies the invariant.
LEMMA InitIInv == Init => IInv
  BY DEF Init, IInv, TypeOK, VectorsBacked, NoWriteOnLostKeyword, Live, CollectionName,
         Pc, OpenPc, CompactPc, Mode, Compacting

\* A subset of a finite set that has as many elements is the whole set: the
\* count that compact() takes of its copy proves the copy complete.
LEMMA CountedCopyIsComplete ==
  ASSUME TypeOK, held["staging"] \subseteq held["latest"], handle = "latest", CopyComplete
  PROVE  held["staging"] = held["latest"]
  <1>1. IsFiniteSet(held["latest"])
    BY RecordsAreFinite, FS_Subset DEF TypeOK, CollectionName
  <1>2. QED
    BY <1>1, FS_Subset DEF CopyComplete

\* Every step of the writer, of a stop and of a loss preserves it.
LEMMA NextIInv == IInv /\ [Next]_vars => IInv'
  <1> SUFFICES ASSUME IInv, [Next]_vars PROVE IInv'
    OBVIOUS
  <1> USE DEF IInv, TypeOK, VectorsBacked, NoWriteOnLostKeyword, Live, CollectionName,
              Pc, OpenPc, CompactPc, Mode, Compacting, Goto, vectorVars, keywordVars, disk
  <1>1. ASSUME NEW m \in Mode, OpenKeyword(m) PROVE IInv'
    BY <1>1 DEF OpenKeyword
  <1>2. CASE OpenVector
    <2> USE DEF Interrupted
    <2>1. keywordLost # "no" => WriterVerdict(mode # "plain") # "ok"
      BY DEF WriterVerdict, HalvesVerdict, Indexed
    <2>2. CASE UNCHANGED <<vectorVars, handle>> /\ pc' = "closed"
      BY <1>2, <2>2 DEF OpenVector
    <2>3. CASE /\ chroma' = TRUE /\ UNCHANGED mode
               /\ IF Interrupted
                  THEN Rename("backup", "latest")
                  ELSE names' = names \union {"latest"} /\ UNCHANGED held
               /\ \/ pc' = "idle" /\ handle' = "latest" /\ WriterVerdict(mode # "plain") = "ok"
                  \/ pc' = "closed" /\ UNCHANGED handle
      <3>1. /\ names' \in SUBSET CollectionName /\ held' \in [CollectionName -> SUBSET Record]
            /\ \A n \in CollectionName \ names' : held'[n] = {}
            /\ "latest" \in names' /\ Live' = Live
        <4>1. CASE Interrupted
          <5>1. /\ names' = (names \ {"backup"}) \union {"latest"}
                /\ held' = [held EXCEPT !["latest"] = held["backup"], !["backup"] = {}]
            BY <2>3, <4>1 DEF Rename
          <5>2. /\ names' \in SUBSET CollectionName /\ "latest" \in names'
                /\ held' \in [CollectionName -> SUBSET Record]
            BY <5>1
          <5>3. \A n \in CollectionName \ names' : held'[n] = {}
            BY <5>1
          <5>4. Live' = Live
            BY <4>1, <5>1
          <5>5. QED
            BY <5>2, <5>3, <5>4
        <4>2. CASE ~Interrupted
          BY <2>3, <4>2
        <4>3. QED
          BY <4>1, <4>2
      <3>2. UNCHANGED <<keywordVars, mode, scope, todo>> /\ pc = "openVector" /\ handle = "none"
        BY <1>2, <2>3 DEF OpenVector
      <3>3. TypeOK'
        BY <2>3, <3>1, <3>2
      <3>4. VectorsBacked' /\ NoWriteOnLostKeyword'
        BY <2>1, <2>3, <3>1, <3>2
      <3>5. QED
        BY <2>3, <3>1, <3>2, <3>3, <3>4
    <2>4. QED
      BY <1>2, <2>2, <2>3 DEF OpenVector
  <1>3. CASE ResetBegin
    BY <1>3 DEF ResetBegin
  <1>4. CASE ResetDelete
    BY <1>4 DEF ResetDelete, WipeKeyword, WipeVector
  <1>5. CASE ResetOpen
    BY <1>5 DEF ResetOpen
  <1>6. ASSUME NEW records \in SUBSET Record \ {{}}, UpsertBegin(records) PROVE IInv'
    BY <1>6 DEF UpsertBegin
  <1>7. CASE UpsertKeyword
    BY <1>7 DEF UpsertKeyword
  <1>8. CASE UpsertKeywordFails
    BY <1>8 DEF UpsertKeywordFails
  <1>9. CASE UpsertVectorBatch
    BY <1>9 DEF UpsertVectorBatch
  <1>10. ASSUME NEW o \in Owner, DeleteBegin(o) PROVE IInv'
    BY <1>10 DEF DeleteBegin, OwnedBy
  <1>11. CASE DeleteVectorBatch
    BY <1>11 DEF DeleteVectorBatch
  <1>12. CASE DeleteKeyword
    BY <1>12 DEF DeleteKeyword
  <1>13. CASE OperationEnds
    BY <1>13 DEF OperationEnds
  <1>14. CASE CompactBegin
    BY <1>14 DEF CompactBegin
  <1>15. CASE CompactDropLeftover
    BY <1>15 DEF CompactDropLeftover, Drop, UnchangedInCompaction
  <1>16. CASE CompactCreate
    BY <1>16 DEF CompactCreate, UnchangedInCompaction
  <1>17. CASE CompactCopyPage
    BY <1>17 DEF CompactCopyPage, UnchangedInCompaction
  <1>18. CASE CompactVerify
    BY <1>18, CountedCopyIsComplete DEF CompactVerify, UnchangedInCompaction
  <1>19. CASE CompactPark
    BY <1>19 DEF CompactPark, Rename, UnchangedInCompaction
  <1>20. CASE CompactPromote
    BY <1>20 DEF CompactPromote, Rename, UnchangedInCompaction
  <1>21. CASE CompactUnpark
    BY <1>21 DEF CompactUnpark, Rename, UnchangedInCompaction
  <1>22. CASE CompactSettle
    BY <1>22 DEF CompactSettle, Drop, UnchangedInCompaction
  <1>23. CASE CompactFinish
    BY <1>23 DEF CompactFinish, Drop, UnchangedInCompaction
  <1>24. CASE Stop
    BY <1>24 DEF Stop
  <1>25. CASE LoseHalf
    BY <1>25 DEF LoseHalf, WipeKeyword, WipeVector
  <1>26. CASE UNCHANGED vars
    BY <1>26 DEF vars
  <1>27. QED
    BY <1>1, <1>2, <1>3, <1>4, <1>5, <1>6, <1>7, <1>8, <1>9, <1>10, <1>11, <1>12, <1>13,
       <1>14, <1>15, <1>16, <1>17, <1>18, <1>19, <1>20, <1>21, <1>22, <1>23, <1>24, <1>25,
       <1>26 DEF Next, Compact

\* IInv holds in every reachable state, whatever step the process stops at.
THEOREM Invariant == Spec => []IInv
  <1>1. QED
    BY InitIInv, NextIInv, PTL DEF Spec

\* Type correctness, of the collections' contents and of the handle too.
THEOREM TypeCorrect == Spec => []TypeOK
  <1>1. IInv => TypeOK
    BY DEF IInv
  <1>2. QED
    BY <1>1, Invariant, PTL

\* No live vector without its keyword row: the order of the halves in upsert
\* and in the deletes (store.py), and compact's renames (vector.py).
THEOREM VectorsStayBacked == Spec => []VectorsBacked
  <1>1. IInv => VectorsBacked
    BY DEF IInv
  <1>2. QED
    BY <1>1, Invariant, PTL

\* IndexStore.__init__ keeps every writer off an index whose keyword half was
\* lost.
THEOREM LostKeywordStaysUnwritten == Spec => []NoWriteOnLostKeyword
  <1>1. IInv => NoWriteOnLostKeyword
    BY DEF IInv
  <1>2. QED
    BY <1>1, Invariant, PTL

\* The advice to delete the index (errors.py) is given only when a half was
\* really lost, after any interruption.
THEOREM ResetAdviceIsEarned == Spec => []ResetOnlyAfterLoss
  <1>1. IInv => ResetOnlyAfterLoss
    <2> SUFFICES ASSUME IInv, keywordLost = "no", NEW v \in Verdicts
                 PROVE  v = "ok" \/ Remedy(v) # "reset"
      BY DEF ResetOnlyAfterLoss
    <2>1. Live \subseteq rows /\ (~keywordReady => rows = {})
      BY DEF IInv, TypeOK, VectorsBacked
    <2>2. ASSUME NEW rebuild \in BOOLEAN
          PROVE  HalvesVerdict(rebuild) \in {"ok", "missingVector"}
      BY <2>1, <2>2 DEF HalvesVerdict, Indexed
    <2>3. ASSUME NEW create \in BOOLEAN, NEW recover \in BOOLEAN
          PROVE  VectorVerdict(create, recover) \in {"ok", "missingVector", "interrupted"}
      BY <2>3 DEF VectorVerdict
    <2>4. ReaderVerdict \in {"ok", "notBuilt", "interrupted", "missingVector"}
      BY <2>1, <2>2, <2>3 DEF ReaderVerdict, IInv, TypeOK
    <2>5. ASSUME NEW rebuild \in BOOLEAN
          PROVE  WriterVerdict(rebuild) \in {"ok", "interrupted", "missingVector"}
      <3>1. MayCreateVector(rebuild) \in BOOLEAN
        BY <2>5 DEF MayCreateVector, Indexed
      <3>2. QED
        BY <2>2, <2>3, <2>5, <3>1 DEF WriterVerdict
    <2>6. v \in {"ok", "notBuilt", "interrupted", "missingVector"}
      BY <2>4, <2>5 DEF Verdicts
    <2>7. QED
      BY <2>6 DEF Remedy
  <1>2. QED
    BY <1>1, Invariant, PTL

\* An index a reader opens (reopening.py) has vectors to search, all of them
\* backed, and no swap left half done.
THEOREM ReadersSeeWholeIndex == Spec => []ReaderSeesWholeIndex
  <1>1. IInv => ReaderSeesWholeIndex
    <2> SUFFICES ASSUME IInv, ReaderVerdict = "ok"
                 PROVE  held["latest"] # {} /\ held["latest"] \subseteq rows
      BY DEF ReaderSeesWholeIndex
    <2>1. VectorVerdict(FALSE, FALSE) = "ok" /\ HalvesVerdict(FALSE) = "ok" /\ Indexed
      BY DEF ReaderVerdict, IInv, TypeOK
    <2>2. "latest" \in names
      BY <2>1 DEF VectorVerdict, Interrupted
    <2>3. Live # {}
      BY <2>1 DEF HalvesVerdict
    <2>4. Live \subseteq rows
      BY <2>1 DEF IInv, VectorsBacked, Indexed
    <2>5. QED
      BY <2>2, <2>3, <2>4 DEF Live
  <1>2. QED
    BY <1>1, Invariant, PTL

\* Of the command a reader's error names (errors.py) and the one that the
\* refresh's own error names when that is refused, one is not refused: a second
\* refusal in a row does not happen.
THEOREM AdviceEnds == Spec => []AdviceWorks
  <1>1. IInv => AdviceWorks
    <2> SUFFICES ASSUME IInv, ReaderVerdict # "ok", NEW first, first = Remedy(ReaderVerdict)
                 PROVE  Opens(first) \/ Opens(Remedy(WriterVerdict(first = "force")))
      BY DEF AdviceWorks
    <2>1. ASSUME NEW rebuild \in BOOLEAN
          PROVE  WriterVerdict(rebuild) \in {"ok", "missingVector", "lostKeyword"}
      <3>1. MayCreateVector(rebuild) \in BOOLEAN
        BY <2>1 DEF MayCreateVector, Indexed
      <3>2. VectorVerdict(MayCreateVector(rebuild), TRUE) \in {"ok", "missingVector"}
        BY <3>1 DEF VectorVerdict
      <3>3. HalvesVerdict(rebuild) \in {"ok", "missingVector", "lostKeyword"}
        BY DEF HalvesVerdict
      <3>4. QED
        BY <3>2, <3>3 DEF WriterVerdict
    <2>2. WriterVerdict(TRUE) # "missingVector"
      BY DEF WriterVerdict, MayCreateVector, VectorVerdict, HalvesVerdict
    <2>3. CASE WriterVerdict(first = "force") = "lostKeyword"
      BY <2>3 DEF Remedy, Opens
    <2>4. CASE WriterVerdict(first = "force") = "missingVector"
      <3>1. first # "force"
        BY <2>2, <2>4
      <3>2. WriterVerdict(FALSE) = "missingVector"
        BY <2>4, <3>1
      <3>3. Indexed
        BY <3>2 DEF WriterVerdict, MayCreateVector, VectorVerdict, HalvesVerdict
      <3>4. WriterVerdict(TRUE) = "ok"
        BY <3>3 DEF WriterVerdict, MayCreateVector, VectorVerdict, HalvesVerdict
      <3>5. Remedy("missingVector") = "force"
        BY DEF Remedy
      <3>6. QED
        BY <2>4, <3>4, <3>5 DEF Opens
    <2>5. CASE WriterVerdict(first = "force") = "ok"
      BY <2>5 DEF Opens
    <2>6. (first = "force") \in BOOLEAN
      OBVIOUS
    <2>7. WriterVerdict(first = "force") \in {"ok", "missingVector", "lostKeyword"}
      BY <2>1, <2>6
    <2>8. QED
      BY <2>3, <2>4, <2>5, <2>7
  <1>2. QED
    BY <1>1, Invariant, PTL

-----------------------------------------------------------------------------
(* The refinement of DurableIndex: writes are its Work steps, the steps of  *)
(* a compaction and of an open are stutters.                                *)

\* From the invariant, each step is one step of DurableIndex or none.
LEMMA StepRefines ==
  ASSUME IInv, [Next]_vars
  PROVE  [Durable!Next]_Durable!vars
  <1> USE DEF IInv, TypeOK, VectorsBacked, NoWriteOnLostKeyword, Live, CollectionName,
              Pc, OpenPc, CompactPc, Mode, Compacting, Goto, vectorVars, keywordVars, disk,
              Durable!vars
  <1> DEFINE Stutter == UNCHANGED <<rows, Live, scope>>
  <1>1. ASSUME NEW m \in Mode, OpenKeyword(m) PROVE Stutter
    BY <1>1 DEF OpenKeyword
  <1>2. CASE OpenVector
    <2>1. Stutter
      BY <1>2 DEF OpenVector, Rename, Interrupted
    <2>2. QED
      BY <2>1
  <1>3. CASE ResetBegin \/ ResetOpen
    BY <1>3 DEF ResetBegin, ResetOpen
  <1>4. CASE ResetDelete \/ LoseHalf
    <2>1. Durable!Wipe
      BY <1>4 DEF ResetDelete, LoseHalf, WipeKeyword, WipeVector, Durable!Wipe
    <2>2. QED
      BY <2>1 DEF Durable!Next
  <1>5. ASSUME \/ \E records \in SUBSET Record \ {{}} : UpsertBegin(records)
               \/ \E o \in Owner : DeleteBegin(o)
        PROVE  Durable!Next
    <2>1. Durable!Begin
      BY <1>5 DEF UpsertBegin, DeleteBegin, OwnedBy, Durable!Begin
    <2>2. QED
      BY <2>1 DEF Durable!Next
  <1>6. CASE UpsertKeyword \/ UpsertKeywordFails \/ UpsertVectorBatch \/ DeleteVectorBatch
             \/ DeleteKeyword
    <2>1. Durable!Work
      BY <1>6 DEF UpsertKeyword, UpsertKeywordFails, UpsertVectorBatch, DeleteVectorBatch,
                  DeleteKeyword, Durable!Work
    <2>2. QED
      BY <2>1 DEF Durable!Next
  <1>7. CASE OperationEnds \/ Stop
    <2>1. Durable!End
      BY <1>7 DEF OperationEnds, Stop, Durable!End
    <2>2. QED
      BY <2>1 DEF Durable!Next
  <1>8. CASE CompactBegin \/ CompactDropLeftover \/ CompactCreate \/ CompactCopyPage
             \/ CompactVerify
    BY <1>8 DEF CompactBegin, CompactDropLeftover, CompactCreate, CompactCopyPage,
                CompactVerify, Drop, UnchangedInCompaction
  <1>9. CASE CompactPark \/ CompactPromote \/ CompactUnpark
    BY <1>9 DEF CompactPark, CompactPromote, CompactUnpark, Rename, UnchangedInCompaction
  <1>10. CASE CompactSettle \/ CompactFinish
    BY <1>10 DEF CompactSettle, CompactFinish, Drop, UnchangedInCompaction
  <1>11. CASE UNCHANGED vars
    BY <1>11 DEF vars
  <1>12. QED
    BY <1>1, <1>2, <1>3, <1>4, <1>5, <1>6, <1>7, <1>8, <1>9, <1>10, <1>11
    DEF Next, Compact

\* Any run of the two-halved store, with its crashes and compactions, is a
\* run of DurableIndex.
THEOREM Refinement == Spec => KeepsItsPromise
  <1>1. Init => Durable!Init
    BY DEF Init, Durable!Init, Live, CollectionName
  <1>2. QED
    BY <1>1, Invariant, StepRefines, PTL DEF Spec, KeepsItsPromise, Durable!Spec


-----------------------------------------------------------------------------
(* What is put in order. *)

StrictOrder(I, before) ==
    /\ \A i \in I : <<i, i>> \notin before
    /\ \A i, j \in I : i # j => <<i, j>> \in before \/ <<j, i>> \in before
    /\ \A i, j, k \in I : <<i, j>> \in before /\ <<j, k>> \in before => <<i, k>> \in before

Ahead(I, before, i) == {j \in I : <<j, i>> \in before}
PlaceOf(I, before, i) == Cardinality(Ahead(I, before, i)) + 1

\* The places of the members of a finite set in a strict order are the numbers
\* from 1 to their number, each once.
LEMMA PlacesAre ==
    ASSUME NEW I, NEW before, IsFiniteSet(I), StrictOrder(I, before)
    PROVE  /\ Cardinality(I) \in Nat
           /\ \A i \in I : PlaceOf(I, before, i) \in 1..Cardinality(I)
           /\ \A i, j \in I : <<i, j>> \in before => PlaceOf(I, before, i) < PlaceOf(I, before, j)
           /\ \A i, j \in I : PlaceOf(I, before, i) = PlaceOf(I, before, j) => i = j
           /\ \A k \in 1..Cardinality(I) : \E i \in I : PlaceOf(I, before, i) = k
<1> DEFINE ahead(i) == Ahead(I, before, i)
           c == Cardinality(I)
           place == [i \in I |-> Cardinality(ahead(i)) + 1]
<1>1. c \in Nat
  BY FS_CardinalityType
<1>2. ASSUME NEW i \in I
      PROVE  IsFiniteSet(ahead(i)) /\ Cardinality(ahead(i)) \in Nat /\ Cardinality(ahead(i)) < c
  <2>1. ahead(i) \in SUBSET I /\ i \notin ahead(i)
    BY DEF Ahead, StrictOrder
  <2>2. IsFiniteSet(ahead(i)) /\ Cardinality(ahead(i)) <= c /\ Cardinality(ahead(i)) # c
    BY <2>1, FS_Subset
  <2>3. Cardinality(ahead(i)) \in Nat
    BY <2>2, FS_CardinalityType
  <2> QED BY <2>2, <2>3, <1>1
<1>3. ASSUME NEW i \in I, NEW j \in I, <<i, j>> \in before PROVE Cardinality(ahead(i)) < Cardinality(ahead(j))
  <2>1. ahead(i) \in SUBSET ahead(j) /\ i \in ahead(j) /\ i \notin ahead(i)
    BY <1>3 DEF Ahead, StrictOrder
  <2>2. Cardinality(ahead(i)) <= Cardinality(ahead(j)) /\ Cardinality(ahead(i)) # Cardinality(ahead(j))
    BY <2>1, <1>2, FS_Subset
  <2> QED BY <2>2, <1>2
<1>4. ASSUME NEW i \in I, NEW j \in I, Cardinality(ahead(i)) = Cardinality(ahead(j)) PROVE i = j
  <2> SUFFICES ASSUME i # j PROVE FALSE
    OBVIOUS
  <2>1. <<i, j>> \in before \/ <<j, i>> \in before
    BY DEF StrictOrder
  <2> QED BY <2>1, <1>2, <1>3, <1>4
<1>5. place \in Injection(I, 1..c)
  <2>1. place \in [I -> 1..c]
    BY <1>1, <1>2
  <2>2. ASSUME NEW i \in I, NEW j \in I, place[i] = place[j] PROVE i = j
    <3>1. Cardinality(ahead(i)) + 1 = Cardinality(ahead(j)) + 1
      BY <2>2
    <3>2. Cardinality(ahead(i)) = Cardinality(ahead(j))
      BY <3>1, <1>2
    <3> QED BY <3>2, <1>4
  <2> HIDE DEF place
  <2> QED BY <2>1, <2>2 DEF Injection, IsInjective
<1>6. place \in Surjection(I, 1..c)
  <2>1. IsFiniteSet(1..c) /\ Cardinality(1..c) = c
    BY <1>1, FS_Interval
  <2> HIDE DEF place
  <2> QED BY <1>5, <2>1, FS_Injection
<1>7. \A i \in I : PlaceOf(I, before, i) = place[i] /\ place[i] \in 1..c
  BY <1>1, <1>2 DEF PlaceOf
<1>8. \A k \in 1..c : \E i \in I : place[i] = k
  <2> HIDE DEF place
  <2> QED BY <1>6 DEF Surjection
<1>9. \A i, j \in I : place[i] = place[j] => i = j
  <2> HIDE DEF place
  <2> QED BY <1>5 DEF Injection, IsInjective
<1>10. \A i, j \in I : <<i, j>> \in before => place[i] < place[j]
  BY <1>2, <1>3
<1> HIDE DEF place, ahead
<1> QED BY <1>1, <1>7, <1>8, <1>9, <1>10

\* An arrangement has at the place of i what was at i.
LEMMA ArrangeIs ==
    ASSUME NEW I, NEW before, IsFiniteSet(I), StrictOrder(I, before), NEW f
    PROVE  /\ DOMAIN Arrange(f, I, before) = 1..Cardinality(I)
           /\ Arrange(f, I, before) = [k \in 1..Cardinality(I) |-> Arrange(f, I, before)[k]]
           /\ \A i \in I : Arrange(f, I, before)[PlaceOf(I, before, i)] = f[i]
<1> DEFINE placed == {<<PlaceOf(I, before, i), f[i]>> : i \in I}
<1>1. Arrange(f, I, before) = [k \in 1..Cardinality(I) |-> (CHOOSE p \in placed : p[1] = k)[2]]
  BY DEF Arrange, PlaceOf, Ahead
<1>2. ASSUME NEW i \in I PROVE Arrange(f, I, before)[PlaceOf(I, before, i)] = f[i]
  <2> DEFINE k == PlaceOf(I, before, i)
             q == CHOOSE p \in placed : p[1] = k
  <2>1. k \in 1..Cardinality(I)
    BY PlacesAre
  <2>2. <<k, f[i]>> \in placed /\ <<k, f[i]>>[1] = k
    <3> HIDE DEF k
    <3> QED BY DEF k
  <2>3. q \in placed /\ q[1] = k
    <3> HIDE DEF placed, k
    <3> QED BY <2>2
  <2>4. PICK j \in I : q = <<PlaceOf(I, before, j), f[j]>>
    BY <2>3
  <2>5. q[1] = PlaceOf(I, before, j) /\ q[2] = f[j]
    <3> HIDE DEF q
    <3> QED BY <2>4
  <2>6. j = i
    <3>1. PlaceOf(I, before, i) = PlaceOf(I, before, j) => i = j
      BY PlacesAre
    <3> QED BY <2>3, <2>5, <3>1
  <2>7. q[2] = f[i]
    BY <2>5, <2>6
  <2> HIDE DEF placed, k
  <2> QED BY <1>1, <2>1, <2>7 DEF k
<1> HIDE DEF placed
<1> QED BY <1>1, <1>2

LEMMA ArrangeTyped ==
    ASSUME NEW I, NEW before, IsFiniteSet(I), StrictOrder(I, before), NEW f, NEW S, \A i \in I : f[i] \in S
    PROVE  /\ Arrange(f, I, before) \in Seq(S) /\ Len(Arrange(f, I, before)) = Cardinality(I)
           /\ \A k \in 1..Cardinality(I) : \E i \in I : PlaceOf(I, before, i) = k /\ Arrange(f, I, before)[k] = f[i]
<1> DEFINE a == Arrange(f, I, before)
           c == Cardinality(I)
<1>1. c \in Nat /\ a = [k \in 1..c |-> a[k]]
  BY PlacesAre, ArrangeIs
<1>2. ASSUME NEW k \in 1..c PROVE \E i \in I : PlaceOf(I, before, i) = k /\ a[k] = f[i]
  BY PlacesAre, ArrangeIs
<1> HIDE DEF a, c
<1>3. a \in [1..c -> S]
  BY <1>1, <1>2
<1> QED BY <1>1, <1>2, <1>3 DEF a, c

-----------------------------------------------------------------------------
(* What is picked. *)

\* The first of some numbers there are.
LEMMA FirstIs ==
    ASSUME NEW I, I \subseteq Nat, I # {}
    PROVE  \E i \in I : \A j \in I : i <= j
<1>1. IsWellFoundedOn(OpToRel(<, Nat), Nat)
  BY NatLessThanWellFounded
<1>2. PICK i \in I : \A j \in I : <<j, i>> \notin OpToRel(<, Nat)
  BY <1>1, WFMin
<1>3. \A j \in I : ~(j < i)
  BY <1>2 DEF OpToRel
<1> QED BY <1>3

Rising(I) == {p \in I \X I : p[1] < p[2]}
Rank(I, i) == PlaceOf(I, Rising(I), i)

LEMMA RisingIs ==
    ASSUME NEW n \in Nat, NEW I \in SUBSET (1..n)
    PROVE  /\ IsFiniteSet(I) /\ StrictOrder(I, Rising(I))
           /\ \A i, j \in I : <<i, j>> \in Rising(I) <=> i < j
<1>1. IsFiniteSet(I)
  <2>1. IsFiniteSet(1..n)
    BY FS_Interval
  <2> QED BY <2>1, FS_Subset
<1>2. \A i, j \in I : <<i, j>> \in Rising(I) <=> i < j
  BY DEF Rising
<1>3. \A i \in I : i \in Int
  OBVIOUS
<1>4. StrictOrder(I, Rising(I))
  <2>1. \A i \in I : ~(i < i)
    BY <1>3
  <2>2. \A i, j \in I : i # j => i < j \/ j < i
    BY <1>3
  <2>3. \A i, j, k \in I : i < j /\ j < k => i < k
    BY <1>3
  <2> QED BY <1>2, <2>1, <2>2, <2>3 DEF StrictOrder
<1> QED BY <1>1, <1>2, <1>4

\* What is picked stands in its order, no later than it did.
LEMMA PickIs ==
    ASSUME NEW S, NEW s \in Seq(S), NEW I \in SUBSET (1..Len(s))
    PROVE  /\ Pick(s, I) \in Seq(S) /\ Len(Pick(s, I)) = Cardinality(I) /\ Cardinality(I) \in Nat
           /\ Cardinality(I) <= Len(s)
           /\ \A i \in I : /\ Rank(I, i) \in 1..Cardinality(I) /\ Rank(I, i) <= i
                           /\ Pick(s, I)[Rank(I, i)] = s[i]
           /\ \A i, j \in I : i < j => Rank(I, i) < Rank(I, j)
           /\ \A k \in 1..Cardinality(I) : \E i \in I : Rank(I, i) = k /\ Pick(s, I)[k] = s[i]
<1>1. Len(s) \in Nat /\ \A i \in I : i \in 1..Len(s) /\ s[i] \in S
  OBVIOUS
<1>2. /\ IsFiniteSet(I) /\ StrictOrder(I, Rising(I))
      /\ \A i, j \in I : <<i, j>> \in Rising(I) <=> i < j
  BY <1>1, RisingIs
<1>3. Pick(s, I) = Arrange(s, I, Rising(I))
  BY DEF Pick, Rising
<1>4. Cardinality(I) <= Len(s)
  <2>1. IsFiniteSet(1..Len(s)) /\ Cardinality(1..Len(s)) = Len(s)
    BY <1>1, FS_Interval
  <2> QED BY <2>1, FS_Subset
<1>5. ASSUME NEW i \in I PROVE Rank(I, i) <= i
  <2>1. Ahead(I, Rising(I), i) \in SUBSET (1..i - 1)
    <3>1. \A j \in Ahead(I, Rising(I), i) : j \in I /\ j < i
      BY <1>2 DEF Ahead
    <3>2. \A j \in I : j < i => j \in 1..i - 1
      BY <1>1
    <3> QED BY <3>1, <3>2
  <2>2. IsFiniteSet(1..i - 1) /\ Cardinality(1..i - 1) = i - 1
    <3>1. i - 1 \in Int /\ (1 > i - 1 => i - 1 = 0) /\ i - 1 - 1 + 1 = i - 1
      BY <1>1
    <3> QED BY <3>1, FS_Interval
  <2>3. Cardinality(Ahead(I, Rising(I), i)) <= i - 1 /\ IsFiniteSet(Ahead(I, Rising(I), i))
    BY <2>1, <2>2, FS_Subset
  <2>4. Cardinality(Ahead(I, Rising(I), i)) \in Nat
    BY <2>3, FS_CardinalityType
  <2> QED BY <2>3, <2>4, <1>1 DEF Rank, PlaceOf
<1>6. /\ Arrange(s, I, Rising(I)) \in Seq(S) /\ Len(Arrange(s, I, Rising(I))) = Cardinality(I)
      /\ \A k \in 1..Cardinality(I) : \E i \in I : Rank(I, i) = k /\ Arrange(s, I, Rising(I))[k] = s[i]
  <2>1. \A i \in I : s[i] \in S
    BY <1>1
  <2> DEFINE R == Rising(I)
  <2>2. IsFiniteSet(I) /\ StrictOrder(I, R)
    BY <1>2
  <2> HIDE DEF R
  <2>3. /\ Arrange(s, I, R) \in Seq(S) /\ Len(Arrange(s, I, R)) = Cardinality(I)
        /\ \A k \in 1..Cardinality(I) : \E i \in I : PlaceOf(I, R, i) = k /\ Arrange(s, I, R)[k] = s[i]
    BY <2>1, <2>2, ArrangeTyped
  <2> QED BY <2>3 DEF Rank, R
<1>7. \A i \in I : Arrange(s, I, Rising(I))[Rank(I, i)] = s[i]
  BY <1>2, ArrangeIs DEF Rank
<1>8. /\ Cardinality(I) \in Nat /\ \A i \in I : Rank(I, i) \in 1..Cardinality(I)
      /\ \A i, j \in I : <<i, j>> \in Rising(I) => Rank(I, i) < Rank(I, j)
  BY <1>2, PlacesAre DEF Rank
<1> QED BY <1>2, <1>3, <1>4, <1>5, <1>6, <1>7, <1>8

\* What is picked of the beginning of a sequence is the beginning of what is
\* picked of it.
LEMMA PickOfBeginning ==
    ASSUME NEW S, NEW s \in Seq(S), NEW I \in SUBSET (1..Len(s)), NEW n \in 0..Len(s)
    PROVE  \E m \in 0..Cardinality(I) : Pick(SubSeq(s, 1, n), {i \in I : i <= n}) = SubSeq(Pick(s, I), 1, m)
<1> DEFINE t == SubSeq(s, 1, n)
           J == {i \in I : i <= n}
           m == Cardinality(J)
<1>1. Len(s) \in Nat /\ n \in Nat /\ n <= Len(s) /\ \A i \in I : i \in 1..Len(s)
  OBVIOUS
<1>2. t \in Seq(S) /\ Len(t) = n /\ \A i \in 1..n : t[i] = s[i]
  BY <1>1
<1>3. J \in SUBSET (1..n) /\ J \in SUBSET (1..Len(t)) /\ J \in SUBSET I
  <2>1. \A i \in J : i \in 1..n
    BY <1>1
  <2> HIDE DEF t
  <2> QED BY <1>2, <2>1
<1>4. IsFiniteSet(I) /\ Cardinality(I) \in Nat
  BY <1>1, RisingIs, FS_CardinalityType
<1>5. m \in 0..Cardinality(I)
  <2>1. IsFiniteSet(J) /\ m <= Cardinality(I)
    BY <1>3, <1>4, FS_Subset
  <2>2. m \in Nat
    BY <2>1, FS_CardinalityType
  <2> QED BY <2>1, <2>2, <1>4
<1> HIDE DEF t, m
<1>6. ASSUME NEW i \in J PROVE Rank(J, i) = Rank(I, i)
  <2>1. Ahead(J, Rising(J), i) = Ahead(I, Rising(I), i)
    <3>1. Ahead(I, Rising(I), i) = {j \in I : j < i} /\ Ahead(J, Rising(J), i) = {j \in J : j < i}
      BY <1>3 DEF Ahead, Rising
    <3>2. \A j \in I : j < i => j <= n
      BY <1>1
    <3> QED BY <3>1, <3>2
  <2> QED BY <2>1 DEF Rank, PlaceOf
<1> HIDE DEF J
<1>7. Pick(t, J) \in Seq(S) /\ Len(Pick(t, J)) = m
  BY <1>2, <1>3, PickIs DEF m
<1>8. Pick(s, I) \in Seq(S) /\ Len(Pick(s, I)) = Cardinality(I)
  BY PickIs
<1>9. ASSUME NEW k \in 1..m PROVE Pick(t, J)[k] = Pick(s, I)[k]
  <2>1. PICK i \in J : Rank(J, i) = k /\ Pick(t, J)[k] = t[i]
    <3>1. t \in Seq(S) /\ J \in SUBSET (1..Len(t)) /\ k \in 1..Cardinality(J)
      BY <1>2, <1>3 DEF m
    <3> QED BY <3>1, PickIs
  <2>2. Pick(s, I)[Rank(I, i)] = s[i]
    <3>1. i \in I
      BY <1>3
    <3> QED BY <3>1, PickIs
  <2>3. t[i] = s[i]
    BY <1>2, <1>3
  <2> QED BY <2>1, <2>2, <2>3, <1>6
<1>10. Pick(t, J) = SubSeq(Pick(s, I), 1, m)
  BY <1>5, <1>7, <1>8, <1>9, <1>4
<1> QED BY <1>5, <1>10 DEF t, J

-----------------------------------------------------------------------------
(* Results. *)

Result == [chunk : Chunk, score : 0..One]
IdOf(results, i) == results[i].chunk.id
Distinct(results) == \A i, j \in 1..Len(results) : IdOf(results, i) = IdOf(results, j) => i = j

\* The first of each id: all ids, each once, none later than it was.
LEMMA FirstOfEachIs ==
    ASSUME NEW S, NEW results \in Seq(S)
    PROVE  /\ FirstOfEach(results) \in Seq(S) /\ Len(FirstOfEach(results)) <= Len(results)
           /\ Ids(FirstOfEach(results)) = Ids(results) /\ Distinct(FirstOfEach(results))
           /\ \A k \in 1..Len(results) : \E m \in 1..Len(FirstOfEach(results)) :
                 m <= k /\ IdOf(FirstOfEach(results), m) = IdOf(results, k)
<1> DEFINE out == FirstOfEach(results)
           first(i) == \A j \in 1..i - 1 : IdOf(results, j) # IdOf(results, i)
           I == {i \in 1..Len(results) : first(i)}
<1>1. out = Pick(results, I)
  BY DEF FirstOfEach, IdOf
<1>2. I \subseteq 1..Len(results) /\ Len(results) \in Nat
  OBVIOUS
<1>3. \A i, j \in I : IdOf(results, i) = IdOf(results, j) => i = j
  <2> SUFFICES ASSUME NEW i \in I, NEW j \in I, IdOf(results, i) = IdOf(results, j), i # j PROVE FALSE
    OBVIOUS
  <2>1. i \in 1..j - 1 \/ j \in 1..i - 1
    OBVIOUS
  <2> QED BY <2>1
<1>4. ASSUME NEW k \in 1..Len(results) PROVE \E i \in I : i <= k /\ IdOf(results, i) = IdOf(results, k)
  <2> DEFINE same == {i \in 1..Len(results) : IdOf(results, i) = IdOf(results, k)}
  <2>1. same \subseteq Nat /\ same # {}
    OBVIOUS
  <2>2. PICK i \in same : \A j \in same : i <= j
    <3> HIDE DEF same
    <3> QED BY <2>1, FirstIs
  <2>3. i <= k
    BY <2>2
  <2>4. ASSUME NEW j \in 1..i - 1, IdOf(results, j) = IdOf(results, i) PROVE FALSE
    <3>1. j \in same /\ ~(i <= j)
      BY <2>4
    <3> QED BY <3>1, <2>2
  <2>5. i \in I
    BY <2>2, <2>4
  <2> QED BY <2>2, <2>3, <2>5
<1> HIDE DEF I
<1> HIDE DEF out
<1>5. /\ out \in Seq(S) /\ Len(out) = Cardinality(I) /\ Cardinality(I) <= Len(results) /\ Cardinality(I) \in Nat
      /\ \A i \in I : /\ Rank(I, i) \in 1..Cardinality(I) /\ Rank(I, i) <= i
                      /\ out[Rank(I, i)] = results[i]
      /\ \A k \in 1..Cardinality(I) : \E i \in I : Rank(I, i) = k /\ out[k] = results[i]
  <2>1. I \in SUBSET (1..Len(results))
    BY <1>2
  <2> QED BY <1>1, <2>1, PickIs
<1>6. ASSUME NEW k \in 1..Len(results) PROVE \E m \in 1..Len(out) : m <= k /\ IdOf(out, m) = IdOf(results, k)
  <2>1. PICK i \in I : i <= k /\ IdOf(results, i) = IdOf(results, k)
    BY <1>4
  <2>2. Rank(I, i) \in 1..Len(out) /\ Rank(I, i) <= k /\ out[Rank(I, i)] = results[i]
    BY <2>1, <1>2, <1>5
  <2>3. IdOf(out, Rank(I, i)) = IdOf(results, k)
    BY <2>1, <2>2 DEF IdOf
  <2> QED BY <2>2, <2>3
<1>7. Distinct(out)
  <2> SUFFICES ASSUME NEW k \in 1..Len(out), NEW l \in 1..Len(out), IdOf(out, k) = IdOf(out, l) PROVE k = l
    BY DEF Distinct
  <2>1. PICK i \in I : Rank(I, i) = k /\ out[k] = results[i]
    BY <1>5
  <2>2. PICK j \in I : Rank(I, j) = l /\ out[l] = results[j]
    BY <1>5
  <2> QED BY <2>1, <2>2, <1>3 DEF IdOf
<1>8. Ids(out) = Ids(results)
  <2>1. \A k \in 1..Len(out) : \E i \in 1..Len(results) : out[k] = results[i]
    BY <1>2, <1>5
  <2>2. Ids(out) \subseteq Ids(results)
    BY <2>1 DEF Ids
  <2>3. \A k \in 1..Len(results) : \E m \in 1..Len(out) : out[m].chunk.id = results[k].chunk.id
    BY <1>6 DEF IdOf
  <2>4. Ids(results) \subseteq Ids(out)
    BY <2>3 DEF Ids
  <2> QED BY <2>2, <2>4
<1> QED BY <1>5, <1>6, <1>7, <1>8 DEF out

-----------------------------------------------------------------------------
(* Results in order of their scores. *)

\* The same results, in another order.
Reordered(out, results) ==
    /\ out \in Seq(Result) /\ Len(out) = Len(results)
    /\ Ids(out) = Ids(results)
    /\ Distinct(results) => Distinct(out)

LEMMA SortIs ==
    ASSUME NEW results \in Seq(Result)
    PROVE  Reordered(SortByScore(results), results)
<1> DEFINE n == Len(results)
           I == 1..n
           score(i) == results[i].score
           R == {p \in I \X I : score(p[1]) > score(p[2]) \/ (score(p[1]) = score(p[2]) /\ p[1] < p[2])}
           out == SortByScore(results)
<1>1. n \in Nat /\ \A i \in I : results[i] \in Result /\ score(i) \in Int /\ i \in Int
  <2>1. One \in Nat
    BY RankingAssumption
  <2>2. n \in Nat /\ \A i \in I : results[i] \in Result /\ i \in Int
    OBVIOUS
  <2>3. \A x \in Result : x.score \in Int
    BY <2>1 DEF Result
  <2> QED BY <2>2, <2>3
<1>2. out = Arrange(results, I, R)
  BY DEF SortByScore
<1>3. IsFiniteSet(I) /\ Cardinality(I) = n
  <2> HIDE DEF n
  <2> QED BY <1>1, FS_Interval
<1>4. \A i, j \in I : <<i, j>> \in R <=> score(i) > score(j) \/ (score(i) = score(j) /\ i < j)
  OBVIOUS
<1> HIDE DEF R, score, n, out
<1>5. StrictOrder(I, R)
  <2>1. \A i \in I : <<i, i>> \notin R
    BY <1>1, <1>4
  <2>2. \A i, j \in I : i # j => <<i, j>> \in R \/ <<j, i>> \in R
    BY <1>1, <1>4
  <2>3. \A i, j, k \in I : <<i, j>> \in R /\ <<j, k>> \in R => <<i, k>> \in R
    BY <1>1, <1>4
  <2> QED BY <2>1, <2>2, <2>3 DEF StrictOrder
<1> HIDE DEF I
<1>6. /\ out \in Seq(Result) /\ Len(out) = n
      /\ \A k \in 1..n : \E i \in I : PlaceOf(I, R, i) = k /\ out[k] = results[i]
  BY <1>1, <1>2, <1>3, <1>5, ArrangeTyped
<1>7. \A i \in I : PlaceOf(I, R, i) \in 1..n /\ out[PlaceOf(I, R, i)] = results[i]
  BY <1>2, <1>3, <1>5, ArrangeIs, PlacesAre
<1>8. Ids(out) = Ids(results)
  <2>1. \A k \in 1..Len(out) : \E i \in 1..Len(results) : out[k] = results[i]
    BY <1>6 DEF I, n
  <2>2. \A i \in 1..Len(results) : \E k \in 1..Len(out) : out[k] = results[i]
    BY <1>6, <1>7 DEF I, n
  <2> QED BY <2>1, <2>2 DEF Ids
<1>9. ASSUME Distinct(results) PROVE Distinct(out)
  <2> SUFFICES ASSUME NEW k \in 1..n, NEW l \in 1..n, IdOf(out, k) = IdOf(out, l) PROVE k = l
    BY <1>6 DEF Distinct
  <2>1. PICK i \in I : PlaceOf(I, R, i) = k /\ out[k] = results[i]
    BY <1>6
  <2>2. PICK j \in I : PlaceOf(I, R, j) = l /\ out[l] = results[j]
    BY <1>6
  <2>3. i = j
    BY <1>9, <2>1, <2>2 DEF Distinct, IdOf, I, n
  <2> QED BY <2>1, <2>2, <2>3
<1> QED BY <1>6, <1>8, <1>9 DEF Reordered, n, out

-----------------------------------------------------------------------------
(* Runs of one source. *)

Members(s) == {s[i] : i \in 1..Len(s)}

\* What stands before p is all of one source, and x is of it.
RunAt(out, p, x) ==
    \/ \A k \in p - MaxSameSource..p - 1 : out[k].chunk.repo = x.chunk.repo
    \/ \A k \in p - MaxSameSource..p - 1 : out[k].chunk.path = x.chunk.path
RunsAreForced(out) ==
    \A p \in MaxSameSource + 1..Len(out) :
        RunAt(out, p, out[p]) => \A q \in p..Len(out) : RunAt(out, p, out[q])

LEMMA ViolatesIs ==
    ASSUME NEW out \in Seq(Result), NEW x
    PROVE  WouldViolate(out, x) <=> Len(out) >= MaxSameSource /\ RunAt(out, Len(out) + 1, x)
<1> DEFINE n == Len(out)
           m == MaxSameSource
           tail == SubSeq(out, n - m + 1, n)
<1>1. m \in Nat /\ m > 0 /\ n \in Nat
  BY RankingAssumption
<1>2. CASE ~(n >= m)
  BY <1>2 DEF WouldViolate
<1>3. CASE n >= m
  <2>1. Len(tail) = m /\ \A i \in 1..m : tail[i] = out[n - m + i]
    BY <1>1, <1>3
  <2> HIDE DEF tail
  <2>2. \A i \in 1..m : n - m + i \in (n + 1) - m..(n + 1) - 1
    BY <1>1, <1>3
  <2>3. \A k \in (n + 1) - m..(n + 1) - 1 : k - (n - m) \in 1..m /\ n - m + (k - (n - m)) = k
    BY <1>1, <1>3
  <2>4. (\A i \in 1..Len(tail) : SameRepo(tail[i].chunk, x.chunk))
        <=> \A k \in (n + 1) - m..(n + 1) - 1 : out[k].chunk.repo = x.chunk.repo
    <3> HIDE DEF m, n
    <3> QED BY <2>1, <2>2, <2>3 DEF SameRepo
  <2>5. (\A i \in 1..Len(tail) : SamePath(tail[i].chunk, x.chunk))
        <=> \A k \in (n + 1) - m..(n + 1) - 1 : out[k].chunk.path = x.chunk.path
    <3> HIDE DEF m, n
    <3> QED BY <2>1, <2>2, <2>3 DEF SamePath
  <2>6. WouldViolate(out, x) <=> \/ \A i \in 1..Len(tail) : SameRepo(tail[i].chunk, x.chunk)
                                \/ \A i \in 1..Len(tail) : SamePath(tail[i].chunk, x.chunk)
    BY <1>3 DEF WouldViolate, tail
  <2> DEFINE repo == \A k \in (n + 1) - m..(n + 1) - 1 : out[k].chunk.repo = x.chunk.repo
             path == \A k \in (n + 1) - m..(n + 1) - 1 : out[k].chunk.path = x.chunk.path
  <2>7. RunAt(out, n + 1, x) <=> repo \/ path
    BY DEF RunAt
  <2>8. WouldViolate(out, x) <=> repo \/ path
    BY <2>4, <2>5, <2>6
  <2> HIDE DEF repo, path
  <2> QED BY <2>7, <2>8, <1>3
<1> QED BY <1>2, <1>3

\* The next one is taken out of what is pending; when it makes a run too long,
\* so would all that is pending.
LEMMA PlaceNextIs ==
    ASSUME NEW spread, spread.output \in Seq(Result), spread.pending \in Seq(Result), spread.pending # <<>>
    PROVE  \E i \in 1..Len(spread.pending) :
              /\ PlaceNext(spread).output = Append(spread.output, spread.pending[i])
              /\ PlaceNext(spread).pending = RemoveAt(spread.pending, i)
              /\ WouldViolate(spread.output, spread.pending[i]) =>
                    \A j \in 1..Len(spread.pending) : WouldViolate(spread.output, spread.pending[j])
<1> DEFINE fits == {i \in 1..Len(spread.pending) : ~WouldViolate(spread.output, spread.pending[i])}
           next == IF fits = {} THEN 1 ELSE CHOOSE i \in fits : \A j \in fits : i <= j
<1>1. PlaceNext(spread) = [output |-> Append(spread.output, spread.pending[next]),
                           pending |-> RemoveAt(spread.pending, next)]
  BY DEF PlaceNext
<1>2. next \in 1..Len(spread.pending) /\ (fits # {} => next \in fits)
  <2>1. CASE fits = {}
    BY <2>1
  <2>2. CASE fits # {}
    <3>1. fits \subseteq Nat
      OBVIOUS
    <3>2. \E i \in fits : \A j \in fits : i <= j
      <4> HIDE DEF fits
      <4> QED BY <2>2, <3>1, FirstIs
    <3>3. next \in fits
      <4> HIDE DEF fits
      <4> QED BY <2>2, <3>2
    <3> QED BY <3>3
  <2> QED BY <2>1, <2>2
<1>3. WouldViolate(spread.output, spread.pending[next]) =>
        \A j \in 1..Len(spread.pending) : WouldViolate(spread.output, spread.pending[j])
  <2> HIDE DEF next
  <2> QED BY <1>2
<1> HIDE DEF next, fits
<1>4. /\ PlaceNext(spread).output = Append(spread.output, spread.pending[next])
      /\ PlaceNext(spread).pending = RemoveAt(spread.pending, next)
  BY <1>1
<1> QED BY <1>2, <1>3, <1>4

LEMMA ConcatIs ==
    ASSUME NEW S, NEW a \in Seq(S), NEW b \in Seq(S)
    PROVE  /\ a \o b \in Seq(S) /\ Len(a \o b) = Len(a) + Len(b)
           /\ \A k \in 1..Len(a) : (a \o b)[k] = a[k]
           /\ \A k \in 1..Len(b) : (a \o b)[Len(a) + k] = b[k]
OBVIOUS

\* One taken out of results that differ: the others are still there.
LEMMA TakenOut ==
    ASSUME NEW s \in Seq(Result), Distinct(s), NEW i \in 1..Len(s)
    PROVE  /\ RemoveAt(s, i) \in Seq(Result) /\ Len(RemoveAt(s, i)) = Len(s) - 1 /\ Distinct(RemoveAt(s, i))
           /\ Members(RemoveAt(s, i)) \subseteq Members(s)
           /\ Ids(RemoveAt(s, i)) = Ids(s) \ {IdOf(s, i)} /\ IdOf(s, i) \in Ids(s)
<1> DEFINE n == Len(s)
           old(k) == IF k < i THEN k ELSE k + 1
           t == RemoveAt(s, i)
           a == SubSeq(s, 1, i - 1)
           b == SubSeq(s, i + 1, n)
<1>1. n \in Nat /\ i \in Nat /\ 1 <= i /\ i <= n
  OBVIOUS
<1>2. a \in Seq(Result) /\ Len(a) = i - 1 /\ \A k \in 1..i - 1 : a[k] = s[k]
  BY <1>1
<1>3. b \in Seq(Result) /\ Len(b) = n - i /\ \A k \in 1..n - i : b[k] = s[i + k]
  BY <1>1
<1> HIDE DEF a, b
<1>4. /\ t \in Seq(Result) /\ Len(t) = n - 1 /\ \A k \in 1..i - 1 : t[k] = a[k]
      /\ \A k \in 1..n - i : t[i - 1 + k] = b[k]
  <2>1. t = a \o b
    BY DEF a, b, RemoveAt
  <2> HIDE DEF t
  <2>2. /\ a \o b \in Seq(Result) /\ Len(a \o b) = Len(a) + Len(b)
        /\ \A k \in 1..Len(a) : (a \o b)[k] = a[k]
        /\ \A k \in 1..Len(b) : (a \o b)[Len(a) + k] = b[k]
    <3>1. a \in Seq(Result) /\ b \in Seq(Result)
      BY <1>2, <1>3
    <3> QED BY <3>1, ConcatIs
  <2>3. (i - 1) + (n - i) = n - 1
    BY <1>1
  <2> HIDE DEF n
  <2> QED BY <2>1, <2>2, <2>3, <1>2, <1>3
<1> HIDE DEF t
<1>5. \A k \in 1..n - 1 : t[k] = s[old(k)] /\ old(k) \in 1..n /\ old(k) # i
  <2> TAKE k \in 1..n - 1
  <2>0. k \in Int /\ 1 <= k /\ k <= n - 1
    BY <1>1
  <2> HIDE DEF n
  <2>1. CASE k < i
    <3>1. k \in 1..i - 1
      BY <1>1, <2>0, <2>1
    <3>2. t[k] = s[k]
      BY <1>2, <1>4, <3>1
    <3> QED BY <3>2, <1>1, <2>0, <2>1
  <2>2. CASE ~(k < i)
    <3>1. k - (i - 1) \in 1..n - i /\ i + (k - (i - 1)) = k + 1 /\ i - 1 + (k - (i - 1)) = k
      BY <1>1, <2>0, <2>2
    <3>2. t[k] = b[k - (i - 1)]
      BY <1>4, <3>1
    <3>3. t[k] = s[k + 1]
      BY <1>3, <3>1, <3>2
    <3> QED BY <3>3, <1>1, <2>0, <2>2
  <2> QED BY <2>1, <2>2
<1>6. \A j \in 1..n : j # i => \E k \in 1..n - 1 : t[k] = s[j]
  <2> TAKE j \in 1..n
  <2> HAVE j # i
  <2>1. CASE j < i
    <3>1. j \in 1..n - 1 /\ old(j) = j
      BY <1>1, <2>1
    <3> QED BY <3>1, <1>5
  <2>2. CASE ~(j < i)
    <3>1. j - 1 \in 1..n - 1 /\ old(j - 1) = j
      BY <1>1, <2>2
    <3> QED BY <3>1, <1>5
  <2> QED BY <2>1, <2>2
<1>7. \A k, l \in 1..n - 1 : old(k) = old(l) => k = l
  BY <1>1
<1> HIDE DEF n, old
<1>8. Distinct(t)
  <2>1. \A k, l \in 1..n : IdOf(s, k) = IdOf(s, l) => k = l
    BY DEF Distinct, n
  <2>2. \A k \in 1..n - 1 : IdOf(t, k) = IdOf(s, old(k)) /\ old(k) \in 1..n
    BY <1>5 DEF IdOf
  <2>3. \A k, l \in 1..n - 1 : IdOf(t, k) = IdOf(t, l) => k = l
    BY <2>1, <2>2, <1>7
  <2>4. Len(t) = n - 1
    BY <1>4
  <2> QED BY <2>3, <2>4 DEF Distinct
<1>9. Members(t) \subseteq Members(s)
  <2>1. Len(t) = n - 1 /\ \A k \in 1..n - 1 : t[k] = s[old(k)] /\ old(k) \in 1..n
    BY <1>4, <1>5
  <2>2. \A k \in 1..Len(t) : \E j \in 1..n : t[k] = s[j]
    BY <2>1
  <2> QED BY <2>2 DEF Members, n
<1>10. Ids(t) = Ids(s) \ {IdOf(s, i)} /\ IdOf(s, i) \in Ids(s)
  <2>1. \A j \in 1..n : IdOf(s, j) = IdOf(s, i) => j = i
    BY DEF Distinct, n
  <2>2. Ids(s) = {IdOf(s, j) : j \in 1..n} /\ Ids(t) = {IdOf(t, k) : k \in 1..n - 1}
    BY <1>4 DEF Ids, IdOf, n
  <2>3. \A k \in 1..n - 1 : \E j \in 1..n : IdOf(t, k) = IdOf(s, j) /\ j # i
    BY <1>5 DEF IdOf
  <2>4. \A j \in 1..n : j # i => \E k \in 1..n - 1 : IdOf(t, k) = IdOf(s, j)
    BY <1>6 DEF IdOf
  <2>5. i \in 1..n
    BY DEF n
  <2> QED BY <2>1, <2>2, <2>3, <2>4, <2>5
<1> QED BY <1>4, <1>8, <1>9, <1>10 DEF n, t

-----------------------------------------------------------------------------
(* Results spread over their sources. *)

\* k of the results are placed: none twice, none lost, and where a run could
\* not be avoided nothing that came after would have avoided it.
PlacedSoFar(spread, sorted, k) ==
    /\ spread.output \in Seq(Result) /\ Len(spread.output) = k
    /\ spread.pending \in Seq(Result) /\ Len(spread.pending) = Len(sorted) - k
    /\ Distinct(spread.output) /\ Distinct(spread.pending)
    /\ Ids(spread.output) \cap Ids(spread.pending) = {}
    /\ Ids(spread.output) \union Ids(spread.pending) = Ids(sorted)
    /\ \A p \in MaxSameSource + 1..k : RunAt(spread.output, p, spread.output[p]) =>
          /\ \A q \in p..k : RunAt(spread.output, p, spread.output[q])
          /\ \A x \in Members(spread.pending) : RunAt(spread.output, p, x)

LEMMA OneMoreIsPlaced ==
    ASSUME NEW spread, NEW sorted \in Seq(Result), NEW k \in 0..Len(sorted) - 1, PlacedSoFar(spread, sorted, k)
    PROVE  PlacedSoFar(PlaceNext(spread), sorted, k + 1)
<1> DEFINE out == spread.output
           rest == spread.pending
           next == PlaceNext(spread)
<1>1. /\ out \in Seq(Result) /\ Len(out) = k /\ rest \in Seq(Result) /\ Len(rest) = Len(sorted) - k
      /\ Distinct(out) /\ Distinct(rest) /\ Ids(out) \cap Ids(rest) = {} /\ Ids(out) \union Ids(rest) = Ids(sorted)
      /\ \A p \in MaxSameSource + 1..k : RunAt(out, p, out[p]) =>
            /\ \A q \in p..k : RunAt(out, p, out[q])
            /\ \A x \in Members(rest) : RunAt(out, p, x)
  BY DEF PlacedSoFar
<1>2. k \in Nat /\ Len(sorted) \in Nat /\ k + 1 <= Len(sorted) /\ MaxSameSource \in Nat /\ MaxSameSource > 0
  BY RankingAssumption
<1>3. rest # <<>>
  BY <1>1, <1>2
<1>4. PICK i \in 1..Len(rest) :
         /\ next.output = Append(out, rest[i])
         /\ next.pending = RemoveAt(rest, i)
         /\ WouldViolate(out, rest[i]) => \A j \in 1..Len(rest) : WouldViolate(out, rest[j])
  BY <1>1, <1>3, PlaceNextIs
<1> DEFINE x == rest[i]
           new == next.output
           left == next.pending
<1> HIDE DEF out, rest, next
<1>5. x \in Result /\ x \in Members(rest)
  BY <1>1 DEF Members
<1>6. new \in Seq(Result) /\ Len(new) = k + 1 /\ new[k + 1] = x /\ \A q \in 1..k : new[q] = out[q]
  BY <1>1, <1>2, <1>4, <1>5
<1>7. /\ left \in Seq(Result) /\ Len(left) = Len(rest) - 1 /\ Distinct(left) /\ Members(left) \subseteq Members(rest)
      /\ Ids(left) = Ids(rest) \ {x.chunk.id} /\ x.chunk.id \in Ids(rest)
  <2>1. rest \in Seq(Result) /\ Distinct(rest)
    BY <1>1
  <2>2. LET t == RemoveAt(rest, i)
        IN  /\ t \in Seq(Result) /\ Len(t) = Len(rest) - 1 /\ Distinct(t) /\ Members(t) \subseteq Members(rest)
            /\ Ids(t) = Ids(rest) \ {IdOf(rest, i)} /\ IdOf(rest, i) \in Ids(rest)
    BY <2>1, TakenOut
  <2> QED BY <2>2, <1>4 DEF IdOf
<1> HIDE DEF new, left, x
<1>8. Ids(new) = Ids(out) \union {x.chunk.id}
  <2>1. Ids(new) = {new[q].chunk.id : q \in 1..k + 1} /\ Ids(out) = {out[q].chunk.id : q \in 1..k}
    BY <1>1, <1>6 DEF Ids
  <2>2. \A q \in 1..k + 1 : q \in 1..k \/ q = k + 1
    BY <1>2
  <2>3. \A q \in 1..k : q \in 1..k + 1
    BY <1>2
  <2>4. k + 1 \in 1..k + 1
    BY <1>2
  <2> QED BY <2>1, <2>2, <2>3, <2>4, <1>6
<1>9. Distinct(new)
  <2> SUFFICES ASSUME NEW p \in 1..k + 1, NEW q \in 1..k + 1, IdOf(new, p) = IdOf(new, q) PROVE p = q
    BY <1>6 DEF Distinct
  <2>1. x.chunk.id \notin Ids(out)
    BY <1>1, <1>7
  <2>2. \A l \in 1..k : IdOf(new, l) = IdOf(out, l) /\ IdOf(new, l) # x.chunk.id
    BY <2>1, <1>1, <1>6 DEF Ids, IdOf
  <2>3. IdOf(new, k + 1) = x.chunk.id
    BY <1>6 DEF IdOf
  <2>4. (p \in 1..k \/ p = k + 1) /\ (q \in 1..k \/ q = k + 1)
    BY <1>2
  <2>5. \A l, m \in 1..k : IdOf(out, l) = IdOf(out, m) => l = m
    BY <1>1 DEF Distinct
  <2> QED BY <2>2, <2>3, <2>4, <2>5
<1>10. ASSUME NEW p \in MaxSameSource + 1..k + 1, NEW y PROVE RunAt(new, p, y) <=> RunAt(out, p, y)
  <2>1. \A l \in p - MaxSameSource..p - 1 : new[l] = out[l]
    <3>1. \A l \in p - MaxSameSource..p - 1 : l \in 1..k
      BY <1>2
    <3> QED BY <3>1, <1>6
  <2> QED BY <2>1 DEF RunAt
<1>11. ASSUME NEW p \in MaxSameSource + 1..k + 1, RunAt(new, p, new[p])
       PROVE  /\ \A q \in p..k + 1 : RunAt(new, p, new[q])
              /\ \A y \in Members(left) : RunAt(new, p, y)
  <2>1. CASE p = k + 1
    <3>1. RunAt(out, k + 1, x)
      BY <2>1, <1>6, <1>10, <1>11
    <3>2. WouldViolate(out, x)
      BY <3>1, <2>1, <1>1, <1>2, ViolatesIs
    <3>3. \A j \in 1..Len(rest) : RunAt(out, k + 1, rest[j])
      BY <3>2, <1>1, <1>4, ViolatesIs DEF x
    <3>4. \A y \in Members(left) : RunAt(new, p, y)
      BY <3>3, <2>1, <1>7, <1>10 DEF Members
    <3>5. \A q \in p..k + 1 : q = p
      BY <2>1, <1>2
    <3> QED BY <3>4, <3>5, <1>11
  <2>2. CASE p # k + 1
    <3>1. p \in MaxSameSource + 1..k /\ p \in 1..k
      BY <2>2, <1>2
    <3>2. RunAt(out, p, out[p])
      BY <3>1, <1>6, <1>10, <1>11
    <3>3. (\A q \in p..k : RunAt(out, p, out[q])) /\ \A y \in Members(rest) : RunAt(out, p, y)
      BY <3>1, <3>2, <1>1
    <3>4. \A q \in p..k + 1 : q = k + 1 \/ (q \in p..k /\ q \in 1..k)
      BY <3>1, <1>2
    <3>5. \A q \in p..k + 1 : RunAt(out, p, new[q])
      BY <3>3, <3>4, <1>5, <1>6
    <3> QED BY <3>3, <3>5, <1>7, <1>10
  <2> QED BY <2>1, <2>2
<1>12. Ids(new) \cap Ids(left) = {} /\ Ids(new) \union Ids(left) = Ids(sorted)
  BY <1>1, <1>7, <1>8
<1>13. Len(left) = Len(sorted) - (k + 1)
  BY <1>1, <1>2, <1>7
<1> QED BY <1>6, <1>7, <1>9, <1>11, <1>12, <1>13 DEF PlacedSoFar, new, left, next

\* A function over 0..n that goes on from what it was before.
LEMMA SpreadsExist ==
    ASSUME NEW start, NEW n \in Nat
    PROVE  \E f : f = [i \in 0..n |-> IF i = 0 THEN start ELSE PlaceNext(f[i - 1])]
<1> DEFINE has(m) == \E f : f = [i \in 0..m |-> IF i = 0 THEN start ELSE PlaceNext(f[i - 1])]
           wrong == {m \in Nat : ~has(m)}
<1>1. has(0)
  <2> DEFINE f == [i \in 0..0 |-> start]
  <2>1. f = [i \in 0..0 |-> IF i = 0 THEN start ELSE PlaceNext(f[i - 1])]
    OBVIOUS
  <2> QED BY <2>1
<1>2. ASSUME NEW m \in Nat, has(m) PROVE has(m + 1)
  <2>1. PICK f : f = [i \in 0..m |-> IF i = 0 THEN start ELSE PlaceNext(f[i - 1])]
    BY <1>2
  <2> DEFINE g == [i \in 0..m + 1 |-> IF i = m + 1 THEN PlaceNext(f[m]) ELSE f[i]]
  <2>2. \A i \in 0..m + 1 : i # 0 => g[i - 1] = f[i - 1]
    OBVIOUS
  <2>3. \A i \in 0..m : f[i] = IF i = 0 THEN start ELSE PlaceNext(f[i - 1])
    BY <2>1
  <2>4. \A i \in 0..m + 1 : g[i] = IF i = 0 THEN start ELSE PlaceNext(g[i - 1])
    <3> TAKE i \in 0..m + 1
    <3>1. CASE i = m + 1
      <4>1. g[i] = PlaceNext(f[m]) /\ g[i - 1] = f[m] /\ i # 0
        BY <3>1, <2>2
      <4> HIDE DEF g
      <4> QED BY <4>1, <3>1
    <3>2. CASE i # m + 1
      <4>1. g[i] = f[i] /\ i \in 0..m
        BY <3>2
      <4> HIDE DEF g
      <4> QED BY <4>1, <2>2, <2>3
    <3> QED BY <3>1, <3>2
  <2>5. g = [i \in 0..m + 1 |-> g[i]]
    OBVIOUS
  <2> HIDE DEF g
  <2>6. g = [i \in 0..m + 1 |-> IF i = 0 THEN start ELSE PlaceNext(g[i - 1])]
    BY <2>4, <2>5
  <2> QED BY <2>6
<1> HIDE DEF has
<1>3. wrong = {}
  <2> SUFFICES ASSUME wrong # {} PROVE FALSE
    OBVIOUS
  <2>1. PICK m \in wrong : \A j \in wrong : m <= j
    BY FirstIs
  <2>2. m # 0 /\ m - 1 \in Nat /\ ~(m <= m - 1)
    BY <2>1, <1>1
  <2>3. has(m - 1 + 1)
    BY <2>1, <2>2, <1>2
  <2> QED BY <2>1, <2>2, <2>3
<1> QED BY <1>3 DEF has

LEMMA PreferredIs ==
    ASSUME NEW x \in Result
    PROVE  Preferred(x) \in Result /\ Preferred(x).chunk = x.chunk
<1>1. One \in Nat
  BY RankingAssumption
<1>2. ChunkTypePreference(x.chunk.type) \in 0..4
  BY DEF ChunkTypePreference
<1> DEFINE score == x.score + (4 - ChunkTypePreference(x.chunk.type)) * (One \div 200)
<1>3. score \in Int
  BY <1>1, <1>2 DEF Result
<1> HIDE DEF score
<1>4. Clamp(score) \in 0..One
  BY <1>1, <1>3 DEF Clamp, Larger, Smaller
<1> QED BY <1>4 DEF Preferred, Result, score

\* Every result is placed once; a run too long was not to be avoided.
LEMMA DiversityIs ==
    ASSUME NEW results \in Seq(Result), Distinct(results), NEW prefer
    PROVE  LET out == ApplyDiversity(results, prefer)
           IN  Reordered(out, results) /\ RunsAreForced(out)
<1> DEFINE boosted == IF prefer /\ Len(results) > 1 THEN [i \in 1..Len(results) |-> Preferred(results[i])] ELSE results
           sorted == SortByScore(boosted)
           n == Len(sorted)
           start == [output |-> <<>>, pending |-> sorted]
           f == CHOOSE g : g = [k \in 0..n |-> IF k = 0 THEN start ELSE PlaceNext(g[k - 1])]
           out == ApplyDiversity(results, prefer)
<1>1. out = f[n].output
  BY DEF ApplyDiversity
<1>2. /\ boosted \in Seq(Result) /\ Len(boosted) = Len(results)
      /\ \A i \in 1..Len(results) : boosted[i].chunk = results[i].chunk
  <2>1. \A i \in 1..Len(results) : results[i] \in Result
    OBVIOUS
  <2>2. \A i \in 1..Len(results) : Preferred(results[i]) \in Result /\ Preferred(results[i]).chunk = results[i].chunk
    BY <2>1, PreferredIs
  <2> QED BY <2>2
<1> HIDE DEF boosted
<1>3. Distinct(boosted) /\ Ids(boosted) = Ids(results)
  BY <1>2 DEF Distinct, Ids, IdOf
<1>4. Reordered(sorted, boosted)
  BY <1>2, SortIs
<1> HIDE DEF sorted
<1>5. sorted \in Seq(Result) /\ n = Len(results) /\ Ids(sorted) = Ids(results) /\ Distinct(sorted) /\ n \in Nat
  BY <1>2, <1>3, <1>4 DEF Reordered
<1>6. f = [k \in 0..n |-> IF k = 0 THEN start ELSE PlaceNext(f[k - 1])]
  <2>2. n \in Nat
    BY <1>5
  <2> HIDE DEF start, n
  <2>3. \E g : g = [i \in 0..n |-> IF i = 0 THEN start ELSE PlaceNext(g[i - 1])]
    BY <2>2, SpreadsExist, Zenon
  <2> QED BY <2>3
<1> HIDE DEF f
<1>7. f[0] = start /\ \A k \in 1..n : f[k] = PlaceNext(f[k - 1])
  <2> HIDE DEF start, n
  <2> QED BY <1>5, <1>6
<1>8. PlacedSoFar(start, sorted, 0)
  <2>1. start.output = <<>> /\ start.pending = sorted /\ Len(<<>>) = 0 /\ <<>> \in Seq(Result)
    OBVIOUS
  <2>2. Distinct(<<>>) /\ Ids(<<>>) = {}
    BY DEF Distinct, Ids
  <2>3. \A p \in MaxSameSource + 1..0 : FALSE
    BY RankingAssumption
  <2> HIDE DEF start, n
  <2>4. Len(sorted) = Len(sorted) - 0
    BY <1>5
  <2> QED BY <2>1, <2>2, <2>3, <2>4, <1>5 DEF PlacedSoFar
<1> HIDE DEF start
<1>9. \A k \in 0..n : PlacedSoFar(f[k], sorted, k)
  <2> DEFINE wrong == {k \in 0..n : ~PlacedSoFar(f[k], sorted, k)}
  <2> SUFFICES ASSUME wrong # {} PROVE FALSE
    OBVIOUS
  <2>1. wrong \subseteq Nat
    BY <1>5
  <2>2. PICK k \in wrong : \A j \in wrong : k <= j
    <3> HIDE DEF wrong
    <3> QED BY <2>1, FirstIs
  <2>3. k # 0
    BY <2>2, <1>7, <1>8
  <2> HIDE DEF n
  <2>4. k \in 1..n /\ k - 1 \in 0..n - 1 /\ k - 1 \in 0..n /\ ~(k <= k - 1) /\ k - 1 + 1 = k
    BY <2>2, <2>3, <1>5
  <2>5. PlacedSoFar(f[k - 1], sorted, k - 1)
    BY <2>2, <2>4
  <2>6. PlacedSoFar(PlaceNext(f[k - 1]), sorted, k - 1 + 1)
    <3>1. k - 1 \in 0..Len(sorted) - 1
      BY <2>4 DEF n
    <3> QED BY <3>1, <2>5, <1>5, OneMoreIsPlaced
  <2>7. PlacedSoFar(f[k], sorted, k)
    BY <2>4, <2>6, <1>7
  <2> QED BY <2>2, <2>7
<1>10. PlacedSoFar(f[n], sorted, n)
  BY <1>5, <1>9
<1> HIDE DEF out
<1>11. out \in Seq(Result) /\ Len(out) = n /\ Distinct(out)
  BY <1>1, <1>10 DEF PlacedSoFar
<1>12. Ids(out) = Ids(results)
  <2>1. Len(f[n].pending) = 0
    BY <1>5, <1>10 DEF PlacedSoFar
  <2>2. Ids(f[n].pending) = {}
    BY <2>1 DEF Ids
  <2> QED BY <2>2, <1>1, <1>5, <1>10 DEF PlacedSoFar
<1>13. RunsAreForced(out)
  BY <1>1, <1>10, <1>11 DEF PlacedSoFar, RunsAreForced
<1> QED BY <1>5, <1>11, <1>12, <1>13 DEF Reordered, out

-----------------------------------------------------------------------------
(* Two lists fused, the cross-encoder, several concepts in turn. *)

LEMMA ConstantsAre ==
    /\ One \in Nat /\ One > 0 /\ One % 1000 = 0 /\ RrfK \in Nat
    /\ MaxSameSource \in Nat /\ MaxSameSource > 0 /\ MaxConcepts \in Nat /\ MaxConcepts > 0
    /\ MinCandidates \in Nat /\ MinCandidates > 0 /\ TopN \in Nat /\ TopN > 0
    /\ MaxLimit \in 1..MinCandidates /\ SnippetCandidates \in 1..MinCandidates
BY RankingAssumption, LimitAssumption

LEMMA TakeIs ==
    ASSUME NEW S, NEW s \in Seq(S), NEW n \in Nat
    PROVE  /\ Take(s, n) \in Seq(S) /\ Len(Take(s, n)) = Smaller(n, Len(s))
           /\ Len(Take(s, n)) \in 0..Len(s) /\ Take(s, n) = SubSeq(s, 1, Len(Take(s, n)))
           /\ \A i \in 1..Len(Take(s, n)) : Take(s, n)[i] = s[i] /\ i \in 1..Len(s)
<1>1. Smaller(n, Len(s)) \in 0..Len(s)
  BY DEF Smaller
<1> DEFINE m == Smaller(n, Len(s))
<1> HIDE DEF m
<1>2. m \in 0..Len(s)
  BY <1>1 DEF m
<1>3. /\ SubSeq(s, 1, m) \in Seq(S) /\ Len(SubSeq(s, 1, m)) = m
      /\ \A i \in 1..m : SubSeq(s, 1, m)[i] = s[i] /\ i \in 1..Len(s)
  BY <1>2
<1> QED BY <1>2, <1>3 DEF Take, m

LEMMA RankScoreIs ==
    ASSUME NEW list \in Seq(Chunk), NEW chunk
    PROVE  RankScore(list, chunk) \in Int
<1> DEFINE ranks == {i \in 1..Len(list) : list[i].id = chunk.id}
           rank == CHOOSE i \in ranks : TRUE
<1>1. CASE ranks = {}
  BY <1>1 DEF RankScore
<1>2. CASE ranks # {}
  <2>1. rank \in ranks
    <3> HIDE DEF ranks
    <3> QED BY <1>2
  <2>2. rank \in Nat /\ rank > 0
    <3>1. \A i \in ranks : i \in Nat /\ i > 0
      OBVIOUS
    <3> HIDE DEF ranks, rank
    <3> QED BY <2>1, <3>1
  <2> HIDE DEF ranks, rank
  <2> DEFINE d == 2 * (RrfK + rank)
  <2>3. d \in Int /\ d > 0
    BY <2>2, ConstantsAre
  <2> HIDE DEF d
  <2>4. One \div d \in Int
    BY <2>3, ConstantsAre
  <2>5. (One \div d) * (RrfK + 1) \in Int
    BY <2>4, ConstantsAre
  <2> QED BY <1>2, <2>5 DEF RankScore, ranks, rank, d
<1> QED BY <1>1, <1>2

LEMMA HeuristicsAre ==
    ASSUME NEW chunk \in Chunk, NEW fused \in Int, NEW dual \in BOOLEAN, NEW symbols \in BOOLEAN, NEW version
    PROVE  ApplyCodeIntentHeuristics(chunk, fused, dual, symbols, version) \in 0..One
<1>1. One \in Nat /\ chunk.age \in Int /\ chunk.symbol \in BOOLEAN
  BY ConstantsAre, ChunkAssumption
<1>2. \A n \in Nat : Percent(n) \in Nat
  BY <1>1 DEF Percent
<1>3. SymbolMatchBoost \in Nat /\ DualHitBonus \in Nat /\ StalenessMaxPenalty \in Nat /\ VersionPenalty \in Nat
      /\ CombinedPenaltyCap \in Nat
  BY <1>2 DEF SymbolMatchBoost, DualHitBonus, StalenessMaxPenalty, VersionPenalty, CombinedPenaltyCap
<1>4. Penalty(chunk, version) \in Int
  <2> DEFINE stale == IF chunk.age > 0 THEN Smaller(StalenessMaxPenalty, (StalenessMaxPenalty \div 365) * chunk.age)
                      ELSE 0
             newer == version # NoVersion /\ ComputeVersionCompatibility(version, chunk.pin) = "newer_required"
  <2>1. stale \in Int
    BY <1>1, <1>3 DEF Smaller
  <2> HIDE DEF stale
  <2>2. (IF newer THEN VersionPenalty ELSE 0) \in Int
    <3> HIDE DEF newer
    <3> QED BY <1>3
  <2> DEFINE extra == IF newer THEN VersionPenalty ELSE 0
  <2> HIDE DEF extra
  <2>3. extra \in Int
    BY <2>2 DEF extra
  <2>4. Smaller(CombinedPenaltyCap, stale + extra) \in Int
    BY <2>1, <2>3, <1>3 DEF Smaller
  <2> QED BY <2>4 DEF Penalty, stale, extra
<1> DEFINE score == fused + (IF symbols /\ chunk.symbol THEN SymbolMatchBoost ELSE 0)
                      + (IF dual THEN DualHitBonus ELSE 0) - Penalty(chunk, version)
<1>5. score \in Int
  BY <1>1, <1>3, <1>4
<1> HIDE DEF score
<1>6. Clamp(score) \in 0..One
  BY <1>1, <1>5 DEF Clamp, Larger, Smaller
<1> QED BY <1>6 DEF ApplyCodeIntentHeuristics, score

\* What is found is ranked, each chunk once, and spread.
LEMMA RerankIs ==
    ASSUME NEW vector \in Seq(Chunk), NEW keyword \in Seq(Chunk), NEW a \in Ask
    PROVE  LET out == Rerank(vector, keyword, a)
           IN  /\ out \in Seq(Result) /\ Distinct(out) /\ RunsAreForced(out)
               /\ Ids(out) = {c.id : c \in ToSet(vector) \union ToSet(keyword)}
<1> DEFINE dual(c) == \E v \in 1..Len(vector) : vector[v].id = c.id /\ \E k \in 1..Len(keyword) : keyword[k].id = c.id
           fused(c) == ReciprocalRankFusion(vector, keyword, c)
           score(c) == ApplyCodeIntentHeuristics(c, fused(c), dual(c), a.symbols, a.version)
           scored(c) == [chunk |-> c, score |-> score(c)]
           both == vector \o keyword
           all == [i \in 1..Len(both) |-> scored(both[i])]
           sorted == SortByScore(FirstOfEach(all))
           out == Rerank(vector, keyword, a)
<1>1. out = ApplyDiversity(sorted, a.preferTypes)
  BY DEF Rerank
<1>2. ASSUME NEW c \in Chunk PROVE scored(c) \in Result /\ scored(c).chunk = c
  <2>1. dual(c) \in BOOLEAN /\ a.symbols \in BOOLEAN
    BY DEF Ask
  <2>2. fused(c) \in Int
    BY RankScoreIs DEF ReciprocalRankFusion
  <2> HIDE DEF dual, fused
  <2>3. score(c) \in 0..One
    BY <2>1, <2>2, HeuristicsAre
  <2> HIDE DEF score
  <2> QED BY <2>3 DEF Result
<1> HIDE DEF scored
<1>3. /\ both \in Seq(Chunk) /\ Len(both) = Len(vector) + Len(keyword)
      /\ \A i \in 1..Len(vector) : both[i] = vector[i]
      /\ \A i \in 1..Len(keyword) : both[Len(vector) + i] = keyword[i]
  BY ConcatIs
<1> HIDE DEF both
<1>4. all \in Seq(Result) /\ Len(all) = Len(both) /\ \A i \in 1..Len(both) : all[i].chunk = both[i]
  <2>1. \A i \in 1..Len(both) : both[i] \in Chunk
    BY <1>3
  <2> QED BY <2>1, <1>2, <1>3
<1> HIDE DEF all
<1>5. /\ FirstOfEach(all) \in Seq(Result) /\ Ids(FirstOfEach(all)) = Ids(all) /\ Distinct(FirstOfEach(all))
  BY <1>4, FirstOfEachIs
<1>6. sorted \in Seq(Result) /\ Ids(sorted) = Ids(all) /\ Distinct(sorted)
  BY <1>5, SortIs DEF Reordered
<1> HIDE DEF sorted
<1>7. out \in Seq(Result) /\ Ids(out) = Ids(all) /\ Distinct(out) /\ RunsAreForced(out)
  BY <1>1, <1>6, DiversityIs DEF Reordered
<1>8. Ids(all) = {c.id : c \in ToSet(vector) \union ToSet(keyword)}
  <2>1. Ids(all) = {both[i].id : i \in 1..Len(both)}
    BY <1>4 DEF Ids
  <2>2. ToSet(vector) = {vector[i] : i \in 1..Len(vector)} /\ ToSet(keyword) = {keyword[i] : i \in 1..Len(keyword)}
    BY DEF ToSet
  <2>3. \A i \in 1..Len(both) : \/ \E j \in 1..Len(vector) : both[i] = vector[j]
                                \/ \E j \in 1..Len(keyword) : both[i] = keyword[j]
    <3> TAKE i \in 1..Len(both)
    <3>1. i \in 1..Len(vector) \/ (i - Len(vector) \in 1..Len(keyword) /\ Len(vector) + (i - Len(vector)) = i)
      BY <1>3
    <3> QED BY <3>1, <1>3
  <2>4. \A j \in 1..Len(vector) : \E i \in 1..Len(both) : both[i] = vector[j]
    <3> TAKE j \in 1..Len(vector)
    <3>1. j \in 1..Len(both)
      BY <1>3
    <3> QED BY <3>1, <1>3
  <2>5. \A j \in 1..Len(keyword) : \E i \in 1..Len(both) : both[i] = keyword[j]
    <3> TAKE j \in 1..Len(keyword)
    <3>1. Len(vector) + j \in 1..Len(both)
      BY <1>3
    <3> QED BY <3>1, <1>3
  <2>6. ToSet(vector) \union ToSet(keyword) = {both[i] : i \in 1..Len(both)}
    <3>1. \A c \in ToSet(vector) \union ToSet(keyword) : \E i \in 1..Len(both) : c = both[i]
      BY <2>2, <2>4, <2>5
    <3>2. \A i \in 1..Len(both) : both[i] \in ToSet(vector) \union ToSet(keyword)
      BY <2>2, <2>3
    <3> QED BY <3>1, <3>2
  <2>7. {both[i].id : i \in 1..Len(both)} = {c.id : c \in {both[i] : i \in 1..Len(both)}}
    OBVIOUS
  <2> QED BY <2>1, <2>6, <2>7
<1> HIDE DEF out
<1> QED BY <1>7, <1>8 DEF out

LEMMA DistinctCount ==
    ASSUME NEW S, NEW results \in Seq(S), Distinct(results)
    PROVE  Cardinality(Ids(results)) = Len(results)
<1> DEFINE n == Len(results)
           f == [i \in 1..n |-> IdOf(results, i)]
<1>1. n \in Nat
  OBVIOUS
<1>2. Ids(results) = {IdOf(results, i) : i \in 1..n}
  BY DEF Ids, IdOf
<1>3. \A i, j \in 1..n : IdOf(results, i) = IdOf(results, j) => i = j
  BY DEF Distinct
<1> HIDE DEF n
<1>4. f \in [1..n -> Ids(results)] /\ \A i \in 1..n : f[i] = IdOf(results, i)
  BY <1>2
<1> HIDE DEF f
<1>5. f \in Bijection(1..n, Ids(results))
  <2>1. f \in Injection(1..n, Ids(results))
    BY <1>3, <1>4 DEF Injection, IsInjective
  <2>2. f \in Surjection(1..n, Ids(results))
    BY <1>2, <1>4 DEF Surjection
  <2> QED BY <2>1, <2>2 DEF Bijection
<1>6. IsFiniteSet(1..n) /\ Cardinality(1..n) = n
  BY <1>1, FS_Interval
<1>7. Cardinality(Ids(results)) = n
  BY <1>5, <1>6, FS_Bijection DEF ExistsBijection
<1> QED BY <1>7 DEF n

LEMMA CrossEncodeIs ==
    ASSUME NEW results \in Seq(Result), NEW scores, \A c \in Chunk : scores[c.id] \in 0..One
    PROVE  CrossEncode(results, scores) \in Seq(Result)
<1> DEFINE m == Smaller(TopN, Len(results))
           top == [i \in 1..m |-> [results[i] EXCEPT !.score = scores[results[i].chunk.id]]]
<1>1. m \in 0..Len(results) /\ m \in Nat
  BY ConstantsAre DEF Smaller
<1> HIDE DEF m
<1>2. \A i \in 1..m : [results[i] EXCEPT !.score = scores[results[i].chunk.id]] \in Result
  <2> TAKE i \in 1..m
  <2>1. results[i] \in Result
    BY <1>1
  <2>2. scores[results[i].chunk.id] \in 0..One
    BY <2>1 DEF Result
  <2> QED BY <2>1, <2>2 DEF Result
<1>3. top \in Seq(Result) /\ Len(top) = m
  BY <1>1, <1>2
<1> HIDE DEF top
<1>4. SortByScore(top) \in Seq(Result)
  BY <1>3, SortIs DEF Reordered
<1>5. SubSeq(results, m + 1, Len(results)) \in Seq(Result)
  BY <1>1
<1>6. SortByScore(top) \o SubSeq(results, m + 1, Len(results)) \in Seq(Result)
  BY <1>4, <1>5, ConcatIs
<1> QED BY <1>3, <1>6 DEF CrossEncode, m, top

-----------------------------------------------------------------------------
(* Several concepts in turn. *)

Rows(lists) == UNION {{<<row, l>> : row \in 1..Len(lists[l])} : l \in 1..Len(lists)}
RowByRow(at) ==
    {pair \in at \X at :
        LET p == pair[1]
            q == pair[2]
        IN  p[1] < q[1] \/ (p[1] = q[1] /\ p[2] < q[2])}

LEMMA RowsAre ==
    ASSUME NEW lists \in Seq(Seq(Result))
    PROVE  /\ IsFiniteSet(Rows(lists)) /\ StrictOrder(Rows(lists), RowByRow(Rows(lists)))
           /\ \A p \in Rows(lists) : /\ p = <<p[1], p[2]>> /\ p[2] \in 1..Len(lists)
                                     /\ p[1] \in 1..Len(lists[p[2]])
           /\ \A l \in 1..Len(lists) : \A row \in 1..Len(lists[l]) : <<row, l>> \in Rows(lists)
           /\ \A p, q \in Rows(lists) :
                 <<p, q>> \in RowByRow(Rows(lists)) <=> p[1] < q[1] \/ (p[1] = q[1] /\ p[2] < q[2])
<1> DEFINE n == Len(lists)
           entries(l) == {<<row, l>> : row \in 1..Len(lists[l])}
           at == Rows(lists)
<1>1. n \in Nat /\ \A l \in 1..n : lists[l] \in Seq(Result) /\ Len(lists[l]) \in Nat
  OBVIOUS
<1>2. at = UNION {entries(l) : l \in 1..n}
  BY DEF Rows
<1>3. IsFiniteSet(1..n)
  <2> HIDE DEF n
  <2> QED BY <1>1, FS_Interval
<1>4. ASSUME NEW l \in 1..n PROVE IsFiniteSet(entries(l))
  <2> DEFINE m == Len(lists[l])
             f == [row \in 1..m |-> <<row, l>>]
  <2>1. m \in Nat
    BY <1>1
  <2> HIDE DEF m
  <2>2. IsFiniteSet(1..m)
    BY <2>1, FS_Interval
  <2>3. f \in Surjection(1..m, {<<row, l>> : row \in 1..m})
    BY DEF Surjection
  <2> HIDE DEF f
  <2>4. IsFiniteSet({<<row, l>> : row \in 1..m})
    BY <2>2, <2>3, FS_Surjection
  <2> QED BY <2>4 DEF m
<1> HIDE DEF entries
<1>5. IsFiniteSet({entries(l) : l \in 1..n})
  <2> DEFINE f == [l \in 1..n |-> entries(l)]
  <2> HIDE DEF n
  <2>1. f \in Surjection(1..n, {entries(l) : l \in 1..n})
    BY DEF Surjection
  <2> HIDE DEF f
  <2> QED BY <1>3, <2>1, FS_Surjection
<1>6. IsFiniteSet(at)
  <2> HIDE DEF n
  <2>1. \A T \in {entries(l) : l \in 1..n} : IsFiniteSet(T)
    BY <1>4
  <2> HIDE DEF at
  <2> DEFINE S == {entries(l) : l \in 1..n}
  <2> HIDE DEF S
  <2>2. IsFiniteSet(UNION S)
    BY <1>5, <2>1, FS_UNION DEF S
  <2> QED BY <1>2, <2>2 DEF S
<1>7. \A p \in at : p = <<p[1], p[2]>> /\ p[2] \in 1..n /\ p[1] \in 1..Len(lists[p[2]])
  <2> TAKE p \in at
  <2>1. PICK l \in 1..n : p \in entries(l)
    BY <1>2
  <2>2. PICK row \in 1..Len(lists[l]) : p = <<row, l>>
    BY <2>1 DEF entries
  <2> QED BY <2>2
<1>8. \A l \in 1..n : \A row \in 1..Len(lists[l]) : <<row, l>> \in at
  BY <1>2 DEF entries
<1> HIDE DEF at
<1>9. \A p, q \in at : <<p, q>> \in RowByRow(at) <=> p[1] < q[1] \/ (p[1] = q[1] /\ p[2] < q[2])
  BY DEF RowByRow
<1>10. StrictOrder(at, RowByRow(at))
  <2>0. \A p \in at : p[1] \in Int /\ p[2] \in Int
    BY <1>1, <1>7
  <2>1. \A p \in at : <<p, p>> \notin RowByRow(at)
    BY <2>0, <1>9
  <2>2. \A p, q \in at : p # q => <<p, q>> \in RowByRow(at) \/ <<q, p>> \in RowByRow(at)
    <3> SUFFICES ASSUME NEW p \in at, NEW q \in at, p # q
                 PROVE  <<p, q>> \in RowByRow(at) \/ <<q, p>> \in RowByRow(at)
      OBVIOUS
    <3>1. p[1] # q[1] \/ p[2] # q[2]
      BY <1>7
    <3> QED BY <3>1, <2>0, <1>9
  <2>3. \A p, q, s \in at : <<p, q>> \in RowByRow(at) /\ <<q, s>> \in RowByRow(at) => <<p, s>> \in RowByRow(at)
    BY <2>0, <1>9
  <2> QED BY <2>1, <2>2, <2>3 DEF StrictOrder
<1> QED BY <1>6, <1>7, <1>8, <1>9, <1>10 DEF at, n

\* The answers in turn hold each list's first, when there are as many places.
LEMMA RoundRobinIs ==
    ASSUME NEW lists \in Seq(Seq(Result)), NEW limit \in Nat, Len(lists) <= limit
    PROVE  /\ RoundRobin(lists, limit) \in Seq(Result)
           /\ \A l \in 1..Len(lists) :
                 lists[l] # <<>> => IdOf(lists[l], 1) \in Ids(RoundRobin(lists, limit))
<1> DEFINE n == Len(lists)
           at == Rows(lists)
           R == RowByRow(at)
           result == [p \in at |-> lists[p[2]][p[1]]]
           all == Arrange(result, at, R)
           first == FirstOfEach(all)
<1>1. RoundRobin(lists, limit) = Take(first, limit)
  BY DEF RoundRobin, InTurn, Rows, RowByRow
<1>2. /\ IsFiniteSet(at) /\ StrictOrder(at, R)
      /\ \A p \in at : p = <<p[1], p[2]>> /\ p[2] \in 1..n /\ p[1] \in 1..Len(lists[p[2]])
      /\ \A l \in 1..n : \A row \in 1..Len(lists[l]) : <<row, l>> \in at
      /\ \A p, q \in at : <<p, q>> \in R <=> p[1] < q[1] \/ (p[1] = q[1] /\ p[2] < q[2])
  BY RowsAre
<1>3. n \in Nat /\ \A l \in 1..n : lists[l] \in Seq(Result) /\ Len(lists[l]) \in Nat
  OBVIOUS
<1> HIDE DEF at, R, n
<1>4. \A p \in at : result[p] = lists[p[2]][p[1]] /\ result[p] \in Result
  BY <1>2, <1>3
<1> HIDE DEF result
<1>5. all \in Seq(Result) /\ Len(all) = Cardinality(at)
  BY <1>2, <1>4, ArrangeTyped
<1>6. ASSUME NEW l \in 1..n, lists[l] # <<>>
      PROVE  \E k \in 1..Len(all) : k <= l /\ all[k] = lists[l][1]
  <2> DEFINE p == <<1, l>>
             ahead == Ahead(at, R, p)
             f == [q \in ahead |-> q[2]]
  <2>1. p \in at /\ p[1] = 1 /\ p[2] = l
    <3>1. 1 \in 1..Len(lists[l])
      BY <1>3, <1>6
    <3> QED BY <3>1, <1>2
  <2> HIDE DEF p
  <2>2. \A q \in ahead : q = <<1, q[2]>> /\ q[2] \in 1..l - 1
    <3> TAKE q \in ahead
    <3>1. q \in at /\ (q[1] < 1 \/ (q[1] = 1 /\ q[2] < l))
      BY <1>2, <2>1 DEF Ahead
    <3>2. q = <<q[1], q[2]>> /\ q[2] \in 1..n /\ q[1] \in 1..Len(lists[q[2]])
      BY <3>1, <1>2
    <3> QED BY <3>1, <3>2, <1>3
  <2> HIDE DEF ahead
  <2>3. f \in [ahead -> 1..l - 1] /\ \A q \in ahead : f[q] = q[2]
    BY <2>2
  <2> HIDE DEF f
  <2>4. f \in Injection(ahead, 1..l - 1)
    <3>1. \A q, s \in ahead : f[q] = f[s] => q = s
      BY <2>2, <2>3
    <3> QED BY <2>3, <3>1 DEF Injection, IsInjective
  <2>5. IsFiniteSet(1..l - 1) /\ Cardinality(1..l - 1) = l - 1
    <3>1. l - 1 \in Int /\ (1 > l - 1 => l - 1 = 0) /\ l - 1 - 1 + 1 = l - 1
      BY <1>3
    <3>2. \A b \in Int : IsFiniteSet(1..b) /\ Cardinality(1..b) = IF 1 > b THEN 0 ELSE b - 1 + 1
      BY FS_Interval
    <3> QED BY <3>1, <3>2
  <2>6. Cardinality(ahead) <= l - 1 /\ IsFiniteSet(ahead)
    BY <2>4, <2>5, FS_Injection
  <2>7. Cardinality(ahead) \in Nat
    BY <2>6, FS_CardinalityType
  <2> DEFINE k == PlaceOf(at, R, p)
  <2>8. k <= l
    BY <2>6, <2>7, <1>3 DEF PlaceOf, ahead
  <2>9. k \in 1..Cardinality(at)
    BY <1>2, <2>1, PlacesAre
  <2>10. all[k] = result[p]
    BY <1>2, <2>1, ArrangeIs
  <2> HIDE DEF k, all
  <2>11. result[p] = lists[l][1]
    BY <1>4, <2>1
  <2> QED BY <2>8, <2>9, <2>10, <2>11, <1>5
<1> HIDE DEF all
<1>7. /\ first \in Seq(Result)
      /\ \A k \in 1..Len(all) : \E m \in 1..Len(first) : m <= k /\ IdOf(first, m) = IdOf(all, k)
  BY <1>5, FirstOfEachIs
<1> HIDE DEF first
<1>8. /\ Take(first, limit) \in Seq(Result) /\ Len(Take(first, limit)) = Smaller(limit, Len(first))
      /\ \A i \in 1..Len(Take(first, limit)) : Take(first, limit)[i] = first[i]
  BY <1>7, TakeIs
<1>9. ASSUME NEW l \in 1..n, lists[l] # <<>>
      PROVE  IdOf(lists[l], 1) \in Ids(Take(first, limit))
  <2>1. PICK k \in 1..Len(all) : k <= l /\ all[k] = lists[l][1]
    BY <1>6, <1>9
  <2>2. PICK m \in 1..Len(first) : m <= k /\ IdOf(first, m) = IdOf(all, k)
    BY <1>7
  <2>3. m <= limit
    <3>1. l <= limit /\ l \in Int /\ k \in Int /\ m \in Int
      BY <1>3, <1>5, <1>7 DEF n
    <3> QED BY <3>1, <2>1, <2>2
  <2>4. m \in 1..Len(Take(first, limit))
    BY <1>7, <1>8, <2>3 DEF Smaller
  <2>5. IdOf(Take(first, limit), m) = IdOf(lists[l], 1)
    BY <1>8, <2>1, <2>2, <2>4 DEF IdOf
  <2> QED BY <2>4, <2>5 DEF Ids, IdOf
<1> QED BY <1>1, <1>8, <1>9 DEF n

-----------------------------------------------------------------------------
(* The invariant of the requests. *)

Task == [at : {"reading", "loading", "scoring", "ready"}, read : SUBSET {"vector", "keyword"},
         vector : Seq(Chunk), keyword : Seq(Chunk), generations : SUBSET Nat, ranked : Seq(Result)]

QueryTypeOK ==
    /\ \E s \in Scenarios : ask = s.ask /\ world = s.world /\ logit = s.logit /\ encoder = s.encoder
    /\ generation \in 1..Len(world)
    /\ stage \in [Request -> {"asked", "searching", "done", "failed"}] /\ step \in [Request -> Nat]
    /\ task \in [Request -> Seq(Task)] /\ answer = [r \in Request |-> answer[r]]
    /\ model \in BOOLEAN /\ available \in BOOLEAN

\* What a task has read is what some generation had for its search, and what it
\* ranked is that.
HasRead(half, list, generations, a, i, at, w) ==
    \E g \in generations :
        LET lists == Found(w[g], Searches(a)[i], Steps(a)[at])
        IN  list = Take(IF half = "vector" THEN lists.vector ELSE lists.keyword, CandidateLimit(PerSearch(a)))
\* The whole ranking of what a task has read.
RankedAs(t, a, scored, scores) ==
    LET fused == Rerank(t.vector, t.keyword, a)
    IN  IF scored THEN CrossEncode(fused, scores) ELSE fused
TaskIs(t, a, i, at, w, on, scores) ==
    /\ "vector" \in t.read => HasRead("vector", t.vector, t.generations, a, i, at, w)
    /\ "keyword" \in t.read => HasRead("keyword", t.keyword, t.generations, a, i, at, w)
    /\ t.at # "reading" => t.read = {"vector", "keyword"}
    /\ t.at \in {"loading", "scoring"} => on /\ t.ranked = Rerank(t.vector, t.keyword, a)
    /\ t.at = "ready" => \E scored \in IF on THEN BOOLEAN ELSE {FALSE} :
                              t.ranked = Take(RankedAs(t, a, scored, scores), PerSearch(a))

\* An answer is made of the tasks that were ready.
AnswerIs(reply, a, tasks) ==
    /\ \A i \in 1..Len(tasks) : tasks[i].at = "ready"
    /\ reply = Answer(a, Merged(a, tasks), UNION {tasks[i].generations : i \in 1..Len(tasks)})

RequestIs(where, a, tasks, at, reply, w, on, scores) ==
    /\ \A i \in 1..Len(tasks) : TaskIs(tasks[i], a, i, at, w, on, scores)
    /\ where \in {"searching", "done"} /\ a.tool # "lookup" => Len(tasks) = Len(Searches(a))
    /\ where = "done" /\ a.tool # "lookup" => AnswerIs(reply, a, tasks)

QueryInv ==
    /\ QueryTypeOK
    /\ \A r \in Request : RequestIs(stage[r], ask[r], task[r], step[r], answer[r], world, encoder, logit)

LEMMA InputIs ==
    ASSUME QueryTypeOK
    PROVE  /\ ask \in [Request -> Ask] /\ encoder \in BOOLEAN
           /\ \A c \in Chunk : logit[c.id] \in 0..One
           /\ Len(world) \in Nat /\ 1 \in 1..Len(world)
           /\ \A g \in 1..Len(world) : \A query, kind : Found(world[g], query, kind) \in Halves
<1>1. PICK s \in Scenarios : ask = s.ask /\ world = s.world /\ logit = s.logit /\ encoder = s.encoder
  BY DEF QueryTypeOK
<1>2. /\ s.ask \in [Request -> Ask] /\ s.encoder \in BOOLEAN
      /\ \A c \in Chunk : s.logit[c.id] \in 0..One
      /\ s.world \in Seq(Range(s.world)) /\ s.world # <<>>
      /\ \A g \in 1..Len(s.world) : \A key \in DOMAIN s.world[g] : s.world[g][key] \in Halves
  BY ScenarioAssumption
<1>3. Len(s.world) \in Nat /\ Len(s.world) > 0
  <2>1. \A S : \A w \in Seq(S) : w # <<>> => Len(w) \in Nat /\ Len(w) > 0
    OBVIOUS
  <2> QED BY <2>1, <1>2
<1>4. [vector |-> <<>>, keyword |-> <<>>] \in Halves
  BY DEF Halves
<1>5. \A g \in 1..Len(s.world) : \A query, kind : Found(s.world[g], query, kind) \in Halves
  BY <1>2, <1>4 DEF Found
<1> QED BY <1>1, <1>2, <1>3, <1>5

LEMMA LimitsAre ==
    ASSUME NEW a \in Ask
    PROVE  /\ FetchLimit(a) \in 1..MinCandidates
           /\ Len(Searches(a)) \in Nat /\ Len(Searches(a)) > 0
           /\ Len(Searches(a)) = 1 \/ Len(Searches(a)) <= FetchLimit(a)
           /\ PerSearch(a) \in Nat
           /\ CandidateLimit(PerSearch(a)) = MinCandidates
           /\ Len(DecomposeQuery(a.query)) \in Nat
           /\ Len(DecomposeQuery(a.query)) <= FetchLimit(a) =>
                 Len(DecomposeQuery(a.query)) <= Len(Searches(a))
<1>1. a.limit \in 1..MaxLimit /\ a.query \in Seq(Text)
  BY DEF Ask
<1>2. FetchLimit(a) \in 1..MinCandidates
  BY <1>1, ConstantsAre DEF FetchLimit, Smaller
<1> DEFINE concepts == DecomposeQuery(a.query)
<1>3. concepts \in Seq(Text)
  <2> DEFINE I == {i \in 1..Len(a.query) : a.query[i] # Blank}
  <2>1. I \in SUBSET (1..Len(a.query))
    OBVIOUS
  <2> HIDE DEF I
  <2>2. Pick(a.query, I) \in Seq(Text)
    BY <1>1, <2>1, PickIs
  <2>3. Take(Pick(a.query, I), MaxConcepts) \in Seq(Text)
    BY <2>2, ConstantsAre, TakeIs
  <2>4. <<>> \in Seq(Text)
    OBVIOUS
  <2> QED BY <2>3, <2>4 DEF DecomposeQuery, I
<1> HIDE DEF concepts
<1>4. /\ Len(Searches(a)) \in Nat /\ Len(Searches(a)) > 0
      /\ Len(Searches(a)) = 1 \/ Len(Searches(a)) <= FetchLimit(a)
      /\ Len(concepts) \in Nat
      /\ Len(concepts) <= FetchLimit(a) => Len(concepts) <= Len(Searches(a))
  <2>1. CASE concepts = <<>>
    <3>1. Searches(a) = <<a.query>>
      BY <2>1 DEF Searches, concepts
    <3> QED BY <3>1, <2>1
  <2>2. CASE concepts # <<>> /\ FetchLimit(a) < Len(concepts)
    <3>1. Searches(a) = <<concepts>>
      BY <2>2 DEF Searches, concepts
    <3>2. FetchLimit(a) \in Int /\ Len(concepts) \in Int
      BY <1>2, <1>3, ConstantsAre
    <3> QED BY <3>1, <3>2, <2>2
  <2>3. CASE concepts # <<>> /\ ~(FetchLimit(a) < Len(concepts))
    <3>1. Searches(a) = [i \in 1..Len(concepts) |-> <<concepts[i]>>]
      BY <2>3 DEF Searches, concepts
    <3>2. Len(concepts) \in Nat /\ Len(concepts) > 0
      BY <1>3, <2>3
    <3>3. Len(Searches(a)) = Len(concepts)
      BY <3>1, <3>2
    <3> QED BY <3>2, <3>3, <2>3, <1>2
  <2> QED BY <2>1, <2>2, <2>3
<1>5. PerSearch(a) \in Nat /\ PerSearch(a) <= FetchLimit(a)
  <2> DEFINE n == Len(Searches(a))
             f == FetchLimit(a)
             q == (f + n - 1) \div n
  <2>1. n \in Nat /\ n > 0 /\ f \in Nat /\ f > 0
    BY <1>2, <1>4
  <2>2. PerSearch(a) = q
    BY DEF PerSearch
  <2> HIDE DEF n, f
  <2>3. q \in Nat /\ n * q <= f + n - 1
    BY <2>1
  <2> HIDE DEF q
  <2>4. q <= f
    <3> SUFFICES ASSUME q >= f + 1 PROVE FALSE
      BY <2>1, <2>3
    <3>1. n * q >= n * (f + 1)
      BY <2>1, <2>3
    <3>2. n * (f + 1) = n * f + n
      BY <2>1
    <3>3. n * f >= f
      BY <2>1
    <3>4. n * q \in Nat /\ n * f \in Nat
      BY <2>1, <2>3
    <3> HIDE DEF n
    <3> QED BY <3>1, <3>2, <3>3, <3>4, <2>1, <2>3
  <2> QED BY <2>2, <2>3, <2>4 DEF f
<1>6. CandidateLimit(PerSearch(a)) = MinCandidates
  BY <1>2, <1>5, ConstantsAre DEF CandidateLimit, Larger
<1> QED BY <1>2, <1>4, <1>5, <1>6 DEF concepts

\* One task of one request goes on.
LEMMA OneTaskChanges ==
    ASSUME QueryInv, NEW r \in Request, NEW i \in 1..Len(task[r]), stage[r] = "searching",
           NEW t \in Task, TaskIs(t, ask[r], i, step[r], world, encoder, logit),
           task' = [task EXCEPT ![r][i] = t],
           UNCHANGED <<input, generation, stage, step, answer>>, model' \in BOOLEAN, available' \in BOOLEAN
    PROVE  QueryInv'
<1>1. /\ task \in [Request -> Seq(Task)]
      /\ \A q \in Request : RequestIs(stage[q], ask[q], task[q], step[q], answer[q], world, encoder, logit)
  BY DEF QueryInv, QueryTypeOK
<1>2. UNCHANGED <<ask, world, logit, encoder, generation, stage, step, answer>>
  BY DEF input
<1>3. /\ task' \in [Request -> Seq(Task)] /\ \A q \in Request : Len(task'[q]) = Len(task[q])
      /\ \A q \in Request : q # r => task'[q] = task[q]
      /\ task'[r][i] = t /\ \A j \in 1..Len(task[r]) : j # i => task'[r][j] = task[r][j]
  <2>1. task[r] \in Seq(Task)
    BY <1>1
  <2>2. [task[r] EXCEPT ![i] = t] \in Seq(Task) /\ Len([task[r] EXCEPT ![i] = t]) = Len(task[r])
    BY <2>1
  <2>3. task' = [task EXCEPT ![r] = [task[r] EXCEPT ![i] = t]]
    BY <1>1
  <2>4. /\ task' \in [Request -> Seq(Task)] /\ task'[r] = [task[r] EXCEPT ![i] = t]
        /\ \A q \in Request : q # r => task'[q] = task[q]
    BY <1>1, <2>2, <2>3
  <2>5. task'[r][i] = t /\ \A j \in 1..Len(task[r]) : j # i => task'[r][j] = task[r][j]
    BY <2>1, <2>4
  <2> QED BY <2>2, <2>4, <2>5
<1>4. QueryTypeOK'
  BY <1>2, <1>3 DEF QueryInv, QueryTypeOK
<1>5. ASSUME NEW q \in Request
      PROVE  RequestIs(stage[q], ask[q], task'[q], step[q], answer[q], world, encoder, logit)
  <2>1. CASE q # r
    BY <2>1, <1>1, <1>3
  <2>2. CASE q = r
    <3>1. \A j \in 1..Len(task[r]) : TaskIs(task[r][j], ask[r], j, step[r], world, encoder, logit)
      BY <1>1 DEF RequestIs
    <3>2. \A j \in 1..Len(task'[r]) : TaskIs(task'[r][j], ask[r], j, step[r], world, encoder, logit)
      BY <3>1, <1>3
    <3>3. ask[r].tool # "lookup" => Len(task'[r]) = Len(Searches(ask[r]))
      BY <1>1, <1>3 DEF RequestIs
    <3> QED BY <2>2, <3>2, <3>3 DEF RequestIs
  <2> QED BY <2>1, <2>2
<1>6. \A q \in Request : RequestIs(stage'[q], ask'[q], task'[q], step'[q], answer'[q], world', encoder', logit')
  BY <1>2, <1>5
<1> QED BY <1>4, <1>6 DEF QueryInv

\* The request itself goes on, its tasks as they are or new.
LEMMA RequestChanges ==
    ASSUME QueryInv, NEW r \in Request,
           stage' \in [Request -> {"asked", "searching", "done", "failed"}], step' \in [Request -> Nat],
           task' \in [Request -> Seq(Task)], answer' = [q \in Request |-> answer'[q]],
           \A q \in Request : q # r => /\ stage'[q] = stage[q] /\ step'[q] = step[q]
                                       /\ task'[q] = task[q] /\ answer'[q] = answer[q],
           RequestIs(stage'[r], ask[r], task'[r], step'[r], answer'[r], world, encoder, logit),
           UNCHANGED <<input, generation, encoderVars>>
    PROVE  QueryInv'
<1>1. UNCHANGED <<ask, world, logit, encoder, generation, model, available>>
  BY DEF input, encoderVars
<1>2. QueryTypeOK'
  BY <1>1 DEF QueryInv, QueryTypeOK
<1>3. ASSUME NEW q \in Request
      PROVE  RequestIs(stage'[q], ask[q], task'[q], step'[q], answer'[q], world, encoder, logit)
  BY DEF QueryInv
<1>4. \A q \in Request : RequestIs(stage'[q], ask'[q], task'[q], step'[q], answer'[q], world', encoder', logit')
  BY <1>1, <1>3
<1> QED BY <1>2, <1>4 DEF QueryInv

LEMMA NewTasksAre ==
    ASSUME NEW a \in Ask, NEW at, NEW w, NEW on, NEW scores
    PROVE  /\ NewTasks(a) \in Seq(Task) /\ Len(NewTasks(a)) = Len(Searches(a))
           /\ \A i \in 1..Len(NewTasks(a)) : /\ TaskIs(NewTasks(a)[i], a, i, at, w, on, scores)
                                             /\ NewTasks(a)[i].at # "ready"
<1> DEFINE n == Len(Searches(a))
<1>1. n \in Nat
  BY LimitsAre
<1>2. NewTask \in Task /\ NewTask.at = "reading" /\ NewTask.read = {}
  BY DEF NewTask, Task
<1>3. NewTasks(a) = [i \in 1..n |-> NewTask]
  BY DEF NewTasks
<1> HIDE DEF n
<1>4. NewTasks(a) \in Seq(Task) /\ Len(NewTasks(a)) = n /\ \A i \in 1..n : NewTasks(a)[i] = NewTask
  BY <1>1, <1>2, <1>3
<1>5. \A i : TaskIs(NewTask, a, i, at, w, on, scores)
  BY <1>2 DEF TaskIs
<1> QED BY <1>2, <1>4, <1>5 DEF n

LEMMA QueryInvInit ==
    ASSUME QueryInit
    PROVE  QueryInv
<1>1. PICK s \in Scenarios : ask = s.ask /\ world = s.world /\ logit = s.logit /\ encoder = s.encoder
  BY DEF QueryInit
<1>2. 1 \in 1..Len(s.world)
  <2>1. s.world \in Seq(Range(s.world)) /\ s.world # <<>>
    BY ScenarioAssumption
  <2>2. \A S : \A w \in Seq(S) : w # <<>> => 1 \in 1..Len(w)
    OBVIOUS
  <2> QED BY <2>1, <2>2
<1>3. /\ generation = 1 /\ stage = [r \in Request |-> "asked"] /\ step = [r \in Request |-> 1]
      /\ task = [r \in Request |-> <<>>] /\ answer = [r \in Request |-> NoAnswer]
      /\ model = FALSE /\ available = TRUE
  BY DEF QueryInit
<1>4. task \in [Request -> Seq(Task)]
  BY <1>3
<1>5. answer = [r \in Request |-> answer[r]]
  BY <1>3
<1>6. stage \in [Request -> {"asked", "searching", "done", "failed"}] /\ step \in [Request -> Nat]
  BY <1>3
<1>7. QueryTypeOK
  <2>1. generation \in 1..Len(world)
    BY <1>1, <1>2, <1>3
  <2>2. model \in BOOLEAN /\ available \in BOOLEAN
    BY <1>3
  <2> QED BY <2>1, <2>2, <1>1, <1>4, <1>5, <1>6 DEF QueryTypeOK
<1>8. ASSUME NEW r \in Request PROVE RequestIs(stage[r], ask[r], task[r], step[r], answer[r], world, encoder, logit)
  <2>1. stage[r] = "asked" /\ task[r] = <<>> /\ \A i \in 1..Len(<<>>) : FALSE
    BY <1>3
  <2> QED BY <2>1 DEF RequestIs
<1> QED BY <1>7, <1>8 DEF QueryInv

LEMMA SearchKeeps ==
    ASSUME QueryInv, NEW r \in Request, Search(r)
    PROVE  QueryInv'
<1>1. ask[r] \in Ask
  BY InputIs DEF QueryInv
<1>2. /\ stage' = [stage EXCEPT ![r] = "searching"] /\ task' = [task EXCEPT ![r] = NewTasks(ask[r])]
      /\ UNCHANGED <<input, generation, step, answer, encoderVars>>
  BY DEF Search
<1>3. /\ stage \in [Request -> {"asked", "searching", "done", "failed"}] /\ step \in [Request -> Nat]
      /\ task \in [Request -> Seq(Task)] /\ answer = [q \in Request |-> answer[q]]
  BY DEF QueryInv, QueryTypeOK
<1>4. /\ NewTasks(ask[r]) \in Seq(Task) /\ Len(NewTasks(ask[r])) = Len(Searches(ask[r]))
      /\ \A i \in 1..Len(NewTasks(ask[r])) : TaskIs(NewTasks(ask[r])[i], ask[r], i, step[r], world, encoder, logit)
  BY <1>1, NewTasksAre
<1>5. RequestIs("searching", ask[r], NewTasks(ask[r]), step[r], answer[r], world, encoder, logit)
  BY <1>4 DEF RequestIs
<1>6. /\ stage' \in [Request -> {"asked", "searching", "done", "failed"}] /\ stage'[r] = "searching"
      /\ \A q \in Request : q # r => stage'[q] = stage[q]
  BY <1>2, <1>3
<1>7. /\ task' \in [Request -> Seq(Task)] /\ task'[r] = NewTasks(ask[r])
      /\ \A q \in Request : q # r => task'[q] = task[q]
  BY <1>2, <1>3, <1>4
<1> QED BY <1>2, <1>3, <1>5, <1>6, <1>7, RequestChanges

LEMMA FailKeeps ==
    ASSUME QueryInv, NEW r \in Request, Fail(r)
    PROVE  QueryInv'
<1>1. /\ stage' = [stage EXCEPT ![r] = "failed"] /\ UNCHANGED <<input, generation, step, task, answer, encoderVars>>
  BY DEF Fail
<1>2. /\ stage \in [Request -> {"asked", "searching", "done", "failed"}] /\ step \in [Request -> Nat]
      /\ task \in [Request -> Seq(Task)] /\ answer = [q \in Request |-> answer[q]]
      /\ RequestIs(stage[r], ask[r], task[r], step[r], answer[r], world, encoder, logit)
  BY DEF QueryInv, QueryTypeOK
<1>3. /\ stage' \in [Request -> {"asked", "searching", "done", "failed"}] /\ stage'[r] = "failed"
      /\ \A q \in Request : q # r => stage'[q] = stage[q]
  BY <1>1, <1>2
<1>4. RequestIs("failed", ask[r], task[r], step[r], answer[r], world, encoder, logit)
  BY <1>2 DEF RequestIs
<1> QED BY <1>1, <1>2, <1>3, <1>4, RequestChanges

LEMMA LookupKeeps ==
    ASSUME QueryInv, NEW r \in Request, Lookup(r)
    PROVE  QueryInv'
<1>1. PICK reply : answer' = [answer EXCEPT ![r] = reply]
  BY DEF Lookup
<1>2. /\ stage' = [stage EXCEPT ![r] = "done"] /\ ask[r].tool = "lookup"
      /\ UNCHANGED <<input, generation, step, task, encoderVars>>
  BY DEF Lookup
<1>3. /\ stage \in [Request -> {"asked", "searching", "done", "failed"}] /\ step \in [Request -> Nat]
      /\ task \in [Request -> Seq(Task)] /\ answer = [q \in Request |-> answer[q]]
      /\ RequestIs(stage[r], ask[r], task[r], step[r], answer[r], world, encoder, logit)
  BY DEF QueryInv, QueryTypeOK
<1>4. /\ stage' \in [Request -> {"asked", "searching", "done", "failed"}]
      /\ \A q \in Request : q # r => stage'[q] = stage[q]
  BY <1>2, <1>3
<1>5. answer' = [q \in Request |-> answer'[q]] /\ \A q \in Request : q # r => answer'[q] = answer[q]
  BY <1>1, <1>3
<1>6. RequestIs(stage'[r], ask[r], task[r], step[r], answer'[r], world, encoder, logit)
  BY <1>2, <1>3 DEF RequestIs
<1> QED BY <1>2, <1>3, <1>4, <1>5, <1>6, RequestChanges

LEMMA CollectKeeps ==
    ASSUME QueryInv, NEW r \in Request, Collect(r)
    PROVE  QueryInv'
<1>1. /\ ask[r] \in Ask
      /\ stage \in [Request -> {"asked", "searching", "done", "failed"}] /\ step \in [Request -> Nat]
      /\ task \in [Request -> Seq(Task)] /\ answer = [q \in Request |-> answer[q]]
      /\ RequestIs(stage[r], ask[r], task[r], step[r], answer[r], world, encoder, logit)
  BY InputIs DEF QueryInv, QueryTypeOK
<1>2. /\ stage[r] = "searching" /\ \A i \in 1..Len(task[r]) : task[r][i].at = "ready"
      /\ UNCHANGED <<input, generation, encoderVars>>
  BY DEF Collect
<1>3. CASE Merged(ask[r], task[r]) = <<>> /\ step[r] < Len(Steps(ask[r]))
  <2>1. /\ step' = [step EXCEPT ![r] = @ + 1] /\ task' = [task EXCEPT ![r] = NewTasks(ask[r])]
        /\ UNCHANGED <<stage, answer>>
    BY <1>3 DEF Collect
  <2>2. step' \in [Request -> Nat] /\ \A q \in Request : q # r => step'[q] = step[q]
    BY <1>1, <2>1
  <2>3. /\ NewTasks(ask[r]) \in Seq(Task) /\ Len(NewTasks(ask[r])) = Len(Searches(ask[r]))
        /\ \A i \in 1..Len(NewTasks(ask[r])) : TaskIs(NewTasks(ask[r])[i], ask[r], i, step'[r], world, encoder, logit)
    BY <1>1, NewTasksAre
  <2>4. /\ task' \in [Request -> Seq(Task)] /\ task'[r] = NewTasks(ask[r])
        /\ \A q \in Request : q # r => task'[q] = task[q]
    BY <1>1, <2>1, <2>3
  <2>5. RequestIs(stage[r], ask[r], NewTasks(ask[r]), step'[r], answer[r], world, encoder, logit)
    BY <1>2, <2>3 DEF RequestIs
  <2> QED BY <1>1, <1>2, <2>1, <2>2, <2>4, <2>5, RequestChanges
<1>4. CASE ~(Merged(ask[r], task[r]) = <<>> /\ step[r] < Len(Steps(ask[r])))
  <2> DEFINE reply == Answer(ask[r], Merged(ask[r], task[r]), UNION {task[r][i].generations : i \in 1..Len(task[r])})
  <2>1. /\ stage' = [stage EXCEPT ![r] = "done"] /\ answer' = [answer EXCEPT ![r] = reply]
        /\ UNCHANGED <<step, task>>
    BY <1>4 DEF Collect
  <2>2. AnswerIs(reply, ask[r], task[r])
    BY <1>2 DEF AnswerIs
  <2> HIDE DEF reply
  <2>3. /\ stage' \in [Request -> {"asked", "searching", "done", "failed"}] /\ stage'[r] = "done"
        /\ \A q \in Request : q # r => stage'[q] = stage[q]
    BY <1>1, <2>1
  <2>4. /\ answer' = [q \in Request |-> answer'[q]] /\ answer'[r] = reply
        /\ \A q \in Request : q # r => answer'[q] = answer[q]
    BY <1>1, <2>1
  <2>5. RequestIs("done", ask[r], task[r], step[r], reply, world, encoder, logit)
    BY <1>1, <1>2, <2>2 DEF RequestIs
  <2> QED BY <1>1, <1>2, <2>1, <2>3, <2>4, <2>5, RequestChanges
<1> QED BY <1>3, <1>4

LEMMA ReadKeeps ==
    ASSUME QueryInv, NEW r \in Request, NEW i \in 1..Len(task[r]), NEW half \in {"vector", "keyword"}, Read(r, i, half)
    PROVE  QueryInv'
<1> DEFINE a == ask[r]
           old == task[r][i]
           lists == Found(world[generation], Searches(a)[i], Steps(a)[step[r]])
           list == Take(IF half = "vector" THEN lists.vector ELSE lists.keyword, CandidateLimit(PerSearch(a)))
           t == [old EXCEPT !.read = old.read \union {half}, !.generations = old.generations \union {generation},
                            !.vector = IF half = "vector" THEN list ELSE old.vector,
                            !.keyword = IF half = "keyword" THEN list ELSE old.keyword]
<1>1. /\ stage[r] = "searching" /\ old.at = "reading" /\ half \notin old.read
      /\ task' = [task EXCEPT ![r][i] = t]
      /\ UNCHANGED <<input, generation, stage, step, answer, encoderVars>>
  BY DEF Read
<1>2. /\ a \in Ask /\ old \in Task /\ generation \in 1..Len(world) /\ generation \in Nat
      /\ TaskIs(old, a, i, step[r], world, encoder, logit) /\ lists \in Halves
  <2>1. task[r] \in Seq(Task) /\ generation \in 1..Len(world) /\ QueryTypeOK
    BY DEF QueryInv, QueryTypeOK
  <2>2. a \in Ask /\ Len(world) \in Nat /\ lists \in Halves
    BY <2>1, InputIs
  <2>3. TaskIs(old, a, i, step[r], world, encoder, logit)
    BY DEF QueryInv, RequestIs
  <2>4. old \in Task
    BY <2>1
  <2> HIDE DEF lists, old, a
  <2> QED BY <2>1, <2>2, <2>3, <2>4
<1> HIDE DEF a, lists
<1>3. list \in Seq(Chunk)
  <2>1. lists.vector \in Seq(Chunk) /\ lists.keyword \in Seq(Chunk)
    BY <1>2 DEF Halves
  <2>2. CandidateLimit(PerSearch(a)) \in Nat
    BY <1>2, LimitsAre, ConstantsAre
  <2> QED BY <2>1, <2>2, TakeIs
<1>4. list = Take(IF half = "vector" THEN lists.vector ELSE lists.keyword, CandidateLimit(PerSearch(a)))
  OBVIOUS
<1> HIDE DEF list, old
<1>5. /\ t \in Task /\ t.at = "reading" /\ t.read = old.read \union {half}
      /\ t.generations = old.generations \union {generation}
      /\ t.vector = IF half = "vector" THEN list ELSE old.vector
      /\ t.keyword = IF half = "keyword" THEN list ELSE old.keyword
  BY <1>1, <1>2, <1>3 DEF Task
<1> HIDE DEF t
<1>6. HasRead(half, list, t.generations, a, i, step[r], world)
  BY <1>4, <1>5 DEF HasRead, lists
<1>7. \A other, l : HasRead(other, l, old.generations, a, i, step[r], world)
                    => HasRead(other, l, t.generations, a, i, step[r], world)
  BY <1>5 DEF HasRead
<1>8. TaskIs(t, a, i, step[r], world, encoder, logit)
  BY <1>2, <1>5, <1>6, <1>7 DEF TaskIs
<1>9. model' \in BOOLEAN /\ available' \in BOOLEAN
  BY <1>1 DEF encoderVars, QueryInv, QueryTypeOK
<1> QED BY <1>1, <1>5, <1>8, <1>9, OneTaskChanges DEF a

LEMMA FuseKeeps ==
    ASSUME QueryInv, NEW r \in Request, NEW i \in 1..Len(task[r]), Fuse(r, i)
    PROVE  QueryInv'
<1> DEFINE a == ask[r]
           old == task[r][i]
           ranked == Rerank(old.vector, old.keyword, a)
           t == IF ranked # <<>> /\ EncoderOn THEN [old EXCEPT !.at = "loading", !.ranked = ranked]
                ELSE [old EXCEPT !.at = "ready", !.ranked = Take(ranked, PerSearch(a))]
<1>1. /\ stage[r] = "searching" /\ old.at = "reading" /\ old.read = {"vector", "keyword"}
      /\ task' = [task EXCEPT ![r][i] = t]
      /\ UNCHANGED <<input, generation, stage, step, answer, encoderVars>>
  BY DEF Fuse
<1>2. a \in Ask /\ old \in Task /\ TaskIs(old, a, i, step[r], world, encoder, logit) /\ encoder \in BOOLEAN
  <2>1. task[r] \in Seq(Task) /\ QueryTypeOK
    BY DEF QueryInv, QueryTypeOK
  <2>2. a \in Ask /\ encoder \in BOOLEAN
    BY <2>1, InputIs
  <2>3. TaskIs(old, a, i, step[r], world, encoder, logit)
    BY DEF QueryInv, RequestIs
  <2> QED BY <2>1, <2>2, <2>3
<1> HIDE DEF a, old
<1>3. ranked \in Seq(Result) /\ Take(ranked, PerSearch(a)) \in Seq(Result)
  <2>1. old.vector \in Seq(Chunk) /\ old.keyword \in Seq(Chunk)
    BY <1>2 DEF Task
  <2>2. ranked \in Seq(Result)
    BY <2>1, <1>2, RerankIs
  <2> HIDE DEF ranked
  <2>3. PerSearch(a) \in Nat
    BY <1>2, LimitsAre
  <2> QED BY <2>2, <2>3, TakeIs
<1>4. ranked = Rerank(old.vector, old.keyword, a)
  OBVIOUS
<1> HIDE DEF ranked
<1>5. /\ t \in Task /\ t.read = old.read /\ t.generations = old.generations
      /\ t.vector = old.vector /\ t.keyword = old.keyword
      /\ \/ t.at = "loading" /\ EncoderOn /\ t.ranked = ranked
         \/ t.at = "ready" /\ t.ranked = Take(ranked, PerSearch(a))
  <2>1. CASE ranked # <<>> /\ EncoderOn
    <3>1. t = [old EXCEPT !.at = "loading", !.ranked = ranked]
      BY <2>1
    <3> HIDE DEF t
    <3> QED BY <3>1, <2>1, <1>2, <1>3 DEF Task
  <2>2. CASE ~(ranked # <<>> /\ EncoderOn)
    <3>1. t = [old EXCEPT !.at = "ready", !.ranked = Take(ranked, PerSearch(a))]
      BY <2>2
    <3> HIDE DEF t
    <3> QED BY <3>1, <1>2, <1>3 DEF Task
  <2> QED BY <2>1, <2>2
<1> HIDE DEF t
<1>6. TaskIs(t, a, i, step[r], world, encoder, logit)
  <2>1. ranked = RankedAs(t, a, FALSE, logit) /\ ranked = Rerank(t.vector, t.keyword, a)
    BY <1>4, <1>5 DEF RankedAs
  <2>2. FALSE \in IF encoder THEN BOOLEAN ELSE {FALSE}
    OBVIOUS
  <2>3. t.at = "ready" => \E scored \in IF encoder THEN BOOLEAN ELSE {FALSE} :
                              t.ranked = Take(RankedAs(t, a, scored, logit), PerSearch(a))
    BY <1>5, <2>1, <2>2
  <2> QED BY <1>1, <1>2, <1>5, <2>1, <2>3 DEF TaskIs, EncoderOn
<1>7. model' \in BOOLEAN /\ available' \in BOOLEAN
  BY <1>1 DEF encoderVars, QueryInv, QueryTypeOK
<1> QED BY <1>1, <1>5, <1>6, <1>7, OneTaskChanges DEF a

LEMMA LoadModelKeeps ==
    ASSUME QueryInv, NEW r \in Request, NEW i \in 1..Len(task[r]), LoadModel(r, i)
    PROVE  QueryInv'
<1> DEFINE a == ask[r]
           old == task[r][i]
           t == [old EXCEPT !.at = "scoring"]
<1>1. /\ stage[r] = "searching" /\ old.at = "loading" /\ task' = [task EXCEPT ![r][i] = t]
      /\ UNCHANGED <<input, generation, stage, step, answer>>
  BY DEF LoadModel
<1>2. old \in Task /\ TaskIs(old, a, i, step[r], world, encoder, logit)
  <2>1. task[r] \in Seq(Task)
    BY DEF QueryInv, QueryTypeOK
  <2>2. TaskIs(old, a, i, step[r], world, encoder, logit)
    BY DEF QueryInv, RequestIs
  <2> QED BY <2>1, <2>2
<1>3. model' \in BOOLEAN /\ available' \in BOOLEAN
  <2>1. model \in BOOLEAN /\ available \in BOOLEAN
    BY DEF QueryInv, QueryTypeOK
  <2>2. \/ model /\ UNCHANGED encoderVars
        \/ ~model /\ \E ok \in BOOLEAN : model' = ok /\ available' = (available /\ ok)
    BY DEF LoadModel
  <2> QED BY <2>1, <2>2 DEF encoderVars
<1> HIDE DEF a, old
<1>4. /\ t \in Task /\ t.at = "scoring" /\ t.read = old.read /\ t.generations = old.generations
      /\ t.vector = old.vector /\ t.keyword = old.keyword /\ t.ranked = old.ranked
  BY <1>2 DEF Task
<1> HIDE DEF t
<1>5. TaskIs(t, a, i, step[r], world, encoder, logit)
  BY <1>1, <1>2, <1>4 DEF TaskIs
<1> QED BY <1>1, <1>3, <1>4, <1>5, OneTaskChanges DEF a

LEMMA ScoreKeeps ==
    ASSUME QueryInv, NEW r \in Request, NEW i \in 1..Len(task[r]), Score(r, i)
    PROVE  QueryInv'
<1> DEFINE a == ask[r]
           old == task[r][i]
           scored == IF model THEN CrossEncode(old.ranked, logit) ELSE old.ranked
           t == [old EXCEPT !.at = "ready", !.ranked = Take(scored, PerSearch(a))]
<1>1. /\ stage[r] = "searching" /\ old.at = "scoring" /\ task' = [task EXCEPT ![r][i] = t]
      /\ UNCHANGED <<input, generation, stage, step, answer, encoderVars>>
  BY DEF Score
<1>2. /\ a \in Ask /\ old \in Task /\ TaskIs(old, a, i, step[r], world, encoder, logit)
      /\ \A c \in Chunk : logit[c.id] \in 0..One
  <2>1. task[r] \in Seq(Task) /\ QueryTypeOK
    BY DEF QueryInv, QueryTypeOK
  <2>2. a \in Ask /\ \A c \in Chunk : logit[c.id] \in 0..One
    BY <2>1, InputIs
  <2>3. TaskIs(old, a, i, step[r], world, encoder, logit)
    BY DEF QueryInv, RequestIs
  <2> QED BY <2>1, <2>2, <2>3
<1> HIDE DEF a, old
<1>3. Take(scored, PerSearch(a)) \in Seq(Result)
  <2>1. old.ranked \in Seq(Result)
    BY <1>2 DEF Task
  <2>2. CrossEncode(old.ranked, logit) \in Seq(Result)
    BY <2>1, <1>2, CrossEncodeIs
  <2>3. scored \in Seq(Result)
    BY <2>1, <2>2
  <2> HIDE DEF scored
  <2>4. PerSearch(a) \in Nat
    BY <1>2, LimitsAre
  <2> QED BY <2>3, <2>4, TakeIs
<1>4. scored = IF model THEN CrossEncode(old.ranked, logit) ELSE old.ranked
  OBVIOUS
<1> HIDE DEF scored
<1>5. /\ t \in Task /\ t.at = "ready" /\ t.read = old.read /\ t.generations = old.generations
      /\ t.vector = old.vector /\ t.keyword = old.keyword /\ t.ranked = Take(scored, PerSearch(a))
  BY <1>2, <1>3 DEF Task
<1> HIDE DEF t
<1>6. TaskIs(t, a, i, step[r], world, encoder, logit)
  <2>1. model \in BOOLEAN /\ encoder = TRUE /\ old.ranked = Rerank(t.vector, t.keyword, a)
    <3>1. model \in BOOLEAN /\ encoder \in BOOLEAN
      BY InputIs DEF QueryInv, QueryTypeOK
    <3> QED BY <3>1, <1>1, <1>2, <1>5 DEF TaskIs
  <2>2. scored = RankedAs(t, a, model, logit)
    BY <1>4, <2>1 DEF RankedAs
  <2>3. \E one \in IF encoder THEN BOOLEAN ELSE {FALSE} :
            t.ranked = Take(RankedAs(t, a, one, logit), PerSearch(a))
    BY <1>5, <2>1, <2>2
  <2> QED BY <1>1, <1>2, <1>5, <2>3 DEF TaskIs
<1>7. model' \in BOOLEAN /\ available' \in BOOLEAN
  BY <1>1 DEF encoderVars, QueryInv, QueryTypeOK
<1> QED BY <1>1, <1>5, <1>6, <1>7, OneTaskChanges DEF a

LEMMA QueryInvNext ==
    ASSUME QueryInv, [QueryNext]_queryVars
    PROVE  QueryInv'
<1>1. CASE Refresh
  <2>1. /\ UNCHANGED <<ask, world, logit, encoder, stage, step, task, answer, model, available>>
        /\ generation < Len(world) /\ generation' = generation + 1
    BY <1>1 DEF Refresh, input, encoderVars
  <2>2. generation \in 1..Len(world) /\ Len(world) \in Nat
    BY InputIs DEF QueryInv, QueryTypeOK
  <2>3. generation' \in 1..Len(world)
    BY <2>1, <2>2
  <2> QED BY <2>1, <2>3 DEF QueryInv, QueryTypeOK
<1>2. CASE \E r \in Request : Search(r) \/ Fail(r) \/ Collect(r) \/ Lookup(r)
  BY <1>2, SearchKeeps, FailKeeps, CollectKeeps, LookupKeeps
<1>3. CASE \E r \in Request : \E i \in 1..Len(task[r]) :
              \/ \E half \in {"vector", "keyword"} : Read(r, i, half)
              \/ Fuse(r, i) \/ LoadModel(r, i) \/ Score(r, i)
  BY <1>3, ReadKeeps, FuseKeeps, LoadModelKeeps, ScoreKeeps
<1>4. CASE UNCHANGED queryVars
  <2>1. UNCHANGED <<ask, world, logit, encoder, generation, stage, step, task, answer, model, available>>
    BY <1>4 DEF queryVars, input, encoderVars
  <2> QED BY <2>1 DEF QueryInv, QueryTypeOK
<1> QED BY <1>1, <1>2, <1>3, <1>4 DEF QueryNext

\* In every state a request has read what generations of the index had, has
\* ranked that, and has answered from tasks that were all ready.
THEOREM QueryInvariant == QuerySpec => []QueryInv
<1>1. QueryInit => QueryInv
  BY QueryInvInit
<1>2. QueryInv /\ [QueryNext]_queryVars => QueryInv'
  BY QueryInvNext
<1> QED BY <1>1, <1>2, PTL DEF QuerySpec

-----------------------------------------------------------------------------
(* What the answers are. *)

LEMMA MergedIs ==
    ASSUME NEW a \in Ask, NEW tasks \in Seq(Task), Len(tasks) = Len(Searches(a))
    PROVE  /\ Merged(a, tasks) \in Seq(Result)
           /\ \A i \in 1..Len(tasks) :
                 tasks[i].ranked # <<>> => tasks[i].ranked[1].chunk.id \in Ids(Merged(a, tasks))
<1> DEFINE n == Len(tasks)
           lists == [i \in 1..n |-> tasks[i].ranked]
<1>1. n \in Nat /\ n > 0 /\ (n = 1 \/ n <= FetchLimit(a)) /\ FetchLimit(a) \in Nat
  <2>1. /\ FetchLimit(a) \in 1..MinCandidates
        /\ Len(Searches(a)) \in Nat /\ Len(Searches(a)) > 0
        /\ Len(Searches(a)) = 1 \/ Len(Searches(a)) <= FetchLimit(a)
    BY LimitsAre
  <2> QED BY <2>1, ConstantsAre
<1>2. \A i \in 1..n : tasks[i].ranked \in Seq(Result)
  <2>1. \A t \in Task : t.ranked \in Seq(Result)
    BY DEF Task
  <2> QED BY <2>1
<1>3. CASE n = 1
  <2>1. Merged(a, tasks) = tasks[1].ranked
    BY <1>3 DEF Merged
  <2>2. tasks[1].ranked \in Seq(Result)
    BY <1>2, <1>3
  <2>3. tasks[1].ranked # <<>> => tasks[1].ranked[1].chunk.id \in Ids(tasks[1].ranked)
    <3>1. tasks[1].ranked # <<>> => 1 \in 1..Len(tasks[1].ranked)
      BY <2>2
    <3> QED BY <3>1 DEF Ids
  <2>4. \A i \in 1..n : i = 1
    BY <1>3
  <2> QED BY <2>1, <2>2, <2>3, <2>4
<1>4. CASE n # 1
  <2>1. Merged(a, tasks) = RoundRobin(lists, FetchLimit(a))
    BY <1>4 DEF Merged
  <2> HIDE DEF n
  <2>2. lists \in Seq(Seq(Result)) /\ Len(lists) = n /\ \A i \in 1..n : lists[i] = tasks[i].ranked
    BY <1>1, <1>2
  <2> HIDE DEF lists
  <2>3. /\ RoundRobin(lists, FetchLimit(a)) \in Seq(Result)
        /\ \A i \in 1..n : lists[i] # <<>> => IdOf(lists[i], 1) \in Ids(RoundRobin(lists, FetchLimit(a)))
    <3>1. FetchLimit(a) \in Nat /\ Len(lists) <= FetchLimit(a)
      BY <2>2, <1>1, <1>4
    <3> QED BY <2>2, <3>1, RoundRobinIs
  <2> QED BY <2>1, <2>2, <2>3 DEF IdOf, n
<1> QED BY <1>3, <1>4

LEMMA FilteredIs ==
    ASSUME NEW a \in Ask, NEW results \in Seq(Result)
    PROVE  /\ Filtered(a, results) \in Seq(Result)
           /\ a.tool \notin {"examples", "api"} => Filtered(a, results) = results
           /\ a.tool \in {"examples", "api"} /\ a.compatibleOnly /\ a.version # NoVersion =>
                 \A k \in 1..Len(Filtered(a, results)) : Label(a, Filtered(a, results)[k].chunk) # "newer_required"
<1> DEFINE I == {i \in 1..Len(results) : Label(a, results[i].chunk) # "newer_required"}
           kept == IF a.compatibleOnly /\ a.version # NoVersion THEN Pick(results, I) ELSE results
<1>1. Filtered(a, results) = IF a.tool \in {"examples", "api"} THEN Take(kept, a.limit) ELSE results
  BY DEF Filtered, Compatible
<1>2. I \in SUBSET (1..Len(results)) /\ \A i \in I : Label(a, results[i].chunk) # "newer_required"
  OBVIOUS
<1>3. a.limit \in Nat
  BY ConstantsAre DEF Ask
<1> HIDE DEF I
<1>4. /\ Pick(results, I) \in Seq(Result) /\ Len(Pick(results, I)) = Cardinality(I)
      /\ \A k \in 1..Cardinality(I) : \E i \in I : Pick(results, I)[k] = results[i]
  BY <1>2, PickIs
<1>5. kept \in Seq(Result)
  BY <1>4
<1>6. /\ Take(kept, a.limit) \in Seq(Result)
      /\ \A k \in 1..Len(Take(kept, a.limit)) : Take(kept, a.limit)[k] = kept[k] /\ k \in 1..Len(kept)
  <2> HIDE DEF kept
  <2> QED BY <1>3, <1>5, TakeIs
<1>7. a.compatibleOnly /\ a.version # NoVersion =>
        \A k \in 1..Len(kept) : Label(a, kept[k].chunk) # "newer_required"
  BY <1>2, <1>4
<1> HIDE DEF kept
<1> QED BY <1>1, <1>6, <1>7

\* What a request that is done has answered.
LEMMA DoneIs ==
    ASSUME QueryInv, NEW r \in Request, Done(r)
    PROVE  /\ ask[r] \in Ask /\ task[r] \in Seq(Task) /\ Len(task[r]) = Len(Searches(ask[r]))
           /\ AnswerIs(answer[r], ask[r], task[r])
           /\ Merged(ask[r], task[r]) \in Seq(Result)
           /\ answer[r].ranked = Filtered(ask[r], Merged(ask[r], task[r])) /\ answer[r].ranked \in Seq(Result)
           /\ answer[r].evidence = AssembleEvidence(answer[r].ranked)
           /\ answer[r].hits = IF ask[r].tool \in {"symbol", "snippet"} THEN Snippets(ask[r], answer[r].ranked)
                               ELSE answer[r].ranked
           /\ answer[r].generations = UNION {task[r][i].generations : i \in 1..Len(task[r])}
<1>1. ask[r] \in Ask /\ task[r] \in Seq(Task)
  BY InputIs DEF QueryInv, QueryTypeOK
<1>2. stage[r] = "done" /\ ask[r].tool # "lookup"
  BY DEF Done
<1>3. Len(task[r]) = Len(Searches(ask[r])) /\ AnswerIs(answer[r], ask[r], task[r])
  BY <1>2 DEF QueryInv, RequestIs
<1>4. Merged(ask[r], task[r]) \in Seq(Result)
  BY <1>1, <1>3, MergedIs
<1>5. Filtered(ask[r], Merged(ask[r], task[r])) \in Seq(Result)
  BY <1>1, <1>4, FilteredIs
<1>6. answer[r] = Answer(ask[r], Merged(ask[r], task[r]), UNION {task[r][i].generations : i \in 1..Len(task[r])})
  BY <1>3 DEF AnswerIs
<1> DEFINE kept == Filtered(ask[r], Merged(ask[r], task[r]))
           generations == UNION {task[r][i].generations : i \in 1..Len(task[r])}
<1>7. answer[r] = [hits |-> IF ask[r].tool \in {"symbol", "snippet"} THEN Snippets(ask[r], kept) ELSE kept,
                   ranked |-> kept, evidence |-> AssembleEvidence(kept), generations |-> generations]
  BY <1>6 DEF Answer
<1> HIDE DEF kept, generations
<1>8. /\ answer[r].hits = (IF ask[r].tool \in {"symbol", "snippet"} THEN Snippets(ask[r], kept) ELSE kept)
      /\ answer[r].ranked = kept /\ answer[r].evidence = AssembleEvidence(kept)
      /\ answer[r].generations = generations
  BY <1>7
<1> QED BY <1>1, <1>3, <1>4, <1>5, <1>8 DEF kept, generations

\* When there is a place for every concept each that finds anything is served:
\* it has a search of its own, and its best comes in the first turn.
THEOREM ConceptsAlwaysServed == QuerySpec => []ConceptsAreServed
<1>1. QueryInv => ConceptsAreServed
  <2> DEFINE concepts(r) == DecomposeQuery(ask[r].query)
  <2> SUFFICES ASSUME QueryInv, NEW r \in Request, Done(r), ask[r].tool = "docs",
                      Len(concepts(r)) <= ask[r].limit, NEW i \in 1..Len(concepts(r)),
                      task[r][i].ranked # <<>>
               PROVE  task[r][i].ranked[1].chunk.id \in Ids(answer[r].hits)
    BY DEF ConceptsAreServed
  <2>1. /\ ask[r] \in Ask /\ task[r] \in Seq(Task) /\ Len(task[r]) = Len(Searches(ask[r]))
        /\ Merged(ask[r], task[r]) \in Seq(Result)
        /\ answer[r].ranked = Filtered(ask[r], Merged(ask[r], task[r]))
        /\ answer[r].hits = IF ask[r].tool \in {"symbol", "snippet"} THEN Snippets(ask[r], answer[r].ranked)
                            ELSE answer[r].ranked
    BY DoneIs
  <2>2. answer[r].hits = Merged(ask[r], task[r])
    <3>1. Filtered(ask[r], Merged(ask[r], task[r])) = Merged(ask[r], task[r])
      BY <2>1, FilteredIs
    <3> QED BY <2>1, <3>1
  <2>3. i \in 1..Len(task[r])
    <3>1. FetchLimit(ask[r]) = ask[r].limit
      BY DEF FetchLimit
    <3>2. Len(concepts(r)) <= Len(Searches(ask[r])) /\ Len(Searches(ask[r])) \in Nat
      BY <2>1, <3>1, LimitsAre
    <3>3. i \in Int /\ 1 <= i /\ i <= Len(concepts(r))
      OBVIOUS
    <3>4. Len(concepts(r)) \in Int
      BY <2>1, LimitsAre
    <3> HIDE DEF concepts
    <3> QED BY <2>1, <3>2, <3>3, <3>4
  <2>4. task[r][i].ranked[1].chunk.id \in Ids(Merged(ask[r], task[r]))
    BY <2>1, <2>3, MergedIs
  <2> QED BY <2>2, <2>4
<1> QED BY <1>1, QueryInvariant, PTL

\* What is found is ranked, once, and a run of one source is only too long
\* where nothing else was left to place.
THEOREM AlwaysSpread == QuerySpec => []SpreadWherePossible
<1>1. QueryInv => SpreadWherePossible
  <2> SUFFICES ASSUME QueryInv, NEW r \in Request, NEW i \in 1..Len(task[r])
               PROVE  LET t == task[r][i]
                          ranked == Rerank(t.vector, t.keyword, ask[r])
                      IN  /\ Ids(ranked) = {c.id : c \in ToSet(t.vector) \union ToSet(t.keyword)}
                          /\ Cardinality(Ids(ranked)) = Len(ranked)
                          /\ RunsAreForced(ranked)
    BY DEF SpreadWherePossible, RunsAreForced, RunAt
  <2>1. ask[r] \in Ask /\ task[r] \in Seq(Task)
    BY InputIs DEF QueryInv, QueryTypeOK
  <2>2. task[r][i].vector \in Seq(Chunk) /\ task[r][i].keyword \in Seq(Chunk)
    <3>1. task[r][i] \in Task
      BY <2>1
    <3> QED BY <3>1 DEF Task
  <2> DEFINE ranked == Rerank(task[r][i].vector, task[r][i].keyword, ask[r])
  <2>3. /\ ranked \in Seq(Result) /\ Distinct(ranked) /\ RunsAreForced(ranked)
        /\ Ids(ranked) = {c.id : c \in ToSet(task[r][i].vector) \union ToSet(task[r][i].keyword)}
    BY <2>1, <2>2, RerankIs
  <2> HIDE DEF ranked
  <2>4. Cardinality(Ids(ranked)) = Len(ranked)
    BY <2>3, DistinctCount
  <2> QED BY <2>3, <2>4 DEF ranked
<1> QED BY <1>1, QueryInvariant, PTL

-----------------------------------------------------------------------------
(* The limit. *)

\* A sequence that another begins with.
Beginning(s, t) == \E m \in 0..Len(t) : s = SubSeq(t, 1, m)

LEMMA BeginningIs ==
    ASSUME NEW S, NEW t \in Seq(S), NEW s, Beginning(s, t)
    PROVE  s \in Seq(S) /\ Len(s) <= Len(t) /\ IsPrefix(s, t)
<1>1. PICK m \in 0..Len(t) : s = SubSeq(t, 1, m)
  BY DEF Beginning
<1>2. s \in Seq(S) /\ Len(s) = m /\ m <= Len(t)
  BY <1>1
<1>3. SubSeq(s, 1, Len(s)) = s
  BY <1>2
<1> QED BY <1>1, <1>2, <1>3 DEF IsPrefix

LEMMA BeginningOfBeginning ==
    ASSUME NEW S, NEW u \in Seq(S), NEW t, NEW s, Beginning(s, t), Beginning(t, u)
    PROVE  Beginning(s, u)
<1>1. PICK m \in 0..Len(u) : t = SubSeq(u, 1, m)
  BY DEF Beginning
<1>2. t \in Seq(S) /\ Len(t) = m /\ \A i \in 1..m : t[i] = u[i]
  BY <1>1
<1>3. PICK n \in 0..m : s = SubSeq(t, 1, n)
  BY <1>2 DEF Beginning
<1>4. s \in Seq(S) /\ Len(s) = n /\ \A i \in 1..n : s[i] = u[i]
  BY <1>2, <1>3
<1>5. n \in 0..Len(u)
  BY <1>1, <1>3
<1>6. SubSeq(u, 1, n) \in Seq(S) /\ Len(SubSeq(u, 1, n)) = n /\ \A i \in 1..n : SubSeq(u, 1, n)[i] = u[i]
  BY <1>5
<1>7. s = SubSeq(u, 1, n)
  BY <1>4, <1>6
<1> QED BY <1>5, <1>7 DEF Beginning

LEMMA TakeBegins ==
    ASSUME NEW S, NEW s \in Seq(S), NEW n \in Nat
    PROVE  Beginning(Take(s, n), s)
BY TakeIs DEF Beginning

\* What is picked by a property of the members, of a beginning.
LEMMA PickBegins ==
    ASSUME NEW S, NEW all \in Seq(S), NEW some, Beginning(some, all),
           NEW I \in SUBSET (1..Len(all)), NEW J, J = {i \in I : i <= Len(some)}
    PROVE  Beginning(Pick(some, J), Pick(all, I)) /\ Pick(all, I) \in Seq(S)
<1>1. PICK m \in 0..Len(all) : some = SubSeq(all, 1, m)
  BY DEF Beginning
<1>2. Len(some) = m
  BY <1>1
<1>3. \E k \in 0..Cardinality(I) : Pick(SubSeq(all, 1, m), {i \in I : i <= m}) = SubSeq(Pick(all, I), 1, k)
  BY PickOfBeginning
<1>4. Pick(all, I) \in Seq(S) /\ Len(Pick(all, I)) = Cardinality(I)
  BY PickIs
<1> QED BY <1>1, <1>2, <1>3, <1>4 DEF Beginning

LEMMA CompatibleBegins ==
    ASSUME NEW a, NEW all \in Seq(Result), NEW some, Beginning(some, all)
    PROVE  Beginning(Compatible(a, some), Compatible(a, all)) /\ Compatible(a, all) \in Seq(Result)
<1> DEFINE fits(chunk) == Label(a, chunk) # "newer_required"
           I == {i \in 1..Len(all) : fits(all[i].chunk)}
           J == {i \in 1..Len(some) : fits(some[i].chunk)}
<1>1. PICK m \in 0..Len(all) : some = SubSeq(all, 1, m)
  BY DEF Beginning
<1>2. Len(some) = m /\ \A i \in 1..m : some[i] = all[i]
  BY <1>1
<1> HIDE DEF fits
<1>3. J = {i \in I : i <= Len(some)}
  BY <1>2
<1>4. I \in SUBSET (1..Len(all))
  OBVIOUS
<1>5. /\ Compatible(a, some) = IF a.compatibleOnly /\ a.version # NoVersion THEN Pick(some, J) ELSE some
      /\ Compatible(a, all) = IF a.compatibleOnly /\ a.version # NoVersion THEN Pick(all, I) ELSE all
  BY DEF Compatible, fits
<1> HIDE DEF I, J
<1>6. Beginning(Pick(some, J), Pick(all, I)) /\ Pick(all, I) \in Seq(Result)
  BY <1>3, <1>4, PickBegins
<1> QED BY <1>5, <1>6

LEMMA FirstOfEachBegins ==
    ASSUME NEW S, NEW all \in Seq(S), NEW some, Beginning(some, all)
    PROVE  Beginning(FirstOfEach(some), FirstOfEach(all)) /\ FirstOfEach(all) \in Seq(S)
<1> DEFINE I == {i \in 1..Len(all) : \A j \in 1..i - 1 : all[j].chunk.id # all[i].chunk.id}
           J == {i \in 1..Len(some) : \A j \in 1..i - 1 : some[j].chunk.id # some[i].chunk.id}
<1>1. PICK m \in 0..Len(all) : some = SubSeq(all, 1, m)
  BY DEF Beginning
<1>2. Len(some) = m /\ \A i \in 1..m : some[i] = all[i]
  BY <1>1
<1>3. \A i \in 1..m : \A j \in 1..i - 1 : j \in 1..m
  OBVIOUS
<1>4. J = {i \in I : i <= Len(some)}
  BY <1>2, <1>3
<1>5. I \in SUBSET (1..Len(all))
  OBVIOUS
<1>6. FirstOfEach(some) = Pick(some, J) /\ FirstOfEach(all) = Pick(all, I)
  BY DEF FirstOfEach
<1> HIDE DEF I, J
<1> QED BY <1>4, <1>5, <1>6, PickBegins

\* The first rows of some lists come in turn before the others: what is made of
\* lists that were cut is the beginning of what is made of them.
LEMMA InTurnBegins ==
    ASSUME NEW lists \in Seq(Seq(Result)), NEW cut \in Seq(Seq(Result)), Len(cut) = Len(lists), NEW n \in Nat,
           \A l \in 1..Len(lists) : cut[l] = Take(lists[l], n)
    PROVE  Beginning(InTurn(cut), InTurn(lists)) /\ InTurn(lists) \in Seq(Result)
<1> DEFINE at == Rows(lists)
           R == RowByRow(at)
           result == [p \in at |-> lists[p[2]][p[1]]]
           all == Arrange(result, at, R)
           bt == Rows(cut)
           Q == RowByRow(bt)
           few == [p \in bt |-> cut[p[2]][p[1]]]
           some == Arrange(few, bt, Q)
           m == Cardinality(bt)
<1>1. InTurn(lists) = FirstOfEach(all) /\ InTurn(cut) = FirstOfEach(some)
  BY DEF InTurn, Rows, RowByRow
<1>2. /\ IsFiniteSet(at) /\ StrictOrder(at, R)
      /\ \A p \in at : p = <<p[1], p[2]>> /\ p[2] \in 1..Len(lists) /\ p[1] \in 1..Len(lists[p[2]])
      /\ \A l \in 1..Len(lists) : \A row \in 1..Len(lists[l]) : <<row, l>> \in at
      /\ \A p, q \in at : <<p, q>> \in R <=> p[1] < q[1] \/ (p[1] = q[1] /\ p[2] < q[2])
  BY RowsAre
<1>3. /\ IsFiniteSet(bt) /\ StrictOrder(bt, Q)
      /\ \A p \in bt : p = <<p[1], p[2]>> /\ p[2] \in 1..Len(cut) /\ p[1] \in 1..Len(cut[p[2]])
      /\ \A l \in 1..Len(cut) : \A row \in 1..Len(cut[l]) : <<row, l>> \in bt
      /\ \A p, q \in bt : <<p, q>> \in Q <=> p[1] < q[1] \/ (p[1] = q[1] /\ p[2] < q[2])
  BY RowsAre
<1>4. \A l \in 1..Len(lists) : /\ lists[l] \in Seq(Result) /\ Len(lists[l]) \in Nat
                                 /\ cut[l] \in Seq(Result) /\ Len(cut[l]) = Smaller(n, Len(lists[l]))
                                 /\ \A row \in 1..Len(cut[l]) : cut[l][row] = lists[l][row]
  <2> TAKE l \in 1..Len(lists)
  <2>1. lists[l] \in Seq(Result)
    OBVIOUS
  <2>2. Take(lists[l], n) \in Seq(Result) /\ Len(Take(lists[l], n)) = Smaller(n, Len(lists[l]))
        /\ \A row \in 1..Len(Take(lists[l], n)) : Take(lists[l], n)[row] = lists[l][row]
    BY <2>1, TakeIs
  <2> QED BY <2>1, <2>2
<1> HIDE DEF at, R, bt, Q
<1>5. \A p \in bt : p \in at /\ p[1] <= n /\ cut[p[2]][p[1]] = lists[p[2]][p[1]]
  <2> TAKE p \in bt
  <2>1. p = <<p[1], p[2]>> /\ p[2] \in 1..Len(lists) /\ p[1] \in 1..Len(cut[p[2]])
    BY <1>3
  <2>2. p[1] \in 1..Len(lists[p[2]]) /\ p[1] <= n
    BY <2>1, <1>4 DEF Smaller
  <2> QED BY <2>1, <2>2, <1>2, <1>4
<1>6. \A p \in at : p[1] <= n => p \in bt
  <2> SUFFICES ASSUME NEW p \in at, p[1] <= n PROVE p \in bt
    OBVIOUS
  <2>1. p = <<p[1], p[2]>> /\ p[2] \in 1..Len(lists) /\ p[1] \in 1..Len(lists[p[2]])
    BY <1>2
  <2>2. Len(cut[p[2]]) = Smaller(n, Len(lists[p[2]])) /\ Len(lists[p[2]]) \in Nat
    BY <2>1, <1>4
  <2>3. p[1] \in 1..Len(cut[p[2]])
    BY <2>1, <2>2 DEF Smaller
  <2> QED BY <2>1, <2>3, <1>3
<1>7. \A p \in at : p[1] \in Int /\ p[2] \in Int
  BY <1>2, <1>4
<1>8. ASSUME NEW p \in bt PROVE PlaceOf(bt, Q, p) = PlaceOf(at, R, p)
  <2>1. Ahead(bt, Q, p) = Ahead(at, R, p)
    <3>1. ASSUME NEW q \in bt, <<q, p>> \in Q PROVE q \in at /\ <<q, p>> \in R
      BY <1>2, <1>3, <1>5, <3>1
    <3>2. ASSUME NEW q \in at, <<q, p>> \in R PROVE q \in bt /\ <<q, p>> \in Q
      <4>1. p \in at /\ p[1] <= n
        BY <1>5
      <4>2. q[1] < p[1] \/ (q[1] = p[1] /\ q[2] < p[2])
        BY <1>2, <3>2, <4>1
      <4>3. q[1] <= n
        BY <1>7, <4>1, <4>2
      <4> QED BY <1>3, <1>6, <4>2, <4>3
    <3> QED BY <3>1, <3>2 DEF Ahead
  <2> QED BY <2>1 DEF PlaceOf
<1>9. \A p \in at : result[p] = lists[p[2]][p[1]] /\ result[p] \in Result
  BY <1>2, <1>4
<1>10. \A p \in bt : few[p] = result[p] /\ few[p] \in Result
  BY <1>5, <1>9
<1> HIDE DEF result, few
<1>11. all \in Seq(Result) /\ Len(all) = Cardinality(at) /\ \A p \in at : all[PlaceOf(at, R, p)] = result[p]
  BY <1>2, <1>9, ArrangeTyped, ArrangeIs
<1>12. /\ some \in Seq(Result) /\ Len(some) = m
       /\ \A k \in 1..m : \E p \in bt : PlaceOf(bt, Q, p) = k /\ some[k] = few[p]
  <2>1. IsFiniteSet(bt) /\ StrictOrder(bt, Q)
    BY <1>3
  <2>2. \A p \in bt : few[p] \in Result
    BY <1>10
  <2>3. IsFiniteSet(bt)
    BY <2>1
  <2>4. StrictOrder(bt, Q)
    BY <2>1
  <2>5. /\ Arrange(few, bt, Q) \in Seq(Result) /\ Len(Arrange(few, bt, Q)) = Cardinality(bt)
        /\ \A k \in 1..Cardinality(bt) :
              \E i \in bt : PlaceOf(bt, Q, i) = k /\ Arrange(few, bt, Q)[k] = few[i]
    BY ONLY <2>2, <2>3, <2>4, ArrangeTyped
  <2> QED BY <2>5
<1> HIDE DEF all, some
<1>13. m \in 0..Len(all)
  <2>1. bt \in SUBSET at
    BY <1>5
  <2>2. m <= Cardinality(at)
    BY <2>1, <1>2, FS_Subset
  <2>3. m \in Nat /\ Cardinality(at) \in Nat
    BY <1>2, <1>3, FS_CardinalityType
  <2> QED BY <2>2, <2>3, <1>11
<1> HIDE DEF m
<1>14. \A k \in 1..m : some[k] = all[k]
  <2> TAKE k \in 1..m
  <2>1. PICK p \in bt : PlaceOf(bt, Q, p) = k /\ some[k] = few[p]
    BY <1>12
  <2> QED BY <2>1, <1>5, <1>8, <1>10, <1>11
<1>15. some = SubSeq(all, 1, m)
  <2>1. SubSeq(all, 1, m) \in Seq(Result) /\ Len(SubSeq(all, 1, m)) = m
        /\ \A k \in 1..m : SubSeq(all, 1, m)[k] = all[k]
    BY <1>11, <1>13
  <2> QED BY <2>1, <1>12, <1>14
<1>16. Beginning(some, all)
  BY <1>13, <1>15 DEF Beginning
<1> QED BY <1>1, <1>11, <1>16, FirstOfEachBegins

\* What each task of a request that is done has ranked, when a single
\* generation was read: as much of the whole ranking as its search may give.
LEMMA TasksRanked ==
    ASSUME QueryInv, NEW r \in Request, Done(r), NEW g \in 1..Len(world), answer[r].generations = {g},
           NEW i \in 1..Len(task[r])
    PROVE  \E scored \in IF encoder THEN BOOLEAN ELSE {FALSE} :
               /\ task[r][i].ranked = Take(WholeRanking(r, g, i, scored), PerSearch(ask[r]))
               /\ WholeRanking(r, g, i, scored) \in Seq(Result)
<1> DEFINE a == ask[r]
           t == task[r][i]
           lists == Found(world[g], Searches(a)[i], Steps(a)[step[r]])
<1>1. /\ a \in Ask /\ task[r] \in Seq(Task) /\ AnswerIs(answer[r], a, task[r])
      /\ answer[r].generations = UNION {task[r][j].generations : j \in 1..Len(task[r])}
  BY DoneIs
<1>2. TaskIs(t, a, i, step[r], world, encoder, logit) /\ t.at = "ready" /\ t \in Task
  <2>1. RequestIs(stage[r], ask[r], task[r], step[r], answer[r], world, encoder, logit)
    BY DEF QueryInv
  <2>2. TaskIs(t, a, i, step[r], world, encoder, logit)
    BY <2>1, Zenon DEF RequestIs
  <2>3. t.at = "ready"
    BY <1>1 DEF AnswerIs
  <2>4. t \in Task
    BY <1>1
  <2> QED BY <2>2, <2>3, <2>4
<1>3. t.generations \subseteq {g}
  BY <1>1
<1>4. CandidateLimit(PerSearch(a)) = MinCandidates
  BY <1>1, LimitsAre
<1>5. /\ HasRead("vector", t.vector, t.generations, a, i, step[r], world)
      /\ HasRead("keyword", t.keyword, t.generations, a, i, step[r], world)
      /\ \E scored \in IF encoder THEN BOOLEAN ELSE {FALSE} :
            t.ranked = Take(RankedAs(t, a, scored, logit), PerSearch(a))
  BY <1>2 DEF TaskIs
<1>6. t.vector = Take(lists.vector, MinCandidates) /\ t.keyword = Take(lists.keyword, MinCandidates)
  BY <1>3, <1>4, <1>5 DEF HasRead
<1>7. \A scored : WholeRanking(r, g, i, scored) = RankedAs(t, a, scored, logit)
  <2> HIDE DEF t
  <2> QED BY <1>6 DEF WholeRanking, RankedAs
<1>8. \A scored \in BOOLEAN : RankedAs(t, a, scored, logit) \in Seq(Result)
  <2>1. t.vector \in Seq(Chunk) /\ t.keyword \in Seq(Chunk)
    BY <1>2 DEF Task
  <2>2. \A c \in Chunk : logit[c.id] \in 0..One
    BY InputIs DEF QueryInv
  <2> HIDE DEF a, t
  <2> DEFINE fused == Rerank(t.vector, t.keyword, a)
  <2>3. fused \in Seq(Result)
    BY <2>1, <1>1, RerankIs
  <2> HIDE DEF fused
  <2>4. CrossEncode(fused, logit) \in Seq(Result)
    BY <2>2, <2>3, CrossEncodeIs
  <2> QED BY <2>3, <2>4 DEF RankedAs, fused
<1> HIDE DEF t
<1>9. PICK scored \in IF encoder THEN BOOLEAN ELSE {FALSE} :
          t.ranked = Take(RankedAs(t, a, scored, logit), PerSearch(a))
  BY <1>5
<1>10. scored \in BOOLEAN
  BY <1>9
<1> QED BY <1>7, <1>8, <1>9, <1>10 DEF t

\* The limit only cuts the answer: as many candidates are fetched and ranked for
\* a small one as for the largest, each search gives the beginning of its
\* ranking, and beginnings in turn are a beginning.
THEOREM LimitAlwaysOnlyTruncates == QuerySpec => []LimitOnlyTruncates
<1>1. QueryInv => LimitOnlyTruncates
  <2> SUFFICES ASSUME QueryInv, NEW r \in Request, NEW g \in 1..Len(world), Done(r),
                      answer[r].generations = {g}
               PROVE  \E scored \in [1..Len(Searches(ask[r])) -> IF encoder THEN BOOLEAN ELSE {FALSE}] :
                          IsPrefix(answer[r].ranked, WholeAnswer(r, g, scored))
    BY DEF LimitOnlyTruncates
  <2> DEFINE a == ask[r]
             n == Len(Searches(a))
             may == IF encoder THEN BOOLEAN ELSE {FALSE}
             is(i, one) == /\ task[r][i].ranked = Take(WholeRanking(r, g, i, one), PerSearch(a))
                           /\ WholeRanking(r, g, i, one) \in Seq(Result)
             scored == [i \in 1..n |-> CHOOSE one \in may : is(i, one)]
             lists == [i \in 1..n |-> WholeRanking(r, g, i, scored[i])]
             cut == [i \in 1..n |-> task[r][i].ranked]
             all == IF n = 1 THEN WholeRanking(r, g, 1, scored[1]) ELSE InTurn(lists)
             merged == Merged(a, task[r])
  <2>1. /\ a \in Ask /\ task[r] \in Seq(Task) /\ Len(task[r]) = n
        /\ merged \in Seq(Result) /\ answer[r].ranked = Filtered(a, merged)
    BY DoneIs
  <2>2. n \in Nat /\ n > 0 /\ PerSearch(a) \in Nat /\ FetchLimit(a) \in Nat /\ a.limit \in Nat
    <3>1. a.limit \in Nat
      BY <2>1, ConstantsAre DEF Ask
    <3> QED BY <2>1, <3>1, LimitsAre, ConstantsAre
  <2>3. \A i \in 1..n : \E one \in may : is(i, one)
    BY <2>1, TasksRanked
  <2> HIDE DEF may, is, n
  <2>4. \A i \in 1..n : scored[i] \in may /\ is(i, scored[i])
    BY <2>3
  <2>5. scored \in [1..n -> may]
    BY <2>4
  <2> HIDE DEF scored
  <2>6. Beginning(merged, all) /\ all \in Seq(Result)
    <3>1. CASE n = 1
      <4>1. merged = task[r][1].ranked /\ all = WholeRanking(r, g, 1, scored[1])
        BY <2>1, <3>1 DEF Merged
      <4>2. is(1, scored[1])
        BY <2>4, <3>1
      <4> QED BY <4>1, <4>2, <2>2, TakeBegins DEF is
    <3>2. CASE n # 1
      <4>1. merged = Take(InTurn(cut), FetchLimit(a)) /\ all = InTurn(lists)
        BY <2>1, <3>2 DEF Merged, RoundRobin, n
      <4>2. \A i \in 1..n : /\ WholeRanking(r, g, i, scored[i]) \in Seq(Result)
                              /\ task[r][i].ranked = Take(WholeRanking(r, g, i, scored[i]), PerSearch(a))
                              /\ task[r][i].ranked \in Seq(Result)
        BY <2>2, <2>4, TakeIs DEF is
      <4>3. lists \in Seq(Seq(Result)) /\ Len(lists) = n /\ \A i \in 1..n : lists[i] = WholeRanking(r, g, i, scored[i])
        BY <2>2, <4>2
      <4>4. cut \in Seq(Seq(Result)) /\ Len(cut) = n /\ \A i \in 1..n : cut[i] = task[r][i].ranked
        BY <2>2, <4>2
      <4> HIDE DEF lists, cut
      <4>5. \A l \in 1..Len(lists) : cut[l] = Take(lists[l], PerSearch(a))
        BY <4>2, <4>3, <4>4
      <4>6. Beginning(InTurn(cut), InTurn(lists)) /\ InTurn(lists) \in Seq(Result)
        BY <2>2, <4>3, <4>4, <4>5, InTurnBegins
      <4>7. InTurn(cut) \in Seq(Result)
        BY <4>6, BeginningIs
      <4>8. Beginning(Take(InTurn(cut), FetchLimit(a)), InTurn(cut))
        BY <2>2, <4>7, TakeBegins
      <4>9. Beginning(Take(InTurn(cut), FetchLimit(a)), InTurn(lists))
        BY <4>6, <4>8, BeginningOfBeginning
      <4> QED BY <4>1, <4>6, <4>9
    <3> QED BY <3>1, <3>2
  <2>7. WholeAnswer(r, g, scored) = IF a.tool \in {"examples", "api"} THEN Compatible(a, all) ELSE all
    BY DEF WholeAnswer, n
  <2> HIDE DEF all, merged, a
  <2>8. /\ Beginning(Compatible(a, merged), Compatible(a, all))
        /\ Compatible(a, all) \in Seq(Result)
    BY <2>6, CompatibleBegins
  <2>9. IsPrefix(answer[r].ranked, WholeAnswer(r, g, scored))
    <3>1. CASE a.tool \in {"examples", "api"}
      <4>1. answer[r].ranked = Take(Compatible(a, merged), a.limit)
        BY <2>1, <3>1 DEF Filtered
      <4>2. Compatible(a, merged) \in Seq(Result)
        BY <2>8, BeginningIs
      <4>3. Beginning(Take(Compatible(a, merged), a.limit), Compatible(a, merged))
        BY <4>2, <2>2, TakeBegins
      <4>4. Beginning(Take(Compatible(a, merged), a.limit), Compatible(a, all))
        BY <4>3, <2>8, BeginningOfBeginning
      <4> QED BY <4>1, <4>4, <2>7, <2>8, <3>1, BeginningIs
    <3>2. CASE a.tool \notin {"examples", "api"}
      <4>1. answer[r].ranked = merged
        BY <2>1, <3>2 DEF Filtered
      <4> QED BY <4>1, <2>6, <2>7, <3>2, BeginningIs
    <3> QED BY <3>1, <3>2
  <2> QED BY <2>5, <2>9 DEF n, a, may
<1> QED BY <1>1, QueryInvariant, PTL

-----------------------------------------------------------------------------
(* What an answer says of itself. *)

\* The label of an ordinary pin points to the releases that satisfy it: above
\* every bound nothing does, for who is above one from below is above the one
\* from above too.
LEMMA LabelIsTheDirection ==
    ASSUME NEW user \in Releases, NEW pin \in Pin, OrdinaryPin(pin)
    PROVE  ComputeVersionCompatibility(user, pin) = Direction(user, pin, Releases)
<1> DEFINE c == pin.clauses
           good == {v \in Releases : IF pin.kind = "plain" THEN v >= pin.v ELSE Satisfies(v, c)}
<1>1. /\ pin.kind \in {"none", "plain", "spec"} /\ pin.v \in Nat
      /\ \A s \in c : /\ s.op \in {">=", ">", "<=", "<", "==", "!=", "~="} /\ s.v \in Nat
                      /\ s = [op |-> s.op, v |-> s.v]
      /\ pin.kind = "none" => pin = NoPin
      /\ good # {}
      /\ \A s, t \in c : {s.op, t.op} \subseteq {"<=", "<", "==", "~="} => s = t
  BY DEF OrdinaryPin, Pin, NoPin
<1>2. user \in Nat /\ \A v \in Releases : v \in Nat
  BY LimitAssumption
<1>3. \A v \in Releases : Line(v) \in Int
  BY <1>2 DEF Line
<1>4. \A v, w \in Nat : v <= w => Line(v) <= Line(w)
  BY DEF Line
<1>5. CASE pin.kind = "none"
  BY <1>1, <1>5 DEF ComputeVersionCompatibility, Direction
<1>6. CASE pin.kind = "plain"
  <2>1. pin # NoPin
    BY <1>6 DEF NoPin
  <2>2. user \in good <=> user >= pin.v
    BY <1>6
  <2>3. ~(user >= pin.v) => \E v \in good : v > user
    BY <1>1, <1>2, <1>6
  <2> QED BY <2>1, <2>2, <2>3, <1>6 DEF ComputeVersionCompatibility, Direction
<1>7. CASE pin.kind = "spec"
  <2>1. pin # NoPin /\ pin.kind # "none" /\ pin.kind # "plain"
    BY <1>7 DEF NoPin
  <2>2. \A v \in Releases : v \in good <=> Satisfies(v, c)
    BY <2>1
  <2>3. ASSUME NEW t \in c, ~Meets(user, t), ~NoDirection(user, c) PROVE t.op # "!="
    <3> SUFFICES ASSUME t.op = "!=" PROVE FALSE
      OBVIOUS
    <3>1. t.v = user
      BY <2>3, <1>1 DEF Meets
    <3>2. t = [op |-> "!=", v |-> user]
      BY <3>1, <1>1
    <3> QED BY <3>2, <2>3 DEF NoDirection
  <2>4. ASSUME ~Satisfies(user, c), ~NoDirection(user, c), IsAbove(user, c), NEW w \in good
        PROVE  ~(w > user)
    <3>1. PICK t \in c : ~Meets(user, t)
      BY <2>4 DEF Satisfies
    <3>2. t.op # "!=" /\ user >= t.v
      BY <2>3, <2>4, <3>1 DEF IsAbove
    <3>3. Meets(w, t) /\ w \in Nat
      BY <2>2, <2>4, <1>2 DEF Satisfies
    <3> SUFFICES ASSUME w > user PROVE FALSE
      OBVIOUS
    <3>4. t.op # ">"
      <4> SUFFICES ASSUME t.op = ">" PROVE FALSE
        OBVIOUS
      <4>1. t.v = user
        BY <3>1, <3>2, <1>1, <1>2 DEF Meets
      <4>2. t = [op |-> ">", v |-> user]
        BY <4>1, <1>1
      <4> QED BY <4>2, <2>4 DEF IsAbove
    <3>5. t.op # ">="
      BY <3>1, <3>2 DEF Meets
    <3>6. t.op \notin {"<=", "<", "=="}
      BY <3>1, <3>2, <3>3, <1>1, <1>2 DEF Meets
    <3>7. t.op # "~="
      <4> SUFFICES ASSUME t.op = "~=" PROVE FALSE
        OBVIOUS
      <4>1. Line(user) # Line(t.v) /\ Line(w) = Line(t.v)
        BY <3>1, <3>2, <3>3 DEF Meets
      <4>2. Line(t.v) <= Line(user) /\ Line(user) <= Line(w)
        BY <3>2, <3>3, <1>1, <1>2, <1>4
      <4>3. Line(user) \in Int /\ Line(t.v) \in Int
        BY <1>1, <1>2 DEF Line
      <4> QED BY <4>1, <4>2, <4>3
    <3> QED BY <3>2, <3>4, <3>5, <3>6, <3>7, <1>1
  <2>5. ASSUME ~Satisfies(user, c), ~NoDirection(user, c), ~IsAbove(user, c)
        PROVE  \E w \in good : w > user
    <3>1. PICK w \in good : TRUE
      BY <1>1
    <3>2. w \in Nat /\ \A s \in c : Meets(w, s)
      BY <3>1, <2>2, <1>2 DEF Satisfies
    <3>3. CASE [op |-> ">", v |-> user] \in c
      <4> DEFINE s == [op |-> ">", v |-> user]
      <4>1. s.op = ">" /\ s.v = user
        OBVIOUS
      <4>2. Meets(w, s)
        BY <3>2, <3>3
      <4> HIDE DEF s
      <4> QED BY <4>1, <4>2 DEF Meets
    <3>4. CASE [op |-> ">", v |-> user] \notin c
      <4>1. PICK s \in c : s.op # "!=" /\ ~(user >= s.v)
        BY <2>5, <3>4 DEF IsAbove
      <4>2. Meets(w, s) /\ s.v \in Nat
        BY <3>2, <1>1
      <4>3. CASE s.op \in {">=", ">", "==", "~="}
        BY <4>1, <4>2, <4>3, <3>2, <1>2 DEF Meets
      <4>4. CASE s.op \in {"<=", "<"}
        <5>1. PICK t \in c : ~Meets(user, t)
          BY <2>5 DEF Satisfies
        <5>2. Meets(user, s)
          BY <4>1, <4>2, <4>4, <1>2 DEF Meets
        <5>3. t.op \in {">=", ">"}
          <6>1. t.op # "!="
            BY <5>1, <2>3, <2>5
          <6>2. t.op \notin {"<=", "<", "==", "~="}
            BY <5>1, <5>2, <4>4, <1>1
          <6> QED BY <6>1, <6>2, <1>1
        <5>4. Meets(w, t) /\ t.v \in Nat
          BY <3>2, <1>1
        <5>5. w > user
          BY <5>1, <5>3, <5>4, <3>2, <1>2 DEF Meets
        <5> QED BY <5>5
      <4> QED BY <4>1, <4>3, <4>4, <1>1
    <3> QED BY <3>3, <3>4
  <2>6. Direction(user, pin, Releases) =
            IF user \in good THEN "compatible"
            ELSE IF NoDirection(user, c) THEN "unknown"
            ELSE IF \E v \in good : v > user THEN "newer_required" ELSE "older_targeted"
    BY <2>1, <1>7 DEF Direction
  <2>7. ComputeVersionCompatibility(user, pin) =
            IF Satisfies(user, c) THEN "compatible"
            ELSE IF NoDirection(user, c) THEN "unknown"
            ELSE IF IsAbove(user, c) THEN "older_targeted" ELSE "newer_required"
    BY <2>1 DEF ComputeVersionCompatibility
  <2> HIDE DEF good, c
  <2>8. user \in good <=> Satisfies(user, c)
    BY <2>2
  <2> QED BY <2>4, <2>5, <2>6, <2>7, <2>8
<1> QED BY <1>1, <1>5, <1>6, <1>7

LEMMA QuotientIs ==
    ASSUME NEW a \in Nat, NEW n \in Nat \ {0}, NEW most \in Nat, a <= n * most
    PROVE  a \div n \in 0..most
<1> DEFINE q == a \div n
<1>1. q \in Nat /\ n * q <= a
  OBVIOUS
<1> HIDE DEF q
<1>2. q <= most
  <2> SUFFICES ASSUME q >= most + 1 PROVE FALSE
    BY <1>1
  <2>1. n * q >= n * (most + 1)
    BY <1>1
  <2>2. n * (most + 1) = n * most + n
    OBVIOUS
  <2>3. n * most \in Nat /\ n * q \in Nat
    BY <1>1
  <2> QED BY <1>1, <2>1, <2>2, <2>3
<1> QED BY <1>1, <1>2 DEF q

LEMMA SumsExist ==
    ASSUME NEW results, NEW n \in Nat
    PROVE  \E f : f = [i \in 0..n |-> IF i = 0 THEN 0 ELSE f[i - 1] + results[i].score]
<1> DEFINE has(m) == \E f : f = [i \in 0..m |-> IF i = 0 THEN 0 ELSE f[i - 1] + results[i].score]
           wrong == {m \in Nat : ~has(m)}
<1>1. has(0)
  <2> DEFINE f == [i \in 0..0 |-> 0]
  <2>1. f = [i \in 0..0 |-> IF i = 0 THEN 0 ELSE f[i - 1] + results[i].score]
    OBVIOUS
  <2> QED BY <2>1
<1>2. ASSUME NEW m \in Nat, has(m) PROVE has(m + 1)
  <2>1. PICK f : f = [i \in 0..m |-> IF i = 0 THEN 0 ELSE f[i - 1] + results[i].score]
    BY <1>2
  <2> DEFINE g == [i \in 0..m + 1 |-> IF i = m + 1 THEN f[m] + results[m + 1].score ELSE f[i]]
  <2>2. \A i \in 0..m + 1 : i # 0 => g[i - 1] = f[i - 1]
    OBVIOUS
  <2>3. \A i \in 0..m : f[i] = IF i = 0 THEN 0 ELSE f[i - 1] + results[i].score
    BY <2>1
  <2>4. \A i \in 0..m + 1 : g[i] = IF i = 0 THEN 0 ELSE g[i - 1] + results[i].score
    <3> TAKE i \in 0..m + 1
    <3>1. CASE i = m + 1
      <4>1. g[i] = f[m] + results[m + 1].score /\ g[i - 1] = f[m] /\ i # 0
        BY <3>1, <2>2
      <4> HIDE DEF g
      <4> QED BY <4>1, <3>1
    <3>2. CASE i # m + 1
      <4>1. g[i] = f[i] /\ i \in 0..m
        BY <3>2
      <4> HIDE DEF g
      <4> QED BY <4>1, <2>2, <2>3
    <3> QED BY <3>1, <3>2
  <2>5. g = [i \in 0..m + 1 |-> g[i]]
    OBVIOUS
  <2> HIDE DEF g
  <2>6. g = [i \in 0..m + 1 |-> IF i = 0 THEN 0 ELSE g[i - 1] + results[i].score]
    BY <2>4, <2>5
  <2> QED BY <2>6
<1> HIDE DEF has
<1>3. wrong = {}
  <2> SUFFICES ASSUME wrong # {} PROVE FALSE
    OBVIOUS
  <2>1. PICK m \in wrong : \A j \in wrong : m <= j
    BY FirstIs
  <2>2. m # 0 /\ m - 1 \in Nat /\ ~(m <= m - 1)
    BY <2>1, <1>1
  <2>3. has(m - 1 + 1)
    BY <2>1, <2>2, <1>2
  <2> QED BY <2>1, <2>2, <2>3
<1> QED BY <1>3 DEF has

\* The sum of the scores, as the confidence takes it.
SumOf(results) ==
    LET sum[i \in 0..Len(results)] == IF i = 0 THEN 0 ELSE sum[i - 1] + results[i].score
    IN  sum[Len(results)]

LEMMA SumIs ==
    ASSUME NEW results \in Seq(Result), NEW most \in Nat, \A i \in 1..Len(results) : results[i].score <= most
    PROVE  SumOf(results) \in Nat /\ SumOf(results) <= Len(results) * most
<1> DEFINE n == Len(results)
           f == CHOOSE g : g = [i \in 0..n |-> IF i = 0 THEN 0 ELSE g[i - 1] + results[i].score]
<1>1. n \in Nat /\ \A i \in 1..n : results[i].score \in Nat
  <2>1. \A x \in Result : x.score \in Nat
    BY ConstantsAre DEF Result
  <2>2. \A i \in 1..n : results[i] \in Result
    OBVIOUS
  <2> QED BY <2>1, <2>2
<1>2. SumOf(results) = f[n]
  BY DEF SumOf
<1>3. f = [i \in 0..n |-> IF i = 0 THEN 0 ELSE f[i - 1] + results[i].score]
  <2>1. n \in Nat
    BY <1>1
  <2> HIDE DEF n
  <2>2. \E g : g = [i \in 0..n |-> IF i = 0 THEN 0 ELSE g[i - 1] + results[i].score]
    BY <2>1, SumsExist, Zenon
  <2> QED BY <2>2
<1> HIDE DEF f
<1>4. f[0] = 0 /\ \A i \in 1..n : f[i] = f[i - 1] + results[i].score
  <2> HIDE DEF n
  <2> QED BY <1>1, <1>3
<1>5. \A i \in 0..n : f[i] \in Nat /\ f[i] <= i * most
  <2> DEFINE wrong == {i \in 0..n : ~(f[i] \in Nat /\ f[i] <= i * most)}
  <2> SUFFICES ASSUME wrong # {} PROVE FALSE
    OBVIOUS
  <2>1. wrong \subseteq Nat
    BY <1>1
  <2>2. PICK i \in wrong : \A j \in wrong : i <= j
    <3> HIDE DEF wrong
    <3> QED BY <2>1, FirstIs
  <2>3. i # 0
    BY <2>2, <1>4
  <2>4. i \in 1..n /\ i - 1 \in 0..n /\ ~(i <= i - 1)
    <3> HIDE DEF n
    <3> QED BY <2>2, <2>3, <1>1
  <2>5. f[i - 1] \in Nat /\ f[i - 1] <= (i - 1) * most
    BY <2>2, <2>4
  <2>6. f[i] = f[i - 1] + results[i].score /\ results[i].score \in Nat /\ results[i].score <= most
    BY <2>4, <1>1, <1>4
  <2>7. (i - 1) * most + most = i * most /\ (i - 1) * most \in Int /\ i * most \in Int
    <3>1. i \in Int
      BY <2>4
    <3> QED BY <3>1
  <2>8. f[i] \in Nat /\ f[i] <= i * most
    <3> HIDE DEF n
    <3> QED BY <2>5, <2>6, <2>7
  <2> QED BY <2>2, <2>8
<1>6. n \in 0..n
  <2> HIDE DEF n
  <2> QED BY <1>1
<1> QED BY <1>2, <1>5, <1>6

\* Confidence is low, and something is said to be missing, just when no result
\* has some relevance: the average of results without any is too small to make
\* up for it.
LEMMA EvidenceIs ==
    ASSUME NEW results \in Seq(Result)
    PROVE  LET evidence == AssembleEvidence(results)
               relevant == \E i \in 1..Len(results) : results[i].score >= LowScoreThreshold
           IN  /\ evidence.lowConfidence <=> ~relevant
               /\ evidence.unknown = {} <=> relevant
<1> DEFINE evidence == AssembleEvidence(results)
           relevant == \E i \in 1..Len(results) : results[i].score >= LowScoreThreshold
           high == \E i \in 1..Len(results) : results[i].score >= HighScoreThreshold
           n == Len(results)
           avg == SumOf(results) \div n
           confidence == ComputeConfidence(results)
<1>1. PICK u \in Nat : One = 1000 * u /\ u > 0
  <2>1. One = 1000 * (One \div 1000) + (One % 1000) /\ One \div 1000 \in Nat
    BY ConstantsAre
  <2> QED BY <2>1, ConstantsAre
<1>2. One \div 100 = 10 * u /\ One \div 20 = 50 * u /\ One \div 15 \in Nat
  BY <1>1
<1>3. /\ Percent(5) = 50 * u /\ Percent(10) = 100 * u /\ Percent(15) = 150 * u /\ Percent(30) = 300 * u
      /\ Percent(50) = 500 * u /\ Percent(60) = 600 * u /\ Percent(70) = 700 * u /\ Percent(95) = 950 * u
  BY <1>1, <1>2 DEF Percent
<1>4. /\ HighScoreThreshold = 500 * u /\ LowScoreThreshold = 100 * u
      /\ LowConfidenceThreshold = 300 * u /\ ConfidenceFloor = 150 * u
  BY <1>3 DEF HighScoreThreshold, LowScoreThreshold, LowConfidenceThreshold, ConfidenceFloor
<1>5. n \in Nat /\ \A i \in 1..n : results[i].score \in 0..One
  <2>1. \A x \in Result : x.score \in 0..One
    BY DEF Result
  <2>2. \A i \in 1..n : results[i] \in Result
    OBVIOUS
  <2> QED BY <2>1, <2>2
<1>6. confidence =
        IF n = 0 THEN 0
        ELSE IF high /\ n >= 3
        THEN Smaller(Percent(95), Percent(60) + (avg \div 10) * 3 + Smaller((One \div 15) * n, Percent(15)))
        ELSE IF relevant THEN Moderate(avg, n) ELSE Larger(Percent(5), Percent(10) + avg \div 5)
  BY DEF ComputeConfidence, SumOf
<1>7. /\ evidence.lowConfidence <=> confidence < LowConfidenceThreshold
      /\ evidence.unknown = (IF results = <<>> THEN {"no content"} ELSE IF ~relevant THEN {"low relevance"} ELSE {})
                            \union (IF confidence < ConfidenceFloor /\ results # <<>> THEN {"weak matches"} ELSE {})
  <2>1. evidence.lowConfidence = (confidence < LowConfidenceThreshold)
    BY DEF AssembleEvidence
  <2>2. (\A i \in 1..n : results[i].score < LowScoreThreshold) <=> ~relevant
    <3>1. u \in Int /\ \A i \in 1..n : results[i].score \in Int
      BY <1>5, <1>1
    <3> QED BY <3>1, <1>4
  <2>3. evidence.unknown =
            (IF results = <<>> THEN {"no content"}
             ELSE IF \A i \in 1..n : results[i].score < LowScoreThreshold THEN {"low relevance"} ELSE {})
            \union (IF confidence < ConfidenceFloor /\ results # <<>> THEN {"weak matches"} ELSE {})
    BY DEF AssembleEvidence
  <2> HIDE DEF evidence, confidence
  <2> QED BY <2>1, <2>2, <2>3
<1> DEFINE most == IF relevant THEN One ELSE 100 * u
<1>8. n > 0 => avg \in 0..most
  <2>1. \A i \in 1..n : results[i].score <= most
    <3>1. CASE relevant
      BY <3>1, <1>5, <1>1
    <3>2. CASE ~relevant
      <4>1. \A i \in 1..n : ~(results[i].score >= 100 * u)
        BY <3>2, <1>4
      <4> QED BY <4>1, <3>2, <1>5, <1>1
    <3> QED BY <3>1, <3>2
  <2>2. most \in Nat
    BY <1>1
  <2> HIDE DEF most
  <2>3. SumOf(results) \in Nat /\ SumOf(results) <= n * most
    BY <2>1, <2>2, SumIs
  <2> HIDE DEF n
  <2>4. n > 0 => n \in Nat \ {0}
    BY <1>5
  <2> QED BY <2>2, <2>3, <2>4, QuotientIs
<1> HIDE DEF evidence, confidence, avg
<1>9. n = 0 <=> results = <<>>
  OBVIOUS
<1>10. n = 0 => ~relevant
  OBVIOUS
<1>11. high => relevant
  BY <1>1, <1>4, <1>5
<1> HIDE DEF n, relevant, high
<1>12. CASE n = 0
  <2>1. confidence = 0 /\ ~relevant /\ results = <<>>
    BY <1>6, <1>9, <1>10, <1>12
  <2>2. confidence < LowConfidenceThreshold
    BY <2>1, <1>1, <1>4
  <2>3. evidence.unknown # {}
    BY <2>1, <1>7
  <2> QED BY <2>1, <2>2, <2>3, <1>7 DEF evidence, relevant
<1>13. CASE n # 0 /\ relevant
  <2>1. avg \in Nat /\ n \in Nat
    BY <1>1, <1>5, <1>8, <1>13
  <2>2. (One \div 15) * n \in Nat /\ (One \div 20) * n \in Nat
    BY <2>1, <1>1, <1>2
  <2>3. confidence \in Int /\ confidence >= 300 * u
    <3>1. CASE high /\ n >= 3
      <4>1. confidence = Smaller(Percent(95), Percent(60) + (avg \div 10) * 3 + Smaller((One \div 15) * n, Percent(15)))
        BY <3>1, <1>6, <1>13
      <4> DEFINE counted == Smaller((One \div 15) * n, Percent(15))
                 averaged == (avg \div 10) * 3
                 total == Percent(60) + averaged + counted
      <4>2. counted \in Nat
        BY <2>2, <1>3, <1>1 DEF Smaller
      <4>3. averaged \in Nat
        BY <2>1
      <4> HIDE DEF counted, averaged
      <4>4. total \in Int /\ total >= 300 * u /\ Percent(95) \in Int /\ Percent(95) >= 300 * u
        BY <4>2, <4>3, <1>1, <1>3
      <4>5. confidence = Smaller(Percent(95), total)
        BY <4>1 DEF counted, averaged
      <4> HIDE DEF total
      <4> QED BY <4>4, <4>5 DEF Smaller
    <3>2. CASE ~(high /\ n >= 3)
      <4>1. confidence = Moderate(avg, n)
        BY <3>2, <1>6, <1>13
      <4> DEFINE counted == Smaller((One \div 20) * n, Percent(10))
                 averaged == (avg \div 10) * 3
                 total == Percent(30) + averaged + counted
      <4>2. counted \in Nat
        BY <2>2, <1>3, <1>1 DEF Smaller
      <4>3. averaged \in Nat
        BY <2>1
      <4> HIDE DEF counted, averaged
      <4>4. total \in Int /\ total >= 300 * u /\ Percent(70) \in Int /\ Percent(70) >= 300 * u
        BY <4>2, <4>3, <1>1, <1>3
      <4>5. confidence = Smaller(Percent(70), total)
        BY <4>1 DEF Moderate, counted, averaged
      <4> HIDE DEF total
      <4> QED BY <4>4, <4>5 DEF Smaller
    <3> QED BY <3>1, <3>2
  <2>4. ~(confidence < LowConfidenceThreshold) /\ ~(confidence < ConfidenceFloor)
    BY <2>3, <1>1, <1>4
  <2>5. evidence.unknown = {}
    BY <2>4, <1>7, <1>9, <1>13
  <2> QED BY <2>4, <2>5, <1>7, <1>13 DEF evidence, relevant
<1>14. CASE n # 0 /\ ~relevant
  <2>1. avg \in 0..100 * u
    BY <1>5, <1>8, <1>14
  <2>2. confidence = Larger(Percent(5), Percent(10) + avg \div 5)
    BY <1>6, <1>11, <1>14
  <2>3. avg \div 5 \in 0..20 * u
    BY <2>1, <1>1
  <2>4. confidence < LowConfidenceThreshold
    BY <2>2, <2>3, <1>1, <1>3, <1>4 DEF Larger
  <2>5. evidence.unknown # {}
    BY <1>7, <1>9, <1>14
  <2> QED BY <2>4, <2>5, <1>7, <1>14 DEF evidence, relevant
<1> QED BY <1>12, <1>13, <1>14

\* The lines a request asks for, those of them a chunk's text has, and that
\* some are given with the range they are said to be.
Asked(want, l) == want.start = 0 \/ (want.start <= l /\ l <= IF want.end = 0 THEN want.start + want.max - 1 ELSE want.end)
TextAsked(want, chunk) == {l \in chunk.first..chunk.first + chunk.lines - 1 : Asked(want, l)}
GivesWhatWasAsked(given, chunk, want) ==
    LET end == given.first + given.size - 1
        text == TextAsked(want, chunk)
    IN  /\ given.first..end = {l \in text : \A m \in text : l < m + want.max}
        /\ given.last = end \/ (given.last = chunk.last /\ given.size = chunk.lines)

LEMMA SnippetIs ==
    ASSUME NEW chunk \in Chunk, NEW want \in [start : Nat, end : Nat, max : Nat \ {0}],
           want.end = 0 \/ want.start <= want.end
    PROVE  /\ Overlaps(chunk, want) <=> \E l \in chunk.first..chunk.last : Asked(want, l)
           /\ Overlaps(chunk, want) => GivesWhatWasAsked(SnippetOf(chunk, want), chunk, want)
<1> DEFINE b == chunk.first
           e == chunk.last
           n == chunk.lines
           start == want.start
           max == want.max
           reqEnd == ReqEnd(want)
           from == Larger(start, b)
           given == SnippetOf(chunk, want)
           sliced == IF start = 0 THEN n ELSE Larger(0, Smaller(n, reqEnd - b + 1) - Larger(0, start - b))
           size == Smaller(sliced, max)
           text == TextAsked(want, chunk)
<1>1. /\ b \in Nat /\ e \in Nat /\ n \in Nat /\ b <= e
      /\ start \in Nat /\ want.end \in Nat /\ max \in Nat /\ max > 0
  BY ChunkAssumption
<1>2. reqEnd \in Int /\ (start # 0 => reqEnd >= start)
  <2>1. reqEnd = IF want.end = 0 THEN start + max - 1 ELSE want.end
    BY DEF ReqEnd
  <2>2. want.end = 0 \/ start <= want.end
    OBVIOUS
  <2> HIDE DEF start, max, reqEnd
  <2> QED BY <2>1, <2>2, <1>1
<1>3. Overlaps(chunk, want) <=> start = 0 \/ (reqEnd >= b /\ start <= e)
  BY DEF Overlaps
<1>4. \A l : Asked(want, l) <=> start = 0 \/ (start <= l /\ l <= reqEnd)
  BY DEF Asked, ReqEnd
<1>5. given.first = from /\ given.size = size
      /\ given.last = IF start = 0 /\ size = sliced THEN e ELSE from + size - 1
  BY DEF SnippetOf, OffsetStart, OffsetEnd
<1>6. \A l : l \in text <=> l \in b..b + n - 1 /\ (start = 0 \/ (start <= l /\ l <= reqEnd))
  BY <1>4 DEF TextAsked
<1> DEFINE some == Overlaps(chunk, want)
<1> HIDE DEF b, e, n, start, max, reqEnd, given, text, some
<1>7. some <=> \E l \in b..e : Asked(want, l)
  <2>1. ASSUME some PROVE from \in b..e /\ Asked(want, from)
    BY <2>1, <1>1, <1>2, <1>3, <1>4 DEF Larger, some
  <2>2. ASSUME NEW l \in b..e, Asked(want, l) PROVE some
    <3>1. start = 0 \/ (start <= l /\ l <= reqEnd)
      BY <2>2, <1>4
    <3> QED BY <3>1, <1>1, <1>2, <1>3 DEF some
  <2> QED BY <2>1, <2>2
<1>8. sliced \in Nat /\ size \in Nat /\ size <= sliced /\ size <= max /\ (size = sliced \/ size = max) /\ from \in Nat
  BY <1>1, <1>2 DEF Smaller, Larger
<1>9. some => \A l : l \in text <=> l \in from..from + sliced - 1
  <2> SUFFICES ASSUME some, NEW l PROVE l \in text <=> l \in from..from + sliced - 1
    OBVIOUS
  <2>1. CASE start = 0
    <3>1. from = b /\ sliced = n
      BY <2>1, <1>1 DEF Larger
    <3> HIDE DEF from, sliced
    <3> QED BY <3>1, <2>1, <1>6
  <2>2. CASE start # 0
    BY <2>2, <1>1, <1>2, <1>3, <1>6 DEF Larger, Smaller, some
  <2> QED BY <2>1, <2>2
<1> HIDE DEF from, sliced, size
<1>10. some => from..from + size - 1 = {l \in text : \A m \in text : l < m + max}
  <2> SUFFICES ASSUME some
               PROVE  \A l : l \in from..from + size - 1 <=> l \in text /\ \A m \in text : l < m + max
    OBVIOUS
  <2>1. ASSUME NEW l \in from..from + size - 1 PROVE l \in text /\ \A m \in text : l < m + max
    BY <1>1, <1>8, <1>9
  <2>2. ASSUME NEW l \in text, \A m \in text : l < m + max PROVE l \in from..from + size - 1
    <3>1. l \in from..from + sliced - 1
      BY <1>9
    <3>2. from \in text
      BY <3>1, <1>8, <1>9
    <3>3. l < from + max
      BY <3>2, <2>2
    <3> QED BY <3>1, <3>3, <1>1, <1>8
  <2> QED BY <2>1, <2>2
<1>11. given.last = given.first + given.size - 1 \/ (given.last = e /\ given.size = n)
  BY <1>1, <1>5 DEF sliced
<1>12. some => given.first..given.first + given.size - 1 = {l \in text : \A m \in text : l < m + max}
  BY <1>5, <1>10
<1> QED BY <1>7, <1>11, <1>12 DEF GivesWhatWasAsked, b, e, n, max, given, text, some

LEMMA SnippetsAre ==
    ASSUME NEW a, NEW results \in Seq(Result)
    PROVE  LET hits == Snippets(a, results)
               with(chunk) == {s \in 1..Len(hits) : hits[s].chunk = chunk}
           IN  \A h \in 1..Len(results) :
                  /\ ~Overlaps(results[h].chunk, a.lines) => with(results[h].chunk) = {}
                  /\ Overlaps(results[h].chunk, a.lines) =>
                        \E s \in with(results[h].chunk) : hits[s].lines = SnippetOf(results[h].chunk, a.lines)
<1> DEFINE I == {i \in 1..Len(results) : Overlaps(results[i].chunk, a.lines)}
           kept == Pick(results, I)
           hits == Snippets(a, results)
<1>1. hits = [k \in 1..Len(kept) |-> [chunk |-> kept[k].chunk, lines |-> SnippetOf(kept[k].chunk, a.lines)]]
  BY DEF Snippets
<1>2. /\ I \in SUBSET (1..Len(results)) /\ \A i \in I : Overlaps(results[i].chunk, a.lines)
      /\ \A i \in 1..Len(results) : Overlaps(results[i].chunk, a.lines) => i \in I
  OBVIOUS
<1> HIDE DEF I
<1>3. /\ kept \in Seq(Result) /\ Len(kept) = Cardinality(I) /\ Cardinality(I) \in Nat
      /\ \A i \in I : Rank(I, i) \in 1..Cardinality(I) /\ kept[Rank(I, i)] = results[i]
      /\ \A k \in 1..Cardinality(I) : \E i \in I : kept[k] = results[i]
  BY <1>2, PickIs
<1> HIDE DEF kept, hits
<1>4. /\ Len(hits) = Len(kept)
      /\ \A k \in 1..Len(kept) : /\ hits[k].chunk = kept[k].chunk
                                 /\ hits[k].lines = SnippetOf(kept[k].chunk, a.lines)
  BY <1>1, <1>3
<1>5. ASSUME NEW h \in 1..Len(results), ~Overlaps(results[h].chunk, a.lines), NEW s \in 1..Len(hits)
      PROVE  hits[s].chunk # results[h].chunk
  <2>1. \E i \in I : hits[s].chunk = results[i].chunk
    BY <1>3, <1>4
  <2> QED BY <2>1, <1>2, <1>5
<1>6. ASSUME NEW h \in 1..Len(results), Overlaps(results[h].chunk, a.lines)
      PROVE  \E s \in 1..Len(hits) : /\ hits[s].chunk = results[h].chunk
                                     /\ hits[s].lines = SnippetOf(results[h].chunk, a.lines)
  <2>1. h \in I
    BY <1>2, <1>6
  <2> QED BY <2>1, <1>3, <1>4
<1> QED BY <1>5, <1>6 DEF hits

\* What an answer says of itself is so.
THEOREM AnswerAlwaysSaysWhatItIs == QuerySpec => []AnswerSaysWhatItIs
<1>1. QueryInv => LabelsAreRight
  <2> SUFFICES ASSUME QueryInv, NEW r \in Request, Done(r), ask[r].version # NoVersion,
                      NEW i \in 1..Len(answer[r].ranked)
               PROVE  LET chunk == answer[r].ranked[i].chunk
                          label == Label(ask[r], chunk)
                      IN  /\ OrdinaryPin(chunk.pin) => label = Direction(ask[r].version, chunk.pin, Releases)
                          /\ ask[r].compatibleOnly /\ ask[r].tool \in {"examples", "api"} => label # "newer_required"
    BY DEF LabelsAreRight
  <2> DEFINE a == ask[r]
             chunk == answer[r].ranked[i].chunk
  <2>1. /\ a \in Ask /\ Merged(a, task[r]) \in Seq(Result) /\ answer[r].ranked \in Seq(Result)
        /\ answer[r].ranked = Filtered(a, Merged(a, task[r]))
    BY DoneIs
  <2>2. chunk \in Chunk
    <3>1. answer[r].ranked[i] \in Result
      BY <2>1
    <3> QED BY <3>1 DEF Result
  <2>3. a.version \in Releases
    BY <2>1 DEF Ask
  <2>4. OrdinaryPin(chunk.pin) => Label(a, chunk) = Direction(a.version, chunk.pin, Releases)
    <3>1. chunk.pin \in Pin
      BY <2>2, ChunkAssumption
    <3>2. Label(a, chunk) = ComputeVersionCompatibility(a.version, chunk.pin)
      BY DEF Label
    <3> HIDE DEF a, chunk
    <3> QED BY <3>1, <3>2, <2>3, LabelIsTheDirection
  <2>5. a.compatibleOnly /\ a.tool \in {"examples", "api"} => Label(a, chunk) # "newer_required"
    <3> DEFINE merged == Merged(a, task[r])
    <3> HIDE DEF merged
    <3>1. a.tool \in {"examples", "api"} /\ a.compatibleOnly /\ a.version # NoVersion =>
            \A k \in 1..Len(Filtered(a, merged)) : Label(a, Filtered(a, merged)[k].chunk) # "newer_required"
      BY <2>1, FilteredIs DEF merged
    <3> QED BY <2>1, <3>1 DEF merged
  <2> QED BY <2>4, <2>5
<1>2. QueryInv => ConfidenceIsEarned
  <2> SUFFICES ASSUME QueryInv, NEW r \in Request, Done(r)
               PROVE  LET evidence == answer[r].evidence
                          relevant == \E i \in 1..Len(answer[r].ranked) : answer[r].ranked[i].score >= LowScoreThreshold
                      IN  /\ evidence.lowConfidence <=> ~relevant
                          /\ evidence.unknown = {} <=> relevant
    BY DEF ConfidenceIsEarned
  <2>1. answer[r].ranked \in Seq(Result) /\ answer[r].evidence = AssembleEvidence(answer[r].ranked)
    BY DoneIs
  <2> QED BY <2>1, EvidenceIs
<1>3. QueryInv => SnippetIsWhatWasAsked
  <2> SUFFICES ASSUME QueryInv, NEW r \in Request, Done(r), ask[r].tool = "snippet",
                      ask[r].lines.end = 0 \/ ask[r].lines.start <= ask[r].lines.end,
                      NEW h \in 1..Len(answer[r].ranked)
               PROVE  LET want == ask[r].lines
                          chunk == answer[r].ranked[h].chunk
                          mine == {s \in 1..Len(answer[r].hits) : answer[r].hits[s].chunk = chunk}
                      IN  IF \A l \in chunk.first..chunk.last : ~Asked(want, l) THEN mine = {}
                          ELSE \E s \in mine : GivesWhatWasAsked(answer[r].hits[s].lines, chunk, want)
    BY DEF SnippetIsWhatWasAsked, GivesWhatWasAsked, TextAsked, Asked
  <2> DEFINE want == ask[r].lines
             chunk == answer[r].ranked[h].chunk
             hits == answer[r].hits
  <2>1. /\ ask[r] \in Ask /\ answer[r].ranked \in Seq(Result)
        /\ hits = Snippets(ask[r], answer[r].ranked)
    BY DoneIs
  <2>2. chunk \in Chunk
    <3>1. answer[r].ranked[h] \in Result
      BY <2>1
    <3> QED BY <3>1 DEF Result
  <2>3. want \in [start : Nat, end : Nat, max : Nat \ {0}]
    BY <2>1 DEF Ask
  <2>4. /\ Overlaps(chunk, want) <=> \E l \in chunk.first..chunk.last : Asked(want, l)
        /\ Overlaps(chunk, want) => GivesWhatWasAsked(SnippetOf(chunk, want), chunk, want)
    <3>1. want.end = 0 \/ want.start <= want.end
      OBVIOUS
    <3> HIDE DEF want, chunk
    <3> QED BY <2>2, <2>3, <3>1, SnippetIs
  <2>5. /\ ~Overlaps(chunk, want) => {s \in 1..Len(hits) : hits[s].chunk = chunk} = {}
        /\ Overlaps(chunk, want) =>
              \E s \in {q \in 1..Len(hits) : hits[q].chunk = chunk} : hits[s].lines = SnippetOf(chunk, want)
    BY <2>1, SnippetsAre
  <2> HIDE DEF want, chunk, hits
  <2>6. CASE ~Overlaps(chunk, want)
    BY <2>4, <2>5, <2>6 DEF want, chunk, hits
  <2>7. CASE Overlaps(chunk, want)
    <3>1. PICK s \in {q \in 1..Len(hits) : hits[q].chunk = chunk} : hits[s].lines = SnippetOf(chunk, want)
      BY <2>5, <2>7
    <3>2. GivesWhatWasAsked(hits[s].lines, chunk, want)
      BY <3>1, <2>4, <2>7
    <3> QED BY <3>1, <3>2, <2>4, <2>7 DEF want, chunk, hits
  <2> QED BY <2>6, <2>7
<1> QED BY <1>1, <1>2, <1>3, QueryInvariant, PTL DEF AnswerSaysWhatItIs
=============================================================================
