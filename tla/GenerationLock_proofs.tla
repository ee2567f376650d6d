------------------------- MODULE GenerationLock_proofs -------------------------
(***************************************************************************)
(* The safety of the index lock, for any number of owners and processes,   *)
(* any number of lock files removed and made, any depth of nesting.        *)
(*                                                                         *)
(* All of it comes from the parent directory: from TakeGuard to the end    *)
(* of the hold its owner is the only one anywhere (GuardIsExclusive).  So  *)
(* a registered inode has one holder, and the flock on the inode itself is *)
(* not needed.  Only a reader without a lock file is outside of it; the    *)
(* locks on the index directory keep the first lock file away from it.     *)
(***************************************************************************)
EXTENDS GenerationLock, FiniteSetTheorems, TLAPS

Guarded == {"legacy", "recheck", "open", "flock", "inside"}

\* Who is past TakeGuard has the parent directory alone.
GuardIsExclusive ==
    /\ \A o \in Owner : pc[o] \in Guarded => guard = {o}
    /\ \A o \in guard : pc[o] \in Guarded

\* A lock file is open from Open to the end of the hold, and the registry of a
\* process names the one that its owner has open.
OpenIsRegistered ==
    /\ \A o \in Owner : opened[o] # 0 <=> pc[o] \in {"flock", "inside"}
    /\ \A p \in Process :
          \/ active[p] = NoEntry /\ \A o \in Owner : ProcessOf[o] = p => opened[o] = 0
          \/ \E o \in Owner : /\ ProcessOf[o] = p /\ opened[o] # 0
                              /\ active[p] = [inode |-> opened[o], holders |-> 1]

\* The flocks on the index directory: an exclusive one is alone, a reader
\* without a lock file has a shared one, and whoever may create the lock file
\* without having seen one has an exclusive one; nobody has one and waits for
\* another, but for what its outer calls have.
LegacyIsSound ==
    /\ \A o, other \in Owner : o # other /\ legacy[o] = "exclusive" => legacy[other] = "none"
    /\ \A o, other \in Owner : legacy[o] = "exclusive" => outer[other] = 0
    /\ \A o \in Owner : legacy[o] # "none" =>
          pc[o] \in {"recheck", "insideLegacy", "open", "flock", "inside"}
    /\ \A o \in Owner : pc[o] \in {"recheck", "insideLegacy"} => legacy[o] = "shared"
    /\ \A o \in Owner : pc[o] = "open" /\ seen[o] = 0 => legacy[o] = "exclusive"

\* There is an inode left for a lock file to create.
InodeIsLeft == sibling = 0 => made < MaxInode

\* A lock file beside a reader that went without is not the first one.
NoFirstFile == (\E o \in Owner : ReadsWithout(o)) /\ sibling # 0 => made > 1

IInv ==
    /\ TypeOK /\ GuardIsExclusive /\ OpenIsRegistered /\ LegacyIsSound
    /\ InodeIsLeft /\ NoFirstFile

-----------------------------------------------------------------------------
LEMMA InitEstablishes == Init => IInv
<1> SUFFICES ASSUME Init PROVE IInv
  OBVIOUS
<1> USE OwnersHaveProcesses, BoundsAreNumbers
<1>1. TypeOK
  BY DEF Init, TypeOK, NoEntry, Mode, Reader
<1>2. GuardIsExclusive /\ OpenIsRegistered /\ LegacyIsSound
  BY DEF Init, GuardIsExclusive, Guarded, OpenIsRegistered, LegacyIsSound
<1>3. InodeIsLeft /\ NoFirstFile
  BY DEF Init, InodeIsLeft, NoFirstFile, ReadsWithout
<1> QED
  BY <1>1, <1>2, <1>3 DEF IInv

\* Nobody else has a lock file open while one owner has the parent directory.
LEMMA OthersHaveNoneOpen ==
    ASSUME GuardIsExclusive, OpenIsRegistered, NEW o \in Owner, pc[o] \in Guarded
    PROVE  \A other \in Owner \ {o} : opened[other] = 0
  BY DEF GuardIsExclusive, OpenIsRegistered, Guarded

-----------------------------------------------------------------------------
LEMMA CallKeeps ==
    ASSUME IInv, NEW o \in Owner, NEW m \in Mode, Call(o, m), UNCHANGED thread
    PROVE  IInv'
<1> USE DEF Call, Goto, files
<1>1. TypeOK'
  BY DEF IInv, TypeOK
<1>2. GuardIsExclusive'
  BY DEF IInv, TypeOK, GuardIsExclusive, Guarded
<1>3. OpenIsRegistered'
  BY DEF IInv, TypeOK, OpenIsRegistered
<1>4. LegacyIsSound'
  BY DEF IInv, TypeOK, LegacyIsSound
<1>5. InodeIsLeft' /\ NoFirstFile'
  BY DEF IInv, TypeOK, InodeIsLeft, NoFirstFile, ReadsWithout
<1> QED
  BY <1>1, <1>2, <1>3, <1>4, <1>5 DEF IInv

LEMMA CallAgainKeeps ==
    ASSUME IInv, NEW o \in Owner, NEW m \in Mode, CallAgain(o, m), UNCHANGED thread
    PROVE  IInv'
<1> USE DEF CallAgain, files
<1>1. TypeOK'
  BY BoundsAreNumbers DEF IInv, TypeOK
<1>2. GuardIsExclusive' /\ OpenIsRegistered' /\ LegacyIsSound' /\ InodeIsLeft' /\ NoFirstFile'
  BY DEF IInv, GuardIsExclusive, Guarded, OpenIsRegistered, LegacyIsSound, InodeIsLeft, NoFirstFile, ReadsWithout
<1> QED
  BY <1>1, <1>2 DEF IInv

LEMMA CallAgainWithoutKeeps ==
    ASSUME IInv, NEW o \in Owner, NEW m \in Mode, CallAgainWithout(o, m), UNCHANGED thread
    PROVE  IInv'
<1> USE DEF CallAgainWithout, Goto, files
<1>1. TypeOK'
  BY BoundsAreNumbers DEF IInv, TypeOK
<1>2. GuardIsExclusive'
  BY DEF IInv, TypeOK, GuardIsExclusive, Guarded
<1>3. OpenIsRegistered'
  BY DEF IInv, TypeOK, OpenIsRegistered
<1>4. \A other \in Owner : legacy[other] # "exclusive"
  BY DEF IInv, TypeOK, LegacyIsSound
<1>5. LegacyIsSound'
  BY <1>4 DEF IInv, TypeOK, LegacyIsSound
<1>6. InodeIsLeft' /\ NoFirstFile'
  BY DEF IInv, TypeOK, InodeIsLeft, NoFirstFile, ReadsWithout
<1> QED
  BY <1>1, <1>2, <1>3, <1>5, <1>6 DEF IInv

LEMMA LstatKeeps ==
    ASSUME IInv, NEW o \in Owner, Lstat(o), UNCHANGED thread
    PROVE  IInv'
<1> USE DEF Lstat, Goto, files
<1>1. TypeOK'
  BY DEF IInv, TypeOK
<1>2. GuardIsExclusive'
  BY DEF IInv, TypeOK, GuardIsExclusive, Guarded
<1>3. OpenIsRegistered'
  BY DEF IInv, TypeOK, OpenIsRegistered
<1>4. LegacyIsSound'
  BY DEF IInv, TypeOK, LegacyIsSound
<1>5. InodeIsLeft' /\ NoFirstFile'
  BY DEF IInv, TypeOK, InodeIsLeft, NoFirstFile, ReadsWithout
<1> QED
  BY <1>1, <1>2, <1>3, <1>4, <1>5 DEF IInv

LEMMA CheckActiveKeeps ==
    ASSUME IInv, NEW o \in Owner, CheckActive(o), UNCHANGED thread
    PROVE  IInv'
<1> USE DEF CheckActive, Refuse, ReleaseAll, Goto, files
<1>1. TypeOK'
  BY BoundsAreNumbers DEF IInv, TypeOK
<1>2. GuardIsExclusive'
  BY DEF IInv, TypeOK, GuardIsExclusive, Guarded
<1>3. opened[o] = 0
  BY DEF IInv, OpenIsRegistered
<1>4. OpenIsRegistered'
  BY <1>3 DEF IInv, TypeOK, OpenIsRegistered
<1>5. LegacyIsSound'
  BY DEF IInv, TypeOK, LegacyIsSound
<1>6. InodeIsLeft' /\ NoFirstFile'
  BY DEF IInv, TypeOK, InodeIsLeft, NoFirstFile, ReadsWithout
<1> QED
  BY <1>1, <1>2, <1>4, <1>5, <1>6 DEF IInv

LEMMA TakeGuardKeeps ==
    ASSUME IInv, NEW o \in Owner, TakeGuard(o), UNCHANGED thread
    PROVE  IInv'
<1> USE DEF TakeGuard, Goto, files
<1>1. TypeOK'
  BY DEF IInv, TypeOK
<1>2. GuardIsExclusive'
  BY DEF IInv, TypeOK, GuardIsExclusive, Guarded
<1>3. OpenIsRegistered'
  BY DEF IInv, TypeOK, OpenIsRegistered
<1>4. LegacyIsSound'
  BY DEF IInv, TypeOK, LegacyIsSound
<1>5. InodeIsLeft' /\ NoFirstFile'
  BY DEF IInv, TypeOK, InodeIsLeft, NoFirstFile, ReadsWithout
<1> QED
  BY <1>1, <1>2, <1>3, <1>4, <1>5 DEF IInv

LEMMA TakeLegacyKeeps ==
    ASSUME IInv, NEW o \in Owner, TakeLegacy(o), UNCHANGED thread
    PROVE  IInv'
<1> USE DEF TakeLegacy, Goto, files
<1>1. TypeOK'
  BY DEF IInv, TypeOK, Mode, Writer, Creator, Reader
<1>2. GuardIsExclusive'
  BY DEF IInv, TypeOK, GuardIsExclusive, Guarded
<1>3. OpenIsRegistered'
  BY DEF IInv, TypeOK, OpenIsRegistered
<1>4. LegacyIsSound'
  BY DEF IInv, TypeOK, LegacyIsSound, KeepsDirectory, Excludes
<1>5. InodeIsLeft' /\ NoFirstFile'
  BY DEF IInv, TypeOK, InodeIsLeft, NoFirstFile, ReadsWithout
<1> QED
  BY <1>1, <1>2, <1>3, <1>4, <1>5 DEF IInv

LEMMA RecheckKeeps ==
    ASSUME IInv, NEW o \in Owner, Recheck(o), UNCHANGED thread
    PROVE  IInv'
<1> USE DEF Recheck, Goto, files
<1>1. TypeOK'
  BY DEF IInv, TypeOK, Mode, Reader
<1>2. GuardIsExclusive'
  BY DEF IInv, TypeOK, GuardIsExclusive, Guarded
<1>3. OpenIsRegistered'
  BY DEF IInv, TypeOK, OpenIsRegistered
<1>4. LegacyIsSound'
  BY DEF IInv, TypeOK, LegacyIsSound
<1>5. InodeIsLeft' /\ NoFirstFile'
  BY DEF IInv, TypeOK, InodeIsLeft, NoFirstFile, ReadsWithout
<1> QED
  BY <1>1, <1>2, <1>3, <1>4, <1>5 DEF IInv

LEMMA OpenKeeps ==
    ASSUME IInv, NEW o \in Owner, Open(o), UNCHANGED thread
    PROVE  IInv'
<1> USE DEF Goto, files
<1> DEFINE creates == sibling = 0 /\ mode[o].create
           inode == IF creates THEN made + 1 ELSE sibling
<1>1. /\ IF creates THEN sibling' = inode /\ made' = inode ELSE UNCHANGED files
      /\ pc[o] = "open" /\ UNCHANGED <<mode, seen, outer>>
  BY DEF Open
<1>2. /\ made' \in 0..MaxInode /\ sibling' \in 0..made' /\ made <= made' /\ inode \in 0..made'
      /\ InodeIsLeft'
  BY <1>1, BoundsAreNumbers DEF IInv, TypeOK, InodeIsLeft
<1>3. made' # made => made' > 1 \/ \A other \in Owner : ~ReadsWithout(other)
  <2> SUFFICES ASSUME made' # made, NEW other \in Owner, ReadsWithout(other)
               PROVE  made' > 1
    OBVIOUS
  <2> USE DEF ReadsWithout
  <2>1. legacy[o] # "exclusive"
    BY DEF IInv, LegacyIsSound
  <2>2. seen[o] # 0
    BY <1>1, <2>1 DEF IInv, LegacyIsSound
  <2> QED
    BY <1>1, <2>2, BoundsAreNumbers DEF IInv, TypeOK
<1>4. (\E other \in Owner : ReadsWithout(other)) /\ sibling' # 0 => made' > 1
  BY <1>1, <1>2, <1>3 DEF IInv, TypeOK, NoFirstFile
<1>5. opened[o] = 0 /\ guard = {o} /\ \A other \in Owner \ {o} : opened[other] = 0
  BY <1>1, OthersHaveNoneOpen DEF IInv, OpenIsRegistered, GuardIsExclusive, Guarded
<1>6. \A p \in Process : active[p] = NoEntry
  BY <1>5 DEF IInv, OpenIsRegistered
<1>7. CASE /\ inode # 0 /\ Goto(o, "flock")
           /\ opened' = [opened EXCEPT ![o] = inode]
           /\ depth' = [depth EXCEPT ![o] = 1]
           /\ active' = [active EXCEPT ![ProcessOf[o]] = [inode |-> inode, holders |-> @.holders + 1]]
           /\ UNCHANGED <<guard, legacy, locked>>
  <2>1. active' = [active EXCEPT ![ProcessOf[o]] = [inode |-> inode, holders |-> 1]]
    <3>1. ProcessOf[o] \in Process /\ active[ProcessOf[o]].holders + 1 = 1
      BY <1>6, OwnersHaveProcesses DEF NoEntry
    <3> QED
      BY <1>7, <3>1 DEF IInv, TypeOK
  <2>2. TypeOK'
    <3>1. 0..made \subseteq 0..made' /\ inode \in 0..made' /\ 1 \in 0..MaxDepth
      BY <1>2, BoundsAreNumbers DEF IInv, TypeOK
    <3>2. seen' \in [Owner -> 0..made'] /\ opened' \in [Owner -> 0..made']
      BY <1>1, <1>7, <3>1 DEF IInv, TypeOK
    <3>3. active' \in [Process -> [inode : 0..made', holders : Nat]]
      BY <2>1, <3>1 DEF IInv, TypeOK
    <3>4. depth' \in [Owner -> 0..MaxDepth]
      BY <1>7, <3>1 DEF IInv, TypeOK
    <3> QED
      BY <1>1, <1>2, <1>7, <3>2, <3>3, <3>4 DEF IInv, TypeOK
  <2>3. GuardIsExclusive'
    BY <1>1, <1>7 DEF IInv, TypeOK, GuardIsExclusive, Guarded
  <2>4. OpenIsRegistered'
    BY <1>5, <1>6, <1>7, <2>1, <1>1, OwnersHaveProcesses DEF IInv, TypeOK, OpenIsRegistered
  <2>5. LegacyIsSound'
    BY <1>1, <1>7 DEF IInv, TypeOK, LegacyIsSound
  <2>6. NoFirstFile'
    <3>1. \A other \in Owner : ReadsWithout(other)' => ReadsWithout(other)
      BY <1>1, <1>7 DEF ReadsWithout, IInv, TypeOK
    <3> QED
      BY <1>4, <3>1 DEF NoFirstFile
  <2> QED
    BY <1>2, <2>2, <2>3, <2>4, <2>5, <2>6 DEF IInv
<1>8. CASE Refuse(o) /\ UNCHANGED active
  <2> USE DEF Refuse, ReleaseAll
  <2>1. TypeOK'
    BY <1>1, <1>2, <1>8, BoundsAreNumbers DEF IInv, TypeOK
  <2>2. GuardIsExclusive'
    BY <1>1, <1>5, <1>8 DEF IInv, TypeOK, GuardIsExclusive, Guarded
  <2>3. OpenIsRegistered'
    BY <1>5, <1>6, <1>8, <1>1 DEF IInv, TypeOK, OpenIsRegistered
  <2>4. LegacyIsSound'
    BY <1>1, <1>8 DEF IInv, TypeOK, LegacyIsSound
  <2>5. NoFirstFile'
    <3>1. \A other \in Owner : ReadsWithout(other)' => ReadsWithout(other)
      BY <1>1, <1>8 DEF ReadsWithout, IInv, TypeOK
    <3> QED
      BY <1>4, <3>1 DEF NoFirstFile
  <2> QED
    BY <1>2, <2>1, <2>2, <2>3, <2>4, <2>5 DEF IInv
<1> QED
  BY <1>7, <1>8 DEF Open

\* Whoever has a lock file open is its only holder, and unregistering empties
\* the entry.
LEMMA UnregisterEmpties ==
    ASSUME IInv, NEW o \in Owner, pc[o] \in {"flock", "inside"}, Unregister(o)
    PROVE  active' = [p \in Process |-> NoEntry]
<1>1. opened[o] # 0 /\ \A other \in Owner \ {o} : opened[other] = 0
  BY OthersHaveNoneOpen DEF IInv, OpenIsRegistered, Guarded
<1>2. active[ProcessOf[o]] = [inode |-> opened[o], holders |-> 1]
  BY <1>1, OwnersHaveProcesses DEF IInv, OpenIsRegistered
<1>3. \A p \in Process \ {ProcessOf[o]} : active[p] = NoEntry
  BY <1>1 DEF IInv, OpenIsRegistered
<1>4. active' = [active EXCEPT ![ProcessOf[o]] = NoEntry]
  BY <1>2, OwnersHaveProcesses DEF Unregister, IInv, TypeOK
<1> QED
  BY <1>3, <1>4, OwnersHaveProcesses DEF IInv, TypeOK

LEMMA FlockKeeps ==
    ASSUME IInv, NEW o \in Owner, Flock(o), UNCHANGED thread
    PROVE  IInv'
<1> USE DEF Goto, files
<1>1. pc[o] = "flock" /\ UNCHANGED <<files, mode, seen, outer>>
  BY DEF Flock
<1>2. CASE /\ locked' = locked \union {o} /\ Goto(o, "inside")
           /\ UNCHANGED <<guard, legacy, opened, depth, active>>
  <2>1. TypeOK'
    BY <1>1, <1>2 DEF IInv, TypeOK
  <2>2. GuardIsExclusive'
    BY <1>1, <1>2 DEF IInv, TypeOK, GuardIsExclusive, Guarded
  <2>3. OpenIsRegistered'
    BY <1>1, <1>2 DEF IInv, TypeOK, OpenIsRegistered
  <2>4. LegacyIsSound'
    BY <1>1, <1>2 DEF IInv, TypeOK, LegacyIsSound
  <2>5. InodeIsLeft' /\ NoFirstFile'
    BY <1>1, <1>2 DEF IInv, TypeOK, InodeIsLeft, NoFirstFile, ReadsWithout
  <2> QED
    BY <2>1, <2>2, <2>3, <2>4, <2>5 DEF IInv
<1>3. CASE Refuse(o) /\ Unregister(o)
  <2> USE DEF Refuse, ReleaseAll
  <2>1. active' = [p \in Process |-> NoEntry]
    BY <1>1, <1>3, UnregisterEmpties
  <2>2. guard = {o} /\ \A other \in Owner \ {o} : opened[other] = 0
    BY <1>1, OthersHaveNoneOpen DEF IInv, GuardIsExclusive, Guarded
  <2>3. TypeOK'
    BY <1>1, <1>3, <2>1, BoundsAreNumbers DEF IInv, TypeOK, NoEntry
  <2>4. GuardIsExclusive'
    BY <1>1, <1>3, <2>2 DEF IInv, TypeOK, GuardIsExclusive, Guarded
  <2>5. OpenIsRegistered'
    BY <1>1, <1>3, <2>1, <2>2 DEF IInv, TypeOK, OpenIsRegistered
  <2>6. LegacyIsSound'
    BY <1>1, <1>3 DEF IInv, TypeOK, LegacyIsSound
  <2>7. InodeIsLeft' /\ NoFirstFile'
    BY <1>1, <1>3 DEF IInv, TypeOK, InodeIsLeft, NoFirstFile, ReadsWithout
  <2> QED
    BY <2>3, <2>4, <2>5, <2>6, <2>7 DEF IInv
<1> QED
  BY <1>2, <1>3 DEF Flock

LEMMA ExitNestedKeeps ==
    ASSUME IInv, NEW o \in Owner, ExitNested(o), UNCHANGED thread
    PROVE  IInv'
<1> USE DEF ExitNested, files
<1>1. TypeOK'
  BY BoundsAreNumbers DEF IInv, TypeOK
<1>2. GuardIsExclusive' /\ OpenIsRegistered' /\ LegacyIsSound' /\ InodeIsLeft' /\ NoFirstFile'
  BY DEF IInv, GuardIsExclusive, Guarded, OpenIsRegistered, LegacyIsSound, InodeIsLeft, NoFirstFile, ReadsWithout
<1> QED
  BY <1>1, <1>2 DEF IInv

LEMMA LeaveKeeps ==
    ASSUME IInv, NEW o \in Owner, Leave(o), UNCHANGED thread
    PROVE  IInv'
<1> USE DEF Leave, Goto, files
<1>1. /\ active' = IF pc[o] = "inside" THEN [p \in Process |-> NoEntry] ELSE active
      /\ pc[o] = "inside" => \A other \in Owner \ {o} : opened[other] = 0
  BY UnregisterEmpties, OthersHaveNoneOpen DEF IInv, Guarded
<1>2. TypeOK'
  BY <1>1, BoundsAreNumbers DEF IInv, TypeOK, Mode, Reader, NoEntry
<1>3. GuardIsExclusive'
  BY DEF IInv, TypeOK, GuardIsExclusive, Guarded
<1>4. OpenIsRegistered'
  <2>1. /\ opened' = [opened EXCEPT ![o] = 0] /\ pc[o] \in {"inside", "insideLegacy", "refused"}
        /\ pc' = [pc EXCEPT ![o] = "idle"] \/ pc' = [pc EXCEPT ![o] = "insideLegacy"]
    OBVIOUS
  <2> HIDE DEF Leave
  <2>2. pc[o] # "inside" => opened[o] = 0 /\ opened' = opened
    BY <2>1 DEF IInv, TypeOK, OpenIsRegistered
  <2>3. \A other \in Owner : opened'[other] # 0 <=> pc'[other] \in {"flock", "inside"}
    BY <2>1 DEF IInv, TypeOK, OpenIsRegistered
  <2>4. CASE pc[o] = "inside"
    BY <1>1, <2>1, <2>3, <2>4 DEF IInv, TypeOK, OpenIsRegistered
  <2>5. CASE pc[o] # "inside"
    BY <1>1, <2>2, <2>3, <2>5 DEF IInv, OpenIsRegistered
  <2> QED
    BY <2>4, <2>5
<1>5. LegacyIsSound'
  BY DEF IInv, TypeOK, LegacyIsSound
<1>6. InodeIsLeft' /\ NoFirstFile'
  BY DEF IInv, TypeOK, InodeIsLeft, NoFirstFile, ReadsWithout
<1> QED
  BY <1>2, <1>3, <1>4, <1>5, <1>6 DEF IInv

LEMMA DieKeeps ==
    ASSUME IInv, NEW q \in Process, Die(q), UNCHANGED thread
    PROVE  IInv'
<1> USE DEF Die, files
<1>1. TypeOK'
  BY BoundsAreNumbers DEF IInv, TypeOK, Mode, Reader, NoEntry
<1>2. GuardIsExclusive'
  BY DEF IInv, TypeOK, GuardIsExclusive, Guarded
<1>3. OpenIsRegistered'
  BY OwnersHaveProcesses DEF IInv, TypeOK, OpenIsRegistered
<1>4. LegacyIsSound'
  BY DEF IInv, TypeOK, LegacyIsSound
<1>5. InodeIsLeft' /\ NoFirstFile'
  BY DEF IInv, TypeOK, InodeIsLeft, NoFirstFile, ReadsWithout
<1> QED
  BY <1>1, <1>2, <1>3, <1>4, <1>5 DEF IInv

LEMMA UnlinkKeeps ==
    ASSUME IInv, Unlink, UNCHANGED thread
    PROVE  IInv'
  BY BoundsAreNumbers
     DEF Unlink, IInv, TypeOK, GuardIsExclusive, Guarded, OpenIsRegistered, LegacyIsSound,
         InodeIsLeft, NoFirstFile, ReadsWithout

-----------------------------------------------------------------------------
LEMMA StepKeeps == IInv /\ [Next]_vars => IInv'
<1> SUFFICES ASSUME IInv, [Next]_vars PROVE IInv'
  OBVIOUS
<1>1. CASE UNCHANGED thread /\ \E o \in Owner, m \in Mode :
              Call(o, m) \/ CallAgain(o, m) \/ CallAgainWithout(o, m)
  BY <1>1, CallKeeps, CallAgainKeeps, CallAgainWithoutKeeps
<1>2. CASE UNCHANGED thread /\ \E o \in Owner :
              Lstat(o) \/ CheckActive(o) \/ TakeGuard(o) \/ TakeLegacy(o) \/ Recheck(o)
  BY <1>2, LstatKeeps, CheckActiveKeeps, TakeGuardKeeps, TakeLegacyKeeps, RecheckKeeps
<1>3. CASE UNCHANGED thread /\ \E o \in Owner : Open(o) \/ Flock(o) \/ ExitNested(o) \/ Leave(o)
  BY <1>3, OpenKeeps, FlockKeeps, ExitNestedKeeps, LeaveKeeps
<1>4. CASE UNCHANGED thread /\ \E p \in Process : Die(p)
  BY <1>4, DieKeeps
<1>5. CASE UNCHANGED thread /\ Unlink
  BY <1>5, UnlinkKeeps
<1>6. CASE UNCHANGED vars
  BY <1>6 DEF vars, files, IInv, TypeOK, GuardIsExclusive, Guarded, OpenIsRegistered,
              LegacyIsSound, InodeIsLeft, NoFirstFile, ReadsWithout
<1> QED
  BY <1>1, <1>2, <1>3, <1>4, <1>5, <1>6 DEF Next, OnItsThread, Step

LEMMA Invariance == Spec => []IInv
<1>1. Init => IInv
  BY InitEstablishes
<1>2. IInv /\ [Next]_vars => IInv'
  BY StepKeeps
<1> QED
  BY <1>1, <1>2, PTL DEF Spec

\* Every variable of the lock keeps its type, and no more inodes are made than
\* the bound (index_lock).
THEOREM TypeCorrect == Spec => []TypeOK
<1>1. IInv => TypeOK
  BY DEF IInv
<1> QED
  BY <1>1, Invariance, PTL

\* A writer is alone, whatever becomes of the lock file, and an index without
\* one gets none under a reader (index_lock: "no contender can pass the path
\* check while an older inode is still held").
THEOREM WritersAreAlone == Spec => []MutualExclusion
<1>1. IInv => MutualExclusion
  <2> SUFFICES ASSUME IInv PROVE MutualExclusion
    OBVIOUS
  <2>1. ASSUME NEW o \in Owner, NEW other \in Owner, pc[o] = "inside", pc[other] = "inside"
        PROVE  o = other
    <3>1. guard = {o} /\ guard = {other}
      BY <2>1 DEF IInv, GuardIsExclusive, Guarded
    <3> QED
      BY <3>1
  <2> QED
    BY <2>1 DEF IInv, NoFirstFile, MutualExclusion
<1> QED
  BY <1>1, Invariance, PTL

\* The registry of a process names the inode that its owners have open and
\* counts them (_active_lock_identities).
THEOREM RegistryCounts == Spec => []RegistryIsExact
<1>1. IInv => RegistryIsExact
  <2> SUFFICES ASSUME IInv, NEW p \in Process
               PROVE  /\ active[p].holders = Cardinality(Holders(p))
                      /\ \A o \in Holders(p) : opened[o] = active[p].inode
                      /\ active[p].holders = 0 => active[p].inode = 0
    BY DEF RegistryIsExact
  <2>1. CASE active[p] = NoEntry /\ \A o \in Owner : ProcessOf[o] = p => opened[o] = 0
    <3>1. Holders(p) = {}
      BY <2>1 DEF Holders
    <3> QED
      BY <2>1, <3>1, FS_EmptySet DEF NoEntry
  <2>2. CASE \E o \in Owner : /\ ProcessOf[o] = p /\ opened[o] # 0
                              /\ active[p] = [inode |-> opened[o], holders |-> 1]
    <3>1. PICK o \in Owner : /\ ProcessOf[o] = p /\ opened[o] # 0
                             /\ active[p] = [inode |-> opened[o], holders |-> 1]
      BY <2>2
    <3>2. \A other \in Owner \ {o} : opened[other] = 0
      BY <3>1, OthersHaveNoneOpen DEF IInv, OpenIsRegistered, Guarded
    <3>3. Holders(p) = {o}
      BY <3>1, <3>2 DEF Holders
    <3>4. Cardinality(Holders(p)) = 1
      BY <3>3, FS_Singleton
    <3> QED
      BY <3>1, <3>3, <3>4
  <2> QED
    BY <2>1, <2>2 DEF IInv, OpenIsRegistered
<1> QED
  BY <1>1, Invariance, PTL

\* Owners wait in a circle only around a reader without a lock file that calls
\* again or around two tasks of one thread: else the parent directory comes
\* before the index directory, and the lock file, behind both, is never waited
\* for (index_lock).
THEOREM NoOtherCircle == Spec => []CirclesAreKnown
<1>1. IInv => CirclesAreKnown
  <2> SUFFICES ASSUME IInv, NEW S \in SUBSET Owner, WaitInACircle(S),
                      \A o \in S : outer[o] = 0,
                      \A o, other \in S : o # other => thread[o] # thread[other]
               PROVE  FALSE
    BY DEF CirclesAreKnown, KnownCircle, IInv, TypeOK
  <2>1. ASSUME NEW o \in S
        PROVE  \E other \in S : \/ pc[o] = "guard" /\ other \in guard
                                \/ pc[o] = "legacy" /\ legacy[other] # "none"
    <3>1. PICK other \in S : WaitsFor(o, other)
      BY DEF WaitInACircle
    <3>2. ~(other # o /\ thread[other] = thread[o])
      OBVIOUS
    <3>3. ~(pc[o] = "flock" /\ KeepsFile(other, o))
      <4> SUFFICES ASSUME pc[o] = "flock", KeepsFile(other, o) PROVE FALSE
        OBVIOUS
      <4>1. other # o /\ opened[other] = opened[o]
        BY DEF KeepsFile, Excludes, HeldOf
      <4>2. opened[other] = 0 /\ opened[o] # 0
        BY <4>1, OthersHaveNoneOpen DEF IInv, OpenIsRegistered, Guarded
      <4> QED
        BY <4>1, <4>2
    <3>4. KeepsDirectory(other, o) => legacy[other] # "none"
      BY DEF KeepsDirectory, Excludes, IInv, TypeOK
    <3> QED
      BY <3>1, <3>2, <3>3, <3>4 DEF WaitsFor
  <2>2. ASSUME NEW o \in S, pc[o] = "legacy" PROVE FALSE
    <3>1. PICK other \in S : legacy[other] # "none"
      BY <2>1, <2>2
    <3>2. pc[other] \in {"recheck", "insideLegacy", "open", "flock", "inside"}
      BY <3>1 DEF IInv, LegacyIsSound
    <3> QED
      BY <2>1, <3>2
  <2>3. PICK o \in S : pc[o] = "guard"
    BY <2>1, <2>2 DEF WaitInACircle
  <2>4. PICK other \in S : other \in guard
    BY <2>1, <2>3
  <2>5. pc[other] \in Guarded /\ pc[other] # "legacy"
    BY <2>2, <2>4 DEF IInv, GuardIsExclusive
  <2>6. pc[other] \in {"guard", "legacy"}
    BY <2>1
  <2> QED
    BY <2>5, <2>6 DEF Guarded
<1> QED
  BY <1>1, Invariance, PTL

=============================================================================
