--------------------------- MODULE GenerationLock ---------------------------
(***************************************************************************)
(* `index_lock` (services/index/locking.py) on POSIX: an advisory lock on  *)
(* the published index.                                                    *)
(*                                                                         *)
(* The lock is a file beside the index directory.  It may be absent (an    *)
(* index older than the lock), and something else may remove it while it   *)
(* is held, so a caller holds an exclusive flock on the parent directory   *)
(* from before it looks at the file until it is done; only a reader of an  *)
(* index without a lock file lets go of it, and holds the index directory  *)
(* itself instead.                                                         *)
(*                                                                         *)
(* An owner is a thread of a process, or a task: the tasks of one event    *)
(* loop share a thread, which a call keeps until it returns.  Within a     *)
(* process the inode that is locked is registered, so that a replaced file *)
(* is refused.                                                             *)
(***************************************************************************)
EXTENDS Integers, FiniteSets

CONSTANTS
    Owner,
    Process,
    ProcessOf,   \* the process of each owner
    Thread,
    Layout,      \* how owners may be spread over threads: what `thread` may be
    MaxInode,    \* bound: lock files ever created
    MaxDepth     \* bound: nested acquisitions of one owner

ASSUME OwnersHaveProcesses == ProcessOf \in [Owner -> Process]
ASSUME ThreadsAreOfOneProcess ==
    /\ Layout \subseteq [Owner -> Thread]
    /\ \A l \in Layout : \A o, other \in Owner :
          l[o] = l[other] => ProcessOf[o] = ProcessOf[other]
ASSUME BoundsAreNumbers == MaxInode \in Nat \ {0} /\ MaxDepth \in Nat \ {0}

VARIABLES
    thread,   \* the thread of each owner, tasks of one event loop having the same; never changes
    sibling,  \* the inode of the lock file; 0 if there is none
    made,     \* inodes created so far
    pc,       \* what each owner is about to do
    mode,     \* what it asked for: [exclusive, create]
    seen,     \* lock_identity: the inode its lstat saw
    opened,   \* opened_identity: the inode it has open; 0 if none
    depth,    \* how often it holds the sibling lock
    guard,    \* owners with the flock on the parent directory
    legacy,   \* the flock on the index directory of each owner's innermost call
    outer,    \* calls around it that read without a lock file, each with a shared flock
    locked,   \* owners with the flock on their opened inode
    active    \* _active_lock_identities: inode and holders, per process

vars == <<thread, sibling, made, pc, mode, seen, opened, depth, guard, legacy, outer, locked, active>>

NoEntry == [inode |-> 0, holders |-> 0]
Writer == [exclusive |-> TRUE, create |-> TRUE]
Creator == [exclusive |-> FALSE, create |-> TRUE]
Reader == [exclusive |-> FALSE, create |-> FALSE]
Mode == {Writer, Creator, Reader}

\* Every variable keeps its type; an owner holds what its step says, and the
\* registered inode counts the owners that registered it.
TypeOK ==
    /\ thread \in Layout
    /\ made \in 0..MaxInode /\ sibling \in 0..made
    /\ pc \in [Owner -> {"idle", "lstat", "guard", "legacy", "recheck", "open", "flock", "inside",
                         "insideLegacy", "refused"}]
    /\ mode \in [Owner -> Mode]
    /\ seen \in [Owner -> 0..made] /\ opened \in [Owner -> 0..made]
    /\ depth \in [Owner -> 0..MaxDepth]
    /\ guard \subseteq Owner /\ locked \subseteq Owner
    /\ legacy \in [Owner -> {"none", "shared", "exclusive"}]
    /\ outer \in [Owner -> 0..MaxDepth]
    /\ active \in [Process -> [inode : 0..made, holders : Nat]]

Init ==
    /\ thread \in Layout
    /\ sibling \in {0, 1} /\ made = sibling
    /\ pc = [o \in Owner |-> "idle"] /\ mode = [o \in Owner |-> Reader]
    /\ seen = [o \in Owner |-> 0] /\ opened = [o \in Owner |-> 0] /\ depth = [o \in Owner |-> 0]
    /\ guard = {} /\ legacy = [o \in Owner |-> "none"]
    /\ outer = [o \in Owner |-> 0] /\ locked = {}
    /\ active = [p \in Process |-> NoEntry]

Goto(o, p) == pc' = [pc EXCEPT ![o] = p]
files == <<sibling, made>>

\* No call awaits before it is inside, so the tasks of one thread stand still
\* while one of them calls, however long it waits.
Resting == {"idle", "inside", "insideLegacy", "refused"}
Runs(o) == \A other \in Owner \ {o} : thread[other] = thread[o] => pc[other] \in Resting

\* flock: an exclusive lock excludes every other.
Excludes(held, exclusive) == held = "exclusive" \/ (held = "shared" /\ exclusive)

\* What the owners hold of one inode of the lock file.
HeldOf(inode) ==
    [o \in Owner |-> IF o \in locked /\ opened[o] = inode
                     THEN IF mode[o].exclusive THEN "exclusive" ELSE "shared" ELSE "none"]

\* What `other` has keeps o from the index directory: every call has a
\* descriptor of its own, so an owner's outer calls exclude its inner one.
KeepsDirectory(other, o) ==
    \/ other # o /\ Excludes(legacy[other], mode[o].create)
    \/ outer[other] > 0 /\ mode[o].create

KeepsFile(other, o) == other # o /\ Excludes(HeldOf(opened[o])[other], mode[o].exclusive)

\* Everything a call holds, given back: on every error and at the end.
ReleaseAll(o) ==
    /\ guard' = guard \ {o}
    /\ legacy' = [legacy EXCEPT ![o] = "none"]
    /\ locked' = locked \ {o}
    /\ opened' = [opened EXCEPT ![o] = 0]
    /\ depth' = [depth EXCEPT ![o] = 0]

\* Owners of a process that registered an inode.
Holders(p) == {o \in Owner : ProcessOf[o] = p /\ opened[o] # 0}

Unregister_Keeps(o) ==   \* mutant: the last holder leaves its inode registered
    LET p == ProcessOf[o]
    IN  active' = [active EXCEPT ![p] = IF @.inode # opened[o] \/ @.holders <= 1 THEN @
                                        ELSE [@ EXCEPT !.holders = @ - 1]]

Unregister(o) ==
    LET p == ProcessOf[o]
    IN  active' = [active EXCEPT ![p] = IF @.inode # opened[o] THEN @
                                        ELSE IF @.holders <= 1 THEN NoEntry
                                        ELSE [@ EXCEPT !.holders = @ - 1]]

Refuse(o) == Goto(o, "refused") /\ ReleaseAll(o)

-----------------------------------------------------------------------------
Call(o, m) ==
    /\ pc[o] = "idle"
    /\ Goto(o, "lstat")
    /\ mode' = [mode EXCEPT ![o] = m]
    /\ UNCHANGED <<files, seen, opened, depth, guard, legacy, outer, locked, active>>

\* A reader without a lock file is in no entry of _held: calling again, it does
\* all of it again.
CallAgainWithout(o, m) ==
    /\ pc[o] = "insideLegacy" /\ outer[o] + 1 < MaxDepth
    /\ Goto(o, "lstat")
    /\ mode' = [mode EXCEPT ![o] = m]
    /\ outer' = [outer EXCEPT ![o] = @ + 1]
    /\ legacy' = [legacy EXCEPT ![o] = "none"]
    /\ UNCHANGED <<files, seen, opened, depth, guard, locked, active>>

\* The holder calls again: one more entry, unless it asks for more.
CallAgain(o, m) ==
    /\ pc[o] = "inside" /\ outer[o] + depth[o] < MaxDepth
    /\ m.exclusive => mode[o].exclusive   \* "cannot upgrade": an exception, nothing changes
    /\ depth' = [depth EXCEPT ![o] = @ + 1]
    /\ UNCHANGED <<files, pc, mode, seen, opened, guard, legacy, outer, locked, active>>

Lstat(o) ==
    /\ pc[o] = "lstat"
    /\ Goto(o, "guard")
    /\ seen' = [seen EXCEPT ![o] = sibling]
    /\ UNCHANGED <<files, mode, opened, depth, guard, legacy, outer, locked, active>>

\* The inode seen is compared with the one in use in this process, which may
\* have been registered since; then the parent directory is waited for.
CheckActive(o) ==
    /\ pc[o] = "guard" /\ active[ProcessOf[o]] # NoEntry
    /\ active[ProcessOf[o]].inode # seen[o]
    /\ Refuse(o)
    /\ UNCHANGED <<files, mode, seen, outer, active>>

TakeGuard_Shared(o) ==   \* mutant: the parent directory is locked shared
    /\ pc[o] = "guard"
    /\ guard' = guard \union {o}
    /\ Goto(o, IF seen[o] = 0 THEN "legacy" ELSE "open")
    /\ UNCHANGED <<files, mode, seen, opened, depth, legacy, outer, locked, active>>

TakeGuard(o) ==
    /\ pc[o] = "guard" /\ guard = {}
    /\ guard' = {o}
    /\ Goto(o, IF seen[o] = 0 THEN "legacy" ELSE "open")
    /\ UNCHANGED <<files, mode, seen, opened, depth, legacy, outer, locked, active>>

\* No lock file: the index directory is locked, so that none appears under a
\* reader.
TakeLegacy(o) ==
    /\ pc[o] = "legacy" /\ \A other \in Owner : ~KeepsDirectory(other, o)
    /\ legacy' = [legacy EXCEPT ![o] = IF mode[o].create THEN "exclusive" ELSE "shared"]
    /\ Goto(o, IF mode[o].create THEN "open" ELSE "recheck")
    /\ UNCHANGED <<files, mode, seen, opened, depth, guard, outer, locked, active>>

Recheck_KeepsParent(o) ==   \* mutant: it starts over with the parent directory locked
    /\ pc[o] = "recheck"
    /\ \/ /\ sibling = 0
          /\ guard' = guard \ {o}
          /\ Goto(o, "insideLegacy") /\ UNCHANGED <<legacy, mode>>
       \/ /\ sibling # 0
          /\ legacy' = [legacy EXCEPT ![o] = "none"]
          /\ mode' = [mode EXCEPT ![o] = Reader]
          /\ Goto(o, "lstat") /\ UNCHANGED guard
    /\ UNCHANGED <<files, seen, opened, depth, outer, locked, active>>

\* A writer may have created the lock file meanwhile: start over with it.
Recheck(o) ==
    /\ pc[o] = "recheck"
    /\ guard' = guard \ {o}
    /\ \/ /\ sibling = 0
          /\ Goto(o, "insideLegacy") /\ UNCHANGED <<legacy, mode>>
       \/ /\ sibling # 0
          /\ legacy' = [legacy EXCEPT ![o] = "none"]
          /\ mode' = [mode EXCEPT ![o] = Reader]
          /\ Goto(o, "lstat")
    /\ UNCHANGED <<files, seen, opened, depth, outer, locked, active>>

\* open(), with O_CREAT for a writer.  What was opened must be what was seen
\* and what the process has in use; it is registered.
Open(o) ==
    /\ pc[o] = "open"
    /\ LET creates == sibling = 0 /\ mode[o].create
           inode == IF creates THEN made + 1 ELSE sibling
           entry == active[ProcessOf[o]]
       IN  /\ IF creates THEN sibling' = inode /\ made' = inode ELSE UNCHANGED files
           /\ IF /\ inode # 0
                 /\ seen[o] \in {0, inode}
                 /\ entry = NoEntry \/ entry.inode = inode
              THEN /\ opened' = [opened EXCEPT ![o] = inode]
                   /\ depth' = [depth EXCEPT ![o] = 1]
                   /\ active' = [active EXCEPT ![ProcessOf[o]] =
                                     [inode |-> inode, holders |-> @.holders + 1]]
                   /\ Goto(o, "flock")
                   /\ UNCHANGED <<guard, legacy, locked>>
              ELSE Refuse(o) /\ UNCHANGED active
    /\ UNCHANGED <<mode, seen, outer>>

\* The flock on the file; after the wait the path must still name it.
Flock(o) ==
    /\ pc[o] = "flock" /\ \A other \in Owner : ~KeepsFile(other, o)
    /\ IF sibling = opened[o]
       THEN /\ locked' = locked \union {o}
            /\ Goto(o, "inside")
            /\ UNCHANGED <<guard, legacy, opened, depth, active>>
       ELSE Refuse(o) /\ Unregister(o)
    /\ UNCHANGED <<files, mode, seen, outer>>

ExitNested(o) ==
    /\ pc[o] = "inside" /\ depth[o] > 1
    /\ depth' = [depth EXCEPT ![o] = @ - 1]
    /\ UNCHANGED <<files, pc, mode, seen, opened, guard, legacy, outer, locked, active>>

\* The last exit of a call, or the exception of a refusal reaching the caller;
\* inside another call it goes on as a reader without a lock file.
Leave(o) ==
    /\ pc[o] \in {"inside", "insideLegacy", "refused"} /\ depth[o] <= 1
    /\ guard' = guard \ {o} /\ locked' = locked \ {o}
    /\ opened' = [opened EXCEPT ![o] = 0] /\ depth' = [depth EXCEPT ![o] = 0]
    /\ \/ outer[o] = 0 /\ Goto(o, "idle")
          /\ legacy' = [legacy EXCEPT ![o] = "none"] /\ UNCHANGED outer
       \/ outer[o] > 0 /\ Goto(o, "insideLegacy")
          /\ legacy' = [legacy EXCEPT ![o] = "shared"] /\ outer' = [outer EXCEPT ![o] = @ - 1]
    /\ IF pc[o] = "inside" THEN Unregister(o) ELSE UNCHANGED active
    /\ mode' = [mode EXCEPT ![o] = Reader] /\ seen' = [seen EXCEPT ![o] = 0]
    /\ UNCHANGED files

\* The kernel closes what a process that dies had open.
Die(p) ==
    LET dead == {o \in Owner : ProcessOf[o] = p}
        without(f, v) == [o \in Owner |-> IF o \in dead THEN v ELSE f[o]]
    IN  /\ \E o \in dead : pc[o] # "idle"
        /\ pc' = without(pc, "idle") /\ depth' = without(depth, 0)
        /\ opened' = without(opened, 0) /\ legacy' = without(legacy, "none")
        /\ outer' = without(outer, 0)
        /\ guard' = guard \ dead /\ locked' = locked \ dead
        /\ active' = [active EXCEPT ![p] = NoEntry]
        /\ mode' = without(mode, Reader) /\ seen' = without(seen, 0)
        /\ UNCHANGED files

\* Somebody removes the lock file; the last one of the bound stays.
Unlink ==
    /\ sibling # 0 /\ made < MaxInode
    /\ sibling' = 0
    /\ UNCHANGED <<made, pc, mode, seen, opened, depth, guard, legacy, outer, locked, active>>

OnItsThread(o) == Runs(o) /\ UNCHANGED thread

Step(o) ==
    \/ \E m \in Mode : Call(o, m) \/ CallAgain(o, m) \/ CallAgainWithout(o, m)
    \/ Lstat(o) \/ CheckActive(o) \/ TakeGuard(o) \/ TakeLegacy(o) \/ Recheck(o)
    \/ Open(o) \/ Flock(o) \/ ExitNested(o) \/ Leave(o)

Next ==
    \/ \E o \in Owner : OnItsThread(o) /\ Step(o)
    \/ UNCHANGED thread /\ \E p \in Process : Die(p)
    \/ UNCHANGED thread /\ Unlink

Spec == Init /\ [][Next]_vars

\* What an owner does on its own before and after it waits for the parent
\* directory.
Proceed(o) == Lstat(o) \/ TakeLegacy(o) \/ Recheck(o) \/ Open(o) \/ Flock(o) \/ ExitNested(o)

\* Whoever can go on goes on, and every `with` block ends, even if its body
\* calls again and again first: but only on a thread that runs.
Fairness ==
    \A o \in Owner :
        /\ WF_vars(OnItsThread(o) /\ Proceed(o))
        /\ SF_vars(OnItsThread(o) /\ outer[o] > 0 /\ Leave(o))
        /\ SF_vars(OnItsThread(o) /\ outer[o] = 0 /\ Leave(o))

FairSpec == Spec /\ Fairness

-----------------------------------------------------------------------------
ReadsWithout(o) == pc[o] = "insideLegacy" \/ outer[o] > 0

\* Whoever holds the lock file exclusively holds it alone, whatever became of
\* the file, in this process and across processes; and an index that never had
\* a lock file does not get one under a reader that went without, so no writer
\* gets in with it.
MutualExclusion ==
    /\ \A o, other \in Owner :
          o # other /\ pc[o] = "inside" /\ pc[other] = "inside" => ~mode[o].exclusive
    /\ (\E o \in Owner : ReadsWithout(o)) /\ sibling # 0 => made > 1

\* The registry of a process names the one inode its owners have open and
\* counts them: the last one out, and no other, makes room for a new inode.
RegistryIsExact ==
    \A p \in Process :
        /\ active[p].holders = Cardinality(Holders(p))
        /\ \A o \in Holders(p) : opened[o] = active[p].inode
        /\ active[p].holders = 0 => active[p].inode = 0

\* o cannot go on before `other` does: it asks for what `other` holds, or
\* `other` keeps the thread of both.
WaitsFor(o, other) ==
    \/ pc[o] = "guard" /\ other \in guard
    \/ pc[o] = "legacy" /\ KeepsDirectory(other, o)
    \/ pc[o] = "flock" /\ KeepsFile(other, o)
    \/ other # o /\ thread[other] = thread[o] /\ pc[other] \notin Resting

WaitInACircle(S) == S # {} /\ \A o \in S : \E other \in S : WaitsFor(o, other)

\* Among them is a reader without a lock file that calls again, or two are
\* tasks of one thread.
KnownCircle(S) ==
    /\ WaitInACircle(S)
    /\ \/ \E o \in S : outer[o] > 0
       \/ \E o, other \in S : o # other /\ thread[o] = thread[other]

\* Owners wait in no other circle: the locks are taken in one order, also when
\* a reader starts over with the lock file it found after all (locking.py:337:
\* keeping the parent directory "would deadlock").
CirclesAreKnown == \A S \in SUBSET Owner : WaitInACircle(S) => KnownCircle(S)

\* Whoever has the parent directory gives it back, and what a killed process
\* held is not missed, unless owners wait in one of the two circles for good.
ParentIsReleased == []<>(guard = {} \/ \E S \in SUBSET Owner : KnownCircle(S))

=============================================================================
