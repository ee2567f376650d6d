--------------------------- MODULE CloneCache_proofs ---------------------------
(***************************************************************************)
(* What a run makes of a clone, for any branches, commits and tags, any    *)
(* history of origin, and kills anywhere.                                  *)
(*                                                                         *)
(* LabelsAreTrue, RecoveredIsWhole and HeadIsFollowed follow from what the *)
(* run knows at each step.  LatestIsNewest rests on two facts: the tags    *)
(* fetched are origin's, where they did not change since (TagsAreFetched), *)
(* and the tag picked is the highest of them (PickIsHighest).  That a      *)
(* highest one exists is MaxIsIn, by a smallest counterexample among the   *)
(* subsets.                                                                *)
(***************************************************************************)
EXTENDS CloneCache, FiniteSetTheorems, WellFoundedInduction, TLAPS

\* A finite set of numbers has a maximum, and Max is it.
LEMMA MaxIsIn ==
    ASSUME NEW S \in SUBSET Nat, S # {}, IsFiniteSet(S)
    PROVE  Max(S) \in S /\ \A n \in S : Max(S) >= n
<1> DEFINE Topless == {T \in SUBSET S : T # {} /\ ~ \E x \in T : \A y \in T : x >= y}
<1>1. Topless = {}
  <2> SUFFICES ASSUME Topless # {} PROVE FALSE
    OBVIOUS
  <2>1. PICK T \in Topless : \A U \in Topless : <<U, T>> \notin StrictSubsetOrdering(S)
    <3>1. IsWellFoundedOn(StrictSubsetOrdering(S), SUBSET S)
      BY FS_StrictSubsetOrderingWellFounded, FS_FiniteSubsetsOfFinite
    <3> QED
      BY <3>1, WFMin
  <2>2. PICK x \in T : TRUE
    BY <2>1
  <2>3. \A U \in SUBSET T : U # T => U \notin Topless
    BY <2>1 DEF StrictSubsetOrdering
  <2>4. CASE T = {x}
    BY <2>1, <2>4
  <2>5. CASE T # {x}
    <3>1. T \ {x} # {} /\ T \ {x} \in SUBSET S /\ T \ {x} # T
      BY <2>1, <2>2, <2>5
    <3>2. PICK m \in T \ {x} : \A y \in T \ {x} : m >= y
      BY <2>3, <3>1
    <3>3. \A y \in T : IF m >= x THEN m >= y ELSE x >= y
      BY <3>1, <3>2, <2>2
    <3> QED
      BY <2>1, <2>2, <3>2, <3>3
  <2> QED
    BY <2>4, <2>5
<1>2. \E x \in S : \A y \in S : x >= y
  BY <1>1
<1> QED
  BY <1>2 DEF Max

\* A set of natural numbers has a minimum, and Min is it.
LEMMA MinIsIn ==
    ASSUME NEW S \in SUBSET Nat, S # {}
    PROVE  Min(S) \in S /\ \A n \in S : Min(S) <= n
<1>1. PICK x \in S : TRUE
  OBVIOUS
<1> DEFINE Below == {n \in 0..x : x - n \in S}
<1>2. Below \in SUBSET Nat /\ 0 \in Below /\ IsFiniteSet(Below)
  <2>1. Below \in SUBSET Nat /\ 0 \in Below /\ \A n \in Below : n <= x
    BY <1>1
  <2> QED
    BY <1>1, <2>1, FS_BoundedSetOfNaturals
<1>3. Max(Below) \in Below /\ \A n \in Below : Max(Below) >= n
  BY <1>2, MaxIsIn
<1>4. x - Max(Below) \in S /\ \A n \in S : x - Max(Below) <= n
  <2>1. \A n \in S : n <= x => x - n \in Below
    BY <1>1
  <2> QED
    BY <1>1, <1>3, <2>1
<1> QED
  BY <1>4 DEF Min

-----------------------------------------------------------------------------
(* Which tag is which commit *)

LEMMA ResolveTagType ==
    ASSUME TypeOK, NEW t \in Tag
    PROVE  ResolveTag(t) \in Maybe(Commit)
<1> DEFINE known == {i \in 1..3 : Candidates(t)[i] \in Tag /\ localTags[Candidates(t)[i]] # None}
<1>1. CASE known = {}
  BY <1>1 DEF ResolveTag, Maybe
<1>2. CASE known # {}
  <2>1. Min(known) \in known
    BY <1>2, MinIsIn
  <2>2. Candidates(t)[Min(known)] \in Tag
    BY <2>1
  <2>3. ResolveTag(t) = localTags[Candidates(t)[Min(known)]]
    BY <1>2 DEF ResolveTag
  <2> QED
    BY <2>2, <2>3 DEF TypeOK
<1> QED
  BY <1>1, <1>2

LEMMA OriginHeadType ==
    ASSUME TypeOK
    PROVE  OriginHeadCommit \in Maybe(Commit)
<1> DEFINE known == {b \in Branch : tracking[b] # None}
<1>1. CASE originHead # None
  BY <1>1, NoneIsNothing DEF OriginHeadCommit, TypeOK, Maybe
<1>2. CASE originHead = None /\ known = {}
  BY <1>2 DEF OriginHeadCommit, Maybe
<1>3. CASE originHead = None /\ known # {}
  <2>1. Min(known) \in known
    BY <1>3, MinIsIn, BranchesAreNumbers
  <2>2. OriginHeadCommit = tracking[Min(known)]
    BY <1>3 DEF OriginHeadCommit
  <2> QED
    BY <2>1, <2>2 DEF TypeOK
<1> QED
  BY <1>1, <1>2, <1>3

\* The tag picked for `latest` is one there is, at the commit of every tag of
\* its version, and no tag of a final release is of a higher version.
LEMMA LatestIsHighest ==
    ASSUME TypeOK, LatestVersionTag # None
    PROVE  /\ LatestVersionTag \in Tag /\ localTags[LatestVersionTag] # None
           /\ \A t \in Tag : localTags[t] # None /\ t.n \notin PreRelease \union Unfit
                  => /\ LatestVersionTag.n \notin PreRelease /\ t.n <= LatestVersionTag.n
                     /\ t.n = LatestVersionTag.n => localTags[t] = localTags[LatestVersionTag]
<1> DEFINE present == {t \in Tag : localTags[t] # None /\ IsLatestCandidate(t)}
           versions == {t.n : t \in present}
           finals == versions \ PreRelease
           aliases == {t \in present : t.n = LatestVersion(present)}
           commits == {localTags[t] : t \in aliases}
<1>1. /\ present # {} /\ ~(Cardinality(commits) > 1)
      /\ LatestVersionTag = CHOOSE t \in aliases : t.v \/ ~\E u \in aliases : u.v
  BY DEF LatestVersionTag
<1>2. IsFiniteSet(present) /\ versions \in SUBSET Nat /\ versions # {}
  BY <1>1, TagsAreVersions, FS_Subset
<1>3. IsFiniteSet(versions)
  <2>1. [t \in present |-> t.n] \in Surjection(present, versions)
    BY DEF Surjection
  <2> QED
    BY <1>2, <2>1, FS_Surjection
<1>4. IsFiniteSet(finals)
  BY <1>3, FS_Subset
<1>5. LatestVersion(present) = Max(IF finals # {} THEN finals ELSE versions)
  BY DEF LatestVersion
<1>6. /\ LatestVersion(present) \in versions
      /\ \A n \in finals : LatestVersion(present) \in finals /\ n <= LatestVersion(present)
  <2>1. CASE finals # {}
    <3>1. Max(finals) \in finals /\ \A n \in finals : Max(finals) >= n
      BY <1>2, <1>4, <2>1, MaxIsIn
    <3> QED
      BY <1>2, <1>5, <2>1, <3>1
  <2>2. CASE finals = {}
    <3>1. Max(versions) \in versions
      BY <1>2, <1>3, MaxIsIn
    <3> QED
      BY <1>5, <2>2, <3>1
  <2> QED
    BY <2>1, <2>2
<1>7. LatestVersionTag \in aliases
  <2>1. \E t \in aliases : TRUE
    BY <1>6
  <2>2. \E t \in aliases : t.v \/ ~\E u \in aliases : u.v
    BY <2>1
  <2> QED
    BY <1>1, <2>2
<1>8. \A t \in aliases : localTags[t] = localTags[LatestVersionTag]
  <2> SUFFICES ASSUME NEW t \in aliases, localTags[t] # localTags[LatestVersionTag]
               PROVE  FALSE
    OBVIOUS
  <2>1. IsFiniteSet(aliases)
    BY <1>2, FS_Subset
  <2>2. IsFiniteSet(commits)
    <3>1. [u \in aliases |-> localTags[u]] \in Surjection(aliases, commits)
      BY DEF Surjection
    <3> QED
      BY <2>1, <3>1, FS_Surjection
  <2>3. Cardinality({localTags[t], localTags[LatestVersionTag]}) = 2
    <3>1. {localTags[t], localTags[LatestVersionTag]} = {localTags[t]} \union {localTags[LatestVersionTag]}
      OBVIOUS
    <3>2. Cardinality({localTags[t]}) = 1 /\ IsFiniteSet({localTags[t]})
      BY FS_Singleton
    <3> QED
      BY <3>1, <3>2, FS_AddElement
  <2>4. {localTags[t], localTags[LatestVersionTag]} \in SUBSET commits
    BY <1>7
  <2> QED
    BY <1>1, <2>2, <2>3, <2>4, FS_Subset, FS_CardinalityType
<1> QED
  BY <1>6, <1>7, <1>8 DEF IsLatestCandidate

-----------------------------------------------------------------------------
(* The invariant *)

\* After the checkout HEAD and the files are the commit of the run.
TreeIsCheckedOut == pc = "ingest" => head = sha /\ tree = sha

\* After the fetch there is a branch, and nothing is reported before.
CloneHasBranch ==
    /\ pc \in {"resolve", "verify", "cloned", "ingest"} => \E b \in Branch : tracking[b] # None
    /\ pc \in {"validate", "get", "fetch", "resolve", "verify"} => ~recovered

\* The tags of a `latest` run are origin's, where they have not changed since.
TagsAreFetched ==
    /\ pc = "verify" => pin = Latest
    /\ pin = Latest /\ pc \in {"resolve", "verify"} => \A t \in steady : localTags[t] = tags[t]

\* Origin is asked about the tag picked from them.
PickIsHighest ==
    pc = "verify" => LatestVersionTag # None /\ tag = LatestVersionTag /\ sha = localTags[tag]

\* In a `head` run the commits of the followed branch are witnessed, that of a
\* fresh clone's HEAD and that fetched among them.
RecentIsWitnessed ==
    /\ clone # "valid" => originHead = None
    /\ pc = "get" => clone = "absent"
    /\ pc = "validate" => ~fresh
    /\ pc # "idle" /\ pin = None => branches[Followed] \in recent
    /\ pc \in {"fetch", "resolve"} /\ pin = None /\ fresh => originHead # None /\ head \in recent
    /\ pc = "resolve" /\ pin = None /\ originHead # None => tracking[originHead] \in recent

IInv ==
    /\ TypeOK /\ TreeIsCheckedOut /\ LabelsAreTrue /\ CloneHasBranch /\ RecoveredIsWhole
    /\ TagsAreFetched /\ PickIsHighest /\ RecentIsWitnessed /\ HeadIsFollowed

LEMMA InitEstablishes == Init => IInv
<1> SUFFICES ASSUME Init PROVE IInv
  OBVIOUS
<1>1. TypeOK
  <2>1. changes \in 0..MaxChanges
    BY BoundsAreNumbers DEF Init
  <2> QED
    BY <2>1 DEF Init, TypeOK, Maybe, NoTags, NoBranches, NoRecords, Pin
<1>2. TreeIsCheckedOut /\ LabelsAreTrue /\ CloneHasBranch /\ RecoveredIsWhole
  BY DEF Init, NoRecords, TreeIsCheckedOut, LabelsAreTrue, CloneHasBranch, RecoveredIsWhole
<1>3. TagsAreFetched /\ PickIsHighest /\ RecentIsWitnessed /\ HeadIsFollowed
  BY DEF Init, TagsAreFetched, PickIsHighest, RecentIsWitnessed, HeadIsFollowed
<1> QED
  BY <1>1, <1>2, <1>3 DEF IInv

\* What is picked depends on the local tags alone.
LEMMA SamePick ==
    ASSUME localTags' = localTags
    PROVE  LatestVersionTag' = LatestVersionTag
  BY DEF LatestVersionTag, LatestVersion, IsLatestCandidate

\* What the steps that end a call leave behind: no step is under way.
LEMMA EndKeeps ==
    ASSUME IInv, Fail, TypeOK', LabelsAreTrue', RecoveredIsWhole', clone' # "valid" => originHead' = None
    PROVE  IInv'
  BY DEF Fail, IInv, TreeIsCheckedOut, CloneHasBranch, TagsAreFetched, PickIsHighest,
         RecentIsWitnessed, HeadIsFollowed

LEMMA PushKeeps ==
    ASSUME IInv, NEW b \in Branch, NEW c \in Maybe(Commit), Push(b, c)
    PROVE  IInv'
<1> USE DEF Push, Changes, local, call, Witnessed
<1>1. TypeOK'
  BY NoneIsNothing, LatestIsNoTag, BoundsAreNumbers DEF IInv, TypeOK, Maybe
<1>2. TreeIsCheckedOut' /\ LabelsAreTrue'
  BY DEF IInv, TypeOK, TreeIsCheckedOut, LabelsAreTrue
<1>3. CloneHasBranch' /\ RecoveredIsWhole'
  BY DEF IInv, TypeOK, CloneHasBranch, RecoveredIsWhole
<1>4. TagsAreFetched'
  BY DEF IInv, TypeOK, TagsAreFetched
<1>5. PickIsHighest'
  BY SamePick DEF IInv, TypeOK, PickIsHighest
<1>6. RecentIsWitnessed' /\ HeadIsFollowed'
  BY NoneIsNothing DEF IInv, TypeOK, Maybe, RecentIsWitnessed, HeadIsFollowed, Followed
<1> QED
  BY <1>1, <1>2, <1>3, <1>4, <1>5, <1>6 DEF IInv

LEMMA PushTagKeeps ==
    ASSUME IInv, NEW t \in Tag, NEW c \in Maybe(Commit), PushTag(t, c)
    PROVE  IInv'
<1> USE DEF PushTag, Changes, local, call
<1>1. TypeOK'
  BY NoneIsNothing, LatestIsNoTag, BoundsAreNumbers DEF IInv, TypeOK, Maybe
<1>2. TreeIsCheckedOut' /\ LabelsAreTrue'
  BY DEF IInv, TypeOK, TreeIsCheckedOut, LabelsAreTrue
<1>3. CloneHasBranch' /\ RecoveredIsWhole'
  BY DEF IInv, TypeOK, CloneHasBranch, RecoveredIsWhole
<1>4. TagsAreFetched'
  BY DEF IInv, TypeOK, TagsAreFetched
<1>5. PickIsHighest'
  BY SamePick DEF IInv, TypeOK, PickIsHighest
<1>6. RecentIsWitnessed' /\ HeadIsFollowed'
  BY NoneIsNothing DEF IInv, TypeOK, Maybe, RecentIsWitnessed, HeadIsFollowed, Followed
<1> QED
  BY <1>1, <1>2, <1>3, <1>4, <1>5, <1>6 DEF IInv

LEMMA ChangeDefaultKeeps ==
    ASSUME IInv, NEW b \in Branch, ChangeDefault(b)
    PROVE  IInv'
<1> USE DEF ChangeDefault, Changes, local, call
<1>1. TypeOK'
  BY NoneIsNothing, LatestIsNoTag, BoundsAreNumbers DEF IInv, TypeOK, Maybe
<1>2. TreeIsCheckedOut' /\ LabelsAreTrue'
  BY DEF IInv, TypeOK, TreeIsCheckedOut, LabelsAreTrue
<1>3. CloneHasBranch' /\ RecoveredIsWhole'
  BY DEF IInv, TypeOK, CloneHasBranch, RecoveredIsWhole
<1>4. TagsAreFetched'
  BY DEF IInv, TypeOK, TagsAreFetched
<1>5. PickIsHighest'
  BY SamePick DEF IInv, TypeOK, PickIsHighest
<1>6. RecentIsWitnessed' /\ HeadIsFollowed'
  BY NoneIsNothing DEF IInv, TypeOK, Maybe, RecentIsWitnessed, HeadIsFollowed, Followed
<1> QED
  BY <1>1, <1>2, <1>3, <1>4, <1>5, <1>6 DEF IInv

LEMMA BeginKeeps ==
    ASSUME IInv, NEW p \in Pin, NEW reset \in BOOLEAN, Begin(p, reset)
    PROVE  IInv'
<1> USE DEF Begin, Gone, local, origin
<1>1. TypeOK'
  BY NoneIsNothing DEF IInv, TypeOK, Maybe, NoTags, NoBranches, NoRecords, Followed
<1>2. TreeIsCheckedOut' /\ LabelsAreTrue'
  BY DEF NoRecords, TreeIsCheckedOut, LabelsAreTrue
<1>3. CloneHasBranch' /\ RecoveredIsWhole'
  BY DEF IInv, TypeOK, CloneHasBranch, RecoveredIsWhole
<1>4. TagsAreFetched'
  BY DEF IInv, TypeOK, TagsAreFetched
<1>5. PickIsHighest'
  BY DEF IInv, TypeOK, PickIsHighest
<1>6. RecentIsWitnessed' /\ HeadIsFollowed'
  BY NoneIsNothing DEF IInv, TypeOK, Maybe, RecentIsWitnessed, HeadIsFollowed, Followed
<1> QED
  BY <1>1, <1>2, <1>3, <1>4, <1>5, <1>6 DEF IInv

LEMMA ValidateKeeps ==
    ASSUME IInv, Validate
    PROVE  IInv'
<1> USE DEF Validate, origin, local, call, history
<1>1. TypeOK'
  BY NoneIsNothing, LatestIsNoTag, BoundsAreNumbers DEF IInv, TypeOK, Maybe
<1>2. TreeIsCheckedOut' /\ LabelsAreTrue'
  BY DEF IInv, TypeOK, TreeIsCheckedOut, LabelsAreTrue
<1>3. CloneHasBranch' /\ RecoveredIsWhole'
  BY DEF IInv, TypeOK, CloneHasBranch, RecoveredIsWhole
<1>4. TagsAreFetched'
  BY DEF IInv, TypeOK, TagsAreFetched
<1>5. PickIsHighest'
  BY DEF IInv, TypeOK, PickIsHighest
<1>6. RecentIsWitnessed' /\ HeadIsFollowed'
  BY NoneIsNothing DEF IInv, TypeOK, Maybe, RecentIsWitnessed, HeadIsFollowed, Followed
<1> QED
  BY <1>1, <1>2, <1>3, <1>4, <1>5, <1>6 DEF IInv

LEMMA CloneFromKeeps ==
    ASSUME IInv, CloneFrom
    PROVE  IInv'
<1> USE DEF CloneFrom, origin, history
<1>1. TypeOK'
  BY NoneIsNothing, LatestIsNoTag, BoundsAreNumbers DEF IInv, TypeOK, Maybe
<1>2. TreeIsCheckedOut' /\ LabelsAreTrue'
  BY DEF IInv, TypeOK, TreeIsCheckedOut, LabelsAreTrue
<1>3. CloneHasBranch' /\ RecoveredIsWhole'
  BY DEF IInv, TypeOK, CloneHasBranch, RecoveredIsWhole
<1>4. TagsAreFetched'
  BY DEF IInv, TypeOK, TagsAreFetched
<1>5. PickIsHighest'
  BY DEF IInv, TypeOK, PickIsHighest
<1>6. RecentIsWitnessed' /\ HeadIsFollowed'
  <2>1. Followed = default
    BY DEF IInv, RecentIsWitnessed, Followed
  <2>2. pin = None => branches[default] \in recent
    BY <2>1 DEF IInv, RecentIsWitnessed
  <2>3. Followed' = default /\ originHead' # None
    BY NoneIsNothing DEF IInv, TypeOK, Followed
  <2>4. pc = "get" /\ pc' = "fetch" /\ head' = branches[default] /\ tracking' = branches
          /\ UNCHANGED <<branches, pin, recent>>
            /\ clone' = "valid" /\ originHead' = default
    OBVIOUS
  <2>5. RecentIsWitnessed'
    BY <2>2, <2>3, <2>4 DEF RecentIsWitnessed
  <2> QED
    BY <2>4, <2>5 DEF HeadIsFollowed
<1> QED
  BY <1>1, <1>2, <1>3, <1>4, <1>5, <1>6 DEF IInv

LEMMA FetchOriginTagsKeeps ==
    ASSUME IInv, FetchOriginTags
    PROVE  IInv'
<1> USE DEF FetchOriginTags, origin, call, history
<1>1. TypeOK'
  BY NoneIsNothing, LatestIsNoTag, BoundsAreNumbers DEF IInv, TypeOK, Maybe
<1>2. TreeIsCheckedOut' /\ LabelsAreTrue'
  BY DEF IInv, TypeOK, TreeIsCheckedOut, LabelsAreTrue
<1>3. CloneHasBranch' /\ RecoveredIsWhole'
  BY DEF IInv, TypeOK, CloneHasBranch, RecoveredIsWhole
<1>4. TagsAreFetched'
  BY DEF IInv, TypeOK, TagsAreFetched
<1>5. PickIsHighest'
  BY DEF IInv, TypeOK, PickIsHighest
<1>6. RecentIsWitnessed' /\ HeadIsFollowed'
  <2>1. originHead' = originHead \/ (originHead = None /\ originHead' = default)
    OBVIOUS
  <2>2. Followed' = Followed
    BY <2>1 DEF Followed
  <2>3. pin = None => branches[Followed] \in recent
    BY DEF IInv, RecentIsWitnessed
  <2>4. originHead' # None => originHead' = Followed
    BY <2>1 DEF Followed
  <2>5. tracking' = branches /\ UNCHANGED <<branches, pin, recent, fresh, head, clone>> /\ pc = "fetch" /\ pc' = "resolve"
    OBVIOUS
  <2>6. RecentIsWitnessed'
    BY <2>1, <2>2, <2>3, <2>4, <2>5 DEF IInv, TypeOK, RecentIsWitnessed
  <2> QED
    BY <2>5, <2>6 DEF HeadIsFollowed
<1> QED
  BY <1>1, <1>2, <1>3, <1>4, <1>5, <1>6 DEF IInv

LEMMA ResolveLatestKeeps ==
    ASSUME IInv, ResolveLatest
    PROVE  IInv'
<1> USE DEF ResolveLatest, Fail, origin, local, history
<1>1. TypeOK'
  BY LatestIsHighest, NoneIsNothing, LatestIsNoTag DEF IInv, TypeOK, Maybe, Fail, Pin
<1>2. TreeIsCheckedOut' /\ LabelsAreTrue'
  BY DEF IInv, TypeOK, TreeIsCheckedOut, LabelsAreTrue
<1>3. CloneHasBranch' /\ RecoveredIsWhole'
  BY DEF IInv, TypeOK, CloneHasBranch, RecoveredIsWhole
<1>4. TagsAreFetched'
  BY DEF IInv, TypeOK, TagsAreFetched
<1>5. PickIsHighest'
  BY SamePick DEF IInv, TypeOK, PickIsHighest, Fail
<1>6. RecentIsWitnessed' /\ HeadIsFollowed'
  BY NoneIsNothing DEF IInv, TypeOK, Maybe, RecentIsWitnessed, HeadIsFollowed, Followed
<1> QED
  BY <1>1, <1>2, <1>3, <1>4, <1>5, <1>6 DEF IInv

LEMMA CheckoutCommitKeeps ==
    ASSUME IInv, CheckoutCommit
    PROVE  IInv'
<1> USE DEF CheckoutCommit, Fail, origin, call, history
<1>1. TypeOK'
  BY NoneIsNothing, LatestIsNoTag DEF IInv, TypeOK, Maybe, Pin
<1>2. TreeIsCheckedOut' /\ LabelsAreTrue'
  BY DEF IInv, TypeOK, TreeIsCheckedOut, LabelsAreTrue
<1>3. CloneHasBranch' /\ RecoveredIsWhole'
  BY DEF IInv, TypeOK, CloneHasBranch, RecoveredIsWhole
<1>4. TagsAreFetched'
  BY DEF IInv, TypeOK, TagsAreFetched
<1>5. PickIsHighest'
  BY DEF IInv, TypeOK, PickIsHighest
<1>6. RecentIsWitnessed' /\ HeadIsFollowed'
  BY NoneIsNothing DEF IInv, TypeOK, Maybe, RecentIsWitnessed, HeadIsFollowed, Followed
<1> QED
  BY <1>1, <1>2, <1>3, <1>4, <1>5, <1>6 DEF IInv

\* The steps that end the call.
LEMMA RemoveFailsKeeps ==
    ASSUME IInv, RemoveCorrupt, UNCHANGED clone, Fail
    PROVE  IInv'
<1> USE DEF RemoveCorrupt, origin, history, Fail
<1>1. TypeOK'
  BY NoneIsNothing DEF IInv, TypeOK, Maybe, Pin
<1>2. LabelsAreTrue'
  BY DEF IInv, LabelsAreTrue, TreeIsCheckedOut
<1>3. RecoveredIsWhole'
  BY DEF IInv, TypeOK, RecoveredIsWhole, CloneHasBranch
<1>4. clone' # "valid" => originHead' = None
  BY DEF IInv, RecentIsWitnessed
<1> QED
  BY <1>1, <1>2, <1>3, <1>4, EndKeeps

LEMMA CloneFromFailsKeeps ==
    ASSUME IInv, CloneFromFails, Fail
    PROVE  IInv'
<1> USE DEF CloneFromFails, Gone, origin, Fail
<1>1. TypeOK'
  BY NoneIsNothing DEF IInv, TypeOK, Maybe, Pin, NoBranches, NoTags
<1>2. LabelsAreTrue'
  BY DEF IInv, LabelsAreTrue, TreeIsCheckedOut
<1>3. RecoveredIsWhole'
  BY DEF IInv, TypeOK, RecoveredIsWhole, CloneHasBranch
<1>4. clone' # "valid" => originHead' = None
  BY DEF IInv, RecentIsWitnessed
<1> QED
  BY <1>1, <1>2, <1>3, <1>4, EndKeeps

LEMMA FetchFailsKeeps ==
    ASSUME IInv, FetchFails, Fail
    PROVE  IInv'
<1> USE DEF FetchFails, origin, Fail
<1>1. TypeOK'
  BY NoneIsNothing DEF IInv, TypeOK, Maybe, Pin
<1>2. LabelsAreTrue'
  BY DEF IInv, LabelsAreTrue, TreeIsCheckedOut
<1>3. RecoveredIsWhole'
  BY DEF IInv, TypeOK, RecoveredIsWhole, CloneHasBranch
<1>4. clone' # "valid" => originHead' = None
  BY DEF IInv, RecentIsWitnessed
<1> QED
  BY <1>1, <1>2, <1>3, <1>4, EndKeeps

LEMMA StopKeeps ==
    ASSUME IInv, UNCHANGED <<origin, local, records>>, Fail
    PROVE  IInv'
<1> USE DEF origin, local, Fail
<1>1. TypeOK'
  BY NoneIsNothing DEF IInv, TypeOK, Maybe, Pin
<1>2. LabelsAreTrue'
  BY DEF IInv, LabelsAreTrue, TreeIsCheckedOut
<1>3. RecoveredIsWhole'
  BY DEF IInv, TypeOK, RecoveredIsWhole, CloneHasBranch
<1>4. clone' # "valid" => originHead' = None
  BY DEF IInv, RecentIsWitnessed
<1> QED
  BY <1>1, <1>2, <1>3, <1>4, EndKeeps

LEMMA IngestKeeps ==
    ASSUME IInv, Ingest, Fail
    PROVE  IInv'
<1> USE DEF Ingest, origin, Fail
<1>1. TypeOK'
  BY NoneIsNothing DEF IInv, TypeOK, Maybe, Pin, TreeIsCheckedOut
<1>2. LabelsAreTrue'
  BY DEF IInv, LabelsAreTrue, TreeIsCheckedOut
<1>3. RecoveredIsWhole'
  BY DEF IInv, TypeOK, RecoveredIsWhole, CloneHasBranch
<1>4. clone' # "valid" => originHead' = None
  BY DEF IInv, RecentIsWitnessed
<1> QED
  BY <1>1, <1>2, <1>3, <1>4, EndKeeps

LEMMA RemoveCorruptKeeps ==
    ASSUME IInv, RemoveCorrupt, ~Fail
    PROVE  IInv'
<1> USE DEF RemoveCorrupt, origin, history
<1>1. TypeOK'
  BY NoneIsNothing, LatestIsNoTag, BoundsAreNumbers DEF IInv, TypeOK, Maybe
<1>2. TreeIsCheckedOut' /\ LabelsAreTrue'
  BY DEF IInv, TypeOK, TreeIsCheckedOut, LabelsAreTrue
<1>3. CloneHasBranch' /\ RecoveredIsWhole'
  BY DEF IInv, TypeOK, CloneHasBranch, RecoveredIsWhole
<1>4. TagsAreFetched'
  BY DEF IInv, TypeOK, TagsAreFetched
<1>5. PickIsHighest'
  BY DEF IInv, TypeOK, PickIsHighest
<1>6. RecentIsWitnessed' /\ HeadIsFollowed'
  BY NoneIsNothing DEF IInv, TypeOK, Maybe, RecentIsWitnessed, HeadIsFollowed, Followed
<1> QED
  BY <1>1, <1>2, <1>3, <1>4, <1>5, <1>6 DEF IInv

\* A commit is resolved.
LEMMA ReturnKeeps ==
    ASSUME IInv, NEW t \in Maybe(Tag), NEW c \in Commit, Return(t, c),
           UNCHANGED <<origin, local, records>>, pc \in {"resolve", "verify"},
           pin = None /\ originHead # None => c \in recent
    PROVE  IInv'
<1> USE DEF Return, origin, local, history
<1>1. TypeOK'
  BY NoneIsNothing DEF IInv, TypeOK, Maybe
<1>2. TreeIsCheckedOut' /\ LabelsAreTrue'
  BY DEF IInv, TypeOK, TreeIsCheckedOut, LabelsAreTrue
<1>3. CloneHasBranch' /\ RecoveredIsWhole'
  BY DEF IInv, TypeOK, CloneHasBranch, RecoveredIsWhole
<1>4. TagsAreFetched' /\ PickIsHighest'
  BY DEF TagsAreFetched, PickIsHighest
<1>5. RecentIsWitnessed' /\ HeadIsFollowed'
  BY DEF IInv, RecentIsWitnessed, HeadIsFollowed, Followed
<1> QED
  BY <1>1, <1>2, <1>3, <1>4, <1>5 DEF IInv

LEMMA ResolveKeeps ==
    ASSUME IInv, ResolveDefault \/ ResolvePinned \/ VerifyLatest
    PROVE  IInv'
<1>1. CASE ResolveDefault
  <2>1. (IF fresh THEN head ELSE OriginHeadCommit) \in Maybe(Commit)
    BY OriginHeadType DEF IInv, TypeOK
  <2>2. originHead # None => (IF fresh THEN head ELSE OriginHeadCommit) \in recent
    BY <1>1 DEF ResolveDefault, IInv, RecentIsWitnessed, OriginHeadCommit
  <2> QED
    BY <1>1, <2>1, <2>2, ReturnKeeps, StopKeeps DEF ResolveDefault, Maybe
<1>2. CASE ResolvePinned
  <2>1. ResolveTag(pin) \in Maybe(Commit) /\ pin \in Tag /\ pin # None
    BY <1>2, ResolveTagType, NoneIsNothing DEF IInv, ResolvePinned
  <2> QED
    BY <1>2, <2>1, ReturnKeeps, StopKeeps DEF ResolvePinned, Maybe
<1>3. CASE VerifyLatest
  <2>1. sha \in Commit /\ tag \in Maybe(Tag) /\ pin # None
    BY <1>3, LatestIsNoTag DEF IInv, TypeOK, VerifyLatest, Maybe, TagsAreFetched
  <2> QED
    BY <1>3, <2>1, ReturnKeeps, StopKeeps DEF VerifyLatest
<1> QED
  BY <1>1, <1>2, <1>3

LEMMA DamageKeeps ==
    ASSUME IInv, Damage
    PROVE  IInv'
<1> USE DEF Damage, Gone, origin, history
<1>1. TypeOK'
  BY NoneIsNothing DEF IInv, TypeOK, Maybe, NoBranches, NoTags
<1>2. TreeIsCheckedOut' /\ LabelsAreTrue' /\ CloneHasBranch' /\ RecoveredIsWhole'
  BY DEF IInv, TreeIsCheckedOut, LabelsAreTrue, CloneHasBranch, RecoveredIsWhole
<1>3. TagsAreFetched' /\ PickIsHighest' /\ RecentIsWitnessed' /\ HeadIsFollowed'
  BY DEF TagsAreFetched, PickIsHighest, RecentIsWitnessed, HeadIsFollowed
<1> QED
  BY <1>1, <1>2, <1>3 DEF IInv

-----------------------------------------------------------------------------
LEMMA StepKeeps == IInv /\ [Next]_vars => IInv'
<1> SUFFICES ASSUME IInv, [Next]_vars PROVE IInv'
  OBVIOUS
<1>1. CASE \E b \in Branch, c \in Maybe(Commit) : Push(b, c)
  BY <1>1, PushKeeps
<1>2. CASE \E t \in Tag, c \in Maybe(Commit) : PushTag(t, c)
  BY <1>2, PushTagKeeps
<1>3. CASE \E b \in Branch : ChangeDefault(b)
  BY <1>3, ChangeDefaultKeeps
<1>4. CASE \E p \in Pin, reset \in BOOLEAN : Begin(p, reset)
  BY <1>4, BeginKeeps
<1>5. CASE RemoveCorrupt
  <2>1. CASE Fail
    <3>1. UNCHANGED clone
      BY <1>5, <2>1 DEF RemoveCorrupt, Fail
    <3> QED
      BY <1>5, <2>1, <3>1, RemoveFailsKeeps
  <2>2. CASE ~Fail
    BY <1>5, <2>2, RemoveCorruptKeeps
  <2> QED
    BY <2>1, <2>2
<1>6. CASE Validate \/ CloneFrom \/ FetchOriginTags \/ ResolveLatest \/ CheckoutCommit
  BY <1>6, ValidateKeeps, CloneFromKeeps, FetchOriginTagsKeeps, ResolveLatestKeeps, CheckoutCommitKeeps
<1>7. CASE CloneFromFails \/ FetchFails \/ Ingest
  BY <1>7, CloneFromFailsKeeps, FetchFailsKeeps, IngestKeeps DEF CloneFromFails, FetchFails, Ingest
<1>8. CASE Leave \/ Die
  BY <1>8, StopKeeps DEF Leave, Die
<1>9. CASE ResolveDefault \/ ResolvePinned \/ VerifyLatest
  BY <1>9, ResolveKeeps
<1>10. CASE Damage
  BY <1>10, DamageKeeps
<1>11. CASE UNCHANGED vars
  BY <1>11, SamePick DEF vars, origin, local, call, history, IInv, TypeOK, TreeIsCheckedOut,
       LabelsAreTrue, CloneHasBranch, RecoveredIsWhole, TagsAreFetched, PickIsHighest,
       RecentIsWitnessed, HeadIsFollowed, Followed
<1> QED
  BY <1>1, <1>2, <1>3, <1>4, <1>5, <1>6, <1>7, <1>8, <1>9, <1>10, <1>11 DEF Next

LEMMA Invariance == Spec => []IInv
<1>1. Init => IInv
  BY InitEstablishes
<1>2. IInv /\ [Next]_vars => IInv'
  BY StepKeeps
<1> QED
  BY <1>1, <1>2, PTL DEF Spec

\* Every variable of a run and its clone keeps its type.
THEOREM TypeCorrect == Spec => []TypeOK
<1>1. IInv => TypeOK
  BY DEF IInv
<1> QED
  BY <1>1, Invariance, PTL

\* Records are labelled with the commit whose files they were made of, whatever
\* was killed before (ensure_checkout and the reset in front of it).
THEOREM LabelsHold == Spec => []LabelsAreTrue
<1>1. IInv => LabelsAreTrue
  BY DEF IInv
<1> QED
  BY <1>1, Invariance, PTL

\* What recovered_repos reports has a repository with branches.
THEOREM RecoveriesAreWhole == Spec => []RecoveredIsWhole
<1>1. IInv => RecoveredIsWhole
  BY DEF IInv
<1> QED
  BY <1>1, Invariance, PTL

\* A `head` run indexes a commit that the branch it follows had during the run
\* (_resolve_origin_head_commit, and the HEAD of a fresh clone).
THEOREM HeadStaysFollowed == Spec => []HeadIsFollowed
<1>1. IInv => HeadIsFollowed
  BY DEF IInv
<1> QED
  BY <1>1, Invariance, PTL

\* `latest` resolves to a tag of origin at its commit, and no final release
\* that origin had all along is newer (_resolve_latest_tag).
THEOREM LatestStaysNewest == Spec => LatestIsNewest
<1> DEFINE Good ==
      /\ tags[tag'] = sha'
      /\ \A t \in steady : tags[t] # None /\ t.n \notin PreRelease \union Unfit
             => /\ tag'.n \notin PreRelease /\ t.n <= tag'.n
                /\ t.n = tag'.n => tags[t] = sha'
<1>1. IInv /\ [Next]_vars => [pc = "verify" /\ pc' = "cloned" => Good]_vars
  <2> SUFFICES ASSUME IInv, Next, pc = "verify", pc' = "cloned" PROVE Good
    OBVIOUS
  <2>1. VerifyLatest
    BY DEF Next, Push, PushTag, ChangeDefault, Changes, Begin, RemoveCorrupt, Validate, CloneFrom, CloneFromFails,
           FetchOriginTags, FetchFails, ResolveDefault, ResolvePinned, ResolveLatest, Leave,
           CheckoutCommit, Ingest, Die, Damage, Fail
  <2>2. tags[tag] = sha /\ tag' = tag /\ sha' = sha
    BY <2>1 DEF VerifyLatest, Return, Fail
  <2>3. LatestVersionTag # None /\ tag = LatestVersionTag /\ sha = localTags[tag]
    BY DEF IInv, PickIsHighest
  <2>4. \A t \in steady : t \in Tag /\ localTags[t] = tags[t]
    BY DEF IInv, TypeOK, TagsAreFetched
  <2> HIDE DEF Good
  <2> QED
    BY <2>2, <2>3, <2>4, LatestIsHighest DEF IInv, Good
<1> QED
  BY <1>1, Invariance, PTL DEF Spec, LatestIsNewest

=============================================================================
