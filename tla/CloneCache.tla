----------------------------- MODULE CloneCache -----------------------------
(***************************************************************************)
(* The clone of one repo that `refresh` keeps on disk (github_ingest.py):  *)
(* clone or fetch it, resolve a commit, check that out, read its files.    *)
(*                                                                         *)
(* Origin changes under it at any time, every git command may fail or be   *)
(* killed, and what a kill leaves is what the next run finds.  A refresh   *)
(* clones without a checkout, so three things can part ways: HEAD, the     *)
(* files in the working tree, and the commit the run believes it indexes.  *)
(***************************************************************************)
EXTENDS Integers, FiniteSets, FiniteSetsExt

CONSTANTS
    Branch,     \* origin's branches, numbered in the order git lists them
    Commit,
    Tag,        \* tags that may exist, [v: with a leading v, n: version]
    PreRelease, \* versions that are pre-releases
    Unfit,      \* versions of tags that `latest` must not pick: local segments, no version
    MaxTags,    \* bound: tags origin has at a time
    MaxChanges, \* bound: changes of origin
    Latest,     \* the pin `latest`
    None

ASSUME BranchesAreNumbers == Branch \subseteq Nat
ASSUME TagsAreVersions == Tag \subseteq [v : BOOLEAN, n : Nat] /\ IsFiniteSet(Tag)
ASSUME NoneIsNothing == None \notin Commit /\ None \notin Tag /\ None \notin Branch
ASSUME BoundsAreNumbers == MaxTags \in Nat /\ MaxChanges \in Nat
ASSUME LatestIsNoTag == Latest \notin Tag \union {None}

\* What a refresh may ask for: the default branch, the newest release, a tag.
Pin == {None, Latest} \union Tag

VARIABLES
    branches,   \* origin: the commit of each branch
    default,    \* origin: its default branch
    tags,       \* origin: the commit of each tag
    changes,    \* origin: how often it changed
    clone,      \* the directory: "absent", "corrupt" (no git repository), "valid"
    head,       \* the commit of HEAD; None while HEAD is unborn
    tree,       \* the commit whose files are in the working tree; "none", "mixed"
    tracking,   \* refs/remotes/origin/*
    originHead, \* the branch origin/HEAD names
    localTags,
    pc,         \* what the run is about to do
    pin,        \* --framework-version; None is `head`
    fresh,      \* this call cloned
    wasCorrupt, \* this call removed a corrupt clone
    recovered,  \* recovered_repos
    tag, sha,   \* resolved_tag and commit_sha
    records,    \* the commit the last records name, and the files they were made of
    recent,     \* history of a `head` run: the followed branch's commits since it began
    steady      \* history of a `latest` run: tags origin has not changed since it began

origin == <<branches, default, tags, changes>>
local == <<clone, head, tree, tracking, originHead, localTags>>
call == <<pin, fresh, wasCorrupt, recovered, tag, sha>>
history == <<recent, steady>>
vars == <<origin, local, pc, call, records, history>>

Maybe(S) == S \union {None}
NoBranches == [b \in Branch |-> None]
NoTags == [t \in Tag |-> None]
NoRecords == [label |-> None, from |-> None]

\* Every variable keeps its type, and what is read of a clone is only read
\* of a valid one.
TypeOK ==
    /\ branches \in [Branch -> Maybe(Commit)] /\ default \in Branch /\ branches[default] # None
    /\ tags \in [Tag -> Maybe(Commit)] /\ changes \in 0..MaxChanges
    /\ clone \in {"absent", "corrupt", "valid"}
    /\ head \in Maybe(Commit) /\ tree \in Commit \union {"none", "mixed"}
    /\ tracking \in [Branch -> Maybe(Commit)] /\ originHead \in Maybe(Branch)
    /\ localTags \in [Tag -> Maybe(Commit)]
    /\ pc \in {"idle", "validate", "get", "fetch", "resolve", "verify", "cloned", "ingest"}
    /\ pin \in Pin /\ fresh \in BOOLEAN /\ wasCorrupt \in BOOLEAN /\ recovered \in BOOLEAN
    /\ tag \in Maybe(Tag) /\ sha \in Maybe(Commit)
    /\ records \in {NoRecords} \union [label : Commit, from : Commit \union {"none", "mixed"}]
    /\ recent \subseteq Maybe(Commit) /\ steady \subseteq Tag
    /\ pc \in {"fetch", "resolve", "verify", "cloned", "ingest"} => clone = "valid"
    /\ pc \in {"verify", "cloned", "ingest"} => sha # None

Init ==
    /\ branches \in [Branch -> Maybe(Commit)] /\ default \in Branch /\ branches[default] # None
    /\ tags \in [Tag -> Maybe(Commit)] /\ Cardinality({t \in Tag : tags[t] # None}) <= MaxTags
    /\ changes = 0
    /\ clone = "absent" /\ head = None /\ tree = "none"
    /\ tracking = NoBranches /\ originHead = None /\ localTags = NoTags
    /\ pc = "idle" /\ pin = None /\ fresh = FALSE /\ wasCorrupt = FALSE /\ recovered = FALSE
    /\ tag = None /\ sha = None /\ records = NoRecords
    /\ recent = {} /\ steady = {}

-----------------------------------------------------------------------------
(* Origin *)

\* The branch a `head` run goes by: the default branch when it was cloned.
Followed == IF originHead # None THEN originHead ELSE default

Witnessed(b, c) == IF pc # "idle" /\ pin = None /\ b = Followed THEN recent \union {c} ELSE recent

Changes == changes < MaxChanges /\ changes' = changes + 1

\* A branch is pushed, with or without force, or deleted.
Push(b, c) ==
    /\ Changes
    /\ branches[b] # c /\ (b = default => c # None)
    /\ branches' = [branches EXCEPT ![b] = c]
    /\ recent' = Witnessed(b, c)
    /\ UNCHANGED <<default, tags, local, pc, call, records, steady>>

\* A tag is published, moved or deleted.
PushTag(t, c) ==
    /\ Changes
    /\ tags[t] # c
    /\ c # None => Cardinality({u \in Tag \ {t} : tags[u] # None}) < MaxTags
    /\ tags' = [tags EXCEPT ![t] = c]
    /\ steady' = steady \ {t}
    /\ UNCHANGED <<branches, default, local, pc, call, records, recent>>

ChangeDefault(b) ==
    /\ Changes
    /\ b # default /\ branches[b] # None
    /\ default' = b
    /\ recent' = IF originHead = None /\ pc # "idle" /\ pin = None THEN recent \union {branches[b]} ELSE recent
    /\ UNCHANGED <<branches, tags, local, pc, call, records, steady>>

-----------------------------------------------------------------------------
(* Which tag is which commit *)

\* The spellings tried for a tag the operator typed: as typed, with v, bare.
Candidates(t) == <<t, [t EXCEPT !.v = TRUE], [t EXCEPT !.v = FALSE]>>

\* _resolve_tag; None is a TagNotFoundError.
ResolveTag(t) ==
    LET known == {i \in 1..3 : Candidates(t)[i] \in Tag /\ localTags[Candidates(t)[i]] # None}
    IN  IF known = {} THEN None ELSE localTags[Candidates(t)[Min(known)]]

IsLatestCandidate(t) == t.n \notin Unfit

\* The highest release; a pre-release only where there is nothing else.
LatestVersion(present) ==
    LET versions == {t.n : t \in present}
        finals == versions \ PreRelease
    IN  Max(IF finals # {} THEN finals ELSE versions)

\* _latest_version_tag: the aliases of that version must agree on a commit,
\* and the spelling with v stands for them.  None is a ValueError.
LatestVersionTag ==
    LET present == {t \in Tag : localTags[t] # None /\ IsLatestCandidate(t)}
        aliases == {t \in present : t.n = LatestVersion(present)}
    IN  IF present = {} \/ Cardinality({localTags[t] : t \in aliases}) > 1 THEN None
        ELSE CHOOSE t \in aliases : t.v \/ ~\E u \in aliases : u.v

\* _resolve_origin_head_commit: what origin/HEAD names, which is the default
\* branch when the clone was made; nothing (an exception) if that branch is
\* gone since, for the first of origin.refs is then origin/HEAD again; the
\* first branch if there is no origin/HEAD.
OriginHeadCommit ==
    IF originHead # None THEN tracking[originHead]
    ELSE LET known == {b \in Branch : tracking[b] # None}
         IN  IF known = {} THEN None ELSE tracking[Min(known)]

-----------------------------------------------------------------------------
(* clone_or_fetch, as refresh calls it: without a checkout *)

\* The call ends, with an exception or after the last step modelled: what it
\* knew is gone, but for recovered_repos, which the summary reads.
Fail ==
    /\ pc' = "idle"
    /\ pin' = None /\ fresh' = FALSE /\ wasCorrupt' = FALSE /\ tag' = None /\ sha' = None
    /\ recent' = {} /\ steady' = {}
    /\ UNCHANGED recovered

Gone == head' = None /\ tree' = "none" /\ tracking' = NoBranches /\ originHead' = None /\ localTags' = NoTags

\* A run begins; --reset-index has deleted the clones with the index.
Begin(p, reset) ==
    /\ pc = "idle"
    /\ pc' = "validate" /\ pin' = p
    /\ fresh' = FALSE /\ wasCorrupt' = FALSE /\ recovered' = FALSE
    /\ tag' = None /\ sha' = None
    /\ records' = NoRecords
    /\ recent' = IF p = None THEN {branches[IF reset THEN default ELSE Followed]} ELSE {}
    /\ steady' = IF p = Latest THEN Tag ELSE {}
    /\ IF reset THEN clone' = "absent" /\ Gone ELSE UNCHANGED local
    /\ UNCHANGED origin

RemoveCorrupt_ReportsEarly ==   \* mutant: recovered before the new clone is there
    /\ pc = "validate" /\ clone = "corrupt"
    /\ clone' = "absent" /\ wasCorrupt' = TRUE /\ recovered' = TRUE
    /\ pc' = "get"
    /\ UNCHANGED <<origin, head, tree, tracking, originHead, localTags, pin, fresh, tag, sha,
                   records, history>>

\* What is no repository is removed whole, or the call ends.
RemoveCorrupt ==
    /\ pc = "validate" /\ clone = "corrupt"
    /\ \/ clone' = "absent" /\ wasCorrupt' = TRUE /\ pc' = "get"
          /\ UNCHANGED <<pin, fresh, recovered, tag, sha, history>>
       \/ Fail /\ UNCHANGED clone
    /\ UNCHANGED <<origin, head, tree, tracking, originHead, localTags, records>>

Validate ==
    /\ pc = "validate" /\ clone # "corrupt"
    /\ pc' = IF clone = "valid" THEN "fetch" ELSE "get"
    /\ UNCHANGED <<origin, local, call, records, history>>

\* git clone --no-checkout: HEAD names the default branch, no file is written.
CloneFrom ==
    /\ pc = "get"
    /\ clone' = "valid" /\ fresh' = TRUE
    /\ head' = branches[default] /\ tree' = "none"
    /\ tracking' = branches /\ originHead' = default /\ localTags' = tags
    /\ pc' = "fetch"
    /\ UNCHANGED <<origin, pin, wasCorrupt, recovered, tag, sha, records, history>>

\* git removes what it made when it fails.  Killed, it leaves something that
\* may or may not pass for a repository, with nothing fetched.
CloneFromFails ==
    /\ pc = "get"
    /\ clone' \in {"absent", "corrupt", "valid"}
    /\ Gone
    /\ Fail
    /\ UNCHANGED <<origin, records>>

\* git fetch does not overwrite a tag that moved: it fails.
Clobbers == \E t \in Tag : None \notin {tags[t], localTags[t]} /\ tags[t] # localTags[t]

\* _fetch_origin_tags: refs follow origin; tags deleted there are deleted
\* here for `latest` only.  A git that creates a missing origin/HEAD may.
FetchOriginTags ==
    /\ pc = "fetch" /\ ~Clobbers
    /\ tracking' = branches
    /\ localTags' = [t \in Tag |-> IF pin = Latest \/ tags[t] # None THEN tags[t]
                                   ELSE localTags[t]]
    /\ \/ UNCHANGED originHead
       \/ originHead = None /\ originHead' = default
    /\ pc' = "resolve"
    /\ UNCHANGED <<origin, clone, head, tree, call, records, history>>

\* A fetch that fails may have written any of the refs.
FetchFails ==
    /\ pc = "fetch"
    /\ \E done \in SUBSET Branch :
           tracking' = [b \in Branch |-> IF b \in done THEN branches[b] ELSE tracking[b]]
    /\ \E done \in SUBSET {t \in Tag : None \in {tags[t], localTags[t]}} :
           localTags' = [t \in Tag |-> IF t \in done /\ (pin = Latest \/ tags[t] # None)
                                       THEN tags[t] ELSE localTags[t]]
    /\ Fail
    /\ UNCHANGED <<origin, clone, head, tree, originHead, records>>

Return(t, c) ==
    /\ tag' = t /\ sha' = c
    /\ recovered' = wasCorrupt
    /\ pc' = "cloned"
    /\ UNCHANGED <<pin, fresh, wasCorrupt, history>>

ResolveDefault_ByHead ==   \* mutant: the HEAD of an old clone too
    /\ pc = "resolve" /\ pin = None
    /\ IF head = None THEN Fail ELSE Return(None, head)
    /\ UNCHANGED <<origin, local, records>>

\* The default branch: of a fresh clone what its HEAD names.
ResolveDefault ==
    /\ pc = "resolve" /\ pin = None
    /\ LET c == IF fresh THEN head ELSE OriginHeadCommit
       IN  IF c = None THEN Fail ELSE Return(None, c)
    /\ UNCHANGED <<origin, local, records>>

ResolvePinned ==
    /\ pc = "resolve" /\ pin \in Tag
    /\ IF ResolveTag(pin) = None THEN Fail ELSE Return(pin, ResolveTag(pin))
    /\ UNCHANGED <<origin, local, records>>

\* _resolve_latest_tag: pick it from the local tags ...
ResolveLatest ==
    /\ pc = "resolve" /\ pin = Latest
    /\ IF LatestVersionTag = None THEN Fail
       ELSE /\ tag' = LatestVersionTag /\ sha' = localTags[LatestVersionTag]
            /\ pc' = "verify"
            /\ UNCHANGED <<pin, fresh, wasCorrupt, recovered, history>>
    /\ UNCHANGED <<origin, local, records>>

VerifyLatest_TrustsClone ==   \* mutant: origin is not asked again
    /\ pc = "verify"
    /\ Return(tag, sha)
    /\ UNCHANGED <<origin, local, records>>

\* ... and ask origin whether it still is that commit.
VerifyLatest ==
    /\ pc = "verify"
    /\ \/ tags[tag] = sha /\ Return(tag, sha)
       \/ Fail
    /\ UNCHANGED <<origin, local, records>>

-----------------------------------------------------------------------------
(* Checkout and ingest *)

\* A run leaves a repo that is unchanged or tainted as it is.
Leave ==
    /\ pc = "cloned"
    /\ Fail
    /\ UNCHANGED <<origin, local, records>>

CheckoutCommit_UnlessAtHead ==   \* mutant: no reset where HEAD already is the commit
    /\ pc = "cloned"
    /\ pc' = "ingest"
    /\ IF head = sha THEN UNCHANGED <<head, tree>> ELSE head' = sha /\ tree' = sha
    /\ UNCHANGED <<origin, clone, tracking, originHead, localTags, call, records, history>>

\* git reset --hard writes the files and then HEAD; killed, it leaves HEAD.
CheckoutCommit ==
    /\ pc = "cloned"
    /\ \/ head' = sha /\ tree' = sha /\ pc' = "ingest" /\ UNCHANGED <<call, history>>
       \/ tree' = "mixed" /\ Fail /\ UNCHANGED head
    /\ UNCHANGED <<origin, clone, tracking, originHead, localTags, records>>

\* ensure_checkout finds HEAD at the commit and resets nothing; the records
\* name the commit and hold what is in the working tree.
Ingest ==
    /\ pc = "ingest"
    /\ IF head = sha THEN UNCHANGED <<head, tree>> ELSE head' = sha /\ tree' = sha
    /\ records' = [label |-> sha, from |-> tree']
    /\ Fail
    /\ UNCHANGED <<origin, clone, tracking, originHead, localTags>>

\* Killed between two steps, or the directory damaged from outside.
Die ==
    /\ pc # "idle"
    /\ Fail
    /\ UNCHANGED <<origin, local, records>>

Damage ==
    /\ pc = "idle" /\ clone = "valid"
    /\ clone' = "corrupt" /\ Gone
    /\ recovered' = FALSE
    /\ UNCHANGED <<origin, pc, pin, fresh, wasCorrupt, tag, sha, records, history>>

Next ==
    \/ \E b \in Branch, c \in Maybe(Commit) : Push(b, c)
    \/ \E t \in Tag, c \in Maybe(Commit) : PushTag(t, c)
    \/ \E b \in Branch : ChangeDefault(b)
    \/ \E p \in Pin, reset \in BOOLEAN : Begin(p, reset)
    \/ RemoveCorrupt \/ Validate \/ CloneFrom \/ CloneFromFails
    \/ FetchOriginTags \/ FetchFails
    \/ ResolveDefault \/ ResolvePinned \/ ResolveLatest \/ VerifyLatest
    \/ Leave \/ CheckoutCommit \/ Ingest \/ Die \/ Damage

Spec == Init /\ [][Next]_vars

-----------------------------------------------------------------------------
\* Records name the commit whose files they were made of, whatever checkout
\* was killed before: cli.py resets the tree of every repo it ingests.
LabelsAreTrue == records.from = records.label

\* What `latest` resolves to is, at that moment, a tag of origin at that
\* commit, and no release that origin had all along is newer.
LatestIsNewest ==
    [][pc = "verify" /\ pc' = "cloned" =>
           /\ tags[tag'] = sha'
           /\ \A t \in steady : tags[t] # None /\ t.n \notin PreRelease \union Unfit
                  => /\ tag'.n \notin PreRelease /\ t.n <= tag'.n
                     /\ t.n = tag'.n => tags[t] = sha']_vars

\* A `head` refresh of a clone with an origin/HEAD indexes a commit that the
\* branch it names had during that refresh, whatever is pushed and whatever an
\* earlier run left checked out.
HeadIsFollowed == pc = "cloned" /\ pin = None /\ originHead # None => sha \in recent

\* A clone is reported as recovered only when the new one is there.
RecoveredIsWhole == recovered => clone = "valid" /\ \E b \in Branch : tracking[b] # None

=============================================================================
