--------------------------- MODULE Ingest_proofs ---------------------------
(***************************************************************************)
(* What an ingester walks is its files and nothing else, each of them once *)
(* (ChunkIdsDiffer, NothingIsLost).  The proof has two halves: WalkInv, an *)
(* invariant of the walk over any groups, and the geometry of the          *)
(* directories, which says of every tree that the groups of RepoTree part  *)
(* the files that IsExampleFile and IsSourceFile describe.                 *)
(*                                                                         *)
(* The deprecation map finds what the registries say and nothing else      *)
(* (OnlyNamedIsDeprecated, StillThereIsNotRemoved): MapInv, an invariant   *)
(* of the reading of any two registries, and what `check` finds in a dict. *)
(*                                                                         *)
(* The documentation is cut at its pages and at headings outside a code    *)
(* block, and what is served of a page has the code and the sections it    *)
(* was written with (PagesAreWhole).  A text is all in its chunks, and     *)
(* what the parsers of Python, TypeScript and RST make of a source file    *)
(* has every definition of it (ChunksAreTheText).                          *)
(***************************************************************************)
EXTENDS Ingest, FiniteSetTheorems, SequenceTheorems, WellFoundedInduction, TLAPS

-----------------------------------------------------------------------------
(* The walk. *)

AllGroups == GroupsOf(job, tree)

Name == STRING
AnyFile == [dir : Seq(Name), stem : Name, ext : Name]
IsTree(t) == t \subseteq AnyFile

InputTyped ==
    /\ job \in {"code", "source", "docs", "registry"}
    /\ IsTree(tree)

\* Only Begin opens a walk, and never that of the deprecation map.
NothingYet == stage = "start" => groups = {} /\ files = {} /\ handled = {} /\ seen = {}
AndNoMap == stage = "walk" => job # "registry"

\* Groups and files come from the walk of this job over this tree, and a group
\* is taken up once.
OnlyTheirs ==
    /\ groups \subseteq AllGroups
    /\ files # {} => group \in AllGroups \ groups /\ files \subseteq FilesOf(group)
    /\ \A h \in handled : h.group \in AllGroups \ groups /\ h.file \in FilesOf(h.group)

HandledOnce ==
    /\ \A h \in handled : h.group = group => h.file \notin files
    /\ \A h, i \in handled : h.file = i.file /\ h.group = i.group => h = i

\* A group that was taken up has each of its files ahead of it or behind it.
Done(f, g) == \E h \in handled : h.file = f /\ h.group = g
NoneForgotten ==
    stage = "walk" =>
        \A g \in AllGroups \ groups : \A f \in FilesOf(g) : (g = group /\ f \in files) \/ Done(f, g)

\* The files of an example are read from the top down.
ShallowFirst ==
    group.kind = "example" =>
        \A h \in handled, f \in files : h.group = group => Depth(h.file) <= Depth(f)

\* What was seen was seen in a file that is no copy itself; what is left out is
\* a copy of such a file.
IsOriginalOf(o, h) ==
    /\ o.content = h.content /\ o.outcome # "same"
    /\ h.group.kind = "example" => o.group = h.group /\ Depth(o.file) <= Depth(h.file)
Originals ==
    /\ \A c \in seen : \E o \in handled : /\ o.content = c /\ o.outcome # "same"
                                          /\ group.kind = "example" => o.group = group
    /\ \A h \in handled : h.outcome = "same" => \E o \in handled : IsOriginalOf(o, h)

WalkInv ==
    /\ InputTyped /\ NothingYet /\ AndNoMap /\ OnlyTheirs /\ HandledOnce
    /\ NoneForgotten /\ ShallowFirst /\ Originals

\* No step changes what there is to walk.
LEMMA InputStays ==
    ASSUME Next \/ UNCHANGED vars
    PROVE  /\ UNCHANGED input /\ AllGroups' = AllGroups
           /\ \A g : FilesOf(g)' = FilesOf(g)
<1>1. UNCHANGED input
  BY DEF Next, vars, BeginFails, Begin, Walked, Upsert, BuildMap, AddRecord, AddAlias, MergeRemovals, SaveMap,
         EnterGroup, ReadFails, SkipDuplicate, ReadFile, Handle
<1>2. job' = job /\ tree' = tree /\ above' = above /\ lines' = lines
  BY <1>1 DEF input
<1>3. AllGroups' = AllGroups
  BY <1>2 DEF AllGroups
<1>4. ASSUME NEW g PROVE FilesOf(g)' = FilesOf(g)
  BY <1>2 DEF FilesOf
<1> QED BY <1>1, <1>3, <1>4

\* A file that is dealt with is one of the group that was still ahead, and is
\* behind it from then on; the groups are left alone.
LEMMA HandleKeeps ==
    ASSUME WalkInv, NEW f \in files, NEW c, NEW outcome, MayBeNext(f), Handle(f, c, outcome),
           AllGroups' = AllGroups, \A g : FilesOf(g)' = FilesOf(g), UNCHANGED input
    PROVE  InputTyped' /\ AndNoMap' /\ NothingYet' /\ OnlyTheirs' /\ HandledOnce' /\ NoneForgotten' /\ ShallowFirst'
<1> DEFINE new == [file |-> f, group |-> group, content |-> c, outcome |-> outcome]
<1>1. /\ files' = files \ {f} /\ handled' = handled \union {new}
      /\ UNCHANGED <<stage, groups, group>>
  BY DEF Handle
<1>2. group \in AllGroups \ groups /\ f \in FilesOf(group) /\ stage # "start"
  BY DEF WalkInv, OnlyTheirs, NothingYet
<1>3. /\ new.file = f /\ new.group = group
      /\ \A h \in handled : ~(h.file = f /\ h.group = group)
  BY DEF WalkInv, HandledOnce
<1> HIDE DEF new
<1>4. InputTyped' /\ AndNoMap' /\ NothingYet'
  BY <1>1, <1>2 DEF WalkInv, InputTyped, AndNoMap, NothingYet, input
<1>5. OnlyTheirs'
  BY <1>1, <1>2, <1>3 DEF WalkInv, OnlyTheirs
<1>6. HandledOnce'
  BY <1>1, <1>3 DEF WalkInv, HandledOnce
<1>7. NoneForgotten'
  BY <1>1, <1>3 DEF WalkInv, NoneForgotten, Done
<1>8. ShallowFirst'
  BY <1>1, <1>3 DEF WalkInv, ShallowFirst, MayBeNext
<1> QED BY <1>4, <1>5, <1>6, <1>7, <1>8

LEMMA WalkStep == WalkInv /\ [Next]_vars => WalkInv'
<1> SUFFICES ASSUME WalkInv, Next \/ UNCHANGED vars PROVE WalkInv'
  OBVIOUS
<1>0. UNCHANGED input /\ AllGroups' = AllGroups /\ \A g : FilesOf(g)' = FilesOf(g)
  BY InputStays
<1>1. InputTyped'
  BY <1>0 DEF WalkInv, InputTyped, input
<1>2. CASE \/ BeginFails \/ Walked \/ Upsert \/ UNCHANGED vars
         \/ BuildMap \/ AddRecord \/ AddAlias \/ MergeRemovals \/ SaveMap
  <2>1. UNCHANGED <<groups, group, files, seen, handled>> /\ (stage' = stage \/ stage' \notin {"start", "walk"})
    BY <1>2 DEF BeginFails, Walked, Upsert, BuildMap, AddRecord, AddAlias, MergeRemovals, SaveMap, vars, walk
  <2> QED
    BY <1>0, <1>1, <2>1 DEF WalkInv, NothingYet, AndNoMap, OnlyTheirs, HandledOnce, NoneForgotten, Done, ShallowFirst,
                            Originals, IsOriginalOf, input
<1>3. CASE Begin
  <2>1. /\ files = {} /\ handled = {} /\ seen = {} /\ groups' = AllGroups /\ stage' # "start" /\ job # "registry"
        /\ UNCHANGED <<group, files, seen, handled>>
    BY <1>3 DEF Begin, WalkInv, NothingYet, AllGroups
  <2> QED
    BY <1>0, <1>1, <2>1 DEF WalkInv, NothingYet, AndNoMap, OnlyTheirs, HandledOnce, NoneForgotten, ShallowFirst,
                            Originals, input
<1>4. ASSUME NEW g \in groups, EnterGroup(g) PROVE WalkInv'
  <2>1. /\ stage = "walk" /\ files = {} /\ groups' = groups \ {g} /\ group' = g /\ files' = FilesOf(g)
        /\ seen' = IF g.kind = "example" THEN {} ELSE seen
        /\ UNCHANGED <<stage, handled>>
    BY <1>4 DEF EnterGroup
  <2>2. g \in AllGroups /\ \A h \in handled : h.group # g
    BY DEF WalkInv, OnlyTheirs
  <2>3. NothingYet' /\ AndNoMap' /\ OnlyTheirs' /\ HandledOnce' /\ ShallowFirst'
    BY <1>0, <2>1, <2>2 DEF WalkInv, NothingYet, AndNoMap, OnlyTheirs, HandledOnce, ShallowFirst, input
  <2>4. NoneForgotten'
    BY <1>0, <2>1, <2>2 DEF WalkInv, NoneForgotten, Done
  <2>5. Originals'
    BY <2>1 DEF WalkInv, Originals, IsOriginalOf
  <2> QED BY <1>1, <2>3, <2>4, <2>5 DEF WalkInv
<1>5. ASSUME NEW f \in files, ReadFails(f) PROVE WalkInv'
  <2>1. MayBeNext(f) /\ Handle(f, AnyContent, "failed") /\ seen' = seen
    BY <1>5 DEF ReadFails
  <2>2. Originals'
    <3>1. /\ handled' = handled \union {[file |-> f, group |-> group, content |-> AnyContent, outcome |-> "failed"]}
          /\ group' = group
      BY <2>1 DEF Handle
    <3> QED BY <2>1, <3>1 DEF WalkInv, Originals, IsOriginalOf
  <2> QED BY <1>0, <2>1, <2>2, HandleKeeps DEF WalkInv
<1>6. ASSUME NEW f \in files, NEW c \in Content, SkipDuplicate(f, c) PROVE WalkInv'
  <2>1. MayBeNext(f) /\ Handle(f, c, "same") /\ seen' = seen /\ c \in seen
    BY <1>6 DEF SkipDuplicate
  <2>2. Originals'
    <3> DEFINE new == [file |-> f, group |-> group, content |-> c, outcome |-> "same"]
    <3>1. handled' = handled \union {new} /\ group' = group
      BY <2>1 DEF Handle
    <3>2. PICK o \in handled : o.content = c /\ o.outcome # "same" /\ (group.kind = "example" => o.group = group)
      BY <2>1 DEF WalkInv, Originals
    <3>3. IsOriginalOf(o, new)
      BY <3>2 DEF IsOriginalOf, WalkInv, ShallowFirst
    <3> QED BY <2>1, <3>1, <3>3 DEF WalkInv, Originals, IsOriginalOf
  <2> QED BY <1>0, <2>1, <2>2, HandleKeeps DEF WalkInv
<1>7. ASSUME NEW f \in files, NEW c \in Content, ReadFile(f, c) PROVE WalkInv'
  <2>1. PICK outcome \in Outcomes(group, c) : Handle(f, c, outcome)
    BY <1>7 DEF ReadFile
  <2>2. outcome # "same"
    BY <2>1 DEF Outcomes
  <2>3. MayBeNext(f) /\ seen' \subseteq seen \union {c}
    BY <1>7 DEF ReadFile
  <2>4. Originals'
    <3> DEFINE new == [file |-> f, group |-> group, content |-> c, outcome |-> outcome]
    <3>1. handled' = handled \union {new} /\ group' = group
      BY <2>1 DEF Handle
    <3>2. new.content = c /\ new.outcome # "same" /\ new.group = group
      BY <2>2
    <3> HIDE DEF new
    <3> QED BY <2>3, <3>1, <3>2 DEF WalkInv, Originals, IsOriginalOf
  <2> QED BY <1>0, <2>1, <2>3, <2>4, HandleKeeps DEF WalkInv
<1> QED BY <1>2, <1>3, <1>4, <1>5, <1>6, <1>7 DEF Next

LEMMA WalkStarts == Init => WalkInv
BY JobsAreWellFormed DEF Init, Name, AnyFile, IsTree, WalkInv, InputTyped, NothingYet, AndNoMap, OnlyTheirs, HandledOnce, NoneForgotten,
                         ShallowFirst, Originals, NoGroup

\* Whatever the job and the tree, the walk takes up each of its groups and reads
\* each of their files once, and leaves a file out as a copy only where it has
\* read the original, in the same example and not deeper.
THEOREM WalkInvariant == Spec => []WalkInv
<1> QED BY WalkStarts, WalkStep, PTL DEF Spec

-----------------------------------------------------------------------------
(* Directories. *)

LEMMA SameDir ==
    ASSUME NEW d \in Seq(Name), NEW e \in Seq(Name), Len(d) = Len(e), \A i \in 1..Len(d) : d[i] = e[i]
    PROVE  d = e
OBVIOUS

LEMMA PrefixIs ==
    ASSUME NEW d \in Seq(Name), NEW n \in 0..Len(d)
    PROVE  Prefix(d, n) \in Seq(Name) /\ Len(Prefix(d, n)) = n /\ \A i \in 1..n : Prefix(d, n)[i] = d[i]
BY DEF Prefix

LEMMA PrefixOfPrefix ==
    ASSUME NEW d \in Seq(Name), NEW n \in 0..Len(d), NEW m \in 0..n
    PROVE  Prefix(Prefix(d, n), m) = Prefix(d, m)
<1>1. m \in 0..Len(d)
  OBVIOUS
<1>2. /\ Prefix(d, n) \in Seq(Name) /\ Len(Prefix(d, n)) = n /\ \A i \in 1..n : Prefix(d, n)[i] = d[i]
      /\ Prefix(d, m) \in Seq(Name) /\ Len(Prefix(d, m)) = m /\ \A i \in 1..m : Prefix(d, m)[i] = d[i]
  BY <1>1, PrefixIs
<1>3. /\ Prefix(Prefix(d, n), m) \in Seq(Name) /\ Len(Prefix(Prefix(d, n), m)) = m
      /\ \A i \in 1..m : Prefix(Prefix(d, n), m)[i] = Prefix(d, n)[i]
  BY <1>2, PrefixIs
<1> QED BY <1>2, <1>3, SameDir

LEMMA PrefixAll ==
    ASSUME NEW d \in Seq(Name)
    PROVE  Prefix(d, Len(d)) = d
<1>1. Len(d) \in 0..Len(d)
  OBVIOUS
<1> QED BY <1>1, PrefixIs, SameDir

LEMMA FileOfTree ==
    ASSUME NEW t, IsTree(t), NEW f \in t
    PROVE  f \in AnyFile /\ f.dir \in Seq(Name) /\ Len(f.dir) \in Nat
BY DEF IsTree, AnyFile

\* The directories above a file, and the ones in a directory.
LEMMA DirIsPrefix ==
    ASSUME NEW t, IsTree(t), NEW d
    PROVE  d \in DirsOf(t) <=> \E f \in t : \E n \in 0..Len(f.dir) : d = Prefix(f.dir, n)
BY DEF DirsOf

LEMMA DirTyped ==
    ASSUME NEW t, IsTree(t), NEW d \in DirsOf(t)
    PROVE  d \in Seq(Name)
<1>1. PICK f \in t : \E n \in 0..Len(f.dir) : d = Prefix(f.dir, n)
  BY DirIsPrefix
<1> QED BY <1>1, FileOfTree, PrefixIs

LEMMA SubDirIs ==
    ASSUME NEW t, IsTree(t), NEW d \in Seq(Name), NEW e \in SubDirs(t, d)
    PROVE  /\ e \in Seq(Name) /\ Prefix(e, Len(d)) = d
           /\ Len(e) = Len(d) + 1 /\ Named(e) = e[Len(d) + 1]
<1>1. e \in DirsOf(t) /\ Len(e) = Len(d) + 1 /\ Prefix(e, Len(d)) = d
  BY DEF SubDirs
<1> QED BY <1>1, DirTyped DEF Named

\* Of two directories in one, or in two of equal depth, a file is in one.
LEMMA WithinOne ==
    ASSUME NEW f \in AnyFile, NEW d \in Seq(Name), NEW e \in Seq(Name),
           Within(f, d), Within(f, e), Len(d) <= Len(e)
    PROVE  d = Prefix(e, Len(d))
<1>1. f.dir \in Seq(Name) /\ Len(d) \in 0..Len(e) /\ Len(e) \in 0..Len(f.dir)
  BY DEF AnyFile, Within
<1> QED BY <1>1, PrefixOfPrefix DEF Within

\* The directory that n of the names above a file lead to.
LEMMA Above ==
    ASSUME NEW t, IsTree(t), NEW f \in t, NEW n \in 1..Len(f.dir)
    PROVE  /\ Prefix(f.dir, n) \in SubDirs(t, Prefix(f.dir, n - 1))
           /\ Within(f, Prefix(f.dir, n)) /\ Named(Prefix(f.dir, n)) = f.dir[n]
           /\ Named(Prefix(f.dir, n)) \in Parts(f.dir)
<1>1. f.dir \in Seq(Name) /\ n \in 0..Len(f.dir) /\ n - 1 \in 0..n /\ n - 1 \in 0..Len(f.dir)
  BY FileOfTree
<1>2. /\ Len(Prefix(f.dir, n)) = n /\ Len(Prefix(f.dir, n - 1)) = n - 1
      /\ Prefix(Prefix(f.dir, n), n - 1) = Prefix(f.dir, n - 1)
      /\ Prefix(f.dir, n)[n] = f.dir[n]
  BY <1>1, PrefixIs, PrefixOfPrefix
<1>3. Prefix(f.dir, n) \in DirsOf(t)
  BY <1>1, DirIsPrefix
<1> QED BY <1>1, <1>2, <1>3 DEF SubDirs, Within, Named, Parts

-----------------------------------------------------------------------------
(* Examples. *)

LEMMA RootIs == Root \in Seq(Name) /\ Len(Root) = 0
BY DEF Root

LEMMA ExamplesDirIs ==
    /\ Len(ExamplesDir) = 1 /\ ExamplesDir[1] = "examples"
    /\ Parts(ExamplesDir) = {"examples"} /\ "examples" \notin SkipDirs
<1>1. Len(ExamplesDir) = 1
  BY DEF ExamplesDir
<1>2. ExamplesDir[1] = "examples"
  BY DEF ExamplesDir
<1>3. Parts(ExamplesDir) = {"examples"}
  <2>1. 1..1 = {1}
    OBVIOUS
  <2> QED BY <1>1, <1>2, <2>1 DEF Parts
<1>4. "examples" \notin SkipDirs
  BY DEF SkipDirs
<1> QED BY <1>1, <1>2, <1>3, <1>4

\* Directories of different depths differ.
LEMMA Depths ==
    /\ \A d : Len(d) \in {2, 3} => d # ExamplesDir /\ d # Root
    /\ \A d : Len(d) = 1 => d # Root
    /\ \A n \in Nat : n # 0 => 0 \in 0..n /\ 1 \in 0..n /\ 1 \in 1..n
    /\ \A n \in Nat : n > 1 => 2 \in 0..n /\ 2 \in 1..n
    /\ \A n \in Nat : n > 1 /\ n # 2 => 3 \in 0..n /\ 3 \in 1..n
BY ExamplesDirIs, RootIs

LEMMA ExamplesDirTyped ==
    ASSUME NEW t, IsTree(t), HasExamplesDir(t)
    PROVE  ExamplesDir \in Seq(Name)
BY DirTyped DEF HasExamplesDir

\* An example under examples/ is that directory, a topic with code, or a
\* directory of a topic without.
IsExampleDir(t, d) ==
    /\ d \in Seq(Name)
    /\ \/ d = ExamplesDir
       \/ Len(d) = 2 /\ Prefix(d, 1) = ExamplesDir /\ CodeIn(t, d) # {}
       \/ Len(d) = 3 /\ Prefix(d, 1) = ExamplesDir /\ CodeIn(t, Prefix(d, 2)) = {}

LEMMA DiscoverIs ==
    ASSUME NEW t, NEW d
    PROVE  d \in DiscoverUnderExamples(t) <=>
              \/ d \in SubDirs(t, ExamplesDir) /\ Named(d) \notin SkipDirs /\ CodeIn(t, d) # {}
              \/ \E e \in SubDirs(t, ExamplesDir) :
                     /\ Named(e) \notin SkipDirs /\ CodeIn(t, e) = {}
                     /\ d \in SubDirs(t, e) /\ Named(d) \notin SkipDirs
              \/ d = ExamplesDir /\ CodeIn(t, ExamplesDir) # {}
<1> DEFINE topics == {e \in SubDirs(t, ExamplesDir) : Named(e) \notin SkipDirs}
           examples == {e \in topics : CodeIn(t, e) # {}}
           below == UNION {{g \in SubDirs(t, e) : Named(g) \notin SkipDirs} : e \in topics \ examples}
           itself == IF CodeIn(t, ExamplesDir) # {} THEN {ExamplesDir} ELSE {}
<1>1. DiscoverUnderExamples(t) = examples \union below \union itself
  BY DEF DiscoverUnderExamples
<1>2. d \in DiscoverUnderExamples(t) <=> d \in examples \/ d \in below \/ d \in itself
  <2> HIDE DEF examples, below, itself
  <2> QED BY <1>1
<1>3. d \in below <=> \E e \in topics \ examples : d \in {g \in SubDirs(t, e) : Named(g) \notin SkipDirs}
  OBVIOUS
<1> QED BY <1>2, <1>3

LEMMA ExampleDirIs ==
    ASSUME NEW t, IsTree(t), HasExamplesDir(t), NEW d \in DiscoverUnderExamples(t)
    PROVE  IsExampleDir(t, d)
<1>1. ExamplesDir \in Seq(Name) /\ Len(ExamplesDir) = 1
  BY ExamplesDirTyped, ExamplesDirIs
<1>2. ASSUME NEW e \in SubDirs(t, ExamplesDir)
      PROVE  e \in Seq(Name) /\ Len(e) = 2 /\ Prefix(e, 1) = ExamplesDir
  <2>1. e \in Seq(Name) /\ Prefix(e, Len(ExamplesDir)) = ExamplesDir
    BY <1>1, SubDirIs
  <2>2. Len(e) = Len(ExamplesDir) + 1
    BY <1>1, SubDirIs
  <2> QED BY <1>1, <2>1, <2>2
<1>3. \/ d \in SubDirs(t, ExamplesDir) /\ CodeIn(t, d) # {}
      \/ \E e \in SubDirs(t, ExamplesDir) : CodeIn(t, e) = {} /\ d \in SubDirs(t, e)
      \/ d = ExamplesDir
  BY DiscoverIs
<1>4. CASE d \in SubDirs(t, ExamplesDir) /\ CodeIn(t, d) # {}
  BY <1>2, <1>4 DEF IsExampleDir
<1>5. ASSUME NEW e \in SubDirs(t, ExamplesDir), CodeIn(t, e) = {}, d \in SubDirs(t, e) PROVE IsExampleDir(t, d)
  <2>1. e \in Seq(Name) /\ Len(e) = 2 /\ Prefix(e, 1) = ExamplesDir
    BY <1>2
  <2>2. d \in Seq(Name) /\ Prefix(d, Len(e)) = e
    BY <1>5, <2>1, SubDirIs
  <2>3. Len(d) = Len(e) + 1
    BY <1>5, <2>1, SubDirIs
  <2>4. Len(d) = 3 /\ Prefix(d, 2) = e
    BY <2>1, <2>2, <2>3
  <2>5. Prefix(Prefix(d, 2), 1) = Prefix(d, 1)
    BY <2>2, <2>4, PrefixOfPrefix
  <2> QED BY <1>5, <2>1, <2>2, <2>4, <2>5 DEF IsExampleDir
<1>6. CASE d = ExamplesDir
  BY <1>1, <1>6 DEF IsExampleDir
<1> QED BY <1>3, <1>4, <1>5, <1>6

\* No directory above the clone has a name that is skipped.
NoneAbove == Parts(above) \intersect SkipDirs = {}

LEMMA ExampleFileIs ==
    ASSUME NEW t, IsTree(t), NEW d \in Seq(Name), NEW f \in ExampleFiles(t, above, d)
    PROVE  /\ f \in t /\ IsCode(f) /\ Within(f, d) /\ Parts(f.dir) \intersect SkipDirs = {}
           /\ d = ExamplesDir => f.dir = d
           /\ d # ExamplesDir => NoneAbove
<1>1. CASE d = ExamplesDir
  <2>1. f \in t /\ f.dir = d /\ IsCode(f)
    BY <1>1 DEF ExampleFiles, IterRootLevelCodeFiles, CodeIn
  <2>2. Within(f, d)
    BY <2>1, PrefixAll DEF Within
  <2> QED BY <1>1, <2>1, <2>2, ExamplesDirIs
<1>2. CASE d # ExamplesDir
  BY <1>2 DEF ExampleFiles, IterCodeFiles, NoneAbove
<1> QED BY <1>1, <1>2

LEMMA RootSubDirIs ==
    ASSUME NEW t, IsTree(t), NEW d \in SubDirs(t, Root)
    PROVE  d \in Seq(Name) /\ Len(d) = 1
<1>1. d \in Seq(Name)
  BY RootIs, SubDirIs
<1>2. Len(d) = Len(Root) + 1
  BY RootIs, SubDirIs
<1> QED BY <1>1, <1>2, RootIs

LEMMA RootExampleIs ==
    ASSUME NEW t, IsTree(t)
    PROVE  \/ /\ DiscoverRootLevelExamples(t) = {Root}
              /\ \A d \in SubDirs(t, Root) : ~Shown(t, d)
           \/ /\ DiscoverRootLevelExamples(t) = {d \in SubDirs(t, Root) : Shown(t, d)}
              /\ DiscoverRootLevelExamples(t) # {} /\ Root \notin DiscoverRootLevelExamples(t)
<1> DEFINE found == {d \in SubDirs(t, Root) : Shown(t, d)}
<1>1. DiscoverRootLevelExamples(t) = IF found = {} THEN {Root} ELSE found
  BY DEF DiscoverRootLevelExamples, Shown
<1>2. ASSUME NEW d \in SubDirs(t, Root) PROVE d # Root
  <2>1. Len(d) = 1
    BY RootSubDirIs
  <2> QED BY <2>1, RootIs
<1> QED BY <1>1, <1>2

LEMMA FoundIsTyped ==
    ASSUME NEW t, IsTree(t), NEW d \in FindExampleDirs(t)
    PROVE  d \in Seq(Name)
<1>1. CASE HasExamplesDir(t)
  BY <1>1, ExampleDirIs DEF FindExampleDirs, IsExampleDir
<1>2. CASE ~HasExamplesDir(t)
  <2>1. d \in DiscoverRootLevelExamples(t)
    BY <1>2 DEF FindExampleDirs
  <2>2. d = Root \/ d \in SubDirs(t, Root)
    BY <2>1, RootExampleIs
  <2> QED BY <2>2, RootSubDirIs, RootIs
<1> QED BY <1>1, <1>2

\* A file is in at most one example, and one of the root beside the examples in
\* none (FindExampleDirs).
LEMMA OneExample ==
    ASSUME NEW t, IsTree(t), NEW d \in FindExampleDirs(t), NEW f \in ExampleFiles(t, above, d)
    PROVE  f \notin RootFiles(t) /\ \A e \in FindExampleDirs(t) : f \in ExampleFiles(t, above, e) => d = e
<1>0. d \in Seq(Name)
  BY FoundIsTyped
<1>1. /\ f \in t /\ f \in AnyFile /\ d \in Seq(Name) /\ Within(f, d) /\ (d = ExamplesDir => f.dir = d)
  BY <1>0, ExampleFileIs, FileOfTree
<1>2. f.dir \in Seq(Name)
  BY <1>1, FileOfTree
<1>3. CASE HasExamplesDir(t)
  <2>1. FindExampleDirs(t) = DiscoverUnderExamples(t) /\ f \notin RootFiles(t)
    BY <1>3 DEF FindExampleDirs, RootFiles
  <2>2. SUFFICES ASSUME NEW x \in FindExampleDirs(t), NEW y \in FindExampleDirs(t), Len(x) <= Len(y),
                        f \in ExampleFiles(t, above, x), f \in ExampleFiles(t, above, y)
                 PROVE  x = y
    <3>1. \A e \in FindExampleDirs(t) : Len(e) \in Nat
      BY FoundIsTyped
    <3> QED BY <2>1, <2>2, <3>1
  <2>3. IsExampleDir(t, x) /\ IsExampleDir(t, y)
    BY <1>3, <2>1, ExampleDirIs
  <2>31. x \in Seq(Name) /\ y \in Seq(Name)
    BY <2>3 DEF IsExampleDir
  <2>4. /\ Within(f, x) /\ Within(f, y) /\ (x = ExamplesDir => f.dir = x)
    BY <2>2, <2>31, ExampleFileIs
  <2>5. x = Prefix(y, Len(x)) /\ x \in Seq(Name) /\ y \in Seq(Name)
    BY <1>1, <2>2, <2>31, <2>4, WithinOne
  <2>6. CASE Len(x) = Len(y)
    BY <2>5, <2>6, PrefixAll
  <2>7. CASE x = ExamplesDir
    <3>1. Len(y) <= Len(x)
      BY <2>4, <2>7 DEF Within
    <3>2. Len(x) = Len(y)
      BY <2>2, <2>5, <3>1
    <3> QED BY <3>2, <2>6
  <2>8. CASE x # ExamplesDir /\ Len(x) # Len(y)
    <3>1. Len(x) = 2 /\ Len(y) = 3 /\ CodeIn(t, x) # {} /\ CodeIn(t, Prefix(y, 2)) = {}
      BY <2>2, <2>3, <2>8, ExamplesDirIs DEF IsExampleDir
    <3> QED BY <2>5, <3>1
  <2> QED BY <2>6, <2>7, <2>8
<1>4. CASE ~HasExamplesDir(t)
  <2>1. FindExampleDirs(t) = DiscoverRootLevelExamples(t)
    BY <1>4 DEF FindExampleDirs
  <2>2. CASE FindExampleDirs(t) = {Root}
    BY <2>2 DEF RootFiles
  <2>3. CASE FindExampleDirs(t) = {e \in SubDirs(t, Root) : Shown(t, e)}
    <3>1. \A e \in FindExampleDirs(t) : e \in Seq(Name) /\ Len(e) = 1
      BY <2>3, RootSubDirIs
    <3>2. f \notin RootFiles(t)
      <4>1. Len(d) = 1 /\ Len(d) <= Len(f.dir)
        BY <1>1, <3>1 DEF Within
      <4>2. Len(Root) = 0
        BY RootIs
      <4>3. f.dir # Root
        BY <4>1, <4>2
      <4> QED BY <4>3 DEF RootFiles, IterRootLevelCodeFiles, CodeIn
    <3>3. ASSUME NEW e \in FindExampleDirs(t), f \in ExampleFiles(t, above, e) PROVE d = e
      <4>1. Within(f, e)
        BY <3>1, <3>3, ExampleFileIs
      <4>2. e \in Seq(Name) /\ Len(d) = 1 /\ Len(e) = 1 /\ Len(d) <= Len(e)
        BY <3>1
      <4>3. d = Prefix(e, Len(d))
        BY <1>1, <4>1, <4>2, WithinOne
      <4>4. Prefix(e, Len(e)) = e
        BY <4>2, PrefixAll
      <4> QED BY <4>2, <4>3, <4>4
    <3> QED BY <3>2, <3>3
  <2> QED BY <2>1, <2>2, <2>3, RootExampleIs
<1> QED BY <1>3, <1>4

LEMMA InExample ==
    ASSUME NEW t, IsTree(t), NEW f \in t, IsCode(f), Parts(f.dir) \intersect SkipDirs = {},
           NEW d, Within(f, d), d # ExamplesDir, d # Root, NoneAbove
    PROVE  f \in ExampleFiles(t, above, d)
BY DEF ExampleFiles, IterCodeFiles, NoneAbove

\* IsExampleFile in the terms of the lemmas.
LEMMA IsExampleFileIs ==
    ASSUME NEW f
    PROVE  IsExampleFile(f) <=>
              /\ IsCode(f) /\ Parts(f.dir) \intersect SkipDirs = {}
              /\ NoneAbove \/ LiesAtTheTop(f)
              /\ IF HasExamplesDir(tree) THEN Within(f, ExamplesDir)
                 ELSE \/ f.dir = Root
                      \/ Shown(tree, Prefix(f.dir, 1))
                      \/ /\ Named(Prefix(f.dir, 1)) \notin RootFallbackSkipDirs
                         /\ \A d \in SubDirs(tree, Root) : ~Shown(tree, d)
BY DEF IsExampleFile, NoneAbove, NoneShown

LEMMA TopIs ==
    ASSUME NEW f
    PROVE  LiesAtTheTop(f) <=> IF HasExamplesDir(tree) THEN f.dir = ExamplesDir
                               ELSE f.dir = Root /\ \E d \in SubDirs(tree, Root) : Shown(tree, d)
BY DEF LiesAtTheTop, NoneShown

\* Every example file is in an example or in the root beside them ...
LEMMA ExampleFileIsFound ==
    ASSUME IsTree(tree), NEW f \in tree, IsExampleFile(f)
    PROVE  f \in RootFiles(tree) \/ \E d \in FindExampleDirs(tree) : f \in ExampleFiles(tree, above, d)
<1>1. /\ IsCode(f) /\ Parts(f.dir) \intersect SkipDirs = {} /\ f.dir \in Seq(Name) /\ Len(f.dir) \in Nat
      /\ NoneAbove \/ LiesAtTheTop(f)
  BY IsExampleFileIs, FileOfTree
<1>2. CASE HasExamplesDir(tree)
  <2>1. Len(ExamplesDir) <= Len(f.dir) /\ Prefix(f.dir, Len(ExamplesDir)) = ExamplesDir
    BY <1>2, IsExampleFileIs DEF Within
  <2>2. Len(f.dir) >= 1 /\ Prefix(f.dir, 1) = ExamplesDir
    BY <2>1, ExamplesDirIs
  <2>3. FindExampleDirs(tree) = DiscoverUnderExamples(tree)
    BY <1>2 DEF FindExampleDirs
  <2>4. CASE Len(f.dir) = 1
    <3>1. f.dir = ExamplesDir
      BY <1>1, <2>2, <2>4, PrefixAll
    <3>2. f \in CodeIn(tree, ExamplesDir)
      BY <1>1, <3>1 DEF CodeIn
    <3>3. ExamplesDir \in FindExampleDirs(tree) /\ f \in ExampleFiles(tree, above, ExamplesDir)
      BY <2>3, <3>2, DiscoverIs DEF ExampleFiles, IterRootLevelCodeFiles
    <3> QED BY <3>3
  <2>5. CASE Len(f.dir) # 1
    <3> DEFINE topic == Prefix(f.dir, 2)
    <3>0. Len(f.dir) > 1
      <4>1. \A n \in Nat : n >= 1 /\ n # 1 => n > 1
        OBVIOUS
      <4> QED BY <1>1, <2>2, <2>5, <4>1
    <3>1. /\ topic \in SubDirs(tree, Prefix(f.dir, 2 - 1)) /\ Within(f, topic)
          /\ Named(topic) \in Parts(f.dir) /\ topic \in Seq(Name) /\ Len(topic) = 2
      <4>1. 2 \in 1..Len(f.dir) /\ 2 \in 0..Len(f.dir)
        BY <1>1, <3>0, Depths
      <4>2. topic \in Seq(Name) /\ Len(topic) = 2
        BY <1>1, <4>1, PrefixIs
      <4> QED BY <4>1, <4>2, Above
    <3>2. topic \in SubDirs(tree, ExamplesDir) /\ Named(topic) \notin SkipDirs
      BY <1>1, <2>2, <3>1
    <3>3. topic # ExamplesDir /\ topic # Root
      BY <3>1, Depths
    <3>30. NoneAbove
      <4>1. f.dir # ExamplesDir
        BY <2>5, ExamplesDirIs
      <4> QED BY <1>1, <1>2, <4>1, TopIs
    <3>4. CASE CodeIn(tree, topic) # {}
      <4>1. topic \in FindExampleDirs(tree)
        BY <2>3, <3>2, <3>4, DiscoverIs
      <4> QED BY <1>1, <3>1, <3>3, <3>30, <4>1, InExample
    <3>5. CASE CodeIn(tree, topic) = {}
      <4> DEFINE below == Prefix(f.dir, 3)
      <4>1. f.dir # topic
        BY <1>1, <3>5 DEF CodeIn
      <4>2. Len(f.dir) # 2
        BY <1>1, <4>1, PrefixAll
      <4>3. 3 \in 1..Len(f.dir) /\ 3 \in 0..Len(f.dir)
        BY <1>1, <3>0, <4>2, Depths
      <4>4. /\ below \in SubDirs(tree, Prefix(f.dir, 3 - 1)) /\ Within(f, below)
            /\ Named(below) \in Parts(f.dir) /\ Len(below) = 3
        <5>1. Len(below) = 3
          BY <1>1, <4>3, PrefixIs
        <5> QED BY <4>3, <5>1, Above
      <4>5. below \in SubDirs(tree, topic) /\ Named(below) \notin SkipDirs
        BY <1>1, <4>4
      <4>6. below # ExamplesDir /\ below # Root
        BY <4>4, Depths
      <4>7. below \in FindExampleDirs(tree)
        <5> HIDE DEF topic, below
        <5> QED BY <2>3, <3>2, <3>5, <4>5, DiscoverIs
      <4> QED BY <1>1, <3>30, <4>4, <4>6, <4>7, InExample
    <3> QED BY <3>4, <3>5
  <2> QED BY <2>4, <2>5
<1>3. CASE ~HasExamplesDir(tree)
  <2>1. FindExampleDirs(tree) = DiscoverRootLevelExamples(tree)
    BY <1>3 DEF FindExampleDirs
  <2>2. CASE f.dir = Root /\ FindExampleDirs(tree) # {Root}
    BY <1>1, <1>3, <2>2 DEF RootFiles, IterRootLevelCodeFiles, CodeIn
  <2>3. CASE f.dir = Root /\ FindExampleDirs(tree) = {Root}
    <3>1. Within(f, Root) /\ ~(Len(f.dir) > Len(Root))
      <4>1. Prefix(Root, Len(Root)) = Root
        BY RootIs, PrefixAll
      <4> QED BY <2>3, <4>1, RootIs DEF Within
    <3>2. Root # ExamplesDir
      BY RootIs, ExamplesDirIs
    <3>20. NoneAbove
      <4>1. Root \notin {d \in SubDirs(tree, Root) : Shown(tree, d)}
        BY RootSubDirIs, RootIs
      <4>2. \A d \in SubDirs(tree, Root) : ~Shown(tree, d)
        BY <2>1, <2>3, <4>1, RootExampleIs
      <4> QED BY <1>1, <1>3, <4>2, TopIs
    <3>3. f \in ExampleFiles(tree, above, Root)
      BY <1>1, <3>1, <3>2, <3>20 DEF ExampleFiles, IterCodeFiles, NoneAbove
    <3> QED BY <2>3, <3>3
  <2>4. CASE f.dir # Root
    <3> DEFINE top == Prefix(f.dir, 1)
    <3>1. 1 \in 1..Len(f.dir) /\ 1 \in 0..Len(f.dir) /\ 0 \in 0..Len(f.dir)
      <4>1. Len(f.dir) # 0
        BY <1>1, <2>4, EmptySeq DEF Root
      <4> QED BY <1>1, <4>1
    <3>2. /\ top \in SubDirs(tree, Prefix(f.dir, 1 - 1)) /\ Within(f, top) /\ Named(top) = f.dir[1] /\ Len(top) = 1
      BY <1>1, <3>1, Above, PrefixIs
    <3>3. Prefix(f.dir, 0) = Root /\ Within(f, Root)
      <4>1. Prefix(f.dir, 0) \in Seq(Name) /\ Len(Prefix(f.dir, 0)) = 0
        BY <1>1, <3>1, PrefixIs
      <4>2. Prefix(f.dir, 0) = Root
        BY <4>1, RootIs, SameDir
      <4> QED BY <1>1, <4>2, RootIs DEF Within
    <3>4. top \in SubDirs(tree, Root) /\ top # Root
      <4>1. Prefix(f.dir, 1 - 1) = Root
        BY <3>3
      <4>2. top \in SubDirs(tree, Root)
        BY <3>2, <4>1
      <4> QED BY <3>2, <4>2, Depths
    <3>5. top # ExamplesDir
      BY <1>3, <3>4 DEF HasExamplesDir, SubDirs
    <3>50. NoneAbove
      BY <1>1, <1>3, <2>4, TopIs
    <3>6. CASE Shown(tree, top)
      <4>1. top \in FindExampleDirs(tree)
        BY <2>1, <3>4, <3>6, RootExampleIs
      <4> QED BY <1>1, <3>2, <3>4, <3>5, <3>50, <4>1, InExample
    <3>7. CASE ~Shown(tree, top)
      <4>1. f.dir[1] \notin RootFallbackSkipDirs /\ \A d \in SubDirs(tree, Root) : ~Shown(tree, d)
        BY <1>3, <2>4, <3>2, <3>7, IsExampleFileIs
      <4>2. FindExampleDirs(tree) = {Root}
        BY <2>1, <4>1, RootExampleIs
      <4>3. Root # ExamplesDir
        BY RootIs, ExamplesDirIs
      <4>4. f.dir[Len(Root) + 1] \notin RootFallbackSkipDirs
        BY <4>1, RootIs
      <4>5. f \in ExampleFiles(tree, above, Root)
        BY <1>1, <3>3, <3>50, <4>3, <4>4 DEF ExampleFiles, IterCodeFiles, NoneAbove
      <4> QED BY <4>2, <4>5
    <3> QED BY <3>6, <3>7
  <2> QED BY <2>2, <2>3, <2>4
<1> QED BY <1>2, <1>3

LEMMA RootFileIs ==
    ASSUME IsTree(tree), NEW f \in RootFiles(tree)
    PROVE  f \in tree /\ IsExampleFile(f)
<1>1. ~HasExamplesDir(tree) /\ f \in tree /\ f.dir = Root /\ IsCode(f) /\ FindExampleDirs(tree) # {Root}
  BY DEF RootFiles, IterRootLevelCodeFiles, CodeIn
<1>2. Parts(f.dir) = {}
  <2>1. 1..Len(Root) = {}
    BY RootIs
  <2> QED BY <1>1, <2>1 DEF Parts
<1>3. LiesAtTheTop(f)
  <2>1. DiscoverRootLevelExamples(tree) # {Root}
    BY <1>1 DEF FindExampleDirs
  <2>2. \E d \in SubDirs(tree, Root) : Shown(tree, d)
    BY <2>1, RootExampleIs
  <2> QED BY <1>1, <2>2, TopIs
<1> QED BY <1>1, <1>2, <1>3, IsExampleFileIs

\* ... and nothing else is.
LEMMA OnlyExampleFiles ==
    ASSUME IsTree(tree), NEW d \in FindExampleDirs(tree), NEW f \in ExampleFiles(tree, above, d)
    PROVE  f \in tree /\ IsExampleFile(f)
<1>1. d \in Seq(Name)
  BY FoundIsTyped
<1>2. /\ f \in tree /\ IsCode(f) /\ Within(f, d) /\ Parts(f.dir) \intersect SkipDirs = {}
      /\ d = ExamplesDir => f.dir = d
      /\ d # ExamplesDir => NoneAbove
  BY <1>1, ExampleFileIs
<1>3. f.dir \in Seq(Name) /\ Len(f.dir) \in Nat
  BY <1>2, FileOfTree
<1>4. Len(d) <= Len(f.dir) /\ Prefix(f.dir, Len(d)) = d /\ Len(d) \in Nat
  BY <1>1, <1>2 DEF Within
<1>5. CASE HasExamplesDir(tree)
  <2>1. IsExampleDir(tree, d)
    BY <1>5, ExampleDirIs DEF FindExampleDirs
  <2>2. CASE d = ExamplesDir
    <3>1. LiesAtTheTop(f)
      BY <1>2, <1>5, <2>2, TopIs
    <3> QED BY <1>2, <1>5, <2>2, <3>1, IsExampleFileIs
  <2>3. CASE Prefix(d, 1) = ExamplesDir /\ Len(d) \in {2, 3}
    <3>0. NoneAbove
      BY <1>2, <2>3, ExamplesDirIs
    <3>1. Len(d) \in 0..Len(f.dir) /\ 1 \in 0..Len(d) /\ 1 <= Len(f.dir)
      BY <1>3, <1>4, <2>3
    <3>2. Prefix(f.dir, 1) = ExamplesDir
      BY <1>3, <1>4, <2>3, <3>1, PrefixOfPrefix
    <3>3. Within(f, ExamplesDir)
      BY <3>1, <3>2, ExamplesDirIs DEF Within
    <3> QED BY <1>2, <1>5, <3>0, <3>3, IsExampleFileIs
  <2> QED BY <2>1, <2>2, <2>3 DEF IsExampleDir
<1>6. CASE ~HasExamplesDir(tree)
  <2>0. NoneAbove
    <3>1. d # ExamplesDir
      <4>1. d = Root \/ d \in SubDirs(tree, Root)
        BY <1>6, RootExampleIs DEF FindExampleDirs
      <4>2. ExamplesDir \notin SubDirs(tree, Root)
        BY <1>6 DEF HasExamplesDir, SubDirs
      <4> QED BY <4>1, <4>2, RootIs, ExamplesDirIs
    <3> QED BY <1>2, <3>1
  <2>1. FindExampleDirs(tree) = DiscoverRootLevelExamples(tree)
    BY <1>6 DEF FindExampleDirs
  <2>2. CASE d # Root
    <3>1. d \in SubDirs(tree, Root) /\ Shown(tree, d)
      BY <2>1, <2>2, RootExampleIs
    <3>2. Prefix(f.dir, 1) = d
      BY <1>4, <3>1, RootSubDirIs
    <3> QED BY <1>2, <1>6, <2>0, <3>1, <3>2, IsExampleFileIs
  <2>3. CASE d = Root
    <3>1. \A e \in SubDirs(tree, Root) : ~Shown(tree, e)
      BY <2>1, <2>3, RootExampleIs
    <3>2. CASE f.dir = Root
      BY <1>2, <1>6, <2>0, <3>2, IsExampleFileIs
    <3>3. CASE f.dir # Root
      <4>1. Len(f.dir) # 0
        BY <1>3, <3>3, EmptySeq DEF Root
      <4>2. Named(Prefix(f.dir, 1)) = f.dir[1]
        BY <1>2, <1>3, <4>1, Depths, Above
      <4>3. d # ExamplesDir
        BY <2>3, ExamplesDirIs, RootIs
      <4>4. Len(f.dir) > Len(d) => f.dir[Len(d) + 1] \notin RootFallbackSkipDirs
        BY <2>3, <4>3 DEF ExampleFiles, IterCodeFiles
      <4>5. f.dir[1] \notin RootFallbackSkipDirs
        BY <1>3, <2>3, <4>1, <4>4, RootIs
      <4> QED BY <1>2, <1>6, <2>0, <3>1, <4>2, <4>5, IsExampleFileIs
    <3> QED BY <3>2, <3>3
  <2> QED BY <2>2, <2>3
<1> QED BY <1>5, <1>6

\* The example a file is in has an entry in the taxonomy.
LEMMA ExampleHasEntry ==
    ASSUME NEW t, IsTree(t), HasExamplesDir(t), FoundationalDir \notin DirsOf(t),
           NEW d \in FindExampleDirs(t), NEW f
    PROVE  HasEntry(t, f, d)
<1>1. d \in DiscoverUnderExamples(t)
  BY DEF FindExampleDirs
<1>2. CASE SubDirs(t, ExamplesDir) # {}
  <2>1. d \in ScanTopicTree(t, {})
    BY <1>1 DEF ScanTopicTree
  <2> QED BY <1>2, <2>1 DEF HasEntry, TaxonomyLookup, BuildFromDirectory
<1>3. CASE SubDirs(t, ExamplesDir) = {}
  <2>1. d = ExamplesDir
    BY <1>1, <1>3, DiscoverIs
  <2>2. ExamplesDir \in SubDirs(t, Root)
    <3>1. ExamplesDir \in Seq(Name)
      BY ExamplesDirTyped
    <3>2. 0 \in 0..Len(ExamplesDir)
      BY ExamplesDirIs
    <3>3. Prefix(ExamplesDir, 0) \in Seq(Name) /\ Len(Prefix(ExamplesDir, 0)) = 0
      BY <3>1, <3>2, PrefixIs
    <3>4. Prefix(ExamplesDir, 0) = Root
      BY <3>3, RootIs, SameDir
    <3> QED BY <3>4, RootIs, ExamplesDirIs DEF SubDirs, HasExamplesDir
  <2>3. Named(ExamplesDir) = "examples"
    BY ExamplesDirIs DEF Named
  <2>4. ExamplesDir \in BuildFromExamplesRepo(t)
    BY <2>2, <2>3 DEF BuildFromExamplesRepo, HiddenDirs, PackagedProjectSkip
  <2> QED BY <1>3, <2>1, <2>4 DEF HasEntry, TaxonomyLookup, BuildFromDirectory
<1> QED BY <1>2, <1>3

-----------------------------------------------------------------------------
(* API source. *)

LEMMA PackageIs ==
    ASSUME NEW t, IsTree(t), NEW p \in Packages(t)
    PROVE  p \in Seq(Name) /\ Len(p) = 2 /\ p[1] = "src"
<1>1. p \in DirsOf(t) /\ Len(p) = Len(<<"src">>) + 1 /\ Prefix(p, Len(<<"src">>)) = <<"src">>
  BY DEF Packages, SubDirs
<1>2. Len(<<"src">>) = 1 /\ <<"src">>[1] = "src"
  OBVIOUS
<1>3. p \in Seq(Name)
  BY <1>1, DirTyped
<1>4. Len(p) = 2 /\ Prefix(p, 1) = <<"src">>
  BY <1>1, <1>2
<1>5. 1 \in 0..Len(p) /\ 1 \in 1..1
  BY <1>4
<1>6. Prefix(p, 1)[1] = p[1]
  BY <1>3, <1>5, PrefixIs
<1> QED BY <1>2, <1>3, <1>4, <1>6

LEMMA PackageFileIs ==
    ASSUME NEW t, IsTree(t), NEW p \in Packages(t), NEW f \in FindPythonFiles(t, p)
    PROVE  /\ f \in t /\ f.ext = "py" /\ Len(f.dir) >= 2 /\ f.dir[1] = "src" /\ Prefix(f.dir, 2) = p
           /\ Parts(SubSeq(f.dir, 3, Len(f.dir))) \intersect PySkipDirs = {}
<1>1. p \in Seq(Name) /\ Len(p) = 2 /\ p[1] = "src"
  BY PackageIs
<1>2. /\ f \in t /\ f.ext = "py" /\ Len(p) <= Len(f.dir) /\ Prefix(f.dir, Len(p)) = p
      /\ Parts(SubSeq(f.dir, Len(p) + 1, Len(f.dir))) \intersect PySkipDirs = {}
  BY DEF FindPythonFiles, Within
<1>3. f.dir \in Seq(Name) /\ Len(f.dir) \in Nat
  BY <1>2, FileOfTree
<1>4. Len(p) + 1 = 3 /\ Len(f.dir) >= 2
  BY <1>1, <1>2, <1>3
<1>5. 2 \in 0..Len(f.dir) /\ 1 \in 1..2
  BY <1>3, <1>4
<1>6. Prefix(f.dir, 2)[1] = f.dir[1]
  BY <1>3, <1>5, PrefixIs
<1> QED BY <1>1, <1>2, <1>4, <1>6

\* IsSourceFile is the union of the groups.
LEMMA SourceFilesAreFound ==
    ASSUME IsTree(tree), NEW f
    PROVE  f \in tree /\ IsSourceFile(f) <=> \E g \in GroupsOf("source", tree) : f \in FilesOf(g)
<1> DEFINE pkg(p) == [kind |-> "package", dir |-> p]
           pyi == [kind |-> "pyi", dir |-> Root]
           rst == [kind |-> "rst", dir |-> Root]
           ts == [kind |-> "ts", dir |-> Root]
<1>1. \A g : g \in GroupsOf("source", tree) <=>
            \/ \E p \in Packages(tree) : g = pkg(p)
            \/ g = pyi /\ PyiFiles(tree) # {}
            \/ g = rst /\ RstFiles(tree) # {}
            \/ g = ts /\ FindTsFiles(tree) # {}
  BY DEF GroupsOf
<1>2. /\ \A p : FilesOf(pkg(p)) = FindPythonFiles(tree, p)
      /\ FilesOf(pyi) = PyiFiles(tree) /\ FilesOf(rst) = RstFiles(tree) /\ FilesOf(ts) = FindTsFiles(tree)
  BY DEF FilesOf
<1>3. (\E g \in GroupsOf("source", tree) : f \in FilesOf(g)) <=>
         \/ \E p \in Packages(tree) : f \in FindPythonFiles(tree, p)
         \/ f \in PyiFiles(tree) \/ f \in RstFiles(tree) \/ f \in FindTsFiles(tree)
  <2> HIDE DEF pkg, pyi, rst, ts
  <2> QED BY <1>1, <1>2
<1>4. f \in PyiFiles(tree) <=> f \in tree /\ f.ext = "pyi" /\ f.dir = Root
  BY DEF PyiFiles
<1>5. f \in RstFiles(tree) <=> f \in tree /\ f.ext = "rst" /\ Within(f, <<"docs">>)
  BY DEF RstFiles
<1>6. f \in FindTsFiles(tree) <=>
        f \in tree /\ f.ext \in {"ts", "tsx"} /\ HasTsMarkers(tree) /\ Parts(f.dir) \intersect TsSkipDirs = {}
  BY DEF FindTsFiles
<1>7. (\E p \in Packages(tree) : f \in FindPythonFiles(tree, p)) <=>
        /\ f \in tree /\ f.ext = "py" /\ Len(f.dir) >= 2 /\ f.dir[1] = "src" /\ Prefix(f.dir, 2) \in Packages(tree)
        /\ Parts(SubSeq(f.dir, 3, Len(f.dir))) \intersect PySkipDirs = {}
  <2>1. ASSUME f \in tree, f.ext = "py", Len(f.dir) >= 2, Prefix(f.dir, 2) \in Packages(tree),
               Parts(SubSeq(f.dir, 3, Len(f.dir))) \intersect PySkipDirs = {}
        PROVE  f \in FindPythonFiles(tree, Prefix(f.dir, 2))
    <3>1. Len(Prefix(f.dir, 2)) = 2
      BY <2>1, PackageIs
    <3>2. \A p : Len(p) = 2 /\ p = Prefix(f.dir, 2) => Len(p) + 1 = 3 /\ Within(f, p)
      BY <2>1 DEF Within
    <3>3. Within(f, Prefix(f.dir, 2)) /\ Len(Prefix(f.dir, 2)) + 1 = 3
      BY <3>1, <3>2
    <3> QED BY <2>1, <3>3 DEF FindPythonFiles
  <2> QED BY <2>1, PackageFileIs
<1> QED BY <1>3, <1>4, <1>5, <1>6, <1>7 DEF IsSourceFile

\* What the ids of a file's chunks are made with.
Path(separator, names) == <<separator, names>>
Only(x) == <<x>>
TsSeparator(d) == IF d = Root THEN "." ELSE "/"   \* tells the files of the root
PathOf(h) ==
    CASE h.group.kind = "package" -> Path(".", PythonPath(h.file))
      [] h.group.kind = "pyi" -> Path(".", Only(h.file.stem))
      [] h.group.kind = "ts" -> Path(TsSeparator(h.file.dir), Append(h.file.dir, h.file.stem))
      [] OTHER -> h.file

LEMMA IdsCarryThePath ==
    ASSUME NEW h, NEW x \in ChunkIds(h)
    PROVE  x[1] = PathOf(h) /\ (h.group.kind \in {"package", "pyi", "ts"} <=> Len(x) = 5)
<1>1. \A path, c : ChunkId(path, c)[1] = path /\ Len(ChunkId(path, c)) = 5
  BY DEF ChunkId
<1>2. \A path, name : <<path, name>>[1] = path /\ Len(<<path, name>>) = 2
  OBVIOUS
<1>3. CASE h.group.kind = "package"
  <2>1. \E c : x = ChunkId(PathOf(h), c)
    BY <1>3 DEF ChunkIds, PathOf, Path, Only, TsSeparator
  <2> QED BY <1>1, <1>3, <2>1
<1>4. CASE h.group.kind = "pyi"
  <2>1. \E c : x = ChunkId(PathOf(h), c)
    BY <1>4 DEF ChunkIds, PathOf, Path, Only, TsSeparator
  <2> QED BY <1>1, <1>4, <2>1
<1>5. CASE h.group.kind = "ts"
  <2>1. \E c : x = ChunkId(PathOf(h), c)
    BY <1>5 DEF ChunkIds, PathOf, Path, Only, TsSeparator
  <2> QED BY <1>1, <1>5, <2>1
<1>6. CASE h.group.kind \notin {"package", "pyi", "ts"}
  <2>1. \E name : x = <<PathOf(h), name>>
    BY <1>6 DEF ChunkIds, PathOf, Path, Only, TsSeparator
  <2> QED BY <1>2, <1>6, <2>1
<1> QED BY <1>3, <1>4, <1>5, <1>6

\* A Python file of a package: its path is its directory without the first name,
\* and its own name unless that is __init__.
InPackage(f) == f \in AnyFile /\ Len(f.dir) >= 2 /\ f.dir[1] = "src"

LEMMA PythonPathIs ==
    ASSUME NEW f, InPackage(f)
    PROVE  /\ PythonPath(f) \in Seq(Name)
           /\ Len(PythonPath(f)) = IF f.stem = "__init__" THEN Len(f.dir) - 1 ELSE Len(f.dir)
           /\ \A i \in 1..Len(f.dir) - 1 : PythonPath(f)[i] = f.dir[i + 1]
           /\ f.stem # "__init__" => PythonPath(f)[Len(f.dir)] = f.stem
<1>1. f.dir \in Seq(Name) /\ f.stem \in Name /\ Len(f.dir) \in Nat /\ Len(f.dir) >= 2
  BY DEF InPackage, AnyFile
<1>2. /\ Tail(f.dir) \in Seq(Name) /\ Len(Tail(f.dir)) = Len(f.dir) - 1
      /\ \A i \in 1..Len(f.dir) - 1 : Tail(f.dir)[i] = f.dir[i + 1]
  BY <1>1
<1>3. CASE f.stem = "__init__"
  <2>1. PythonPath(f) = Tail(f.dir)
    BY <1>2, <1>3 DEF PythonPath
  <2> QED BY <1>2, <1>3, <2>1
<1>4. CASE f.stem # "__init__"
  <2>1. PythonPath(f) = Append(Tail(f.dir), f.stem)
    BY <1>1, <1>2, <1>4, AppendIsConcat DEF PythonPath
  <2>2. /\ PythonPath(f) \in Seq(Name) /\ Len(PythonPath(f)) = Len(Tail(f.dir)) + 1
        /\ \A i \in 1..Len(Tail(f.dir)) : PythonPath(f)[i] = Tail(f.dir)[i]
        /\ PythonPath(f)[Len(Tail(f.dir)) + 1] = f.stem
    BY <1>1, <1>2, <2>1, AppendProperties
  <2>3. Len(f.dir) - 1 + 1 = Len(f.dir)
    BY <1>1
  <2> QED BY <1>1, <1>2, <1>4, <2>2, <2>3
<1> QED BY <1>3, <1>4

LEMMA OnePythonPath ==
    ASSUME NEW f, InPackage(f), NEW g, InPackage(g), PythonPath(f) = PythonPath(g),
           f.stem = "__init__" => g.stem = "__init__"
    PROVE  OneModule(f, g)
<1>1. /\ f.dir \in Seq(Name) /\ g.dir \in Seq(Name) /\ f.stem \in Name
      /\ Len(f.dir) \in Nat /\ Len(f.dir) >= 2 /\ f.dir[1] = "src"
      /\ Len(g.dir) \in Nat /\ Len(g.dir) >= 2 /\ g.dir[1] = "src"
  BY DEF InPackage, AnyFile
<1>2. /\ Len(PythonPath(f)) = IF f.stem = "__init__" THEN Len(f.dir) - 1 ELSE Len(f.dir)
      /\ \A i \in 1..Len(f.dir) - 1 : PythonPath(f)[i] = f.dir[i + 1]
      /\ f.stem # "__init__" => PythonPath(f)[Len(f.dir)] = f.stem
  BY PythonPathIs
<1>3. /\ Len(PythonPath(f)) = IF g.stem = "__init__" THEN Len(g.dir) - 1 ELSE Len(g.dir)
      /\ \A i \in 1..Len(g.dir) - 1 : PythonPath(f)[i] = g.dir[i + 1]
      /\ g.stem # "__init__" => PythonPath(f)[Len(g.dir)] = g.stem
  BY PythonPathIs
<1>4. CASE f.stem = "__init__" <=> g.stem = "__init__"
  <2>1. Len(f.dir) = Len(g.dir)
    BY <1>1, <1>2, <1>3, <1>4
  <2>2. \A i \in 1..Len(f.dir) - 1 : f.dir[i + 1] = g.dir[i + 1]
    BY <1>1, <1>2, <1>3, <2>1
  <2>3. ASSUME NEW i \in 1..Len(f.dir) PROVE f.dir[i] = g.dir[i]
    <3>1. CASE i = 1
      BY <1>1, <3>1
    <3>2. CASE i # 1
      <4>1. i - 1 \in 1..Len(f.dir) - 1 /\ i - 1 + 1 = i
        BY <1>1, <3>2
      <4> QED BY <2>2, <4>1
    <3> QED BY <3>1, <3>2
  <2>4. f.dir = g.dir
    BY <1>1, <2>1, <2>3, SameDir
  <2>5. f.stem = g.stem
    BY <1>2, <1>3, <1>4, <2>1
  <2> QED BY <2>4, <2>5 DEF OneModule
<1>5. CASE f.stem # "__init__" /\ g.stem = "__init__"
  <2> DEFINE d == Append(f.dir, f.stem)
  <2>1. Len(g.dir) = Len(f.dir) + 1
    BY <1>1, <1>2, <1>3, <1>5
  <2>2. /\ d \in Seq(Name) /\ Len(d) = Len(f.dir) + 1
        /\ \A i \in 1..Len(f.dir) : d[i] = f.dir[i]
        /\ d[Len(f.dir) + 1] = f.stem
    BY <1>1, AppendProperties
  <2> HIDE DEF d
  <2>3. ASSUME NEW i \in 1..Len(d) PROVE d[i] = g.dir[i]
    <3>1. CASE i = 1
      BY <1>1, <2>2, <3>1
    <3>2. CASE i # 1 /\ i <= Len(f.dir)
      <4>1. /\ i - 1 \in 1..Len(f.dir) - 1 /\ i - 1 \in 1..Len(g.dir) - 1 /\ i - 1 + 1 = i
            /\ i \in 1..Len(f.dir)
        BY <1>1, <2>1, <3>2
      <4> QED BY <1>2, <1>3, <2>2, <4>1
    <3>3. CASE i = Len(f.dir) + 1
      <4>1. i - 1 \in 1..Len(g.dir) - 1 /\ i - 1 + 1 = i /\ i - 1 = Len(f.dir)
        BY <1>1, <2>1, <3>3
      <4> QED BY <1>2, <1>3, <1>5, <2>2, <3>3, <4>1
    <3>4. i <= Len(f.dir) \/ i = Len(f.dir) + 1
      BY <1>1, <2>2
    <3> QED BY <3>1, <3>2, <3>3, <3>4
  <2>4. d = g.dir
    BY <1>1, <2>1, <2>2, <2>3, SameDir
  <2> QED BY <1>5, <2>4 DEF OneModule, d
<1> QED BY <1>4, <1>5

\* A stub or a TypeScript file of the root that has the path of a package file has
\* that of the package itself.
LEMMA RootAndPackage ==
    ASSUME NEW f \in AnyFile, f.dir = Root, NEW g, InPackage(g), PythonPath(g) = Only(f.stem)
    PROVE  OneModule(f, g)
<1>1. /\ g.dir \in Seq(Name) /\ Len(g.dir) \in Nat /\ Len(g.dir) >= 2 /\ g.dir[1] = "src"
  BY DEF InPackage, AnyFile
<1>2. Len(PythonPath(g)) = 1 /\ PythonPath(g)[1] = f.stem
  <2>1. \A x : Len(Only(x)) = 1 /\ Only(x)[1] = x
    BY DEF Only
  <2> QED BY <2>1
<1>3. /\ Len(PythonPath(g)) = IF g.stem = "__init__" THEN Len(g.dir) - 1 ELSE Len(g.dir)
      /\ \A i \in 1..Len(g.dir) - 1 : PythonPath(g)[i] = g.dir[i + 1]
  BY PythonPathIs
<1>4. g.stem = "__init__" /\ Len(g.dir) = 2
  <2>1. \A n \in Nat : n >= 2 => n # 1 /\ (n - 1 = 1 => n = 2)
    OBVIOUS
  <2> QED BY <1>1, <1>2, <1>3, <2>1
<1>5. g.dir[2] = f.stem
  <2>1. 1 \in 1..Len(g.dir) - 1 /\ 1 + 1 = 2
    BY <1>4
  <2> QED BY <1>2, <1>3, <2>1
<1>6. g.dir = <<"src", f.stem>>
  BY <1>1, <1>4, <1>5
<1> QED BY <1>4, <1>6 DEF OneModule

\* What the walk gives of a file of API source.
IsSourceOf(h) ==
    /\ h.file \in AnyFile
    /\ h.group.kind = "package" => InPackage(h.file)
    /\ h.group.kind = "pyi" => h.file.dir = Root

LEMMA SamePath ==
    ASSUME NEW a, NEW b, NEW c, NEW d, Path(a, b) = Path(c, d)
    PROVE  a = c /\ b = d
BY DEF Path

LEMMA SameName ==
    ASSUME NEW a, NEW b, Only(a) = Only(b)
    PROVE  a = b
BY DEF Only

LEMMA SameAppended ==
    ASSUME NEW d \in Seq(Name), NEW e \in Seq(Name), NEW x \in Name, NEW y \in Name, Append(d, x) = Append(e, y)
    PROVE  d = e /\ x = y
BY AppendInjective

LEMMA TsPathIs ==
    ASSUME NEW d, NEW x, NEW p, Path(TsSeparator(d), Append(d, x)) = Path(".", p)
    PROVE  d = Root /\ p = Only(x)
<1>1. TsSeparator(d) = "." /\ Append(d, x) = p
  BY SamePath
<1>2. d = Root
  BY <1>1 DEF TsSeparator
<1>3. Append(Root, x) = Only(x)
  BY DEF Root, Only
<1> QED BY <1>1, <1>2, <1>3

LEMMA TsPathsAgree ==
    ASSUME NEW d, NEW x, NEW e, NEW y, Path(TsSeparator(d), Append(d, x)) = Path(TsSeparator(e), Append(e, y))
    PROVE  Append(d, x) = Append(e, y)
<1> DEFINE a == TsSeparator(d)
           b == Append(d, x)
           a2 == TsSeparator(e)
           b2 == Append(e, y)
<1>1. Path(a, b) = Path(a2, b2)
  OBVIOUS
<1> HIDE DEF a, b, a2, b2
<1>2. b = b2
  BY <1>1, SamePath
<1> QED BY <1>2 DEF b, b2

LEMMA TwoOfPackages ==
    ASSUME NEW f, InPackage(f), NEW g, InPackage(g), Path(".", PythonPath(f)) = Path(".", PythonPath(g))
    PROVE  OneModule(f, g) \/ OneModule(g, f)
<1>1. PythonPath(f) = PythonPath(g)
  BY SamePath
<1>2. CASE f.stem = "__init__" => g.stem = "__init__"
  BY <1>1, <1>2, OnePythonPath
<1>3. CASE g.stem = "__init__" => f.stem = "__init__"
  BY <1>1, <1>3, OnePythonPath
<1> QED BY <1>2, <1>3

LEMMA StubAndPackage ==
    ASSUME NEW f \in AnyFile, f.dir = Root, NEW g, InPackage(g),
           Path(".", Only(f.stem)) = Path(".", PythonPath(g))
    PROVE  OneModule(f, g)
<1>1. PythonPath(g) = Only(f.stem)
  BY SamePath
<1> QED BY <1>1, RootAndPackage

LEMMA TsAndPackage ==
    ASSUME NEW f \in AnyFile, NEW g, InPackage(g),
           Path(TsSeparator(f.dir), Append(f.dir, f.stem)) = Path(".", PythonPath(g))
    PROVE  OneModule(f, g)
<1>1. f.dir = Root /\ PythonPath(g) = Only(f.stem)
  BY TsPathIs
<1> QED BY <1>1, RootAndPackage

LEMMA TwoStubs ==
    ASSUME NEW f, f.dir = Root, NEW g, g.dir = Root, Path(".", Only(f.stem)) = Path(".", Only(g.stem))
    PROVE  OneModule(f, g)
<1>1. Only(f.stem) = Only(g.stem)
  BY SamePath
<1>2. f.stem = g.stem
  BY <1>1, SameName
<1> QED BY <1>2 DEF OneModule

LEMMA TsAndStub ==
    ASSUME NEW f, NEW g, g.dir = Root, Path(TsSeparator(f.dir), Append(f.dir, f.stem)) = Path(".", Only(g.stem))
    PROVE  OneModule(f, g)
<1>1. f.dir = Root /\ Only(g.stem) = Only(f.stem)
  BY TsPathIs
<1>2. f.stem = g.stem
  BY <1>1, SameName
<1> QED BY <1>1, <1>2 DEF OneModule

LEMMA TwoOfTs ==
    ASSUME NEW f \in AnyFile, NEW g \in AnyFile,
           Path(TsSeparator(f.dir), Append(f.dir, f.stem)) = Path(TsSeparator(g.dir), Append(g.dir, g.stem))
    PROVE  OneModule(f, g)
<1>1. Append(f.dir, f.stem) = Append(g.dir, g.stem)
  BY TsPathsAgree
<1>2. f.dir \in Seq(Name) /\ g.dir \in Seq(Name) /\ f.stem \in Name /\ g.stem \in Name
  BY DEF AnyFile
<1>3. f.dir = g.dir /\ f.stem = g.stem
  BY <1>1, <1>2, SameAppended
<1> QED BY <1>3 DEF OneModule

LEMMA OnePathInOrder ==
    ASSUME NEW h, NEW i, IsSourceOf(h), IsSourceOf(i), PathOf(h) = PathOf(i),
           \/ h.group.kind = i.group.kind
           \/ h.group.kind \in {"pyi", "ts"} /\ i.group.kind = "package"
           \/ h.group.kind = "ts" /\ i.group.kind = "pyi"
    PROVE  OneModule(h.file, i.file) \/ OneModule(i.file, h.file)
<1> DEFINE f == h.file
           g == i.file
<1>1. CASE h.group.kind = "package" /\ i.group.kind = "package"
  <2>1. InPackage(f) /\ InPackage(g) /\ Path(".", PythonPath(f)) = Path(".", PythonPath(g))
    BY <1>1 DEF PathOf, IsSourceOf
  <2> QED BY <2>1, TwoOfPackages
<1>2. CASE h.group.kind = "pyi" /\ i.group.kind = "package"
  <2>1. f \in AnyFile /\ f.dir = Root /\ InPackage(g) /\ Path(".", Only(f.stem)) = Path(".", PythonPath(g))
    BY <1>2 DEF PathOf, IsSourceOf
  <2> QED BY <2>1, StubAndPackage
<1>3. CASE h.group.kind = "ts" /\ i.group.kind = "package"
  <2>1. /\ f \in AnyFile /\ InPackage(g)
        /\ Path(TsSeparator(f.dir), Append(f.dir, f.stem)) = Path(".", PythonPath(g))
    BY <1>3 DEF PathOf, IsSourceOf
  <2> QED BY <2>1, TsAndPackage
<1>4. CASE h.group.kind = "pyi" /\ i.group.kind = "pyi"
  <2>1. f.dir = Root /\ g.dir = Root /\ Path(".", Only(f.stem)) = Path(".", Only(g.stem))
    BY <1>4 DEF PathOf, IsSourceOf
  <2> QED BY <2>1, TwoStubs
<1>5. CASE h.group.kind = "ts" /\ i.group.kind = "pyi"
  <2>1. g.dir = Root /\ Path(TsSeparator(f.dir), Append(f.dir, f.stem)) = Path(".", Only(g.stem))
    BY <1>5 DEF PathOf, IsSourceOf
  <2> QED BY <2>1, TsAndStub
<1>6. CASE h.group.kind = "ts" /\ i.group.kind = "ts"
  <2>1. /\ f \in AnyFile /\ g \in AnyFile
        /\ Path(TsSeparator(f.dir), Append(f.dir, f.stem)) = Path(TsSeparator(g.dir), Append(g.dir, g.stem))
    BY <1>6 DEF PathOf, IsSourceOf
  <2> QED BY <2>1, TwoOfTs
<1>7. CASE h.group.kind \notin {"package", "pyi", "ts"} /\ i.group.kind = h.group.kind
  BY <1>7 DEF PathOf, OneModule
<1> QED BY <1>1, <1>2, <1>3, <1>4, <1>5, <1>6, <1>7

LEMMA OnePath ==
    ASSUME NEW h, NEW i, IsSourceOf(h), IsSourceOf(i), PathOf(h) = PathOf(i),
           h.group.kind \in {"package", "pyi", "ts"} <=> i.group.kind \in {"package", "pyi", "ts"}
    PROVE  OneModule(h.file, i.file) \/ OneModule(i.file, h.file)
<1>1. CASE h.group.kind \in {"package", "pyi", "ts"} /\ i.group.kind \in {"package", "pyi", "ts"}
  BY <1>1, OnePathInOrder
<1>2. CASE h.group.kind \notin {"package", "pyi", "ts"} /\ i.group.kind \notin {"package", "pyi", "ts"}
  BY <1>2 DEF PathOf, OneModule
<1> QED BY <1>1, <1>2

LEMMA SourceFileIs ==
    ASSUME WalkInv, job = "source", NEW h \in handled
    PROVE  IsSourceOf(h)
<1>1. IsTree(tree) /\ h.group \in GroupsOf("source", tree) /\ h.file \in FilesOf(h.group)
  BY DEF WalkInv, InputTyped, OnlyTheirs, AllGroups
<1>2. h.file \in AnyFile
  BY <1>1, SourceFilesAreFound, FileOfTree
<1>3. h.group.kind = "package" => InPackage(h.file)
  <2> SUFFICES ASSUME h.group.kind = "package" PROVE InPackage(h.file)
    OBVIOUS
  <2>1. h.group.dir \in Packages(tree)
    BY <1>1 DEF GroupsOf
  <2>2. h.file \in FindPythonFiles(tree, h.group.dir)
    BY <1>1 DEF FilesOf
  <2> QED BY <1>1, <1>2, <2>1, <2>2, PackageFileIs DEF InPackage
<1>4. h.group.kind = "pyi" => h.file.dir = Root
  <2> SUFFICES ASSUME h.group.kind = "pyi" PROVE h.file.dir = Root
    OBVIOUS
  <2>1. h.file \in PyiFiles(tree)
    BY <1>1 DEF FilesOf
  <2> QED BY <2>1 DEF PyiFiles
<1> QED BY <1>2, <1>3, <1>4 DEF IsSourceOf

-----------------------------------------------------------------------------
(* The two halves together. *)

\* A code file is in the group that it was handled in and in no other.
LEMMA CodeHandledOnce ==
    ASSUME WalkInv, job = "code", NEW h \in handled, NEW i \in handled, h.file = i.file
    PROVE  h = i
<1>1. IsTree(tree) /\ \A k \in {h, i} : k.group \in GroupsOf("code", tree) /\ k.file \in FilesOf(k.group)
  BY DEF WalkInv, InputTyped, OnlyTheirs, AllGroups
<1>2. \A k \in {h, i} :
         \/ /\ k.group = [kind |-> "example", dir |-> k.group.dir] /\ k.group.dir \in FindExampleDirs(tree)
            /\ k.file \in ExampleFiles(tree, above, k.group.dir)
         \/ k.group = [kind |-> "root", dir |-> Root] /\ k.file \in RootFiles(tree)
  BY <1>1 DEF GroupsOf, FilesOf
<1>3. h.group = i.group
  BY <1>1, <1>2, OneExample
<1> QED BY <1>3 DEF WalkInv, HandledOnce

\* The chunks of one upsert have different ids: a file of the examples is handled
\* once, whatever directories the repo has, and files of API source share an id
\* only where they are one module.
THEOREM IdsOfFilesDiffer == Spec => []ChunkIdsDiffer
<1>1. ASSUME WalkInv, job = "source", NEW h \in Kept, NEW i \in Kept, ChunkIds(h) \intersect ChunkIds(i) # {}
      PROVE  OneModule(h.file, i.file) \/ OneModule(i.file, h.file)
  <2>1. h \in handled /\ i \in handled
    BY DEF Kept
  <2>2. PICK x : x \in ChunkIds(h) /\ x \in ChunkIds(i)
    BY <1>1
  <2>3. /\ PathOf(h) = PathOf(i)
        /\ h.group.kind \in {"package", "pyi", "ts"} <=> i.group.kind \in {"package", "pyi", "ts"}
    BY <2>2, IdsCarryThePath
  <2>4. IsSourceOf(h) /\ IsSourceOf(i)
    BY <1>1, <2>1, SourceFileIs
  <2> QED BY <2>3, <2>4, OnePath
<1>2. WalkInv => ChunkIdsDiffer
  BY <1>1, CodeHandledOnce DEF ChunkIdsDiffer
<1> QED BY <1>2, WalkInvariant, PTL

\* When a walk ends, what was handled is what there was to walk.
LEMMA AllHandled ==
    ASSUME WalkInv, Walking, NEW f
    PROVE  f \in {h.file : h \in handled} <=> \E g \in AllGroups : f \in FilesOf(g)
BY DEF WalkInv, Walking, OnlyTheirs, NoneForgotten, Done

\* Whatever files a repo has, a walk that is over has dealt with every example
\* file, or every file of API source, and with no other; a copy is left out for an
\* original in the same example, not deeper; and what is kept of the examples has
\* an entry in the taxonomy.
THEOREM WalkLosesNothing == Spec => []NothingIsLost
<1>1. ASSUME WalkInv, Walking, job # "docs" PROVE NothingIsLost
  <2>1. IsTree(tree) /\ job \in {"code", "source"}
    BY <1>1 DEF WalkInv, InputTyped, AndNoMap, Walking
  <2>2. ASSUME NEW f
        PROVE  f \in {h.file : h \in handled}
                  <=> f \in tree /\ (IF job = "code" THEN IsExampleFile(f) ELSE IsSourceFile(f))
    <3>1. CASE job = "code"
      <4>1. (\E g \in AllGroups : f \in FilesOf(g))
               <=> f \in RootFiles(tree) \/ \E d \in FindExampleDirs(tree) : f \in ExampleFiles(tree, above, d)
        <5>1. \A g : g \in AllGroups <=> \/ \E d \in FindExampleDirs(tree) : g = [kind |-> "example", dir |-> d]
                                         \/ g = [kind |-> "root", dir |-> Root] /\ RootFiles(tree) # {}
          BY <3>1 DEF AllGroups, GroupsOf
        <5>2. /\ \A d : FilesOf([kind |-> "example", dir |-> d]) = ExampleFiles(tree, above, d)
              /\ FilesOf([kind |-> "root", dir |-> Root]) = RootFiles(tree)
          BY DEF FilesOf
        <5> QED BY <5>1, <5>2
      <4>2. (f \in RootFiles(tree) \/ \E d \in FindExampleDirs(tree) : f \in ExampleFiles(tree, above, d))
               <=> f \in tree /\ IsExampleFile(f)
        BY <2>1, ExampleFileIsFound, RootFileIs, OnlyExampleFiles
      <4> QED BY <1>1, <3>1, <4>1, <4>2, AllHandled
    <3>2. CASE job = "source"
      BY <1>1, <2>1, <3>2, AllHandled, SourceFilesAreFound DEF AllGroups
    <3> QED BY <2>1, <3>1, <3>2
  <2>3. {h.file : h \in handled} = {f \in tree : IF job = "code" THEN IsExampleFile(f) ELSE IsSourceFile(f)}
    BY <2>2
  <2>4. \A h \in handled : h.outcome = "same" =>
           \E o \in handled : /\ o.content = h.content /\ o.outcome # "same"
                              /\ h.group.kind = "example" => o.group = h.group /\ Depth(o.file) <= Depth(h.file)
    BY <1>1 DEF WalkInv, Originals, IsOriginalOf
  <2>5. ASSUME job = "code", HasExamplesDir(tree), FoundationalDir \notin DirsOf(tree), NEW h \in Kept
        PROVE  HasEntry(tree, h.file, h.group.dir)
    <3>1. h.group \in GroupsOf("code", tree)
      BY <1>1, <2>5 DEF WalkInv, OnlyTheirs, AllGroups, Kept
    <3>2. RootFiles(tree) = {}
      BY <2>5 DEF RootFiles
    <3>3. h.group.dir \in FindExampleDirs(tree)
      BY <3>1, <3>2 DEF GroupsOf
    <3> QED BY <2>1, <2>5, <3>3, ExampleHasEntry
  <2> QED BY <2>3, <2>4, <2>5 DEF NothingIsLost
<1>2. WalkInv => NothingIsLost
  <2>1. CASE Walking /\ job # "docs"
    BY <1>1, <2>1
  <2>2. CASE ~(Walking /\ job # "docs")
    BY <2>2 DEF NothingIsLost
  <2> QED BY <2>1, <2>2
<1> QED BY <1>2, WalkInvariant, PTL
-----------------------------------------------------------------------------
(* The deprecation map. *)

Entry == [status : {"deprecated", "removed"}, since : Nat, until : Nat, fit : BOOLEAN]
Pair == [key : Seq(Name), entry : Entry]

\* A map is a dict: a key is there once.
IsDict(m) ==
    /\ m \in Seq(Pair)
    /\ \A i, j \in 1..Len(m) : m[i].key = m[j].key => i = j

LEMMA KeyIsAt ==
    ASSUME NEW m, NEW key
    PROVE  key \in KeysOf(m) <=> \E i \in 1..Len(m) : m[i].key = key
BY DEF KeysOf

LEMMA EntryIs ==
    ASSUME NEW m, IsDict(m), NEW i \in 1..Len(m)
    PROVE  EntryAt(m, m[i].key) = m[i].entry
<1> DEFINE pairs == {m[j] : j \in 1..Len(m)}
           pair == CHOOSE p \in pairs : p.key = m[i].key
<1>1. m[i] \in pairs
  OBVIOUS
<1>2. pair \in pairs /\ pair.key = m[i].key
  BY <1>1
<1>3. PICK j \in 1..Len(m) : pair = m[j]
  BY <1>2
<1>4. j = i
  BY <1>2, <1>3 DEF IsDict
<1> QED BY <1>3, <1>4 DEF EntryAt

LEMMA PutIs ==
    ASSUME NEW m, IsDict(m), NEW key \in Seq(Name), NEW e \in Entry, NEW n, n = Put(m, key, e)
    PROVE  /\ IsDict(n) /\ Len(m) <= Len(n)
           /\ \A k : k \in KeysOf(n) <=> k \in KeysOf(m) \/ k = key
           /\ \A i \in 1..Len(m) : n[i].key = m[i].key /\ (m[i].key # key => n[i] = m[i])
           /\ \A i \in 1..Len(n) : n[i].key = key => n[i].entry = e
           /\ \A i \in 1..Len(n) : i > Len(m) => n[i].key = key
           /\ key \notin KeysOf(m) => \A i \in 1..Len(m) : n[i] = m[i]
<1> DEFINE new == [key |-> key, entry |-> e]
<1>1. new \in Pair /\ new.key = key /\ new.entry = e
  BY DEF Pair
<1>2. CASE key \in KeysOf(m)
  <2>1. n = [i \in 1..Len(m) |-> IF m[i].key = key THEN new ELSE m[i]]
    BY <1>2 DEF Put
  <2>2. n \in Seq(Pair) /\ Len(n) = Len(m)
    <3>1. Len(m) \in Nat /\ \A i \in 1..Len(m) : m[i] \in Pair
      BY DEF IsDict
    <3> QED BY <2>1, <3>1, <1>1
  <2>3. \A i \in 1..Len(m) : n[i].key = m[i].key
    BY <2>1, <1>1
  <2>4. IsDict(n)
    BY <2>2, <2>3 DEF IsDict
  <2>5. \A i \in 1..Len(m) : (m[i].key # key => n[i] = m[i]) /\ (m[i].key = key => n[i].entry = e)
    BY <2>1, <1>1
  <2>6. \A k : k \in KeysOf(n) <=> k \in KeysOf(m)
    BY <2>2, <2>3 DEF KeysOf
  <2>7. Len(m) \in Nat
    BY DEF IsDict
  <2> QED BY <1>2, <2>2, <2>3, <2>4, <2>5, <2>6, <2>7
<1>3. CASE key \notin KeysOf(m)
  <2>1. n = Append(m, new)
    BY <1>3 DEF Put
  <2>2. /\ n \in Seq(Pair) /\ Len(n) = Len(m) + 1 /\ n[Len(m) + 1] = new /\ Len(m) \in Nat
        /\ \A i \in 1..Len(m) : n[i] = m[i]
    BY <2>1, <1>1 DEF IsDict
  <2>3. \A i \in 1..Len(m) : m[i].key # key
    BY <1>3 DEF KeysOf
  <2>4. \A i \in 1..Len(n) : i \in 1..Len(m) \/ i = Len(m) + 1
    BY <2>2
  <2>5. IsDict(n)
    BY <2>2, <2>3, <2>4, <1>1 DEF IsDict
  <2>6. \A k : k \in KeysOf(n) <=> k \in KeysOf(m) \/ k = key
    <3>1. \A k : k \in KeysOf(n) <=> \E i \in 1..Len(n) : n[i].key = k
      BY KeyIsAt
    <3>2. \A k : k \in KeysOf(m) <=> \E i \in 1..Len(m) : m[i].key = k
      BY KeyIsAt
    <3>3. Len(m) + 1 \in 1..Len(n) /\ 1..Len(m) \subseteq 1..Len(n)
      BY <2>2
    <3> QED BY <3>1, <3>2, <3>3, <2>2, <2>4, <1>1
  <2>7. Len(m) <= Len(n)
    BY <2>2
  <2> QED BY <2>2, <2>3, <2>4, <2>5, <2>6, <2>7, <1>1, <1>3
<1> QED BY <1>2, <1>3

LEMMA TailIs ==
    ASSUME NEW m, IsDict(m), m # <<>>
    PROVE  /\ IsDict(Tail(m)) /\ Head(m) = m[1] /\ 1 \in 1..Len(m) /\ m[1] \in Pair
           /\ \A i \in 1..Len(Tail(m)) : i + 1 \in 1..Len(m) /\ Tail(m)[i] = m[i + 1]
           /\ \A k \in KeysOf(m) : k = m[1].key \/ k \in KeysOf(Tail(m))
<1>1. /\ Tail(m) \in Seq(Pair) /\ Len(m) \in Nat \ {0} /\ Len(Tail(m)) = Len(m) - 1 /\ Head(m) = m[1]
      /\ \A i \in 1..Len(Tail(m)) : Tail(m)[i] = m[i + 1]
  BY DEF IsDict
<1>2. 1 \in 1..Len(m) /\ m[1] \in Pair
  BY <1>1 DEF IsDict
<1>3. \A i \in 1..Len(Tail(m)) : i + 1 \in 1..Len(m)
  BY <1>1
<1>4. IsDict(Tail(m))
  BY <1>1, <1>3 DEF IsDict
<1>5. ASSUME NEW k \in KeysOf(m), k # m[1].key PROVE k \in KeysOf(Tail(m))
  <2>1. PICK i \in 1..Len(m) : m[i].key = k
    BY KeyIsAt
  <2>2. i - 1 \in 1..Len(Tail(m)) /\ (i - 1) + 1 = i
    BY <2>1, <1>1, <1>5
  <2>3. Tail(m)[i - 1].key = k
    BY <2>1, <2>2, <1>1
  <2> QED BY <2>2, <2>3, KeyIsAt
<1> QED BY <1>1, <1>2, <1>3, <1>4, <1>5

Both == {registry.active, registry.removals}
InRegistry(records, name) == \E i \in 1..Len(records) : records[i].fit /\ name \in NamesOf(records[i])
Building == stage \in {"active", "removals"}

RegistryTyped ==
    /\ Both \subseteq Seq(Record)
    /\ IsDict(map) /\ IsDict(aliases)
    /\ Building => taken \in 0..Len(Records)

\* Nothing is built before the registry is read.
NotBuiltYet == stage \notin {"active", "removals", "done", "failed"} => map = <<>> /\ aliases = <<>> /\ taken = 0

\* What is in the map, or about to be, is what a registry is about, and of the
\* status the registry gives it; a name of both is that of the active one.
KeysAreNamed ==
    Building => \A i \in 1..Len(map) :
        /\ map[i].entry.fit
        /\ map[i].entry.status = "deprecated" => InRegistry(registry.active, map[i].key)
        /\ map[i].entry.status = "removed" => /\ stage = "removals" /\ InRegistry(registry.removals, map[i].key)
                                              /\ ~InRegistry(registry.active, map[i].key)

AliasesAreNamed ==
    Building => \A i \in 1..Len(aliases) :
        aliases[i].entry.fit /\ aliases[i].entry.status = Status /\ InRegistry(Records, aliases[i].key)

\* What was read is there, by its bare name and, at once or in the end, in full.
TakenAreKeys ==
    Building => \A i \in 1..taken : Records[i].fit =>
        /\ Records[i].subject \in KeysOf(map)
        /\ HasAlias(Records[i]) => FullPath(Records[i]) \in KeysOf(map) \union KeysOf(aliases)

ActiveAreKeys == stage = "removals" => \A name : InRegistry(registry.active, name) => name \in KeysOf(map)

\* The active names come first, and a symbol within one is found there.
DeprecatedFirst ==
    Building => \A i, j \in 1..Len(map) :
        i < j /\ map[j].entry.status = "deprecated" => map[i].entry.status = "deprecated"

MapInv ==
    /\ RegistryTyped /\ NotBuiltYet /\ KeysAreNamed /\ AliasesAreNamed
    /\ TakenAreKeys /\ ActiveAreKeys /\ DeprecatedFirst

LEMMA MapStarts == Init => MapInv
<1> SUFFICES ASSUME Init PROVE MapInv
  OBVIOUS
<1>1. Both \subseteq Seq(Record) /\ stage = "start" /\ map = <<>> /\ aliases = <<>> /\ taken = 0
  BY JobsAreWellFormed DEF Init, Both
<1>2. IsDict(<<>>)
  BY DEF IsDict
<1> QED BY <1>1, <1>2 DEF MapInv, RegistryTyped, NotBuiltYet, KeysAreNamed, AliasesAreNamed, TakenAreKeys, ActiveAreKeys,
                         DeprecatedFirst, Building

\* The record that is read, as what it puts into the map.
LEMMA RecordIs ==
    ASSUME MapInv, AddRecord
    PROVE  LET r == Records[taken + 1]
           IN  /\ taken + 1 \in 1..Len(Records) /\ taken \in Nat /\ taken' = taken + 1
               /\ r.subject \in Seq(Name) /\ FullPath(r) \in Seq(Name) /\ EntryOf(r, Status) \in Entry
               /\ EntryOf(r, Status).status = Status /\ EntryOf(r, Status).fit = r.fit
               /\ r.fit => InRegistry(Records, r.subject)
               /\ r.fit /\ HasAlias(r) => InRegistry(Records, FullPath(r))
<1> DEFINE r == Records[taken + 1]
<1>1. Building /\ taken < Len(Records) /\ taken \in 0..Len(Records) /\ taken' = taken + 1
  BY DEF AddRecord, Building, MapInv, RegistryTyped
<1>2. Records \in Seq(Record)
  BY <1>1 DEF MapInv, RegistryTyped, Both, Records
<1>3. taken + 1 \in 1..Len(Records) /\ taken \in Nat
  BY <1>1, <1>2
<1>4. r \in Record
  BY <1>2, <1>3
<1>5. r.subject \in Seq(Name) /\ FullPath(r) \in Seq(Name)
  BY <1>4 DEF Record, Name, FullPath
<1>6. /\ EntryOf(r, Status) \in Entry /\ EntryOf(r, Status).status = Status
      /\ EntryOf(r, Status).fit = r.fit
  BY <1>4 DEF Record, Entry, EntryOf, Status
<1>7. r.fit => InRegistry(Records, r.subject)
  BY <1>3 DEF InRegistry, NamesOf
<1>8. r.fit /\ HasAlias(r) => InRegistry(Records, FullPath(r))
  BY <1>3 DEF InRegistry, NamesOf
<1> QED BY <1>1, <1>3, <1>5, <1>6, <1>7, <1>8

\* What one put does to the map, of an entry that may be put there: all that
\* MapInv says of it.
MayPut(key, e) ==
    /\ key \in Seq(Name) /\ e \in Entry /\ e.fit /\ e.status = Status /\ InRegistry(Records, key)
    /\ key \in KeysOf(map) => EntryAt(map, key).status = Status

LEMMA PutKeeps ==
    ASSUME MapInv, Building, NEW key, NEW e, MayPut(key, e), map' = Put(map, key, e),
           UNCHANGED <<registry, stage>>
    PROVE  /\ IsDict(map)' /\ KeysAreNamed' /\ ActiveAreKeys' /\ DeprecatedFirst'
           /\ \A k : k \in KeysOf(map)' <=> k \in KeysOf(map) \/ k = key
<1>1. IsDict(map) /\ KeysAreNamed /\ ActiveAreKeys /\ DeprecatedFirst
  BY DEF MapInv, RegistryTyped
<1>2. key \in Seq(Name) /\ e \in Entry
  BY DEF MayPut
<1>3. /\ IsDict(map') /\ Len(map) <= Len(map') /\ Len(map) \in Nat /\ Len(map') \in Nat
      /\ \A k : k \in KeysOf(map') <=> k \in KeysOf(map) \/ k = key
      /\ \A i \in 1..Len(map) : map'[i].key = map[i].key /\ (map[i].key # key => map'[i] = map[i])
      /\ \A i \in 1..Len(map') : map'[i].key = key => map'[i].entry = e
      /\ \A i \in 1..Len(map') : i > Len(map) => map'[i].key = key
  BY <1>1, <1>2, PutIs DEF IsDict
<1>4. \A i \in 1..Len(map') : map'[i].key # key => i \in 1..Len(map) /\ map'[i] = map[i]
  BY <1>3
<1>5. \A i \in 1..Len(map) : map[i].key = key => map[i].entry.status = Status
  BY <1>1, EntryIs, KeyIsAt DEF MayPut
<1>6. \A i \in 1..Len(map) : map'[i].entry.status = map[i].entry.status
  <2>1. e.status = Status
    BY DEF MayPut
  <2>2. 1..Len(map) \subseteq 1..Len(map')
    BY <1>3
  <2> QED BY <2>1, <2>2, <1>3, <1>5
<1>7. ASSUME Status = "removed" PROVE stage = "removals" /\ ~InRegistry(registry.active, key)
  <2>1. stage = "removals"
    BY <1>7 DEF Building, Status
  <2>2. CASE key \in KeysOf(map)
    <3>1. PICK i \in 1..Len(map) : map[i].key = key
      BY <2>2, KeyIsAt
    <3>2. map[i].entry.status = "removed"
      BY <3>1, <1>5, <1>7
    <3> QED BY <3>1, <3>2, <1>1, <2>1 DEF KeysAreNamed, Building
  <2>3. CASE key \notin KeysOf(map)
    BY <2>1, <2>3, <1>1 DEF ActiveAreKeys
  <2> QED BY <2>1, <2>2, <2>3
<1>8. KeysAreNamed'
  <2> SUFFICES ASSUME NEW i \in 1..Len(map')
               PROVE  /\ map'[i].entry.fit
                      /\ map'[i].entry.status = "deprecated" => InRegistry(registry.active, map'[i].key)
                      /\ map'[i].entry.status = "removed" =>
                            /\ stage = "removals" /\ InRegistry(registry.removals, map'[i].key)
                            /\ ~InRegistry(registry.active, map'[i].key)
    BY DEF KeysAreNamed, InRegistry
  <2>1. CASE map'[i].key # key
    BY <2>1, <1>1, <1>4 DEF KeysAreNamed
  <2>2. CASE map'[i].key = key
    <3>1. map'[i].entry = e
      BY <2>2, <1>3
    <3>2. e.fit /\ e.status = Status /\ InRegistry(Records, key)
      BY DEF MayPut
    <3>3. CASE stage = "active"
      BY <2>2, <3>1, <3>2, <3>3 DEF Status, Records
    <3>4. CASE stage = "removals"
      BY <2>2, <3>1, <3>2, <3>4, <1>7 DEF Status, Records
    <3> QED BY <3>3, <3>4 DEF Building
  <2> QED BY <2>1, <2>2
<1>9. ActiveAreKeys'
  <2>1. stage = "removals" => \A name : InRegistry(registry.active, name) => name \in KeysOf(map')
    BY <1>1, <1>3 DEF ActiveAreKeys
  <2> QED BY <2>1 DEF ActiveAreKeys, InRegistry
<1>10. DeprecatedFirst'
  <2> SUFFICES ASSUME NEW i \in 1..Len(map'), NEW j \in 1..Len(map'), i < j, map'[j].entry.status = "deprecated"
               PROVE  map'[i].entry.status = "deprecated"
    BY DEF DeprecatedFirst
  <2>1. CASE j <= Len(map)
    <3>1. i \in 1..Len(map) /\ j \in 1..Len(map)
      BY <2>1, <1>3
    <3> QED BY <3>1, <1>1, <1>6 DEF DeprecatedFirst
  <2>2. CASE j > Len(map)
    <3>1. map'[j].entry = e
      BY <2>2, <1>3
    <3>2. Status = "deprecated"
      BY <3>1 DEF MayPut
    <3>3. stage = "active"
      BY <3>2 DEF Status
    <3>4. map'[i].entry.status \in {"deprecated", "removed"}
      <4>1. map'[i] \in Pair
        BY <1>3 DEF IsDict
      <4> QED BY <4>1 DEF Pair, Entry
    <3> QED BY <3>3, <3>4, <1>8 DEF KeysAreNamed, Building
  <2> QED BY <2>1, <2>2, <1>3
<1> QED BY <1>3, <1>8, <1>9, <1>10 DEF IsDict, KeysOf

\* The records, and what is about them, stay what they are while one registry is read.
LEMMA RegistryStays ==
    ASSUME UNCHANGED <<registry, stage>>
    PROVE  /\ Records' = Records /\ Status' = Status /\ Both' = Both /\ Building' = Building
           /\ \A name : InRegistry(Records, name)' <=> InRegistry(Records, name)
BY DEF Records, Status, Both, Building, InRegistry

\* The bare name of a record that is read gets into the map, unless an active
\* deprecation has it.
LEMMA RecordIsPut ==
    ASSUME MapInv, AddRecord, Records[taken + 1].fit
    PROVE  /\ IsDict(map)' /\ KeysAreNamed' /\ ActiveAreKeys' /\ DeprecatedFirst'
           /\ KeysOf(map) \subseteq KeysOf(map)' /\ Records[taken + 1].subject \in KeysOf(map)'
<1> DEFINE r == Records[taken + 1]
           e == EntryOf(r, Status)
<1>0. Building /\ UNCHANGED <<registry, stage>>
  BY DEF AddRecord, Building, input
<1>1. r.subject \in Seq(Name) /\ e \in Entry /\ e.fit /\ e.status = Status /\ InRegistry(Records, r.subject)
  BY RecordIs
<1>2. map' = IF stage = "active" THEN WithDeprecation(map, r) ELSE WithRemoval(map, r)
  BY DEF AddRecord, Publishable
<1>3. KeysAreNamed /\ IsDict(map)
  BY DEF MapInv, RegistryTyped
<1>4. ASSUME map' = Put(map, r.subject, e), r.subject \in KeysOf(map) => EntryAt(map, r.subject).status = Status
      PROVE  /\ IsDict(map)' /\ KeysAreNamed' /\ ActiveAreKeys' /\ DeprecatedFirst'
             /\ KeysOf(map) \subseteq KeysOf(map)' /\ r.subject \in KeysOf(map)'
  <2>1. MayPut(r.subject, e)
    BY <1>1, <1>4 DEF MayPut
  <2> HIDE DEF e, r
  <2> QED BY <2>1, <1>0, <1>4, PutKeeps
<1>5. CASE stage = "active"
  <2>1. map' = Put(map, r.subject, e)
    BY <1>2, <1>5 DEF WithDeprecation, Status
  <2>2. ASSUME r.subject \in KeysOf(map) PROVE EntryAt(map, r.subject).status = Status
    <3>1. PICK i \in 1..Len(map) : map[i].key = r.subject
      BY <2>2, KeyIsAt
    <3>2. EntryAt(map, r.subject) = map[i].entry
      BY <3>1, <1>3, EntryIs
    <3>3. map[i].entry.status \in {"deprecated", "removed"}
      <4>1. map[i] \in Pair
        BY <1>3 DEF IsDict
      <4> QED BY <4>1 DEF Pair, Entry
    <3>4. map[i].entry.status # "removed"
      BY <1>0, <1>3, <1>5 DEF KeysAreNamed
    <3> QED BY <3>2, <3>3, <3>4, <1>5 DEF Status
  <2> QED BY <1>4, <2>1, <2>2
<1>6. CASE stage = "removals" /\ (r.subject \notin KeysOf(map) \/ EntryAt(map, r.subject).status = "removed")
  <2>1. map' = Put(map, r.subject, e)
    BY <1>2, <1>6 DEF WithRemoval, Status
  <2> QED BY <1>4, <2>1, <1>6 DEF Status
<1>7. CASE stage = "removals" /\ ~(r.subject \notin KeysOf(map) \/ EntryAt(map, r.subject).status = "removed")
  <2>1. map' = map
    BY <1>2, <1>7 DEF WithRemoval
  <2> QED BY <2>1, <1>0, <1>7 DEF MapInv, RegistryTyped, KeysAreNamed, ActiveAreKeys, DeprecatedFirst, Building, IsDict, KeysOf,
                                  InRegistry
<1> QED BY <1>0, <1>5, <1>6, <1>7 DEF Building

\* And its full one among those kept aside.
LEMMA AliasIsPut ==
    ASSUME MapInv, AddRecord, Records[taken + 1].fit
    PROVE  /\ IsDict(aliases)' /\ AliasesAreNamed' /\ KeysOf(aliases) \subseteq KeysOf(aliases)'
           /\ HasAlias(Records[taken + 1]) => FullPath(Records[taken + 1]) \in KeysOf(aliases)'
<1> DEFINE r == Records[taken + 1]
           e == EntryOf(r, Status)
           key == FullPath(r)
<1>0. Building /\ UNCHANGED <<registry, stage>>
  BY DEF AddRecord, Building, input
<1>1. key \in Seq(Name) /\ e \in Entry /\ e.fit /\ e.status = Status /\ (HasAlias(r) => InRegistry(Records, key))
  BY RecordIs
<1>2. aliases' = IF HasAlias(r) THEN Put(aliases, key, e) ELSE aliases
  BY DEF AddRecord, Publishable, WithAlias
<1>3. IsDict(aliases) /\ \A i \in 1..Len(aliases) : /\ aliases[i].entry.fit /\ aliases[i].entry.status = Status
                                                   /\ InRegistry(Records, aliases[i].key)
  BY <1>0 DEF MapInv, RegistryTyped, AliasesAreNamed
<1>4. ASSUME IsDict(aliases'),
             \A i \in 1..Len(aliases') : /\ aliases'[i].entry.fit /\ aliases'[i].entry.status = Status
                                         /\ InRegistry(Records, aliases'[i].key)
      PROVE  IsDict(aliases)' /\ AliasesAreNamed'
  <2>1. IsDict(aliases)'
    BY <1>4 DEF IsDict
  <2>2. Records' = Records /\ Status' = Status
    BY <1>0, RegistryStays
  <2>3. AliasesAreNamed'
    BY <1>4, <2>2 DEF AliasesAreNamed, InRegistry
  <2> QED BY <2>1, <2>3
<1>5. CASE HasAlias(r)
  <2>1. aliases' = Put(aliases, key, e)
    BY <1>2, <1>5
  <2> HIDE DEF r, e, key
  <2>2. /\ IsDict(aliases') /\ Len(aliases) \in Nat /\ Len(aliases') \in Nat
        /\ \A k : k \in KeysOf(aliases') <=> k \in KeysOf(aliases) \/ k = key
        /\ \A i \in 1..Len(aliases) : aliases[i].key # key => aliases'[i] = aliases[i]
        /\ \A i \in 1..Len(aliases) : aliases'[i].key = aliases[i].key
        /\ \A i \in 1..Len(aliases') : aliases'[i].key = key => aliases'[i].entry = e
        /\ \A i \in 1..Len(aliases') : i > Len(aliases) => aliases'[i].key = key
    BY <1>1, <1>3, <2>1, PutIs DEF IsDict
  <2>3. ASSUME NEW i \in 1..Len(aliases')
        PROVE  aliases'[i].entry.fit /\ aliases'[i].entry.status = Status /\ InRegistry(Records, aliases'[i].key)
    <3>1. CASE aliases'[i].key = key
      BY <3>1, <2>2, <1>1, <1>5
    <3>2. CASE aliases'[i].key # key
      <4>1. i \in 1..Len(aliases) /\ aliases'[i] = aliases[i]
        BY <3>2, <2>2
      <4> QED BY <4>1, <1>3
    <3> QED BY <3>1, <3>2
  <2>4. IsDict(aliases)' /\ AliasesAreNamed'
    BY <2>2, <2>3, <1>4
  <2>5. KeysOf(aliases)' = KeysOf(aliases')
    BY DEF KeysOf
  <2> QED BY <2>2, <2>4, <2>5 DEF r, key
<1>6. CASE ~HasAlias(r)
  <2>1. aliases' = aliases
    BY <1>2, <1>6
  <2>2. IsDict(aliases)' /\ AliasesAreNamed'
    BY <2>1, <1>3, <1>4
  <2> QED BY <2>1, <2>2, <1>6 DEF KeysOf
<1> QED BY <1>5, <1>6

LEMMA AddRecordKeeps ==
    ASSUME MapInv, AddRecord
    PROVE  MapInv'
<1> DEFINE r == Records[taken + 1]
<1>0. Building /\ UNCHANGED <<registry, stage>> /\ Records' = Records /\ Status' = Status /\ Both' = Both
  BY RegistryStays DEF AddRecord, Building, input
<1>1. taken + 1 \in 1..Len(Records) /\ taken \in Nat /\ taken' = taken + 1
  BY RecordIs
<1>2. CASE r.fit
  <2>1. /\ IsDict(map)' /\ KeysAreNamed' /\ ActiveAreKeys' /\ DeprecatedFirst'
        /\ KeysOf(map) \subseteq KeysOf(map)' /\ r.subject \in KeysOf(map)'
    BY <1>2, RecordIsPut
  <2>2. /\ IsDict(aliases)' /\ AliasesAreNamed' /\ KeysOf(aliases) \subseteq KeysOf(aliases)'
        /\ HasAlias(r) => FullPath(r) \in KeysOf(aliases)'
    BY <1>2, AliasIsPut
  <2>3. TakenAreKeys'
    <3> SUFFICES ASSUME NEW i \in 1..taken + 1, Records[i].fit
                 PROVE  /\ Records[i].subject \in KeysOf(map)'
                        /\ HasAlias(Records[i]) => FullPath(Records[i]) \in KeysOf(map)' \union KeysOf(aliases)'
      BY <1>0, <1>1 DEF TakenAreKeys
    <3>1. CASE i = taken + 1
      BY <3>1, <2>1, <2>2
    <3>2. CASE i # taken + 1
      <4>1. i \in 1..taken
        BY <3>2, <1>1
      <4> QED BY <4>1, <2>1, <2>2, <1>0 DEF MapInv, TakenAreKeys
    <3> QED BY <3>1, <3>2
  <2>4. RegistryTyped'
    BY <2>1, <2>2, <1>0, <1>1 DEF MapInv, RegistryTyped
  <2>5. NotBuiltYet'
    BY <1>0 DEF NotBuiltYet, Building
  <2> QED BY <2>1, <2>2, <2>3, <2>4, <2>5 DEF MapInv
<1>3. CASE ~r.fit
  <2>1. UNCHANGED <<map, aliases>>
    BY <1>3 DEF AddRecord, Publishable
  <2>2. IsDict(map)' /\ IsDict(aliases)' /\ KeysOf(map)' = KeysOf(map) /\ KeysOf(aliases)' = KeysOf(aliases)
    BY <2>1 DEF MapInv, RegistryTyped, IsDict, KeysOf
  <2>3. TakenAreKeys'
    <3> SUFFICES ASSUME NEW i \in 1..taken + 1, Records[i].fit
                 PROVE  /\ Records[i].subject \in KeysOf(map)
                        /\ HasAlias(Records[i]) => FullPath(Records[i]) \in KeysOf(map) \union KeysOf(aliases)
      BY <1>0, <1>1, <2>2 DEF TakenAreKeys
    <3>1. i \in 1..taken
      BY <1>1, <1>3
    <3> QED BY <3>1, <1>0 DEF MapInv, TakenAreKeys
  <2>4. KeysAreNamed' /\ AliasesAreNamed' /\ ActiveAreKeys' /\ DeprecatedFirst'
    BY <1>0, <2>1 DEF MapInv, KeysAreNamed, AliasesAreNamed, ActiveAreKeys, DeprecatedFirst, InRegistry, Building, KeysOf
  <2>5. RegistryTyped'
    BY <2>2, <1>0, <1>1 DEF MapInv, RegistryTyped
  <2>6. NotBuiltYet'
    BY <1>0 DEF NotBuiltYet, Building
  <2> QED BY <2>3, <2>4, <2>5, <2>6 DEF MapInv
<1> QED BY <1>2, <1>3

LEMMA AddAliasKeeps ==
    ASSUME MapInv, AddAlias
    PROVE  MapInv'
<1> DEFINE key == Head(aliases).key
           e == Head(aliases).entry
<1>0. /\ Building /\ UNCHANGED <<registry, stage, taken>> /\ Records' = Records /\ Status' = Status /\ Both' = Both
      /\ aliases # <<>> /\ map' = SetDefault(map, key, e) /\ aliases' = Tail(aliases)
  BY RegistryStays DEF AddAlias, Building, input
<1>1. IsDict(map) /\ IsDict(aliases) /\ AliasesAreNamed
  BY DEF MapInv, RegistryTyped
<1>2. /\ IsDict(Tail(aliases)) /\ Head(aliases) = aliases[1] /\ 1 \in 1..Len(aliases) /\ aliases[1] \in Pair
      /\ \A i \in 1..Len(Tail(aliases)) : i + 1 \in 1..Len(aliases) /\ Tail(aliases)[i] = aliases[i + 1]
      /\ \A k \in KeysOf(aliases) : k = aliases[1].key \/ k \in KeysOf(Tail(aliases))
  BY <1>0, <1>1, TailIs
<1>3. key \in Seq(Name) /\ e \in Entry /\ e.fit /\ e.status = Status /\ InRegistry(Records, key)
  BY <1>0, <1>1, <1>2 DEF AliasesAreNamed, Pair
<1>4. /\ IsDict(map)' /\ KeysAreNamed' /\ ActiveAreKeys' /\ DeprecatedFirst'
      /\ \A k : k \in KeysOf(map)' <=> k \in KeysOf(map) \/ k = key
  <2>1. CASE key \in KeysOf(map)
    <3>1. map' = map
      BY <2>1, <1>0 DEF SetDefault
    <3> HIDE DEF key
    <3> QED BY <2>1, <3>1, <1>0 DEF MapInv, RegistryTyped, KeysAreNamed, ActiveAreKeys, DeprecatedFirst, Building, IsDict,
                                    KeysOf, InRegistry
  <2>2. CASE key \notin KeysOf(map)
    <3>1. map' = Put(map, key, e)
      BY <2>2, <1>0 DEF SetDefault
    <3>2. MayPut(key, e)
      BY <2>2, <1>3 DEF MayPut
    <3> HIDE DEF key, e
    <3> QED BY <3>1, <3>2, <1>0, PutKeeps
  <2> QED BY <2>1, <2>2
<1>5. AliasesAreNamed' /\ IsDict(aliases)'
  <2>1. \A i \in 1..Len(Tail(aliases)) : /\ Tail(aliases)[i].entry.fit /\ Tail(aliases)[i].entry.status = Status
                                         /\ InRegistry(Records, Tail(aliases)[i].key)
    BY <1>0, <1>1, <1>2 DEF AliasesAreNamed
  <2> QED BY <2>1, <1>0, <1>2 DEF AliasesAreNamed, InRegistry, IsDict
<1>6. TakenAreKeys'
  <2>1. KeysOf(aliases)' = KeysOf(Tail(aliases)) /\ key = aliases[1].key
    BY <1>0, <1>2 DEF KeysOf
  <2>2. KeysOf(map) \subseteq KeysOf(map)' /\ KeysOf(aliases) \subseteq KeysOf(map)' \union KeysOf(aliases)'
    BY <2>1, <1>2, <1>4
  <2> HIDE DEF key
  <2> QED BY <2>2, <1>0 DEF MapInv, TakenAreKeys
<1>7. RegistryTyped' /\ NotBuiltYet'
  BY <1>0, <1>4, <1>5 DEF MapInv, RegistryTyped, NotBuiltYet, Building
<1> QED BY <1>4, <1>5, <1>6, <1>7 DEF MapInv

\* A registry whose records are all read and whose aliases are all put has all
\* its names in the map.
LEMMA AllNamesAreKeys ==
    ASSUME MapInv, Building, AllTaken, NEW name, InRegistry(Records, name)
    PROVE  name \in KeysOf(map)
<1>1. PICK i \in 1..Len(Records) : Records[i].fit /\ name \in NamesOf(Records[i])
  BY DEF InRegistry
<1>2. i \in 1..taken /\ KeysOf(aliases) = {}
  BY DEF AllTaken, KeysOf
<1>3. /\ Records[i].subject \in KeysOf(map)
      /\ HasAlias(Records[i]) => FullPath(Records[i]) \in KeysOf(map)
  BY <1>1, <1>2 DEF MapInv, TakenAreKeys
<1> QED BY <1>1, <1>3 DEF NamesOf

LEMMA MergeRemovalsKeeps ==
    ASSUME MapInv, MergeRemovals
    PROVE  MapInv'
<1>1. /\ stage = "active" /\ AllTaken /\ Building /\ stage' \in {"removals", "failed"} /\ taken' = 0
      /\ UNCHANGED <<registry, map, aliases>> /\ aliases = <<>>
  BY DEF MergeRemovals, Building, input, AllTaken
<1>2. RegistryTyped'
  <2>1. IsDict(map)' /\ IsDict(aliases)' /\ Both' = Both
    BY <1>1 DEF MapInv, RegistryTyped, IsDict, Both
  <2>2. ASSUME Building' PROVE taken' \in 0..Len(Records')
    <3>1. Records' \in Seq(Record)
      BY <1>1, <2>2 DEF MapInv, RegistryTyped, Both, Records, Building
    <3> QED BY <3>1, <1>1
  <2> QED BY <2>1, <2>2 DEF MapInv, RegistryTyped
<1>3. NotBuiltYet' /\ TakenAreKeys' /\ DeprecatedFirst' /\ AliasesAreNamed'
  BY <1>1 DEF MapInv, NotBuiltYet, TakenAreKeys, DeprecatedFirst, Building, AliasesAreNamed
<1>4. KeysAreNamed'
  <2>1. \A i \in 1..Len(map) : map[i].entry.fit /\ map[i].entry.status # "removed"
                               /\ (map[i].entry.status = "deprecated" => InRegistry(registry.active, map[i].key))
    BY <1>1 DEF MapInv, KeysAreNamed
  <2> QED BY <2>1, <1>1 DEF KeysAreNamed, InRegistry
<1>5. ActiveAreKeys'
  <2>1. \A name : InRegistry(registry.active, name) => name \in KeysOf(map)
    BY <1>1, AllNamesAreKeys DEF Records
  <2> QED BY <2>1, <1>1 DEF ActiveAreKeys, InRegistry, KeysOf
<1> QED BY <1>2, <1>3, <1>4, <1>5 DEF MapInv

LEMMA MapStep == MapInv /\ [Next]_vars => MapInv'
<1> SUFFICES ASSUME MapInv, Next \/ UNCHANGED vars PROVE MapInv'
  OBVIOUS
<1>1. CASE AddRecord
  BY <1>1, AddRecordKeeps
<1>2. CASE AddAlias
  BY <1>2, AddAliasKeeps
<1>3. CASE MergeRemovals
  BY <1>3, MergeRemovalsKeeps
\* The other steps leave the map and the registries alone.
<1>4. ASSUME UNCHANGED <<registry, build>>, stage' \notin {"active", "removals"} \/ stage' = stage,
             stage \in {"active", "removals", "done", "failed"} => stage' \in {"active", "removals", "done", "failed"}
      PROVE  MapInv'
  <2>1. UNCHANGED <<registry, map, aliases, taken>>
    BY <1>4 DEF build
  <2>2. RegistryTyped'
    BY <1>4, <2>1 DEF MapInv, RegistryTyped, IsDict, Both, Building, Records
  <2>3. NotBuiltYet'
    BY <1>4, <2>1 DEF MapInv, NotBuiltYet
  <2>4. CASE stage' = stage
    BY <2>1, <2>2, <2>3, <2>4 DEF MapInv, KeysAreNamed, AliasesAreNamed, TakenAreKeys, ActiveAreKeys, DeprecatedFirst,
                                  Building, Records, Status, InRegistry, KeysOf
  <2>5. CASE stage' \notin {"active", "removals"}
    BY <2>2, <2>3, <2>5 DEF MapInv, KeysAreNamed, AliasesAreNamed, TakenAreKeys, ActiveAreKeys, DeprecatedFirst, Building
  <2> QED BY <1>4, <2>4, <2>5
<1>5. CASE BuildMap
  <2>1. /\ stage = "start" /\ stage' \in {"active", "failed"} /\ UNCHANGED <<registry, map, aliases, taken>>
        /\ map = <<>> /\ aliases = <<>> /\ taken = 0
    BY <1>5 DEF BuildMap, input, build, MapInv, NotBuiltYet
  <2>2. RegistryTyped'
    <3>1. IsDict(map)' /\ IsDict(aliases)' /\ Both' = Both
      BY <2>1 DEF MapInv, RegistryTyped, IsDict, Both
    <3>2. ASSUME Building' PROVE taken' \in 0..Len(Records')
      <4>1. Records' \in Seq(Record)
        BY <2>1, <3>2 DEF MapInv, RegistryTyped, Both, Records, Building
      <4> QED BY <4>1, <2>1
    <3> QED BY <3>1, <3>2 DEF MapInv, RegistryTyped
  <2> QED BY <2>1, <2>2 DEF MapInv, NotBuiltYet, KeysAreNamed, AliasesAreNamed, TakenAreKeys, ActiveAreKeys, DeprecatedFirst,
                            Building
<1>6. CASE SaveMap
  BY <1>4, <1>6 DEF SaveMap, MapIsBuilt, input
<1>7. CASE BeginFails \/ Begin \/ Walked \/ Upsert \/ UNCHANGED vars
  BY <1>4, <1>7 DEF BeginFails, Begin, Walked, Upsert, vars, input
<1>8. ASSUME NEW g \in groups, EnterGroup(g) PROVE MapInv'
  BY <1>4, <1>8 DEF EnterGroup, input
<1>9. ASSUME NEW f \in files, ReadFails(f) \/ \E c \in Content : (SkipDuplicate(f, c) \/ ReadFile(f, c)) PROVE MapInv'
  BY <1>4, <1>9 DEF ReadFails, SkipDuplicate, ReadFile, Handle, input
<1> QED BY <1>1, <1>2, <1>3, <1>5, <1>6, <1>7, <1>8, <1>9 DEF Next

\* Whatever the registries say, and wherever a refresh is in reading them, the
\* keys of the map are names the registries have and that are read, each with
\* the status its registry gives it, the active ones before the removed.
THEOREM MapInvariant == Spec => []MapInv
BY MapStarts, MapStep, PTL DEF Spec

\* The first of some numbers there are.
LEMMA FirstIs ==
    ASSUME NEW I, I \subseteq Nat, I # {}
    PROVE  Min(I) \in I /\ \A j \in I : Min(I) <= j
<1>1. \E i \in I : \A j \in I : ~(j < i)
  <2>1. IsWellFoundedOn(OpToRel(<, Nat), Nat)
    BY NatLessThanWellFounded
  <2>2. PICK i \in I : \A j \in I : <<j, i>> \notin OpToRel(<, Nat)
    BY <2>1, WFMin
  <2>3. \A j \in I : ~(j < i)
    BY <2>2 DEF OpToRel
  <2> QED BY <2>3
<1>2. \E i \in I : \A j \in I : i <= j
  BY <1>1
<1> QED BY <1>2 DEF Min

\* What `check` finds: the name itself, or the first key that it is within.
LEMMA CheckIs ==
    ASSUME NEW m, IsDict(m), NEW q
    PROVE  /\ q \in KeysOf(m) => \E i \in 1..Len(m) : m[i].key = q /\ Check(m, q) = m[i].entry
           /\ q \notin KeysOf(m) /\ (\E i \in 1..Len(m) : IsNestedIn(q, m[i].key)) =>
                 \E i \in 1..Len(m) : /\ IsNestedIn(q, m[i].key) /\ Check(m, q) = m[i].entry
                                      /\ \A j \in 1..Len(m) : IsNestedIn(q, m[j].key) => i <= j
           /\ q \notin KeysOf(m) /\ (\A i \in 1..Len(m) : ~IsNestedIn(q, m[i].key)) => Check(m, q) = NoEntry
<1> DEFINE I == {i \in 1..Len(m) : IsNestedIn(q, m[i].key)}
           first == IF I # {} THEN Min(I) ELSE 0
<1>1. Check(m, q) = IF q \in KeysOf(m) THEN EntryAt(m, q) ELSE IF first = 0 THEN NoEntry ELSE m[first].entry
  BY DEF Check, SelectInSeq
<1>2. Len(m) \in Nat
  BY DEF IsDict
<1>3. ASSUME q \in KeysOf(m) PROVE \E i \in 1..Len(m) : m[i].key = q /\ Check(m, q) = m[i].entry
  <2>1. PICK i \in 1..Len(m) : m[i].key = q
    BY <1>3, KeyIsAt
  <2>2. EntryAt(m, q) = m[i].entry
    BY <2>1, EntryIs
  <2> HIDE DEF first
  <2> QED BY <1>1, <1>3, <2>1, <2>2
<1>4. ASSUME q \notin KeysOf(m), I # {}
      PROVE  first \in I /\ Check(m, q) = m[first].entry /\ \A j \in I : first <= j
  <2>1. I \subseteq Nat
    BY <1>2
  <2>2. first \in I /\ \A j \in I : first <= j
    <3> HIDE DEF I
    <3> QED BY <1>4, <2>1, FirstIs
  <2>3. first # 0
    BY <2>2, <1>2
  <2> HIDE DEF first
  <2> QED BY <1>1, <1>4, <2>2, <2>3
<1>5. ASSUME q \notin KeysOf(m), I = {} PROVE Check(m, q) = NoEntry
  <2>1. first = 0
    BY <1>5
  <2> HIDE DEF first
  <2> QED BY <1>1, <1>5, <2>1
<1> QED BY <1>3, <1>4, <1>5

LEMMA NamedIs ==
    ASSUME NEW records, NEW name
    PROVE  name \in NamesIn(records) <=> InRegistry(records, name)
BY DEF NamesIn, InRegistry

\* The keys of the map that is saved are the names the registries have.
LEMMA KeysAreNames ==
    ASSUME MapInv, MapIsBuilt
    PROVE  /\ \A name : name \in KeysOf(map) <=> InRegistry(registry.active, name) \/ InRegistry(registry.removals, name)
           /\ \A i \in 1..Len(map) : /\ map[i].key \in Seq(Name) /\ map[i].entry \in Entry /\ map[i].entry.fit
                                     /\ map[i].key \in KeysOf(map)
<1>1. stage = "removals" /\ Building /\ AllTaken /\ Records = registry.removals /\ IsDict(map) /\ KeysAreNamed
  BY DEF MapIsBuilt, Building, Records, MapInv, RegistryTyped
<1>2. \A i \in 1..Len(map) : map[i].key \in Seq(Name) /\ map[i].entry \in Entry /\ map[i].key \in KeysOf(map)
  <2>1. \A i \in 1..Len(map) : map[i] \in Pair
    BY <1>1 DEF IsDict
  <2>2. \A i \in 1..Len(map) : map[i].key \in Seq(Name) /\ map[i].entry \in Entry
    BY <2>1 DEF Pair
  <2> QED BY <2>2, KeyIsAt
<1>3. \A i \in 1..Len(map) : map[i].entry.status \in {"deprecated", "removed"}
  BY <1>2 DEF Entry
<1>4. ASSUME NEW name \in KeysOf(map) PROVE InRegistry(registry.active, name) \/ InRegistry(registry.removals, name)
  <2>1. PICK i \in 1..Len(map) : map[i].key = name
    BY <1>4, KeyIsAt
  <2> QED BY <2>1, <1>1, <1>3 DEF KeysAreNamed
<1>5. ASSUME NEW name, InRegistry(registry.active, name) PROVE name \in KeysOf(map)
  BY <1>1, <1>5 DEF MapInv, ActiveAreKeys
<1>6. ASSUME NEW name, InRegistry(registry.removals, name) PROVE name \in KeysOf(map)
  BY <1>1, <1>6, AllNamesAreKeys
<1> QED BY <1>1, <1>2, <1>4, <1>5, <1>6 DEF KeysAreNamed

LEMMA NestedIs ==
    ASSUME NEW n, NEW q
    PROVE  /\ IsNestedIn(q, n) => IsPrefix(n, q)
           /\ IsPrefix(n, q) => n = q \/ IsNestedIn(q, n)
           /\ n \in Seq(Name) => IsPrefix(n, n)
BY DEF IsNestedIn, IsStrictPrefix, IsPrefix

\* Whatever the registries say: the map that is saved can be loaded again, and it
\* finds a symbol if and only if a registry names the symbol or what it is in.
THEOREM OnlyNamedAreFound == Spec => []OnlyNamedIsDeprecated
<1>1. MapInv => OnlyNamedIsDeprecated
  <2> SUFFICES ASSUME MapInv, MapIsBuilt
               PROVE  /\ SaveAccepts(map)
                      /\ \A q : Check(map, q) # NoEntry <=>
                                   About(q, NamesIn(registry.active) \union NamesIn(registry.removals))
    BY DEF OnlyNamedIsDeprecated
  <2>1. IsDict(map)
    BY DEF MapInv, RegistryTyped
  <2>2. SaveAccepts(map)
    BY KeysAreNames DEF SaveAccepts
  <2> SUFFICES ASSUME NEW q
               PROVE  Check(map, q) # NoEntry <=> About(q, NamesIn(registry.active) \union NamesIn(registry.removals))
    BY <2>2
  <2>3. About(q, NamesIn(registry.active) \union NamesIn(registry.removals)) <=> \E n \in KeysOf(map) : IsPrefix(n, q)
    BY NamedIs, KeysAreNames DEF About
  <2>4. \A i \in 1..Len(map) : map[i].entry # NoEntry
    BY KeysAreNames DEF Entry, NoEntry
  <2>5. CASE q \in KeysOf(map)
    <3>1. Check(map, q) # NoEntry
      BY <2>1, <2>4, <2>5, CheckIs
    <3>2. q \in Seq(Name)
      BY <2>5, KeysAreNames, KeyIsAt
    <3> QED BY <2>3, <2>5, <3>1, <3>2, NestedIs
  <2>6. CASE q \notin KeysOf(map) /\ \E i \in 1..Len(map) : IsNestedIn(q, map[i].key)
    <3>1. Check(map, q) # NoEntry
      BY <2>1, <2>4, <2>6, CheckIs
    <3> QED BY <2>3, <2>6, <3>1, NestedIs, KeysAreNames
  <2>7. CASE q \notin KeysOf(map) /\ \A i \in 1..Len(map) : ~IsNestedIn(q, map[i].key)
    <3>1. Check(map, q) = NoEntry
      BY <2>1, <2>7, CheckIs
    <3>2. \A n \in KeysOf(map) : ~IsPrefix(n, q)
      BY <2>7, NestedIs, KeyIsAt
    <3> QED BY <2>3, <3>1, <3>2
  <2> QED BY <2>5, <2>6, <2>7
<1> QED BY <1>1, MapInvariant, PTL

\* A symbol the active registry is about, and that no removal takes over, is
\* found as a deprecated one, though a removed key may be nearer to it.
LEMMA FoundDeprecated ==
    ASSUME MapInv, MapIsBuilt, NEW q, About(q, NamesIn(registry.active)),
           q \in NamesIn(registry.removals) => q \in NamesIn(registry.active)
    PROVE  Check(map, q).status = "deprecated"
<1>1. stage = "removals" /\ Building /\ IsDict(map) /\ KeysAreNamed /\ DeprecatedFirst
  BY DEF MapIsBuilt, Building, MapInv, RegistryTyped
<1>2. \A i \in 1..Len(map) : map[i].entry.status \in {"deprecated", "removed"}
  BY KeysAreNames DEF Entry
<1>3. \A i \in 1..Len(map) : InRegistry(registry.active, map[i].key) => map[i].entry.status = "deprecated"
  BY <1>1, <1>2 DEF KeysAreNamed
<1>4. CASE q \in KeysOf(map)
  <2>1. PICK i \in 1..Len(map) : map[i].key = q /\ Check(map, q) = map[i].entry
    BY <1>1, <1>4, CheckIs
  <2>2. InRegistry(registry.active, q)
    BY <1>4, KeysAreNames, NamedIs
  <2> QED BY <2>1, <2>2, <1>3
<1>5. CASE q \notin KeysOf(map)
  <2>1. PICK n \in NamesIn(registry.active) : IsPrefix(n, q)
    BY DEF About
  <2>2. InRegistry(registry.active, n) /\ n \in KeysOf(map)
    BY <2>1, NamedIs, KeysAreNames
  <2>3. PICK j \in 1..Len(map) : map[j].key = n
    BY <2>2, KeyIsAt
  <2>4. IsNestedIn(q, map[j].key) /\ map[j].entry.status = "deprecated"
    BY <1>3, <1>5, <2>1, <2>2, <2>3, NestedIs
  <2>5. PICK i \in 1..Len(map) : Check(map, q) = map[i].entry /\ i <= j
    BY <1>1, <1>5, <2>4, CheckIs
  <2>6. i = j \/ i < j
    BY <2>5
  <2> QED BY <1>1, <2>4, <2>5, <2>6 DEF DeprecatedFirst
<1> QED BY <1>4, <1>5

\* Versions grow and an entry goes on: whatever its bounds are.
LEMMA StatusGrows ==
    ASSUME NEW e \in Entry, NEW v \in Nat, NEW w \in Nat, 0 < v, v < w
    PROVE  \/ StatusFor(e, v) = "current" /\ StatusFor(e, w) \in {"current", "deprecated", "removed"}
           \/ StatusFor(e, v) = "deprecated" /\ StatusFor(e, w) \in {"deprecated", "removed"}
           \/ StatusFor(e, v) = "removed" /\ StatusFor(e, w) = "removed"
<1>1. e.since \in Nat /\ e.until \in Nat
  BY DEF Entry
<1>2. v \notin {NotGiven, Malformed} /\ w \notin {NotGiven, Malformed}
  BY DEF NotGiven, Malformed
<1> QED BY <1>1, <1>2 DEF StatusFor

\* Whatever the registries say and whatever version is asked about: what is
\* only announced is not reported as removed, and no symbol comes back.
THEOREM StillThereStays == Spec => []StillThereIsNotRemoved
<1>1. MapInv => StillThereIsNotRemoved
  <2> SUFFICES ASSUME MapInv, MapIsBuilt, NEW q \in Symbols, NEW v \in Versions, NEW w \in Versions
               PROVE  LET answer(x) == HandleCheckDeprecation(map, q, x, w)
                      IN  /\ About(q, NamesIn(registry.active))
                             /\ (q \in NamesIn(registry.removals) => q \in NamesIn(registry.active))
                                => answer(v) # "removed"
                          /\ 0 < v /\ v < w => LET order == <<"current", "deprecated", "removed">>
                                               IN  \E i, k \in 1..3 : i <= k /\ answer(v) = order[i] /\ answer(w) = order[k]
    BY DEF StillThereIsNotRemoved
  <2> DEFINE answer(x) == HandleCheckDeprecation(map, q, x, w)
             order == <<"current", "deprecated", "removed">>
             entry == Check(map, q)
  <2>1. ASSUME About(q, NamesIn(registry.active)), q \in NamesIn(registry.removals) => q \in NamesIn(registry.active)
        PROVE  answer(v) # "removed"
    <3>1. entry.status = "deprecated"
      BY <2>1, FoundDeprecated
    <3>2. \A x : StatusFor(entry, x) # "removed"
      BY <3>1 DEF StatusFor
    <3> QED BY <3>2 DEF HandleCheckDeprecation
  <2>2. ASSUME 0 < v, v < w
        PROVE  \E i, k \in 1..3 : i <= k /\ answer(v) = order[i] /\ answer(w) = order[k]
    <3>1. v \in Nat /\ w \in Nat /\ v # NotGiven /\ w # NotGiven
      BY <2>2, JobsAreWellFormed DEF Malformed, NotGiven
    <3>2. order[1] = "current" /\ order[2] = "deprecated" /\ order[3] = "removed"
      OBVIOUS
    <3> HIDE DEF order
    <3>3. CASE entry = NoEntry
      <4>1. answer(v) = "current" /\ answer(w) = "current"
        BY <3>3 DEF HandleCheckDeprecation
      <4> QED BY <3>2, <4>1
    <3>4. CASE entry # NoEntry
      <4>1. answer(v) = StatusFor(entry, v) /\ answer(w) = StatusFor(entry, w)
        BY <3>1, <3>4 DEF HandleCheckDeprecation
      <4>2. IsDict(map)
        BY DEF MapInv, RegistryTyped
      <4>3. entry \in Entry
        BY <3>4, <4>2, CheckIs, KeysAreNames
      <4>4. \/ answer(v) = "current" /\ answer(w) \in {"current", "deprecated", "removed"}
            \/ answer(v) = "deprecated" /\ answer(w) \in {"deprecated", "removed"}
            \/ answer(v) = "removed" /\ answer(w) = "removed"
        BY <2>2, <3>1, <4>1, <4>3, StatusGrows
      <4> HIDE DEF answer
      <4> QED BY <3>2, <4>4
    <3> QED BY <3>3, <3>4
  <2> QED BY <2>1, <2>2
<1> QED BY <1>1, MapInvariant, PTL

-----------------------------------------------------------------------------
(* The pages of the documentation. *)

\* The numbers of a set in their order are those of the set, rising, each there:
\* the rank of a number is one to one into 1..n, and so onto it.
LEMMA InOrderRanks ==
    ASSUME NEW n \in Nat, NEW S, S \subseteq 1..n
    PROVE  /\ Cardinality(S) \in Nat /\ InOrder(S) \in Seq(S)
           /\ Len(InOrder(S)) = Cardinality(S)
           /\ \A k, l \in 1..Cardinality(S) : k < l => InOrder(S)[k] < InOrder(S)[l]
           /\ \A x \in S : \E k \in 1..Cardinality(S) : InOrder(S)[k] = x
           /\ S # {} => Cardinality(S) > 0
           /\ \A k \in 1..Cardinality(S) : Cardinality({y \in S : y <= InOrder(S)[k]}) = k
<1> DEFINE upTo(x) == {y \in S : y <= x}
           rank == [x \in S |-> Cardinality(upTo(x))]
           c == Cardinality(S)
<1>1. IsFiniteSet(S) /\ c \in Nat
  <2>1. IsFiniteSet(1..n) /\ S \in SUBSET (1..n)
    BY FS_Interval
  <2>2. IsFiniteSet(S)
    BY <2>1, FS_Subset
  <2> QED BY <2>2, FS_CardinalityType
<1>2. ASSUME NEW x \in S PROVE rank[x] \in 1..c /\ IsFiniteSet(upTo(x))
  <2>1. upTo(x) \in SUBSET S /\ x \in upTo(x)
    OBVIOUS
  <2>2. IsFiniteSet(upTo(x)) /\ Cardinality(upTo(x)) <= c
    BY <1>1, <2>1, FS_Subset
  <2>3. Cardinality(upTo(x)) \in Nat /\ Cardinality(upTo(x)) # 0
    BY <2>1, <2>2, FS_CardinalityType, FS_EmptySet
  <2> QED BY <2>2, <2>3, <1>1
<1>3. ASSUME NEW x \in S, NEW y \in S, x < y PROVE rank[x] < rank[y]
  <2>1. upTo(x) \in SUBSET upTo(y) /\ y \in upTo(y) /\ y \notin upTo(x)
    <3>1. x \in Int /\ y \in Int /\ \A z \in S : z \in Int
      OBVIOUS
    <3>2. ~(y <= x) /\ y <= y /\ \A z \in S : z <= x => z <= y
      BY <3>1, <1>3
    <3> QED BY <3>2
  <2>2. Cardinality(upTo(x)) <= Cardinality(upTo(y)) /\ Cardinality(upTo(x)) # Cardinality(upTo(y))
    BY <2>1, <1>2, FS_Subset
  <2>3. Cardinality(upTo(x)) = rank[x] /\ Cardinality(upTo(y)) = rank[y]
    OBVIOUS
  <2>4. rank[x] \in Nat /\ rank[y] \in Nat
    BY <1>2
  <2> QED BY <2>2, <2>3, <2>4
<1>4. rank \in Injection(S, 1..c)
  <2>1. rank \in [S -> 1..c]
    BY <1>2
  <2>2. ASSUME NEW x \in S, NEW y \in S, rank[x] = rank[y] PROVE x = y
    <3>1. x \in Int /\ y \in Int /\ rank[x] \in Int /\ rank[y] \in Int
      BY <1>2
    <3> QED BY <3>1, <2>2, <1>3
  <2> HIDE DEF rank
  <2> QED BY <2>1, <2>2 DEF Injection, IsInjective
<1>5. rank \in Surjection(S, 1..c)
  <2>1. IsFiniteSet(1..c) /\ Cardinality(1..c) = c
    BY <1>1, FS_Interval
  <2> HIDE DEF rank
  <2> QED BY <1>4, <2>1, FS_Injection
<1>6. ASSUME NEW k \in 1..c PROVE InOrder(S)[k] \in S /\ rank[InOrder(S)[k]] = k
  <2>1. \E x \in S : rank[x] = k
    <3> HIDE DEF rank
    <3> QED BY <1>5 DEF Surjection
  <2>2. \E x \in S : Cardinality(upTo(x)) = k
    BY <2>1
  <2>3. InOrder(S)[k] = CHOOSE x \in S : Cardinality(upTo(x)) = k
    BY DEF InOrder
  <2>4. InOrder(S)[k] \in S /\ Cardinality(upTo(InOrder(S)[k])) = k
    BY <2>2, <2>3
  <2> QED BY <2>4
<1>7. InOrder(S) \in Seq(S) /\ Len(InOrder(S)) = c
  <2>1. InOrder(S) \in [1..c -> S]
    BY <1>6 DEF InOrder
  <2> QED BY <2>1, <1>1
<1>8. ASSUME NEW k \in 1..c, NEW l \in 1..c, k < l PROVE InOrder(S)[k] < InOrder(S)[l]
  <2> DEFINE a == InOrder(S)[k]
             b == InOrder(S)[l]
  <2>1. a \in S /\ b \in S /\ rank[a] = k /\ rank[b] = l
    BY <1>6
  <2>2. a \in Int /\ b \in Int
    <3> HIDE DEF a, b, rank
    <3> QED BY <2>1
  <2>3. ~(b < a) /\ a # b
    <3> HIDE DEF a, b, rank
    <3> QED BY <2>1, <1>3, <1>8
  <2> QED BY <2>2, <2>3
<1>9. ASSUME NEW x \in S PROVE \E k \in 1..c : InOrder(S)[k] = x
  <2>1. rank[x] \in 1..c
    BY <1>2
  <2>2. InOrder(S)[rank[x]] \in S /\ rank[InOrder(S)[rank[x]]] = rank[x]
    BY <2>1, <1>6
  <2>3. InOrder(S)[rank[x]] = x
    <3> HIDE DEF rank
    <3> QED BY <2>2, <1>4 DEF Injection, IsInjective
  <2> QED BY <2>1, <2>3
<1>10. S # {} => c > 0
  BY <1>1, FS_EmptySet
<1>11. ASSUME NEW k \in 1..c PROVE Cardinality({y \in S : y <= InOrder(S)[k]}) = k
  BY <1>6
<1> QED BY <1>1, <1>7, <1>8, <1>9, <1>10, <1>11

LEMMA InOrderIs ==
    ASSUME NEW n \in Nat, NEW S, S \subseteq 1..n
    PROVE  /\ Cardinality(S) \in Nat /\ InOrder(S) \in Seq(S)
           /\ Len(InOrder(S)) = Cardinality(S)
           /\ \A k, l \in 1..Cardinality(S) : k < l => InOrder(S)[k] < InOrder(S)[l]
           /\ \A x \in S : \E k \in 1..Cardinality(S) : InOrder(S)[k] = x
           /\ S # {} => Cardinality(S) > 0
BY InOrderRanks

-----------------------------------------------------------------------------
\* A page reaches from its title to the line before the next page's.
LEMMA PageIs ==
    ASSUME NEW t, Len(PageStarts(t)) \in Nat
    PROVE  /\ Len(SplitIntoPages(t)) = Len(PageStarts(t))
           /\ SplitIntoPages(t) # <<>> => Len(PageStarts(t)) # 0
           /\ \A p \in 1..Len(PageStarts(t)) :
                 LET to == IF p < Len(PageStarts(t)) THEN PageStarts(t)[p + 1] - 1 ELSE Len(t)
                 IN  /\ SplitIntoPages(t)[p].first = PageStarts(t)[p] /\ SplitIntoPages(t)[p].last = to
                     /\ SplitIntoPages(t)[p].title = t[PageStarts(t)[p]]
                     /\ SplitIntoPages(t)[p].body = SubSeq(t, PageStarts(t)[p] + 2, to)
<1> DEFINE to(p) == IF p < Len(PageStarts(t)) THEN PageStarts(t)[p + 1] - 1 ELSE Len(t)
           page(p) == [url |-> t[PageStarts(t)[p] + 1].name, first |-> PageStarts(t)[p], last |-> to(p),
                       title |-> t[PageStarts(t)[p]], body |-> SubSeq(t, PageStarts(t)[p] + 2, to(p))]
<1>1. SplitIntoPages(t) = [p \in 1..Len(PageStarts(t)) |-> page(p)]
  BY DEF SplitIntoPages
<1>2. ASSUME NEW p \in 1..Len(PageStarts(t))
      PROVE  /\ page(p).first = PageStarts(t)[p] /\ page(p).last = to(p)
             /\ page(p).title = t[PageStarts(t)[p]]
             /\ page(p).body = SubSeq(t, PageStarts(t)[p] + 2, to(p))
  OBVIOUS
<1> HIDE DEF page
<1>3. Len(SplitIntoPages(t)) = Len(PageStarts(t))
  BY <1>1
<1>4. ASSUME NEW p \in 1..Len(PageStarts(t)) PROVE SplitIntoPages(t)[p] = page(p)
  BY <1>1
<1>5. SplitIntoPages(t) # <<>> => Len(PageStarts(t)) # 0
  <2> DEFINE n == Len(PageStarts(t))
             rows == {page(p) : p \in 1..n}
  <2>1. \A p \in 1..n : page(p) \in rows
    OBVIOUS
  <2> HIDE DEF rows
  <2>2. [p \in 1..n |-> page(p)] \in Seq(rows)
    BY <2>1, IsASeq
  <2> QED BY <1>1, <1>3, <2>2, EmptySeq
<1> QED BY <1>2, <1>3, <1>4, <1>5

\* A page begins with a title; it is two lines at least.
LEMMA BodyIs ==
    ASSUME NEW t \in Seq(TextLine), NEW p \in 1..Len(SplitIntoPages(t))
    PROVE  LET page == SplitIntoPages(t)[p]
           IN  /\ page.body \in Seq(TextLine) /\ page.title \in TextLine /\ IsHeading(page.title)
               /\ page.first \in 1..Len(t)
               /\ page.last = IF p < Len(SplitIntoPages(t)) THEN SplitIntoPages(t)[p + 1].first - 1 ELSE Len(t)
<1> DEFINE marks == {i \in 1..Len(t) - 1 : t[i].kind = "title" /\ t[i + 1].kind = "source"}
           starts == PageStarts(t)
           pages == SplitIntoPages(t)
           from == starts[p]
           to == IF p < Len(starts) THEN starts[p + 1] - 1 ELSE Len(t)
<1>1. Len(t) \in Nat /\ marks \subseteq 1..Len(t)
  OBVIOUS
<1>2. starts = InOrder(marks)
  BY DEF PageStarts
<1>3. /\ starts \in Seq(marks) /\ Len(starts) \in Nat
      /\ \A k, l \in 1..Len(starts) : k < l => starts[k] < starts[l]
  BY <1>1, <1>2, InOrderIs
<1>4. Len(pages) = Len(starts) /\ p \in 1..Len(starts)
  BY <1>3, PageIs
<1>5. from \in marks /\ (p < Len(starts) => starts[p + 1] \in marks /\ from < starts[p + 1])
  BY <1>3, <1>4
<1>6. /\ from \in 1..Len(t) - 1 /\ t[from].kind = "title" /\ t[from + 1].kind = "source"
      /\ p < Len(starts) => starts[p + 1] \in 1..Len(t) /\ t[starts[p + 1]].kind = "title"
  BY <1>5
<1>7. to \in from + 1..Len(t)
  <2>1. CASE p < Len(starts)
    <3>1. starts[p + 1] # from + 1
      BY <2>1, <1>6
    <3> QED BY <3>1, <2>1, <1>5, <1>6
  <2>2. CASE ~(p < Len(starts))
    BY <2>2, <1>6
  <2> QED BY <2>1, <2>2
<1>70. /\ pages[p].first = from /\ pages[p].last = to
       /\ pages[p].title = t[from] /\ pages[p].body = SubSeq(t, from + 2, to)
  BY <1>3, <1>4, PageIs
<1>71. p < Len(starts) => pages[p + 1].first = starts[p + 1]
  <2>1. p < Len(starts) => p + 1 \in 1..Len(starts)
    BY <1>3, <1>4
  <2> HIDE DEF pages, starts
  <2> QED BY <2>1, <1>3, PageIs DEF pages, starts
<1>8. /\ pages[p].body = SubSeq(t, from + 2, to) /\ pages[p].last = to /\ pages[p].first = from
      /\ p < Len(starts) => pages[p + 1].first = starts[p + 1]
  BY <1>70, <1>71
<1>9. t[from] \in TextLine /\ SubSeq(t, from + 2, to) \in Seq(TextLine)
  <2>1. t[from] \in TextLine /\ \A i \in from + 2..to : t[i] \in TextLine
    BY <1>1, <1>6, <1>7
  <2>2. from + 2 \in Int /\ to \in Int
    BY <1>6, <1>7
  <2> HIDE DEF from, to
  <2>3. SubSeq(t, from + 2, to) \in Seq(TextLine)
    BY <2>1, <2>2, SubSeqProperties
  <2> QED BY <2>1, <2>3
<1>10. IsHeading(t[from])
  BY <1>6 DEF IsHeading
<1>11. pages[p].first \in 1..Len(t)
  BY <1>6, <1>8
<1>12. pages[p].last = IF p < Len(pages) THEN pages[p + 1].first - 1 ELSE Len(t)
  BY <1>4, <1>8
<1> HIDE DEF pages, from, to, starts
<1> QED BY <1>70, <1>8, <1>9, <1>10, <1>11, <1>12 DEF pages

\* Which fence is open after a line follows from the one before and the line: there
\* is such a function for no lines, and with one for m there is one for m + 1.
LEMMA FencesExist ==
    ASSUME NEW t, NEW n \in Nat
    PROVE  \E f : f = [i \in 0..n |-> IF i = 0 THEN NoFence ELSE AfterLine(f[i - 1], t[i])]
<1> DEFINE has(m) == \E f : f = [i \in 0..m |-> IF i = 0 THEN NoFence ELSE AfterLine(f[i - 1], t[i])]
           wrong == {m \in Nat : ~has(m)}
<1>1. has(0)
  <2> DEFINE f == [i \in 0..0 |-> NoFence]
  <2>1. f = [i \in 0..0 |-> IF i = 0 THEN NoFence ELSE AfterLine(f[i - 1], t[i])]
    OBVIOUS
  <2> QED BY <2>1
<1>2. ASSUME NEW m \in Nat, has(m) PROVE has(m + 1)
  <2>1. PICK f : f = [i \in 0..m |-> IF i = 0 THEN NoFence ELSE AfterLine(f[i - 1], t[i])]
    BY <1>2
  <2> DEFINE g == [i \in 0..m + 1 |-> IF i = m + 1 THEN AfterLine(f[m], t[m + 1]) ELSE f[i]]
  <2>2. \A i \in 0..m + 1 : i # 0 => g[i - 1] = f[i - 1]
    OBVIOUS
  <2>3. \A i \in 0..m : f[i] = IF i = 0 THEN NoFence ELSE AfterLine(f[i - 1], t[i])
    BY <2>1
  <2>4. \A i \in 0..m + 1 : g[i] = IF i = 0 THEN NoFence ELSE AfterLine(g[i - 1], t[i])
    <3> TAKE i \in 0..m + 1
    <3>1. CASE i = m + 1
      <4>1. g[i] = AfterLine(f[m], t[m + 1]) /\ g[i - 1] = f[m] /\ i # 0
        BY <3>1, <2>2
      <4> HIDE DEF g
      <4> QED BY <4>1, <3>1
    <3>2. CASE i # m + 1
      <4>1. g[i] = f[i] /\ i \in 0..m
        BY <3>2
      <4> HIDE DEF g
      <4> QED BY <4>1, <2>2, <2>3
    <3> QED BY <3>1, <3>2
  <2>5. g = [i \in 0..m + 1 |-> g[i]]
    OBVIOUS
  <2> HIDE DEF g
  <2>6. g = [i \in 0..m + 1 |-> IF i = 0 THEN NoFence ELSE AfterLine(g[i - 1], t[i])]
    BY <2>4, <2>5
  <2> QED BY <2>6
<1> HIDE DEF has
<1>3. wrong = {}
  <2> SUFFICES ASSUME wrong # {} PROVE FALSE
    OBVIOUS
  <2>1. PICK m \in Nat : ~has(m) /\ \A j \in Nat : ~has(j) => m <= j
    BY FirstIs
  <2>2. m # 0 /\ m - 1 \in Nat /\ ~(m <= m - 1)
    BY <2>1, <1>1
  <2>3. has(m - 1 + 1)
    BY <2>1, <2>2, <1>2
  <2> QED BY <2>1, <2>2, <2>3
<1> QED BY <1>3 DEF has

LEMMA FenceSteps ==
    ASSUME NEW t, Len(t) \in Nat
    PROVE  /\ OpenFence(t)[0] = NoFence
           /\ \A k \in 1..Len(t) : OpenFence(t)[k] = AfterLine(OpenFence(t)[k - 1], t[k])
<1> DEFINE is(f) == f = [i \in 0..Len(t) |-> IF i = 0 THEN NoFence ELSE AfterLine(f[i - 1], t[i])]
           h == CHOOSE f : is(f)
<1>1. OpenFence(t) = h
  BY DEF OpenFence
<1>2. is(h)
  <2>1. \E f : is(f)
    BY FencesExist
  <2> HIDE DEF is
  <2> QED BY <2>1
<1> HIDE DEF h
<1>3. \A i \in 0..Len(t) : h[i] = IF i = 0 THEN NoFence ELSE AfterLine(h[i - 1], t[i])
  BY <1>2
<1> QED BY <1>1, <1>3

\* Lines that do the same to fences as others, from where none is open, have the
\* same ones open after them.
LEMMA SameSteps ==
    ASSUME NEW s, NEW t, Len(s) \in Nat, Len(t) \in Nat, NEW n \in 0..Len(s), NEW d \in Nat, d + n <= Len(t),
           OpenFence(t)[d] = NoFence,
           \A k \in 1..n : \A o : AfterLine(o, s[k]) = AfterLine(o, t[d + k])
    PROVE  \A k \in 0..n : OpenFence(s)[k] = OpenFence(t)[d + k]
<1> DEFINE wrong == {k \in 0..n : OpenFence(s)[k] # OpenFence(t)[d + k]}
<1> SUFFICES ASSUME wrong # {} PROVE FALSE
  OBVIOUS
<1>1. PICK k \in wrong : \A j \in wrong : k <= j
  <2>1. wrong \subseteq Nat
    OBVIOUS
  <2> HIDE DEF wrong
  <2> QED BY <2>1, FirstIs
<1>2. k \in 0..n /\ OpenFence(s)[k] # OpenFence(t)[d + k]
  BY <1>1
<1>3. k # 0
  BY <1>2, FenceSteps
<1>4. k \in 1..n /\ k \in 1..Len(s) /\ d + k \in 1..Len(t) /\ d + (k - 1) = d + k - 1 /\ k - 1 \in 0..n /\ ~(k <= k - 1)
  BY <1>2, <1>3
<1>5. OpenFence(s)[k - 1] = OpenFence(t)[d + (k - 1)]
  BY <1>1, <1>4
<1>6. OpenFence(s)[k] = AfterLine(OpenFence(s)[k - 1], s[k])
  BY <1>4, FenceSteps
<1>7. OpenFence(t)[d + k] = AfterLine(OpenFence(t)[d + k - 1], t[d + k])
  BY <1>4, FenceSteps
<1> QED BY <1>2, <1>4, <1>5, <1>6, <1>7

\* A part that begins outside every block has, read alone, the blocks it has there.
LEMMA PartKeepsBlocks ==
    ASSUME NEW t \in Seq(TextLine), NEW a \in 1..Len(t), NEW b \in a..Len(t), ~InsideFence(t, a)
    PROVE  SameBlocks(SubSeq(t, a, b), t, a)
<1> DEFINE s == SubSeq(t, a, b)
           n == b - a + 1
<1>1. Len(s) = n /\ \A k \in 1..n : s[k] = t[a + k - 1]
  <2>1. \A i \in a..b : t[i] \in TextLine
    OBVIOUS
  <2> QED BY <2>1, SubSeqProperties
<1>2. /\ Len(s) \in Nat /\ Len(t) \in Nat /\ n \in 0..Len(s) /\ a - 1 \in Nat /\ a - 1 + n <= Len(t)
      /\ \A k \in 1..n : a + k - 1 = a - 1 + k
  <2> HIDE DEF s
  <2> QED BY <1>1
<1>3. OpenFence(t)[a - 1] = NoFence
  BY DEF InsideFence
<1> HIDE DEF s, n
<1>4. \A k \in 1..n : \A o : AfterLine(o, s[k]) = AfterLine(o, t[a - 1 + k])
  BY <1>1, <1>2
<1>5. \A k \in 0..n : OpenFence(s)[k] = OpenFence(t)[a - 1 + k]
  BY <1>2, <1>3, <1>4, SameSteps
<1>6. \A k \in 1..Len(s) : k \in 0..n
  BY <1>1, <1>2
<1> QED BY <1>5, <1>6 DEF SameBlocks, s

\* The lines served for a listed title are a part of the page and begin with it.
LEMMA TitlesAreServed ==
    ASSUME NEW body \in Seq(TextLine)
    PROVE  TitlesRoundTrip(body)
<1> SUFFICES ASSUME NEW name \in HeadingTitles(body)
             PROVE  LET section == ExtractSection(body, name)
                    IN  \E at \in 1..Len(body) :
                            /\ IsHeading(body[at]) /\ body[at].name = name
                            /\ section # <<>> /\ section = SubSeq(body, at, at - 1 + Len(section))
                            /\ SameBlocks(section, body, at)
  BY DEF TitlesRoundTrip
<1> DEFINE starts == {i \in 1..Len(body) : IsHeading(body[i]) /\ ~InsideFence(body, i) /\ body[i].name = name}
           from == Min(starts)
           ends == {i \in from + 1..Len(body) : EndsSection(body, from, i) /\ ~InsideFence(body, i)}
           to == IF ends = {} THEN Len(body) ELSE Min(ends) - 1
           n == Len(body)
<1>1. starts # {} /\ starts \subseteq Nat /\ n \in Nat
  BY DEF HeadingTitles
<1>2. from \in 1..n /\ IsHeading(body[from]) /\ ~InsideFence(body, from) /\ body[from].name = name
  <2>1. from \in starts
    BY <1>1, FirstIs
  <2> QED BY <2>1
<1>3. to \in from..n
  <2>1. CASE ends = {}
    BY <2>1, <1>1, <1>2
  <2>2. CASE ends # {}
    <3>1. ends \subseteq Nat
      <4>1. ends \subseteq from + 1..n
        OBVIOUS
      <4> HIDE DEF ends, from, n
      <4> QED BY <4>1, <1>1, <1>2 DEF n
    <3>2. Min(ends) \in ends
      BY <2>2, <3>1, FirstIs
    <3>3. Min(ends) \in from + 1..n
      BY <3>2
    <3>4. to = Min(ends) - 1
      BY <2>2
    <3> HIDE DEF ends, to, from
    <3> QED BY <3>3, <3>4, <1>2
  <2> QED BY <2>1, <2>2
<1>4. ExtractSection(body, name) = SubSeq(body, from, to)
  BY <1>1 DEF ExtractSection
<1> HIDE DEF starts, ends, from, to
<1> DEFINE section == SubSeq(body, from, to)
<1>5. Len(section) = to - from + 1 /\ Len(section) > 0 /\ from - 1 + Len(section) = to
  <2>1. \A i \in from..to : body[i] \in TextLine
    BY <1>2, <1>3
  <2>2. from \in Int /\ to \in Int /\ from <= to
    BY <1>2, <1>3
  <2>3. Len(section) = to - from + 1
    BY <2>1, <2>2, SubSeqProperties
  <2> HIDE DEF section
  <2> QED BY <2>2, <2>3
<1>6. section # <<>>
  <2> HIDE DEF section
  <2> QED BY <1>5, EmptySeq
<1>7. SameBlocks(section, body, from)
  BY <1>2, <1>3, PartKeepsBlocks
<1>8. section = SubSeq(body, from, from - 1 + Len(section))
  <2>1. from - 1 + Len(section) = to
    BY <1>5
  <2> QED BY <2>1 DEF section
<1> HIDE DEF section, n
<1> QED BY <1>2, <1>4, <1>6, <1>7, <1>8 DEF section, n

\* Whatever grows as FlattenSeq does is what it gives: the first place where two
\* such functions differ is neither 1 nor after a place where they agree.
LEMMA FlattenIs ==
    ASSUME NEW s, Len(s) \in Nat \ {0}, NEW g,
           g = [i \in 1..Len(s) |-> IF i = 1 THEN s[i] ELSE g[i - 1] \o s[i]]
    PROVE  FlattenSeq(s) = g[Len(s)]
<1> DEFINE isFlat(f) == f = [i \in 1..Len(s) |-> IF i = 1 THEN s[i] ELSE f[i - 1] \o s[i]]
           h == CHOOSE f : isFlat(f)
           wrong == {i \in 1..Len(s) : h[i] # g[i]}
<1>1. FlattenSeq(s) = h[Len(s)]
  BY DEF FlattenSeq
<1>2. isFlat(h)
  BY DEF isFlat
<1> HIDE DEF h
<1>3. \A i \in 1..Len(s) : /\ h[i] = IF i = 1 THEN s[i] ELSE h[i - 1] \o s[i]
                           /\ g[i] = IF i = 1 THEN s[i] ELSE g[i - 1] \o s[i]
  BY <1>2
<1>4. wrong = {}
  <2> SUFFICES ASSUME wrong # {} PROVE FALSE
    OBVIOUS
  <2> DEFINE i == Min(wrong)
  <2>1. i \in wrong /\ \A j \in wrong : i <= j
    <3>1. wrong \subseteq Nat
      OBVIOUS
    <3> HIDE DEF wrong
    <3> QED BY <3>1, FirstIs
  <2> HIDE DEF i
  <2>2. i \in 1..Len(s) /\ h[i] # g[i]
    BY <2>1
  <2>3. i # 1
    BY <2>2, <1>3
  <2>4. i - 1 \in 1..Len(s) /\ ~(i <= i - 1)
    BY <2>2, <2>3
  <2>5. h[i - 1] = g[i - 1]
    BY <2>1, <2>4
  <2> QED BY <2>2, <2>5, <1>3
<1>5. Len(s) \in 1..Len(s)
  OBVIOUS
<1>6. h[Len(s)] = g[Len(s)]
  BY <1>4, <1>5
<1> QED BY <1>1, <1>6

\* Parts that begin where the ones before end are together what they are parts of.
Tile(parts, starts, w) ==
    LET c == Len(parts)
    IN  /\ c \in Nat \ {0} /\ starts[1] = 1
        /\ \A k \in 1..c : starts[k] \in 1..Len(w)
        /\ \A k \in 1..c : k < c => starts[k] < starts[k + 1]
        /\ \A i \in 1..c : parts[i] = SubSeq(w, starts[i], IF i < c THEN starts[i + 1] - 1 ELSE Len(w))

LEMMA PartsAreTheWhole ==
    ASSUME NEW w \in Seq(TextLine), NEW starts, NEW parts, Tile(parts, starts, w)
    PROVE  FlattenSeq(parts) = w
<1>0. PICK c \in Nat \ {0} :
          /\ Len(parts) = c /\ starts[1] = 1
          /\ \A k \in 1..c : starts[k] \in 1..Len(w)
          /\ \A k \in 1..c : k < c => starts[k] < starts[k + 1]
          /\ \A i \in 1..c : parts[i] = SubSeq(w, starts[i], IF i < c THEN starts[i + 1] - 1 ELSE Len(w))
  BY DEF Tile
<1> DEFINE n == Len(w)
           end(i) == IF i < c THEN starts[i + 1] - 1 ELSE n
           g == [i \in 1..c |-> SubSeq(w, 1, end(i))]
<1>1. n \in Nat
  OBVIOUS
<1>7. \A i \in 1..c : end(i) \in starts[i]..n
  <2> SUFFICES ASSUME NEW i \in 1..c PROVE end(i) \in starts[i]..n
    OBVIOUS
  <2>1. i < c => i + 1 \in 1..c
    OBVIOUS
  <2>2. i < c => starts[i] < starts[i + 1] /\ starts[i + 1] \in 1..n
    BY <2>1, <1>0
  <2>3. starts[i] \in 1..n
    BY <1>0
  <2> HIDE DEF n
  <2> QED BY <2>1, <2>2, <2>3, <1>1
<1>8. \A i \in 1..c : parts[i] = SubSeq(w, starts[i], end(i))
  BY <1>0
<1>9. \A i \in 1..c : g[i] = IF i = 1 THEN parts[i] ELSE g[i - 1] \o parts[i]
  <2> SUFFICES ASSUME NEW i \in 1..c PROVE g[i] = IF i = 1 THEN parts[i] ELSE g[i - 1] \o parts[i]
    OBVIOUS
  <2>1. CASE i = 1
    BY <2>1, <1>0, <1>8
  <2>2. CASE i # 1
    <3>1. i - 1 \in 1..c /\ i - 1 < c /\ i - 1 + 1 = i
      BY <2>2
    <3>2. end(i - 1) = starts[i] - 1
      BY <3>1
    <3>3. starts[i] \in 1..n /\ end(i) \in starts[i]..n
      BY <1>0, <1>7
    <3>4. SubSeq(w, 1, starts[i] - 1) \o SubSeq(w, starts[i] - 1 + 1, end(i)) = SubSeq(w, 1, end(i))
      <4> HIDE DEF end, n
      <4>1. 1 \in 1..n + 1 /\ starts[i] - 1 \in 1 - 1..n /\ end(i) \in starts[i] - 1..n
        BY <3>3, <1>1
      <4> QED BY <4>1, ConcatAdjacentSubSeq DEF n
    <3>5. starts[i] - 1 + 1 = starts[i]
      BY <3>3
    <3>6. g[i] = SubSeq(w, 1, end(i)) /\ g[i - 1] = SubSeq(w, 1, end(i - 1))
      BY <3>1
    <3> HIDE DEF g, end
    <3> QED BY <2>2, <3>2, <3>4, <3>5, <3>6, <1>8
  <2> QED BY <2>1, <2>2
<1>10. g = [i \in 1..Len(parts) |-> IF i = 1 THEN parts[i] ELSE g[i - 1] \o parts[i]]
  <2>1. g = [i \in 1..c |-> g[i]]
    OBVIOUS
  <2> HIDE DEF g
  <2> QED BY <2>1, <1>0, <1>9
<1>11. FlattenSeq(parts) = g[c]
  <2> HIDE DEF g
  <2> QED BY <1>0, <1>10, FlattenIs
<1>12. g[c] = SubSeq(w, 1, n)
  <2>1. c \in 1..c /\ ~(c < c)
    OBVIOUS
  <2>2. g[c] = SubSeq(w, 1, end(c))
    BY <2>1
  <2> QED BY <2>1, <2>2
<1> QED BY <1>11, <1>12, SubSeqFull DEF n

\* Where the sections of a page begin, and that they are parts of it.
SectionEnd(body, i) == IF i < Len(SectionStarts(body)) THEN SectionStarts(body)[i + 1] - 1 ELSE Len(body)

LEMMA SectionsAre ==
    ASSUME NEW body \in Seq(TextLine), body # <<>>, IsHeading(body[1])
    PROVE  LET starts == SectionStarts(body)
               c == Len(SectionStarts(body))
           IN  /\ c \in Nat \ {0} /\ starts[1] = 1
               /\ \A k \in 1..c : /\ starts[k] \in 1..Len(body)
                                  /\ IsHeading(body[starts[k]]) /\ ~InsideFence(body, starts[k])
                                  /\ SectionEnd(body, k) \in starts[k]..Len(body)
               /\ \A k, l \in 1..c : k < l => starts[k] < starts[l]
               /\ Len(SplitIntoSections(body)) = c
               /\ \A k \in 1..c : SplitIntoSections(body)[k] = SubSeq(body, starts[k], SectionEnd(body, k))
<1> DEFINE n == Len(body)
           marks == {i \in 1..Len(body) : IsHeading(body[i]) /\ ~InsideFence(body, i)}
           starts == SectionStarts(body)
           c == Len(starts)
           s == SplitIntoSections(body)
<1>1. n \in Nat \ {0}
  BY EmptySeq
<1>2. marks \subseteq 1..n /\ starts = InOrder(marks)
  BY DEF SectionStarts
<1>3. 1 \in marks
  <2>1. OpenFence(body)[1 - 1] = NoFence
    BY <1>1, FenceSteps
  <2> QED BY <2>1, <1>1 DEF InsideFence
<1>4. /\ starts \in Seq(marks) /\ c \in Nat \ {0}
      /\ \A k, l \in 1..c : k < l => starts[k] < starts[l]
      /\ \E k \in 1..c : starts[k] = 1
  <2> HIDE DEF marks, starts, n
  <2>1. /\ starts \in Seq(marks) /\ c = Cardinality(marks) /\ c \in Nat /\ (marks # {} => c > 0)
        /\ \A k, l \in 1..Cardinality(marks) : k < l => starts[k] < starts[l]
        /\ \A x \in marks : \E k \in 1..Cardinality(marks) : starts[k] = x
    BY <1>1, <1>2, InOrderIs
  <2> HIDE DEF c
  <2> QED BY <2>1, <1>3 DEF c
<1>50. \A k \in 1..c : starts[k] \in marks
  <2> HIDE DEF marks, starts
  <2> QED BY <1>4
<1>5. \A k \in 1..c : starts[k] \in 1..n
  <2> HIDE DEF marks, starts, n
  <2> QED BY <1>50, <1>2
<1>51. \A k \in 1..c : IsHeading(body[starts[k]]) /\ ~InsideFence(body, starts[k])
  <2>1. \A x \in marks : IsHeading(body[x]) /\ ~InsideFence(body, x)
    OBVIOUS
  <2> HIDE DEF marks, starts
  <2> QED BY <1>50, <2>1
<1>6. starts[1] = 1
  <2>1. PICK k \in 1..c : starts[k] = 1
    BY <1>4
  <2> HIDE DEF starts, n
  <2>2. 1 \in 1..c /\ starts[1] \in 1..n
    BY <1>4, <1>5
  <2>3. 1 < k => starts[1] < starts[k]
    BY <2>1, <2>2, <1>4
  <2> QED BY <2>1, <2>2, <2>3, <1>4
<1>7. \A i \in 1..c : SectionEnd(body, i) \in starts[i]..n
  <2> SUFFICES ASSUME NEW i \in 1..c PROVE SectionEnd(body, i) \in starts[i]..n
    OBVIOUS
  <2>0. SectionEnd(body, i) = IF i < c THEN starts[i + 1] - 1 ELSE n
    BY DEF SectionEnd
  <2>1. i < c => i + 1 \in 1..c /\ i < i + 1
    BY <1>4
  <2> HIDE DEF starts, n
  <2>2. i < c => starts[i] < starts[i + 1]
    BY <2>1, <1>4
  <2> QED BY <2>0, <2>1, <2>2, <1>1, <1>4, <1>5
<1>8. Len(s) = c /\ \A i \in 1..c : s[i] = SubSeq(body, starts[i], SectionEnd(body, i))
  <2>1. s = [i \in 1..c |-> SubSeq(body, starts[i], SectionEnd(body, i))]
    BY DEF SplitIntoSections, SectionEnd
  <2> HIDE DEF s
  <2>2. c \in Nat
    BY <1>4
  <2> HIDE DEF c
  <2>3. Len([i \in 1..c |-> SubSeq(body, starts[i], SectionEnd(body, i))]) = c
    BY <2>2
  <2>4. Len(s) = c
    BY <2>1, <2>3
  <2>5. \A i \in 1..c : s[i] = SubSeq(body, starts[i], SectionEnd(body, i))
    BY <2>1
  <2> QED BY <2>4, <2>5
<1> HIDE DEF starts, n, s
<1> QED BY <1>4, <1>5, <1>51, <1>6, <1>7, <1>8 DEF n, starts, s

LEMMA SectionsStayWhole ==
    ASSUME NEW body \in Seq(TextLine), body # <<>>, IsHeading(body[1])
    PROVE  SectionsAreWhole(body)
<1> DEFINE starts == SectionStarts(body)
           c == Len(starts)
           s == SplitIntoSections(body)
<1>1. /\ c \in Nat \ {0} /\ starts[1] = 1
      /\ \A k \in 1..c : /\ starts[k] \in 1..Len(body) /\ ~InsideFence(body, starts[k])
                         /\ SectionEnd(body, k) \in starts[k]..Len(body)
      /\ \A k, l \in 1..c : k < l => starts[k] < starts[l]
      /\ Len(s) = c /\ \A k \in 1..c : s[k] = SubSeq(body, starts[k], SectionEnd(body, k))
  BY SectionsAre
<1>2. \A i \in 1..c : s[i] = SubSeq(body, starts[i], IF i < c THEN starts[i + 1] - 1 ELSE Len(body))
  BY <1>1 DEF SectionEnd
<1>3. \A k \in 1..c : SameBlocks(s[k], body, starts[k])
  <2> SUFFICES ASSUME NEW k \in 1..c PROVE SameBlocks(s[k], body, starts[k])
    OBVIOUS
  <2> HIDE DEF starts, s
  <2>1. SameBlocks(SubSeq(body, starts[k], SectionEnd(body, k)), body, starts[k])
    BY <1>1, PartKeepsBlocks
  <2> QED BY <2>1, <1>1
<1> HIDE DEF starts, s
<1>4. \A k \in 1..c : k < c => starts[k] < starts[k + 1]
  <2>1. \A k \in 1..c : k < c => k + 1 \in 1..c /\ k < k + 1
    BY <1>1
  <2> HIDE DEF c
  <2> QED BY <2>1, <1>1
<1>5. FlattenSeq(s) = body
  <2>1. c \in Nat \ {0} /\ starts[1] = 1 /\ Len(s) = c
    BY <1>1
  <2>2. \A k \in 1..c : starts[k] \in 1..Len(body)
    BY <1>1
  <2> HIDE DEF c
  <2>3. Tile(s, starts, body)
    BY <2>1, <2>2, <1>2, <1>4 DEF Tile
  <2> QED BY <2>3, PartsAreTheWhole
<1> QED BY <1>3, <1>5 DEF SectionsAreWhole, starts, s

LEMMA LineIs ==
    ASSUME NEW x \in TextLine, NEW v \in Kind
    PROVE  /\ As(x, v) \in TextLine /\ As(x, v).kind = v /\ As(x, v).name = x.name
           /\ Untagged(x) \in TextLine
           /\ x.flush \in Kind /\ "heading" \in Kind /\ "text" \in Kind
BY DEF TextLine, As, Untagged, Kind

LEMMA KindsAre == "heading" \in Kind /\ "text" \in Kind /\ \A x \in TextLine : x.flush \in Kind
BY DEF TextLine, Kind

\* A page as it is served: each of its lines, in its place, but for what is made of
\* the headings and of what comes first in a section.
LEMMA StrippedIs ==
    ASSUME NEW s \in Seq(TextLine)
    PROVE  /\ Stripped(s) \in Seq(TextLine) /\ Len(Stripped(s)) = Len(s)
<1> DEFINE e(k) == IF FirstOf(s, k) THEN As(s[k], s[k].flush) ELSE s[k]
<1>1. ASSUME NEW k \in 1..Len(s) PROVE e(k) \in TextLine
  <2>1. s[k] \in TextLine
    OBVIOUS
  <2>2. As(s[k], s[k].flush) \in TextLine
    BY <2>1, LineIs, KindsAre
  <2> QED BY <2>1, <2>2
<1>2. Stripped(s) = [k \in 1..Len(s) |-> e(k)]
  BY DEF Stripped
<1> HIDE DEF e
<1>3. Len(s) \in Nat
  OBVIOUS
<1>4. [k \in 1..Len(s) |-> e(k)] \in Seq(TextLine)
  BY <1>1, <1>3, IsASeq
<1> QED BY <1>2, <1>3, <1>4

LEMMA SectionChunkIs ==
    ASSUME NEW s \in Seq(TextLine), s # <<>>
    PROVE  /\ SectionChunk(s) \in Seq(TextLine) /\ Len(SectionChunk(s)) = Len(s)
           /\ SectionChunk(s)[1].kind = "heading" /\ SectionChunk(s)[1].name = s[1].name
           /\ Stripped(Tail(s)) = Tail(s) => \A k \in 2..Len(s) : SectionChunk(s)[k] = s[k]
<1> DEFINE h == As(s[1], "heading")
           r == Stripped(Tail(s))
<1>1. Len(s) \in Nat \ {0} /\ s[1] \in TextLine
  BY EmptySeq
<1>2. h \in TextLine /\ h.kind = "heading" /\ h.name = s[1].name
  BY <1>1, LineIs, KindsAre
<1>3. /\ Tail(s) \in Seq(TextLine) /\ Len(Tail(s)) = Len(s) - 1
      /\ \A i \in 1..Len(s) - 1 : Tail(s)[i] = s[i + 1]
  BY HeadTailProperties
<1>4. r \in Seq(TextLine) /\ Len(r) = Len(s) - 1
  BY <1>3, StrippedIs
<1>5. SectionChunk(s) = <<h>> \o r
  BY DEF SectionChunk
<1> HIDE DEF h
<1>6. <<h>> \in Seq(TextLine) /\ Len(<<h>>) = 1 /\ <<h>>[1] = h
  BY <1>2
<1> HIDE DEF r
<1>7. /\ SectionChunk(s) \in Seq(TextLine) /\ Len(SectionChunk(s)) = 1 + (Len(s) - 1)
      /\ \A i \in 1..1 + (Len(s) - 1) : SectionChunk(s)[i] = IF i <= 1 THEN <<h>>[i] ELSE r[i - 1]
  BY <1>4, <1>5, <1>6, ConcatProperties
<1>8. SectionChunk(s)[1] = h
  BY <1>1, <1>6, <1>7
<1>9. ASSUME r = Tail(s), NEW k \in 2..Len(s) PROVE SectionChunk(s)[k] = s[k]
  <2>1. k \in 1..1 + (Len(s) - 1) /\ ~(k <= 1) /\ k - 1 \in 1..Len(s) - 1 /\ k - 1 + 1 = k
    BY <1>1
  <2>2. SectionChunk(s)[k] = r[k - 1]
    BY <1>7, <2>1
  <2>3. Tail(s)[k - 1] = s[k]
    BY <1>3, <2>1
  <2> QED BY <1>9, <2>2, <2>3
<1> QED BY <1>1, <1>2, <1>7, <1>8, <1>9 DEF r

\* Every line of a page is in one section.
LEMMA InOneSection ==
    ASSUME NEW body \in Seq(TextLine), body # <<>>, IsHeading(body[1]), NEW k \in 1..Len(body)
    PROVE  LET starts == SectionStarts(body)
               c == Len(SectionStarts(body))
           IN  /\ \E i \in 1..c : k \in starts[i]..SectionEnd(body, i)
               /\ \A i, j \in 1..c : k \in starts[i]..SectionEnd(body, i) /\ k \in starts[j]..SectionEnd(body, j) => i = j
<1> DEFINE starts == SectionStarts(body)
           c == Len(starts)
           n == Len(body)
           reach == {i \in 1..c : k <= SectionEnd(body, i)}
<1>1. /\ c \in Nat \ {0} /\ starts[1] = 1 /\ n \in Nat
      /\ \A i \in 1..c : starts[i] \in 1..n /\ SectionEnd(body, i) \in starts[i]..n
      /\ \A i, j \in 1..c : i < j => starts[i] < starts[j]
  BY SectionsAre
<1>2. \A i \in 1..c : SectionEnd(body, i) = IF i < c THEN starts[i + 1] - 1 ELSE n
  BY DEF SectionEnd
<1> HIDE DEF starts, n
<1>3. \E i \in 1..c : k \in starts[i]..SectionEnd(body, i)
  <2>1. c \in reach
    BY <1>1, <1>2 DEF n
  <2>2. PICK i \in reach : \A j \in reach : i <= j
    <3>1. reach \subseteq Nat
      BY <1>1
    <3> HIDE DEF reach
    <3> QED BY <2>1, <3>1, FirstIs
  <2>3. i \in 1..c /\ k <= SectionEnd(body, i)
    BY <2>2
  <2>4. CASE i = 1
    BY <2>3, <2>4, <1>1 DEF n
  <2>5. CASE i # 1
    <3>1. i - 1 \in 1..c /\ i - 1 < c /\ i - 1 + 1 = i /\ ~(i <= i - 1)
      BY <2>3, <2>5, <1>1
    <3>2. SectionEnd(body, i - 1) = starts[i] - 1
      BY <3>1, <1>2
    <3>3. ~(k <= SectionEnd(body, i - 1))
      BY <3>1, <2>2
    <3>4. starts[i] <= k
      BY <3>2, <3>3, <2>3, <1>1 DEF n
    <3> QED BY <3>4, <2>3, <1>1 DEF n
  <2> QED BY <2>4, <2>5
<1>4. ASSUME NEW i \in 1..c, NEW j \in 1..c, k \in starts[i]..SectionEnd(body, i), k \in starts[j]..SectionEnd(body, j), i < j
      PROVE  FALSE
  <2>1. i < c /\ i + 1 \in 1..c
    BY <1>4, <1>1
  <2>2. starts[i + 1] <= starts[j]
    <3>1. i + 1 = j \/ i + 1 < j
      BY <1>4, <1>1
    <3>2. starts[j] \in Int
      BY <1>1
    <3> QED BY <3>1, <3>2, <2>1, <1>1
  <2>3. SectionEnd(body, i) = starts[i + 1] - 1 /\ starts[i + 1] \in Int /\ starts[j] \in Int
    BY <2>1, <1>1, <1>2
  <2>4. k <= starts[i + 1] - 1 /\ starts[j] <= k
    BY <1>4, <2>3
  <2> QED BY <2>2, <2>3, <2>4
<1>5. ASSUME NEW i \in 1..c, NEW j \in 1..c, k \in starts[i]..SectionEnd(body, i), k \in starts[j]..SectionEnd(body, j)
      PROVE  i = j
  <2>1. ~(i < j) /\ ~(j < i)
    BY <1>4, <1>5
  <2> QED BY <2>1, <1>1
<1> QED BY <1>3, <1>5 DEF starts

LEMMA ServedIs ==
    ASSUME NEW body \in Seq(TextLine), body # <<>>, IsHeading(body[1])
    PROVE  LET starts == SectionStarts(body)
               sections == SplitIntoSections(body)
           IN  /\ Served(body) \in Seq(TextLine) /\ Len(Served(body)) = Len(body)
               /\ \A i \in 1..Len(starts) : \A k \in starts[i]..SectionEnd(body, i) :
                     Served(body)[k] = SectionChunk(sections[i])[k - starts[i] + 1]
<1> DEFINE starts == SectionStarts(body)
           c == Len(starts)
           n == Len(body)
           s == SplitIntoSections(body)
           in(k) == CHOOSE i \in 1..c : k \in starts[i]..SectionEnd(body, i)
           e(k) == SectionChunk(s[in(k)])[k - starts[in(k)] + 1]
           w == [k \in 1..n |-> e(k)]
           parts == [i \in 1..Len(s) |-> SectionChunk(s[i])]
<1>1. /\ c \in Nat \ {0} /\ starts[1] = 1 /\ n \in Nat
      /\ \A i \in 1..c : starts[i] \in 1..n /\ SectionEnd(body, i) \in starts[i]..n
      /\ \A i, j \in 1..c : i < j => starts[i] < starts[j]
      /\ Len(s) = c /\ \A i \in 1..c : s[i] = SubSeq(body, starts[i], SectionEnd(body, i))
  BY SectionsAre
<1>2. \A i \in 1..c : SectionEnd(body, i) = IF i < c THEN starts[i + 1] - 1 ELSE n
  BY DEF SectionEnd
<1>3. ASSUME NEW i \in 1..c, NEW k \in starts[i]..SectionEnd(body, i) PROVE k \in 1..n /\ in(k) = i
  <2>1. k \in 1..n
    BY <1>1
  <2>2. \A j \in 1..c : k \in starts[j]..SectionEnd(body, j) => i = j
    BY <2>1, InOneSection
  <2>3. in(k) \in 1..c /\ k \in starts[in(k)]..SectionEnd(body, in(k))
    <3> HIDE DEF starts, c
    <3> QED OBVIOUS
  <2> HIDE DEF in, starts
  <2> QED BY <2>1, <2>2, <2>3
<1>4. \A k \in 1..n : in(k) \in 1..c /\ k \in starts[in(k)]..SectionEnd(body, in(k))
  <2> SUFFICES ASSUME NEW k \in 1..n PROVE in(k) \in 1..c /\ k \in starts[in(k)]..SectionEnd(body, in(k))
    OBVIOUS
  <2>1. \E i \in 1..c : k \in starts[i]..SectionEnd(body, i)
    BY InOneSection
  <2> HIDE DEF starts, c
  <2> QED BY <2>1
<1> HIDE DEF in, starts, s, n
<1>5. ASSUME NEW i \in 1..c
      PROVE  LET chunk == SectionChunk(s[i])
             IN  chunk \in Seq(TextLine) /\ Len(chunk) = SectionEnd(body, i) - starts[i] + 1
  <2>1. /\ starts[i] \in Int /\ SectionEnd(body, i) \in Int /\ starts[i] <= SectionEnd(body, i)
        /\ \A x \in starts[i]..SectionEnd(body, i) : x \in 1..n
    BY <1>1
  <2>2. \A x \in starts[i]..SectionEnd(body, i) : body[x] \in TextLine
    BY <2>1 DEF n
  <2> DEFINE part == SubSeq(body, starts[i], SectionEnd(body, i))
  <2>5. part \in Seq(TextLine) /\ Len(part) = SectionEnd(body, i) - starts[i] + 1
    BY <2>1, <2>2, SubSeqProperties
  <2>6. s[i] = part
    BY <1>1
  <2> HIDE DEF part
  <2>3. s[i] \in Seq(TextLine) /\ Len(s[i]) = SectionEnd(body, i) - starts[i] + 1
    BY <2>5, <2>6
  <2>4. s[i] # <<>>
    BY <2>1, <2>3, EmptySeq
  <2> QED BY <2>3, <2>4, SectionChunkIs
<1>6. w \in Seq(TextLine) /\ Len(w) = n
  <2>1. ASSUME NEW k \in 1..n PROVE e(k) \in TextLine
    <3>1. in(k) \in 1..c /\ starts[in(k)] \in Int /\ SectionEnd(body, in(k)) \in Int /\ k \in starts[in(k)]..SectionEnd(body, in(k))
      <4>1. in(k) \in 1..c /\ k \in starts[in(k)]..SectionEnd(body, in(k))
        BY <1>4
      <4>2. starts[in(k)] \in 1..n /\ SectionEnd(body, in(k)) \in starts[in(k)]..n
        BY <4>1, <1>1
      <4> QED BY <4>1, <4>2, <1>1
    <3>2. k - starts[in(k)] + 1 \in 1..SectionEnd(body, in(k)) - starts[in(k)] + 1
      BY <3>1
    <3> DEFINE chunk == SectionChunk(s[in(k)])
    <3>3. chunk \in Seq(TextLine) /\ Len(chunk) = SectionEnd(body, in(k)) - starts[in(k)] + 1
      BY <3>1, <1>5
    <3> HIDE DEF chunk
    <3>4. chunk[k - starts[in(k)] + 1] \in TextLine
      BY <3>2, <3>3
    <3> QED BY <3>4 DEF chunk
  <2> HIDE DEF e
  <2>2. w \in Seq(TextLine)
    BY <2>1, <1>1, IsASeq
  <2> QED BY <2>2, <1>1
<1>7. \A i \in 1..c : \A k \in starts[i]..SectionEnd(body, i) : w[k] = SectionChunk(s[i])[k - starts[i] + 1]
  BY <1>3
<1> HIDE DEF w
<1>8. ASSUME NEW i \in 1..c PROVE SectionChunk(s[i]) = SubSeq(w, starts[i], SectionEnd(body, i))
  <2> DEFINE chunk == SectionChunk(s[i])
             from == starts[i]
             to == SectionEnd(body, i)
             part == SubSeq(w, from, to)
  <2>1. from \in 1..n /\ to \in from..n /\ from \in Int /\ to \in Int
    BY <1>1
  <2>2. chunk \in Seq(TextLine) /\ Len(chunk) = to - from + 1
    BY <1>5
  <2>3. \A k \in from..to : w[k] = chunk[k - from + 1]
    BY <1>7
  <2> HIDE DEF chunk, from, to
  <2>4. \A x \in from..to : w[x] \in TextLine
    <3>1. \A x \in from..to : x \in 1..Len(w)
      BY <2>1, <1>6, <1>1
    <3> QED BY <3>1, <1>6
  <2>5. /\ part \in Seq(TextLine) /\ Len(part) = to - from + 1
        /\ \A x \in 1..to - from + 1 : part[x] = w[from + x - 1]
    BY <2>1, <2>4, SubSeqProperties
  <2>6. \A x \in 1..to - from + 1 : part[x] = chunk[x]
    <3> SUFFICES ASSUME NEW x \in 1..to - from + 1 PROVE part[x] = chunk[x]
      OBVIOUS
    <3> DEFINE k == from + x - 1
    <3>1. k \in from..to /\ k - from + 1 = x
      BY <2>1
    <3> HIDE DEF part
    <3>3. part[x] = w[k]
      BY <2>5
    <3> HIDE DEF k
    <3>2. w[k] = chunk[k - from + 1]
      BY <3>1, <2>3
    <3> QED BY <3>1, <3>2, <3>3
  <2> HIDE DEF part
  <2>7. chunk = part
    BY <2>2, <2>5, <2>6, SeqEqual
  <2> QED BY <2>7 DEF chunk, part, from, to
<1>9. Served(body) = FlattenSeq(parts)
  BY DEF Served, s
<1>10. Len(parts) = c /\ \A i \in 1..c : parts[i] = SectionChunk(s[i])
  <2> HIDE DEF c
  <2> QED BY <1>1
<1> HIDE DEF parts
<1>11. \A i \in 1..c : parts[i] = SubSeq(w, starts[i], IF i < c THEN starts[i + 1] - 1 ELSE Len(w))
  BY <1>2, <1>6, <1>8, <1>10
<1>12. \A k \in 1..c : k < c => starts[k] < starts[k + 1]
  <2>1. \A k \in 1..c : k < c => k + 1 \in 1..c /\ k < k + 1
    BY <1>1
  <2> HIDE DEF c
  <2> QED BY <2>1, <1>1
<1>13. FlattenSeq(parts) = w
  <2>1. c \in Nat \ {0} /\ starts[1] = 1 /\ Len(parts) = c /\ w \in Seq(TextLine)
    BY <1>1, <1>6, <1>10
  <2>2. \A k \in 1..c : starts[k] \in 1..Len(w)
    BY <1>1, <1>6
  <2> HIDE DEF c
  <2>3. Tile(parts, starts, w)
    BY <2>1, <2>2, <1>11, <1>12 DEF Tile
  <2> QED BY <2>1, <2>3, PartsAreTheWhole
<1> QED BY <1>6, <1>7, <1>9, <1>13 DEF starts, s, n

LEMMA PagesAreServedAsWritten ==
    ASSUME NEW body \in Seq(TextLine), body # <<>>, IsHeading(body[1])
    PROVE  ServedAsWritten(body)
<1> DEFINE starts == SectionStarts(body)
           c == Len(starts)
           n == Len(body)
           s == SplitIntoSections(body)
           w == Served(body)
<1> SUFFICES ASSUME \A i \in 1..Len(s) : Stripped(Tail(s[i])) = Tail(s[i])
             PROVE  Len(w) = n /\ SameBlocks(w, body, 1) /\ HeadingTitles(w) = HeadingTitles(body)
  BY DEF ServedAsWritten
<1>1. /\ c \in Nat \ {0} /\ n \in Nat
      /\ \A i \in 1..c : /\ starts[i] \in 1..n /\ SectionEnd(body, i) \in starts[i]..n
                         /\ IsHeading(body[starts[i]])
      /\ Len(s) = c /\ \A i \in 1..c : s[i] = SubSeq(body, starts[i], SectionEnd(body, i))
  BY SectionsAre
<1>2. /\ w \in Seq(TextLine) /\ Len(w) = n
      /\ \A i \in 1..c : \A k \in starts[i]..SectionEnd(body, i) : w[k] = SectionChunk(s[i])[k - starts[i] + 1]
  BY ServedIs
<1>3. \A k \in 1..n : \E i \in 1..c : k \in starts[i]..SectionEnd(body, i)
  BY InOneSection
<1> HIDE DEF starts, s, w
<1>4. \A k \in 1..n : /\ body[k] = w[k] \/ (IsHeading(body[k]) /\ w[k].kind = "heading" /\ w[k].name = body[k].name)
  <2> SUFFICES ASSUME NEW k \in 1..n
               PROVE  body[k] = w[k] \/ (IsHeading(body[k]) /\ w[k].kind = "heading" /\ w[k].name = body[k].name)
    OBVIOUS
  <2>1. PICK i \in 1..c : k \in starts[i]..SectionEnd(body, i)
    BY <1>3
  <2> DEFINE from == starts[i]
             to == SectionEnd(body, i)
             chunk == SectionChunk(s[i])
  <2>2. from \in 1..n /\ to \in from..n /\ IsHeading(body[from]) /\ from \in Int /\ to \in Int /\ k \in from..to
    BY <1>1, <2>1
  <2>3. w[k] = chunk[k - from + 1]
    BY <1>2, <2>1
  <2>4. /\ s[i] \in Seq(TextLine) /\ Len(s[i]) = to - from + 1
        /\ \A x \in 1..to - from + 1 : s[i][x] = body[from + x - 1]
    <3>1. s[i] = SubSeq(body, from, to)
      BY <1>1
    <3> HIDE DEF from, to
    <3>2. \A x \in from..to : body[x] \in TextLine
      BY <2>2
    <3>3. /\ SubSeq(body, from, to) \in Seq(TextLine) /\ Len(SubSeq(body, from, to)) = to - from + 1
          /\ \A x \in 1..to - from + 1 : SubSeq(body, from, to)[x] = body[from + x - 1]
      BY <2>2, <3>2, SubSeqProperties
    <3> QED BY <3>1, <3>3
  <2>5. Stripped(Tail(s[i])) = Tail(s[i])
    BY <1>1
  <2> HIDE DEF from, to
  <2>6. s[i] # <<>>
    BY <2>2, <2>4, EmptySeq
  <2>7. /\ chunk[1].kind = "heading" /\ chunk[1].name = s[i][1].name
        /\ \A x \in 2..Len(s[i]) : chunk[x] = s[i][x]
    BY <2>4, <2>5, <2>6, SectionChunkIs
  <2> HIDE DEF chunk
  <2>8. CASE k = from
    <3>1. k - from + 1 = 1 /\ 1 \in 1..to - from + 1 /\ from + 1 - 1 = from
      BY <2>2, <2>8
    <3>2. s[i][1] = body[from]
      BY <2>4, <3>1
    <3> QED BY <2>2, <2>3, <2>7, <2>8, <3>1, <3>2
  <2>9. CASE k # from
    <3>1. k - from + 1 \in 2..Len(s[i]) /\ k - from + 1 \in 1..to - from + 1 /\ from + (k - from + 1) - 1 = k
      BY <2>2, <2>4, <2>9
    <3>2. s[i][k - from + 1] = body[k]
      BY <2>4, <3>1
    <3> QED BY <2>3, <2>7, <3>1, <3>2
  <2> QED BY <2>8, <2>9
<1>5. \A k \in 1..n : /\ IsHeading(w[k]) <=> IsHeading(body[k])
                      /\ w[k].name = body[k].name
                      /\ \A o : AfterLine(o, w[k]) = AfterLine(o, body[k])
  BY <1>4 DEF IsHeading, AfterLine
<1>6. \A k \in 0..n : OpenFence(w)[k] = OpenFence(body)[0 + k]
  <2>1. OpenFence(body)[0] = NoFence
    BY <1>1, FenceSteps
  <2>2. n \in 0..Len(w) /\ 0 \in Nat /\ 0 + n <= Len(body) /\ Len(w) \in Nat /\ Len(body) \in Nat
    BY <1>1, <1>2
  <2>3. \A k \in 1..n : \A o : AfterLine(o, w[k]) = AfterLine(o, body[0 + k])
    BY <1>5
  <2> HIDE DEF n
  <2> QED BY <2>1, <2>2, <2>3, SameSteps
<1>7. \A k \in 1..n : InsideFence(w, k) <=> InsideFence(body, k)
  <2> SUFFICES ASSUME NEW k \in 1..n PROVE OpenFence(w)[k - 1] = OpenFence(body)[k - 1]
    BY DEF InsideFence
  <2>1. k - 1 \in 0..n /\ 0 + (k - 1) = k - 1
    BY <1>1
  <2> QED BY <2>1, <1>6
<1>8. SameBlocks(w, body, 1)
  <2>1. \A k \in 1..Len(w) : k \in 0..n /\ 1 - 1 + k = k /\ 0 + k = k
    BY <1>1, <1>2
  <2> QED BY <2>1, <1>6 DEF SameBlocks
<1>9. HeadingTitles(w) = HeadingTitles(body)
  <2>1. {j \in 1..Len(w) : IsHeading(w[j]) /\ ~InsideFence(w, j)} = {j \in 1..n : IsHeading(body[j]) /\ ~InsideFence(body, j)}
    BY <1>2, <1>5, <1>7
  <2>2. \A j \in {k \in 1..n : IsHeading(body[k]) /\ ~InsideFence(body, k)} : w[j].name = body[j].name
    BY <1>5
  <2> HIDE DEF n
  <2>3. HeadingTitles(w) = {w[i].name : i \in {j \in 1..n : IsHeading(body[j]) /\ ~InsideFence(body, j)}}
    BY <2>1 DEF HeadingTitles
  <2> QED BY <2>2, <2>3 DEF HeadingTitles, n
<1> QED BY <1>2, <1>8, <1>9

\* Quoted lines leave the open fence as it is; the others do what they did.
LEMMA CleaningIs ==
    ASSUME NEW body \in Seq(TextLine)
    PROVE  /\ CleanMintlifyTags(body) \in Seq(TextLine) /\ Len(CleanMintlifyTags(body)) = Len(body)
           /\ Len(Bare(body)) = Len(body)
           /\ \A k \in 1..Len(body) : \A o :
                 AfterLine(o, CleanMintlifyTags(body)[k]) = IF Quoted(body, k) THEN o ELSE AfterLine(o, Bare(body)[k])
<1> DEFINE n == Len(body)
           q(k) == As(body[k], "text")
           b(k) == Untagged(body[k])
           e(k) == IF Quoted(body, k) THEN q(k) ELSE b(k)
<1>1. n \in Nat
  OBVIOUS
<1>2. \A k \in 1..n : q(k) \in TextLine /\ b(k) \in TextLine /\ q(k).kind = "text"
  <2> SUFFICES ASSUME NEW k \in 1..n PROVE q(k) \in TextLine /\ b(k) \in TextLine /\ q(k).kind = "text"
    OBVIOUS
  <2>1. body[k] \in TextLine
    OBVIOUS
  <2> QED BY <2>1, KindsAre, LineIs
<1>3. CleanMintlifyTags(body) = [k \in 1..n |-> e(k)] /\ Bare(body) = [k \in 1..n |-> b(k)]
  BY DEF CleanMintlifyTags, Bare
<1> HIDE DEF n, q, b
<1>4. \A k \in 1..n : e(k) \in TextLine
  BY <1>2
<1>5. \A k \in 1..n : \A o : AfterLine(o, e(k)) = IF Quoted(body, k) THEN o ELSE AfterLine(o, b(k))
  <2> SUFFICES ASSUME NEW k \in 1..n, NEW o PROVE AfterLine(o, e(k)) = IF Quoted(body, k) THEN o ELSE AfterLine(o, b(k))
    OBVIOUS
  <2>1. AfterLine(o, q(k)) = o
    BY <1>2 DEF AfterLine
  <2> QED BY <2>1
<1> HIDE DEF e
<1>6. [k \in 1..n |-> e(k)] \in Seq(TextLine)
  BY <1>1, <1>4, IsASeq
<1> QED BY <1>1, <1>3, <1>5, <1>6 DEF n

\* Before the first line that would be amiss, an admonition ends that is in no other,
\* and the same fence is open after it as before it.
LEMMA CleaningKeepsBlocks ==
    ASSUME NEW body \in Seq(TextLine)
    PROVE  CleaningMovesNoCode(body)
<1> DEFINE n == Len(body)
           F == OpenFence(CleanMintlifyTags(body))
           G == OpenFence(Bare(body))
           wrong == {k \in 1..n : ~Quoted(body, k) /\ F[k] # G[k]}
<1> SUFFICES ASSUME WellNested(body), wrong # {} PROVE FALSE
  BY DEF CleaningMovesNoCode
<1>1. n \in Nat /\ Len(CleanMintlifyTags(body)) = n /\ Len(Bare(body)) = n
  BY CleaningIs
<1>2. /\ F[0] = NoFence /\ G[0] = NoFence
      /\ \A k \in 1..n : /\ F[k] = IF Quoted(body, k) THEN F[k - 1] ELSE AfterLine(F[k - 1], Bare(body)[k])
                         /\ G[k] = AfterLine(G[k - 1], Bare(body)[k])
  <2>1. /\ F[0] = NoFence /\ G[0] = NoFence
        /\ \A k \in 1..n : /\ F[k] = AfterLine(F[k - 1], CleanMintlifyTags(body)[k])
                           /\ G[k] = AfterLine(G[k - 1], Bare(body)[k])
    BY <1>1, FenceSteps
  <2> HIDE DEF F, G
  <2> QED BY <2>1, CleaningIs
<1>3. \A i, j \in 1..n : i < j /\ Admonition(body, i, j) =>
          /\ G[i] = G[j]
          /\ \A k, l \in i + 1..n : k <= j /\ k < l /\ Admonition(body, k, l) => l <= j
  BY DEF WellNested
<1> HIDE DEF F, G, n
<1>4. PICK k \in wrong : \A j \in wrong : k <= j
  <2>1. wrong \subseteq Nat
    BY <1>1
  <2> HIDE DEF wrong
  <2> QED BY <2>1, FirstIs
<1>5. k \in 1..n /\ ~Quoted(body, k) /\ F[k] # G[k]
  BY <1>4
<1>6. \A j \in 1..n : j < k /\ ~Quoted(body, j) => F[j] = G[j]
  <2> SUFFICES ASSUME NEW j \in 1..n, j < k, ~Quoted(body, j), F[j] # G[j] PROVE FALSE
    OBVIOUS
  <2>1. j \in wrong
    OBVIOUS
  <2>2. k <= j
    BY <2>1, <1>4
  <2> QED BY <2>2, <1>1, <1>5
<1>7. F[k - 1] # G[k - 1]
  BY <1>2, <1>5
<1>8. k # 1 /\ k - 1 \in 1..n /\ k - 1 < k
  BY <1>1, <1>2, <1>5, <1>7
<1>9. Quoted(body, k - 1)
  BY <1>6, <1>7, <1>8
<1> DEFINE opening == {i \in 1..k - 1 - 1 : \E j \in k - 1..n : Admonition(body, i, j)}
<1>10. opening # {} /\ opening \subseteq Nat
  <2>1. PICK x \in 1..k - 1 - 1, y \in k - 1..Len(body) : Admonition(body, x, y)
    BY <1>9 DEF Quoted
  <2>2. x \in opening
    BY <2>1 DEF n
  <2>3. 1..k - 1 - 1 \subseteq Nat
    BY <1>8, <1>1
  <2> QED BY <2>2, <2>3
<1>11. PICK i \in opening : \A x \in opening : i <= x
  <2> HIDE DEF opening
  <2> QED BY <1>10, FirstIs
<1>12. PICK j \in k - 1..n : Admonition(body, i, j)
  BY <1>11
<1>13. i \in 1..n /\ i < k - 1 /\ i \in Int /\ j \in 1..n /\ k \in Int
  BY <1>1, <1>5, <1>8, <1>11, <1>12
<1>14. j = k - 1
  <2> SUFFICES ASSUME j # k - 1 PROVE FALSE
    OBVIOUS
  <2>1. i \in 1..k - 1 /\ j \in k..Len(body)
    BY <1>12, <1>13 DEF n
  <2>2. Quoted(body, k)
    BY <2>1, <1>12 DEF Quoted
  <2> QED BY <2>2, <1>5
<1>15. G[i] = G[k - 1]
  BY <1>3, <1>12, <1>13, <1>14
<1>16. ~Quoted(body, i)
  <2> SUFFICES ASSUME Quoted(body, i) PROVE FALSE
    OBVIOUS
  <2>1. PICK x \in 1..i - 1, y \in i..n : Admonition(body, x, y)
    BY DEF Quoted, n
  <2>2. x \in 1..n /\ y \in 1..n /\ x < i /\ x < y /\ x \in Int /\ y \in Int /\ i \in x + 1..n /\ j \in x + 1..n /\ i <= y /\ i < j
    BY <1>1, <1>13, <1>14, <2>1
  <2>3. j <= y
    <3>1. \A a, b \in x + 1..n : a <= y /\ a < b /\ Admonition(body, a, b) => b <= y
      BY <1>3, <2>1, <2>2
    <3> QED BY <3>1, <2>2, <1>12
  <2>4. x \in 1..k - 1 - 1 /\ y \in k - 1..n
    BY <2>2, <2>3, <1>13, <1>14
  <2>5. x \in opening
    BY <2>1, <2>4
  <2>6. i <= x
    BY <2>5, <1>11
  <2> QED BY <2>2, <2>6, <1>13
<1>17. F[i] = G[i]
  BY <1>6, <1>13, <1>16
<1>18. \A m \in i + 1..k - 1 : Quoted(body, m) /\ m \in 1..n
  <2> SUFFICES ASSUME NEW m \in i + 1..k - 1 PROVE Quoted(body, m) /\ m \in 1..n
    OBVIOUS
  <2>1. i \in 1..m - 1 /\ j \in m..Len(body) /\ m \in 1..n
    BY <1>1, <1>8, <1>13, <1>14 DEF n
  <2> QED BY <2>1, <1>12 DEF Quoted
<1>19. \A m \in i..k - 1 : F[m] = F[i]
  <2> DEFINE moved == {m \in i..k - 1 : F[m] # F[i]}
  <2> SUFFICES ASSUME moved # {} PROVE FALSE
    OBVIOUS
  <2>1. PICK m \in moved : \A x \in moved : m <= x
    <3>1. moved \subseteq Nat
      BY <1>13
    <3> HIDE DEF moved
    <3> QED BY <3>1, FirstIs
  <2>2. m \in i + 1..k - 1 /\ m - 1 \in i..k - 1 /\ ~(m <= m - 1)
    BY <2>1, <1>13
  <2>3. F[m - 1] = F[i]
    BY <2>1, <2>2
  <2>4. F[m] = F[m - 1]
    BY <2>2, <1>2, <1>18
  <2> QED BY <2>1, <2>3, <2>4
<1>20. k - 1 \in i..k - 1
  BY <1>13
<1> QED BY <1>7, <1>15, <1>17, <1>19, <1>20

LEMMA AllPagesAreWhole ==
    ASSUME NEW t \in Seq(TextLine)
    PROVE  LET pages == SplitIntoPages(t)
           IN  /\ \A p \in 1..Len(pages) - 1 : pages[p].last + 1 = pages[p + 1].first
               /\ pages # <<>> => Last(pages).last = Len(t)
               /\ \A p \in 1..Len(pages) :
                     LET content == FullContent(pages[p])
                     IN  /\ CleaningMovesNoCode(pages[p].body)
                         /\ SectionsAreWhole(content)
                         /\ ServedAsWritten(content) /\ TitlesRoundTrip(Served(content))
<1> DEFINE pages == SplitIntoPages(t)
<1>1. Len(pages) \in Nat /\ (pages # <<>> => Len(pages) # 0)
  <2> DEFINE marks == {i \in 1..Len(t) - 1 : t[i].kind = "title" /\ t[i + 1].kind = "source"}
  <2>1. marks \subseteq 1..Len(t) /\ Len(t) \in Nat
    OBVIOUS
  <2>2. Len(PageStarts(t)) \in Nat
    BY <2>1, InOrderIs DEF PageStarts
  <2> QED BY <2>2, PageIs
<1>2. \A p \in 1..Len(pages) : /\ pages[p].body \in Seq(TextLine) /\ pages[p].title \in TextLine
                              /\ IsHeading(pages[p].title) /\ pages[p].first \in 1..Len(t)
                              /\ pages[p].last = IF p < Len(pages) THEN pages[p + 1].first - 1 ELSE Len(t)
  BY BodyIs
<1> HIDE DEF pages
<1>3. ASSUME NEW p \in 1..Len(pages) - 1 PROVE pages[p].last + 1 = pages[p + 1].first
  <2>1. p \in 1..Len(pages) /\ p < Len(pages) /\ p + 1 \in 1..Len(pages)
    BY <1>1
  <2>2. pages[p].last = pages[p + 1].first - 1 /\ pages[p + 1].first \in Int
    BY <2>1, <1>2
  <2> QED BY <2>2
<1>4. pages # <<>> => Last(pages).last = Len(t)
  <2>1. pages # <<>> => Len(pages) \in 1..Len(pages) /\ ~(Len(pages) < Len(pages))
    BY <1>1
  <2> QED BY <2>1, <1>2 DEF Last
<1>5. ASSUME NEW p \in 1..Len(pages)
      PROVE  LET content == FullContent(pages[p])
             IN  /\ CleaningMovesNoCode(pages[p].body)
                 /\ SectionsAreWhole(content)
                 /\ ServedAsWritten(content) /\ TitlesRoundTrip(Served(content))
  <2> DEFINE page == pages[p]
             rest == Stripped(CleanMintlifyTags(page.body))
             content == FullContent(page)
  <2>1. page.body \in Seq(TextLine) /\ page.title \in TextLine /\ IsHeading(page.title)
    BY <1>2
  <2> HIDE DEF page
  <2>2. rest \in Seq(TextLine)
    BY <2>1, CleaningIs, StrippedIs
  <2>3. content = <<page.title>> \o rest
    BY DEF FullContent
  <2> HIDE DEF rest
  <2>4. <<page.title>> \in Seq(TextLine) /\ Len(<<page.title>>) = 1 /\ <<page.title>>[1] = page.title /\ Len(rest) \in Nat
    BY <2>1, <2>2
  <2>5. /\ content \in Seq(TextLine) /\ Len(content) = 1 + Len(rest)
        /\ \A i \in 1..1 + Len(rest) : content[i] = IF i <= 1 THEN <<page.title>>[i] ELSE rest[i - 1]
    BY <2>2, <2>3, <2>4, ConcatProperties
  <2> HIDE DEF content
  <2>6. content # <<>> /\ IsHeading(content[1])
    BY <2>1, <2>4, <2>5, EmptySeq
  <2>7. SectionsAreWhole(content) /\ ServedAsWritten(content)
    BY <2>5, <2>6, SectionsStayWhole, PagesAreServedAsWritten
  <2>8. TitlesRoundTrip(Served(content))
    BY <2>5, <2>6, ServedIs, TitlesAreServed
  <2>9. CleaningMovesNoCode(page.body)
    BY <2>1, CleaningKeepsBlocks
  <2> QED BY <2>7, <2>8, <2>9 DEF content, page
<1> QED BY <1>3, <1>4, <1>5 DEF pages

\* Of any documentation file the pages are the lines from the first page on; neither
\* cleaning, nor cutting, nor putting together moves a line into a code block or out
\* of one, but for the admonitions and the stripping that PagesAreWhole names; and
\* every listed section is served (DocsCrawler, split_into_sections, extract_section).
THEOREM PagesStayWhole == Spec => []PagesAreWhole
<1> DEFINE LinesTyped == lines \in Seq(TextLine)
<1>1. Init => LinesTyped
  BY JobsAreWellFormed DEF Init, JobsAreWellFormed
<1>2. LinesTyped /\ [Next]_vars => LinesTyped'
  <2> SUFFICES ASSUME LinesTyped, [Next]_vars PROVE lines' \in Seq(TextLine)
    OBVIOUS
  <2>1. lines' = lines
    BY InputStays DEF input
  <2> QED BY <2>1
<1>3. LinesTyped => PagesAreWhole
  BY AllPagesAreWhole DEF PagesAreWhole
<1> QED BY <1>1, <1>2, <1>3, PTL DEF Spec

-----------------------------------------------------------------------------
(* The chunks of a text. *)

\* A text laid out: its units one after the other, none empty.
Laid(t) ==
    /\ t.n \in Nat /\ t.sep \in Nat
    /\ \A i \in 1..t.n : Start(t, i) \in Int /\ End(t, i) \in Int /\ Start(t, i) < End(t, i)
    /\ \A i \in 1..t.n : Start(t, i) = IF i = 1 THEN 0 ELSE End(t, i - 1) + t.sep

\* A function over 0..n that goes on from what it was before: there is one for 0,
\* and with one for m there is one for m + 1.
LEMMA EndsExist ==
    ASSUME NEW lens, NEW sep, NEW n \in Nat
    PROVE  \E f : f = [i \in 0..n |-> IF i = 0 THEN -sep ELSE f[i - 1] + sep + lens[i]]
<1> DEFINE has(m) == \E f : f = [i \in 0..m |-> IF i = 0 THEN -sep ELSE f[i - 1] + sep + lens[i]]
           wrong == {m \in Nat : ~has(m)}
<1>1. has(0)
  <2> DEFINE f == [i \in 0..0 |-> -sep]
  <2>1. f = [i \in 0..0 |-> IF i = 0 THEN -sep ELSE f[i - 1] + sep + lens[i]]
    OBVIOUS
  <2> QED BY <2>1
<1>2. ASSUME NEW m \in Nat, has(m) PROVE has(m + 1)
  <2>1. PICK f : f = [i \in 0..m |-> IF i = 0 THEN -sep ELSE f[i - 1] + sep + lens[i]]
    BY <1>2
  <2> DEFINE g == [i \in 0..m + 1 |-> IF i = m + 1 THEN f[m] + sep + lens[m + 1] ELSE f[i]]
  <2>2. \A i \in 0..m + 1 : i # 0 => g[i - 1] = f[i - 1]
    OBVIOUS
  <2>3. \A i \in 0..m : f[i] = IF i = 0 THEN -sep ELSE f[i - 1] + sep + lens[i]
    BY <2>1
  <2>4. \A i \in 0..m + 1 : g[i] = IF i = 0 THEN -sep ELSE g[i - 1] + sep + lens[i]
    <3> TAKE i \in 0..m + 1
    <3>1. CASE i = m + 1
      <4>1. g[i] = f[m] + sep + lens[m + 1] /\ g[i - 1] = f[m] /\ i # 0
        BY <3>1, <2>2
      <4> HIDE DEF g
      <4> QED BY <4>1, <3>1
    <3>2. CASE i # m + 1
      <4>1. g[i] = f[i] /\ i \in 0..m
        BY <3>2
      <4> HIDE DEF g
      <4> QED BY <4>1, <2>2, <2>3
    <3> QED BY <3>1, <3>2
  <2>5. g = [i \in 0..m + 1 |-> g[i]]
    OBVIOUS
  <2> HIDE DEF g
  <2>6. g = [i \in 0..m + 1 |-> IF i = 0 THEN -sep ELSE g[i - 1] + sep + lens[i]]
    BY <2>4, <2>5
  <2> QED BY <2>6
<1> HIDE DEF has
<1>3. wrong = {}
  <2> SUFFICES ASSUME wrong # {} PROVE FALSE
    OBVIOUS
  <2>1. PICK m \in Nat : ~has(m) /\ \A j \in Nat : ~has(j) => m <= j
    BY FirstIs
  <2>2. m # 0 /\ m - 1 \in Nat /\ ~(m <= m - 1)
    BY <2>1, <1>1
  <2>3. has(m - 1 + 1)
    BY <2>1, <2>2, <1>2
  <2> QED BY <2>1, <2>2, <2>3
<1> QED BY <1>3 DEF has

LEMMA LayoutIs ==
    ASSUME NEW text, text.lens \in Seq(Nat \ {0}), NEW sep \in Nat
    PROVE  /\ Laid(Layout(text, sep))
           /\ Layout(text, sep).n = Len(text.lens) /\ Layout(text, sep).sep = sep
           /\ Layout(text, sep).boundary = text.boundary
<1> DEFINE lens == text.lens
           n == Len(lens)
           t == Layout(text, sep)
           f == CHOOSE g : g = [i \in 0..n |-> IF i = 0 THEN -sep ELSE g[i - 1] + sep + lens[i]]
<1>1. t = [n |-> n, end |-> f, sep |-> sep, boundary |-> text.boundary]
  BY DEF Layout
<1>2. n \in Nat /\ \A i \in 1..n : lens[i] \in Nat \ {0}
  OBVIOUS
<1>3. f = [i \in 0..n |-> IF i = 0 THEN -sep ELSE f[i - 1] + sep + lens[i]]
  <2>1. \A l, s, m : m \in Nat => \E g : g = [i \in 0..m |-> IF i = 0 THEN -s ELSE g[i - 1] + s + l[i]]
    BY EndsExist
  <2> HIDE DEF lens, n
  <2>2. \E g : g = [i \in 0..n |-> IF i = 0 THEN -sep ELSE g[i - 1] + sep + lens[i]]
    BY <1>2, <2>1
  <2> QED BY <2>2
<1> HIDE DEF f, lens, n
<1>4. f[0] = -sep /\ \A i \in 1..n : f[i] = f[i - 1] + sep + lens[i]
  BY <1>2, <1>3
<1>5. \A i \in 0..n : f[i] \in Int
  <2> DEFINE wrong == {i \in 0..n : f[i] \notin Int}
  <2> SUFFICES ASSUME wrong # {} PROVE FALSE
    OBVIOUS
  <2>1. wrong \subseteq Nat
    OBVIOUS
  <2>2. PICK i \in wrong : \A j \in wrong : i <= j
    BY <2>1, FirstIs
  <2>3. i # 0
    BY <2>2, <1>4
  <2>4. i \in 1..n /\ i - 1 \in 0..n /\ ~(i <= i - 1)
    BY <2>2, <2>3, <1>2
  <2>5. f[i - 1] \in Int
    BY <2>2, <2>4
  <2>6. f[i] = f[i - 1] + sep + lens[i] /\ lens[i] \in Nat
    BY <2>4, <1>2, <1>4
  <2> QED BY <2>2, <2>5, <2>6
<1>6. /\ t.n = n /\ t.sep = sep /\ t.boundary = text.boundary
      /\ \A i \in 1..n : Start(t, i) = f[i - 1] + sep /\ End(t, i) = f[i]
  BY <1>1 DEF Start, End
<1> HIDE DEF t
<1>7. ASSUME NEW i \in 1..n
      PROVE  /\ Start(t, i) \in Int /\ End(t, i) \in Int /\ Start(t, i) < End(t, i)
             /\ Start(t, i) = IF i = 1 THEN 0 ELSE End(t, i - 1) + t.sep
  <2>1. i \in 0..n /\ i - 1 \in 0..n
    BY <1>2
  <2>2. f[i] \in Int /\ f[i - 1] \in Int /\ f[i] = f[i - 1] + sep + lens[i] /\ lens[i] \in Nat /\ lens[i] > 0
    BY <2>1, <1>2, <1>4, <1>5
  <2>3. i = 1 => f[i - 1] = -sep
    BY <1>4
  <2>4. i # 1 => i - 1 \in 1..n
    BY <2>1
  <2> QED BY <2>2, <2>3, <2>4, <1>6
<1> QED BY <1>2, <1>6, <1>7 DEF Laid, t, n, lens

\* What comes later begins later.
LEMMA UnitsInOrder ==
    ASSUME NEW t, Laid(t)
    PROVE  \A i, j \in 1..t.n : i < j => End(t, i) + t.sep <= Start(t, j)
<1> DEFINE wrong(i) == {j \in 1..t.n : i < j /\ ~(End(t, i) + t.sep <= Start(t, j))}
<1> SUFFICES ASSUME NEW i \in 1..t.n, wrong(i) # {} PROVE FALSE
  OBVIOUS
<1>1. wrong(i) \subseteq Nat
  BY DEF Laid
<1>2. PICK j \in wrong(i) : \A k \in wrong(i) : j <= k
  BY <1>1, FirstIs
<1>3. t.n \in Nat /\ t.sep \in Nat /\ j \in 1..t.n /\ i < j /\ j # 1
  BY <1>2 DEF Laid
<1>4. Start(t, j) = End(t, j - 1) + t.sep
  BY <1>3 DEF Laid
<1>5. j - 1 \in 1..t.n /\ ~(j <= j - 1)
  BY <1>3
<1>6. i = j - 1 \/ (i < j - 1 /\ End(t, i) + t.sep <= Start(t, j - 1))
  <2>1. i = j - 1 \/ i < j - 1
    BY <1>3
  <2>2. j - 1 \notin wrong(i)
    BY <1>2, <1>5
  <2> QED BY <2>1, <2>2, <1>5
<1>7. /\ Start(t, j - 1) \in Int /\ End(t, j - 1) \in Int /\ Start(t, j - 1) < End(t, j - 1) /\ Start(t, j) \in Int
      /\ End(t, i) \in Int
  BY <1>3, <1>5 DEF Laid
<1>8. End(t, i) + t.sep <= Start(t, j)
  <2> HIDE DEF wrong
  <2> QED BY <1>3, <1>4, <1>6, <1>7
<1> QED BY <1>2, <1>8

-----------------------------------------------------------------------------
Interval == [from : Int, to : Int]

LEMMA Sizes == MaxChars \in Nat /\ OverlapChars \in Nat
BY ChunkingAssumption DEF MaxChars, OverlapChars

\* Chunks of the first units, each ending where a unit does.
WellCut(t, chunks) ==
    /\ chunks \in Seq(Interval)
    /\ chunks # <<>> => chunks[1].from = 0
    /\ \A k \in 1..Len(chunks) : \E e \in 1..t.n : chunks[k].to = End(t, e)
    /\ \A k \in 1..Len(chunks) - 1 :
          /\ chunks[k + 1].from <= chunks[k].to + t.sep /\ chunks[k].to < chunks[k + 1].to
          /\ chunks[k].to - chunks[k + 1].from <= OverlapChars
    /\ LongOnlyUncut(chunks, UnitCuts(t), t.sep + MaxChars)

\* The buffer holds units first..j, those after b in no chunk yet.
Held(t, chunks, first, b, j) ==
    /\ b \in 0..j - 1 /\ first \in 1..b + 1
    /\ j > b + 1 => End(t, j) - Start(t, first) <= MaxChars
    /\ b = 0 => chunks = <<>> /\ first = 1
    /\ b # 0 => /\ chunks # <<>> /\ Last(chunks).to = End(t, b)
                /\ End(t, b) - Start(t, first) <= OverlapChars
    /\ WellCut(t, chunks)

LEMMA Appended ==
    ASSUME NEW s \in Seq(Interval), NEW c \in Interval
    PROVE  /\ Append(s, c) \in Seq(Interval) /\ Append(s, c) # <<>> /\ Last(Append(s, c)) = c
           /\ Len(Append(s, c)) = Len(s) + 1 /\ Append(s, c)[Len(s) + 1] = c
           /\ \A k \in 1..Len(s) : Append(s, c)[k] = s[k]
           /\ s # <<>> => Len(s) >= 1 /\ Last(s) = s[Len(s)]
           /\ s = <<>> => Len(s) = 0
BY DEF Last

LEMMA EndsOf == /\ \A c \in Interval : c.from \in Int /\ c.to \in Int
                /\ \A x, y \in Int : [from |-> x, to |-> y] \in Interval
BY DEF Interval

LEMMA AllButTheLast ==
    ASSUME NEW s \in Seq(Interval), Len(s) >= 1
    PROVE  Front(s) \in Seq(Interval) /\ Len(Front(s)) = Len(s) - 1 /\ \A j \in 1..Len(s) - 1 : Front(s)[j] = s[j]
<1> DEFINE n == Len(s) - 1
<1>1. n \in Nat /\ \A i \in 1..n : s[i] \in Interval
  OBVIOUS
<1>2. /\ SubSeq(s, 1, n) \in Seq(Interval) /\ Len(SubSeq(s, 1, n)) = IF 1 <= n THEN n - 1 + 1 ELSE 0
      /\ \A i \in 1..n - 1 + 1 : SubSeq(s, 1, n)[i] = s[1 + i - 1]
  <2> HIDE DEF n
  <2> QED BY <1>1, SubSeqProperties
<1>3. Front(s) = SubSeq(s, 1, n)
  BY DEF Front
<1> HIDE DEF n
<1>4. n - 1 + 1 = n /\ (IF 1 <= n THEN n - 1 + 1 ELSE 0) = n /\ \A i \in 1..n : 1 + i - 1 = i
  BY <1>1
<1> QED BY <1>2, <1>3, <1>4 DEF n

LEMMA FlushKeeps ==
    ASSUME NEW t, Laid(t), NEW j \in 1..t.n, NEW chunks, NEW first, NEW b, Held(t, chunks, first, b, j)
    PROVE  LET more == Append(chunks, Piece(t, first, j))
           IN  WellCut(t, more) /\ more # <<>> /\ Last(more).to = End(t, j)
<1> DEFINE c == Piece(t, first, j)
           more == Append(chunks, c)
           n == Len(chunks)
<1>1. /\ b \in 0..j - 1 /\ first \in 1..b + 1 /\ t.n \in Nat /\ t.sep \in Nat /\ b \in Nat
      /\ chunks \in Seq(Interval) /\ n \in Nat
  BY DEF Held, WellCut, Laid
<1>2. first \in 1..t.n /\ b + 1 \in 1..t.n /\ (b # 0 => b \in 1..t.n)
  BY <1>1
<1>3. /\ Start(t, first) \in Int /\ End(t, j) \in Int /\ (b # 0 => End(t, b) \in Int)
      /\ Start(t, first) <= Start(t, b + 1) /\ Start(t, b + 1) \in Int
      /\ (b # 0 => Start(t, b + 1) = End(t, b) + t.sep)
      /\ (b # 0 => End(t, b) < End(t, j))
  <2>1. /\ Start(t, first) \in Int /\ End(t, j) \in Int /\ (b # 0 => End(t, b) \in Int) /\ Start(t, j) < End(t, j)
        /\ Start(t, j) \in Int /\ End(t, first) \in Int /\ Start(t, first) < End(t, first) /\ Start(t, b + 1) \in Int
    BY <1>1, <1>2 DEF Laid
  <2>2. b # 0 => Start(t, b + 1) = End(t, b) + t.sep
    <3>1. b + 1 - 1 = b /\ (b # 0 => b + 1 # 1)
      BY <1>1
    <3> QED BY <3>1, <1>2 DEF Laid
  <2>3. first = b + 1 \/ End(t, first) + t.sep <= Start(t, b + 1)
    BY <1>1, <1>2, UnitsInOrder
  <2>4. b # 0 => End(t, b) + t.sep <= Start(t, j)
    BY <1>1, <1>2, UnitsInOrder
  <2> QED BY <2>1, <2>2, <2>3, <2>4, <1>1
<1>4. c.from = Start(t, first) /\ c.to = End(t, j) /\ c \in Interval
  BY <1>3 DEF Piece, Interval
<1> HIDE DEF c
<1>5. /\ more \in Seq(Interval) /\ more # <<>> /\ Last(more).to = End(t, j) /\ Len(more) = n + 1 /\ more[n + 1] = c
      /\ \A k \in 1..n : more[k] = chunks[k]
      /\ chunks # <<>> => n >= 1 /\ Last(chunks) = chunks[n]
      /\ chunks = <<>> => n = 0
  BY <1>1, <1>4, Appended
<1> HIDE DEF more, n
<1>6. more[1].from = 0
  <2>1. CASE b = 0
    <3>1. n = 0 /\ first = 1 /\ Start(t, 1) = 0
      BY <2>1, <1>2, <1>5 DEF Held, Laid
    <3> QED BY <3>1, <1>4, <1>5
  <2>2. CASE b # 0
    <3>1. chunks # <<>> /\ chunks[1].from = 0
      BY <2>2 DEF Held, WellCut
    <3> QED BY <3>1, <1>1, <1>5
  <2> QED BY <2>1, <2>2
<1>7. \A k \in 1..n + 1 : \E e \in 1..t.n : more[k].to = End(t, e)
  <2> TAKE k \in 1..n + 1
  <2>1. CASE k = n + 1
    BY <2>1, <1>4, <1>5
  <2>2. CASE k # n + 1
    <3>1. k \in 1..n
      BY <2>2, <1>1
    <3> QED BY <3>1, <1>5 DEF Held, WellCut, n
  <2> QED BY <2>1, <2>2
<1>8. \A k \in 1..n : /\ more[k + 1].from <= more[k].to + t.sep /\ more[k].to < more[k + 1].to
                      /\ more[k].to - more[k + 1].from <= OverlapChars
  <2> TAKE k \in 1..n
  <2>1. CASE k = n
    <3>1. b # 0 /\ more[k].to = End(t, b) /\ more[k + 1] = c
      BY <2>1, <1>1, <1>5 DEF Held
    <3>2. End(t, b) - Start(t, first) <= OverlapChars
      BY <3>1 DEF Held
    <3> QED BY <3>1, <3>2, <1>1, <1>3, <1>4
  <2>2. CASE k # n
    <3>1. k \in 1..n - 1 /\ k + 1 \in 1..n
      BY <2>2, <1>1
    <3>2. more[k] = chunks[k] /\ more[k + 1] = chunks[k + 1]
      BY <3>1, <1>5
    <3> QED BY <3>1, <3>2 DEF Held, WellCut, n
  <2> QED BY <2>1, <2>2
<1>9. LongOnlyUncut(more, UnitCuts(t), t.sep + MaxChars)
  <2> DEFINE old(s, k) == IF k = 1 THEN 0 ELSE s[k - 1].to
             limit == t.sep + MaxChars
  <2>1. LongOnlyUncut(chunks, UnitCuts(t), limit)
    BY DEF Held, WellCut
  <2>2. ASSUME NEW k \in 1..n + 1, more[k].to - old(more, k) > limit, NEW x \in UnitCuts(t)
        PROVE  x <= old(more, k) \/ more[k].to <= x
    <3>1. CASE k # n + 1
      <4>1. k \in 1..n /\ (k # 1 => k - 1 \in 1..n)
        BY <3>1, <1>1
      <4>2. more[k] = chunks[k] /\ old(more, k) = old(chunks, k)
        BY <4>1, <1>5
      <4>3. chunks[k].to - old(chunks, k) > limit
        BY <4>2, <2>2
      <4>4. x <= old(chunks, k) \/ chunks[k].to <= x
        BY <4>1, <4>3, <2>1, <2>2 DEF LongOnlyUncut, n
      <4> QED BY <4>2, <4>4
    <3>2. CASE k = n + 1
      <4> DEFINE o == IF b = 0 THEN 0 ELSE End(t, b)
      <4>1. old(more, k) = o
        <5>1. CASE b = 0
          BY <5>1, <3>2, <1>5 DEF Held
        <5>2. CASE b # 0
          <6>1. n >= 1 /\ chunks[n].to = End(t, b)
            BY <5>2, <1>5 DEF Held
          <6>2. k # 1 /\ k - 1 = n /\ more[n] = chunks[n]
            BY <6>1, <3>2, <1>1, <1>5
          <6> QED BY <6>1, <6>2, <5>2
        <5> QED BY <5>1, <5>2
      <4>2. more[k].to = End(t, j)
        BY <3>2, <1>4, <1>5
      <4>3. Start(t, first) - t.sep <= o /\ o \in Int
        <5>1. CASE b = 0
          <6>1. first = 1 /\ Start(t, 1) = 0
            BY <5>1, <1>2 DEF Held, Laid
          <6> QED BY <6>1, <5>1, <1>1
        <5>2. CASE b # 0
          BY <5>2, <1>1, <1>3
        <5> QED BY <5>1, <5>2
      <4>4. End(t, j) - o > t.sep + MaxChars
        BY <4>1, <4>2, <2>2
      <4> HIDE DEF o
      <4>5. j = b + 1
        <5> SUFFICES ASSUME j > b + 1 PROVE FALSE
          BY <1>1
        <5>1. End(t, j) - Start(t, first) <= MaxChars
          BY DEF Held
        <5> QED BY <5>1, <4>3, <4>4, <1>1, <1>3, Sizes
      <4>6. PICK e \in 1..t.n : x = End(t, e)
        BY <2>2 DEF UnitCuts
      <4>7. e <= b => End(t, e) <= o
        <5> SUFFICES ASSUME e <= b PROVE End(t, e) <= o
          OBVIOUS
        <5>1. b # 0 /\ o = End(t, b)
          BY <1>1 DEF o
        <5>2. e = b \/ End(t, e) + t.sep <= Start(t, b)
          BY <5>1, <1>1, <1>2, UnitsInOrder
        <5>3. End(t, e) \in Int /\ Start(t, b) \in Int /\ End(t, b) \in Int /\ Start(t, b) < End(t, b)
          BY <5>1, <1>2 DEF Laid
        <5> QED BY <5>1, <5>2, <5>3, <1>1
      <4>8. ~(e <= b) => End(t, j) <= End(t, e)
        <5> SUFFICES ASSUME ~(e <= b) PROVE End(t, j) <= End(t, e)
          OBVIOUS
        <5>1. j = e \/ j < e
          BY <1>1, <4>5
        <5>2. j = e \/ End(t, j) + t.sep <= Start(t, e)
          BY <5>1, UnitsInOrder
        <5>3. End(t, e) \in Int /\ Start(t, e) \in Int /\ Start(t, e) < End(t, e)
          BY DEF Laid
        <5> QED BY <5>2, <5>3, <1>1, <1>3
      <4> HIDE DEF old
      <4> QED BY <4>1, <4>2, <4>6, <4>7, <4>8
    <3> QED BY <3>1, <3>2
  <2> HIDE DEF limit
  <2> QED BY <2>2, <1>5 DEF LongOnlyUncut, limit
<1>10. WellCut(t, more)
  <2>1. Len(more) - 1 = n
    BY <1>1, <1>5
  <2> QED BY <2>1, <1>5, <1>6, <1>7, <1>8, <1>9 DEF WellCut
<1> QED BY <1>5, <1>10 DEF more, c

\* How far the cutting into units has come.
LEMMA BuffersExist ==
    ASSUME NEW t, NEW n \in Nat
    PROVE  \E f : f = [i \in 0..n |-> IF i = 0 THEN [chunks |-> <<>>, first |-> 1] ELSE AddUnit(t, f[i - 1], i)]
<1> DEFINE has(m) ==
               \E f : f = [i \in 0..m |-> IF i = 0 THEN [chunks |-> <<>>, first |-> 1] ELSE AddUnit(t, f[i - 1], i)]
           wrong == {m \in Nat : ~has(m)}
<1>1. has(0)
  <2> DEFINE f == [i \in 0..0 |-> [chunks |-> <<>>, first |-> 1]]
  <2>1. f = [i \in 0..0 |-> IF i = 0 THEN [chunks |-> <<>>, first |-> 1] ELSE AddUnit(t, f[i - 1], i)]
    OBVIOUS
  <2> QED BY <2>1
<1>2. ASSUME NEW m \in Nat, has(m) PROVE has(m + 1)
  <2>1. PICK f : f = [i \in 0..m |-> IF i = 0 THEN [chunks |-> <<>>, first |-> 1] ELSE AddUnit(t, f[i - 1], i)]
    BY <1>2
  <2> DEFINE g == [i \in 0..m + 1 |-> IF i = m + 1 THEN AddUnit(t, f[m], m + 1) ELSE f[i]]
  <2>2. \A i \in 0..m + 1 : i # 0 => g[i - 1] = f[i - 1]
    OBVIOUS
  <2>3. \A i \in 0..m : f[i] = IF i = 0 THEN [chunks |-> <<>>, first |-> 1] ELSE AddUnit(t, f[i - 1], i)
    BY <2>1
  <2>4. \A i \in 0..m + 1 : g[i] = IF i = 0 THEN [chunks |-> <<>>, first |-> 1] ELSE AddUnit(t, g[i - 1], i)
    <3> TAKE i \in 0..m + 1
    <3>1. CASE i = m + 1
      <4>1. g[i] = AddUnit(t, f[m], m + 1) /\ g[i - 1] = f[m] /\ i # 0
        BY <3>1, <2>2
      <4> HIDE DEF g
      <4> QED BY <4>1, <3>1
    <3>2. CASE i # m + 1
      <4>1. g[i] = f[i] /\ i \in 0..m
        BY <3>2
      <4> HIDE DEF g
      <4> QED BY <4>1, <2>2, <2>3
    <3> QED BY <3>1, <3>2
  <2>5. g = [i \in 0..m + 1 |-> g[i]]
    OBVIOUS
  <2> HIDE DEF g
  <2>6. g = [i \in 0..m + 1 |-> IF i = 0 THEN [chunks |-> <<>>, first |-> 1] ELSE AddUnit(t, g[i - 1], i)]
    BY <2>4, <2>5
  <2> QED BY <2>6
<1> HIDE DEF has
<1>3. wrong = {}
  <2> SUFFICES ASSUME wrong # {} PROVE FALSE
    OBVIOUS
  <2>1. PICK m \in Nat : ~has(m) /\ \A j \in Nat : ~has(j) => m <= j
    BY FirstIs
  <2>2. m # 0 /\ m - 1 \in Nat /\ ~(m <= m - 1)
    BY <2>1, <1>1
  <2>3. has(m - 1 + 1)
    BY <2>1, <2>2, <1>2
  <2> QED BY <2>1, <2>2, <2>3
<1> QED BY <1>3 DEF has

LEMMA OverlapIs ==
    ASSUME NEW t, Laid(t), NEW last \in 1..t.n, NEW first \in 1..last
    PROVE  LET j == OverlapFirst(t, first, last)
           IN  j \in first..last + 1 /\ (j <= last => End(t, last) - Start(t, j) <= OverlapChars)
<1> DEFINE fits(j) == j <= last => End(t, last) - Start(t, j) + t.sep <= OverlapChars
           those == {j \in first..last + 1 : fits(j)}
           Chosen(j) ==
               /\ fits(j)
               /\ \A k \in first..j - 1 : End(t, last) - Start(t, k) + t.sep > OverlapChars
<1>1. t.n \in Nat /\ t.sep \in Nat /\ last \in Nat /\ first \in Nat
  BY DEF Laid
<1>2. those \subseteq Nat /\ those # {}
  <2>1. last + 1 \in those
    BY <1>1
  <2> QED BY <2>1, <1>1
<1>3. PICK m \in those : \A k \in those : m <= k
  BY <1>2, FirstIs
<1>4. \E j \in first..last + 1 : Chosen(j)
  <2>1. ASSUME NEW k \in first..m - 1 PROVE End(t, last) - Start(t, k) + t.sep > OverlapChars
    <3>1. k \in first..last + 1 /\ ~(m <= k) /\ k \in 1..t.n
      BY <1>1, <1>3
    <3>2. ~fits(k)
      BY <3>1, <1>3
    <3>3. Start(t, k) \in Int /\ End(t, last) \in Int
      BY <3>1 DEF Laid
    <3> QED BY <3>2, <3>3, <1>1, Sizes
  <2> QED BY <2>1, <1>3
<1> DEFINE o == OverlapFirst(t, first, last)
<1>5. o = CHOOSE j \in first..last + 1 : Chosen(j)
  BY DEF OverlapFirst
<1> HIDE DEF o
<1>6. o \in first..last + 1 /\ fits(o)
  BY <1>4, <1>5
<1>7. o <= last => End(t, last) - Start(t, o) <= OverlapChars
  <2> SUFFICES ASSUME o <= last PROVE End(t, last) - Start(t, o) <= OverlapChars
    OBVIOUS
  <2>1. o \in 1..t.n
    BY <1>1, <1>6
  <2>2. Start(t, o) \in Int /\ End(t, last) \in Int
    BY <2>1 DEF Laid
  <2> QED BY <2>2, <1>1, <1>6, Sizes
<1> QED BY <1>6, <1>7 DEF o

LEMMA AddUnitKeeps ==
    ASSUME NEW t, Laid(t), NEW i \in 2..t.n, NEW acc, NEW b, Held(t, acc.chunks, acc.first, b, i - 1)
    PROVE  \E d : Held(t, AddUnit(t, acc, i).chunks, AddUnit(t, acc, i).first, d, i)
<1> DEFINE long == End(t, i - 1) - Start(t, acc.first) + (End(t, i) - Start(t, i)) + t.sep > MaxChars
           next == AddUnit(t, acc, i)
<1>1. /\ t.n \in Nat /\ t.sep \in Nat /\ i \in Nat /\ b \in 0..i - 2 /\ acc.first \in 1..b + 1
      /\ i - 1 \in 1..t.n /\ i \in 1..t.n /\ acc.first \in 1..t.n /\ acc.first \in 1..i - 1 /\ acc.first < i
  BY DEF Laid, Held
<1>2. /\ Start(t, i) \in Int /\ End(t, i) \in Int /\ End(t, i - 1) \in Int /\ Start(t, acc.first) \in Int
      /\ Start(t, i) = End(t, i - 1) + t.sep
  BY <1>1 DEF Laid
<1>3. CASE long
  <2> DEFINE o == OverlapFirst(t, acc.first, i - 1)
             more == Append(acc.chunks, Piece(t, acc.first, i - 1))
  <2>1. next = [chunks |-> more, first |-> o]
    BY <1>1, <1>3 DEF AddUnit
  <2>2. next.chunks = more /\ next.first = o
    BY <2>1
  <2>3. WellCut(t, more) /\ more # <<>> /\ Last(more).to = End(t, i - 1)
    BY <1>1, FlushKeeps
  <2>4. o \in acc.first..i /\ (o <= i - 1 => End(t, i - 1) - Start(t, o) <= OverlapChars)
    <3>1. i - 1 + 1 = i
      BY <1>1
    <3> QED BY <3>1, <1>1, OverlapIs
  <2>5. o = i => End(t, i - 1) - Start(t, o) <= OverlapChars
    <3>1. End(t, i - 1) - Start(t, i) <= OverlapChars
      BY <1>1, <1>2, Sizes
    <3> QED BY <3>1
  <2> HIDE DEF o, more
  <2>6. o \in 1..i /\ End(t, i - 1) - Start(t, o) <= OverlapChars
    <3>1. o \in 1..i /\ (o = i \/ o <= i - 1)
      BY <2>4, <1>1
    <3> QED BY <3>1, <2>4, <2>5
  <2>7. Held(t, more, o, i - 1, i)
    <3>1. i - 1 \in 0..i - 1 /\ o \in 1..i - 1 + 1 /\ ~(i > i - 1 + 1) /\ i - 1 # 0
      BY <2>6, <1>1
    <3> QED BY <3>1, <2>3, <2>6 DEF Held
  <2> HIDE DEF next
  <2> QED BY <2>2, <2>7 DEF next
<1>4. CASE ~long
  <2>1. next = acc
    BY <1>1, <1>4 DEF AddUnit
  <2>2. End(t, i) - Start(t, acc.first) <= MaxChars
    BY <1>1, <1>2, <1>4, Sizes
  <2>3. Held(t, acc.chunks, acc.first, b, i)
    <3>1. b \in 0..i - 1
      BY <1>1
    <3> QED BY <3>1, <2>2 DEF Held
  <2> QED BY <2>1, <2>3
<1> QED BY <1>3, <1>4

LEMMA UnitsAreCut ==
    ASSUME NEW t, Laid(t), t.n > 0
    PROVE  /\ WellCut(t, ChunkByUnits(t)) /\ ChunkByUnits(t) # <<>>
           /\ Last(ChunkByUnits(t)).to = End(t, t.n)
<1> DEFINE n == t.n
           start == [chunks |-> <<>>, first |-> 1]
           f == CHOOSE g : g = [i \in 0..n |-> IF i = 0 THEN start ELSE AddUnit(t, g[i - 1], i)]
           wrong == {i \in 1..n : ~(\E b : Held(t, f[i].chunks, f[i].first, b, i))}
<1>1. n \in Nat /\ n # 0 /\ n \in 1..n
  BY DEF Laid
<1>2. f = [i \in 0..n |-> IF i = 0 THEN start ELSE AddUnit(t, f[i - 1], i)]
  <2>1. \E g : g = [i \in 0..n |-> IF i = 0 THEN start ELSE AddUnit(t, g[i - 1], i)]
    BY <1>1, BuffersExist
  <2> QED BY <2>1
<1>3. ChunkByUnits(t) = IF f[n].first > n THEN f[n].chunks ELSE Append(f[n].chunks, Piece(t, f[n].first, n))
  BY DEF ChunkByUnits
<1> HIDE DEF f
<1>4. f[0] = start /\ \A i \in 1..n : f[i] = AddUnit(t, f[i - 1], i)
  BY <1>1, <1>2
<1> HIDE DEF n
<1>5. f[1].chunks = <<>> /\ f[1].first = 1
  <2>1. f[1] = AddUnit(t, start, 1)
    BY <1>1, <1>4
  <2>2. AddUnit(t, start, 1) = start
    BY DEF AddUnit
  <2> QED BY <2>1, <2>2
<1>6. Held(t, <<>>, 1, 0, 1)
  <2>1. <<>> \in Seq(Interval) /\ Len(<<>>) = 0
    OBVIOUS
  <2>2. WellCut(t, <<>>)
    BY <2>1 DEF WellCut, LongOnlyUncut
  <2> QED BY <2>2 DEF Held
<1>7. wrong = {}
  <2> SUFFICES ASSUME wrong # {} PROVE FALSE
    OBVIOUS
  <2>1. wrong \subseteq Nat
    BY <1>1
  <2>2. PICK i \in wrong : \A j \in wrong : i <= j
    BY <2>1, FirstIs
  <2>3. i # 1
    BY <2>2, <1>5, <1>6
  <2>4. i \in 2..n /\ i \in 1..n /\ i - 1 \in 1..n /\ ~(i <= i - 1)
    BY <2>2, <2>3, <1>1
  <2>5. PICK b : Held(t, f[i - 1].chunks, f[i - 1].first, b, i - 1)
    BY <2>2, <2>4
  <2>6. \E d : Held(t, AddUnit(t, f[i - 1], i).chunks, AddUnit(t, f[i - 1], i).first, d, i)
    BY <2>4, <2>5, AddUnitKeeps DEF n
  <2> QED BY <2>2, <2>4, <2>6, <1>4
<1>8. PICK b : Held(t, f[n].chunks, f[n].first, b, n)
  BY <1>1, <1>7
<1>9. ~(f[n].first > n)
  BY <1>1, <1>8 DEF Held
<1> QED BY <1>1, <1>3, <1>8, <1>9, FlushKeeps DEF n

LEMMA Estimates ==
    /\ EstimateTokens(0) <= MaxTokens
    /\ \A x \in Int : x > MaxChars + CharsPerToken - 1 => ~(EstimateTokens(x) <= MaxTokens)
<1>1. CharsPerToken \in Nat /\ CharsPerToken > 0 /\ MaxTokens \in Nat /\ MaxTokens > 0
  BY ChunkingAssumption
<1>2. ASSUME NEW c \in Nat, c > 0 PROVE 0 \div c = 0
  BY <1>2
<1>3. ASSUME NEW y \in Nat, NEW c \in Nat, c > 0 PROVE y \div c \in Int /\ y < c * (y \div c) + c
  BY <1>3
<1>4. ASSUME NEW c \in Nat, NEW p \in Int, NEW q \in Int, p <= q PROVE p * c <= q * c
  BY <1>4
<1>5. ASSUME NEW x \in Int, x > MaxTokens * CharsPerToken + CharsPerToken - 1, x \div CharsPerToken <= MaxTokens
      PROVE  FALSE
  <2> DEFINE q == x \div CharsPerToken
             p == MaxTokens * CharsPerToken
  <2>1. p \in Nat /\ x > p + CharsPerToken - 1 /\ x \in Nat
    BY <1>1, <1>5
  <2>2. q \in Int /\ x < CharsPerToken * q + CharsPerToken
    BY <1>1, <1>3, <2>1
  <2>3. q * CharsPerToken <= p
    BY <1>1, <1>4, <1>5, <2>2
  <2>4. CharsPerToken * q = q * CharsPerToken
    BY <1>1, <2>2
  <2>5. q * CharsPerToken \in Int
    BY <1>1, <2>2
  <2> HIDE DEF q, p
  <2> QED BY <1>1, <2>1, <2>2, <2>3, <2>4, <2>5
<1> QED BY <1>1, <1>2, <1>5 DEF EstimateTokens, MaxChars

-----------------------------------------------------------------------------
\* The segments adjoin, none is empty, and a definition begins only where one ends.
AreSegments(t, segs) ==
    /\ segs \in Seq(Interval) /\ Len(segs) >= 1
    /\ segs[1].from = 0 /\ segs[Len(segs)].to = Size(t)
    /\ \A j \in 1..Len(segs) - 1 : segs[j + 1].from = segs[j].to
    /\ \A j \in 1..Len(segs) : /\ segs[j].from < segs[j].to /\ \E e \in 1..t.n : segs[j].to = End(t, e)
                               /\ \A x \in DefinitionCuts(t) : x <= segs[j].from \/ segs[j].to <= x

LEMMA SegmentsAre ==
    ASSUME NEW t, Laid(t), t.sep = 0, t.boundary \subseteq 1..t.n, t.boundary # {}
    PROVE  AreSegments(t, Segments(t))
<1> DEFINE B == t.boundary
           starts == InOrder(B)
           m == Cardinality(B)
           segs == Segments(t)
<1>1. /\ t.n \in Nat /\ starts \in Seq(B) /\ Len(starts) = m /\ m \in Nat /\ m > 0 /\ m \in 1..m /\ 1 \in 1..m
      /\ \A k, l \in 1..m : k < l => starts[k] < starts[l]
      /\ \A x \in B : \E k \in 1..m : starts[k] = x
  <2>1. t.n \in Nat
    BY DEF Laid
  <2> QED BY <2>1, InOrderIs
<1> HIDE DEF starts
<1>2. \A k \in 1..m : starts[k] \in B /\ starts[k] \in 1..t.n
  BY <1>1
<1>3. t.n > 0 /\ t.n \in 1..t.n /\ 1 \in 1..t.n
  BY <1>1, <1>2
<1>4. \A i \in 1..t.n : Start(t, i) \in Int /\ End(t, i) \in Int /\ Start(t, i) < End(t, i)
  BY DEF Laid
<1>5. \A i, j \in 1..t.n : i < j => End(t, i) <= Start(t, j)
  <2>1. \A i, j \in 1..t.n : i < j => End(t, i) + t.sep <= Start(t, j)
    BY UnitsInOrder
  <2> QED BY <2>1, <1>4
<1>6. Size(t) = End(t, t.n)
  BY <1>1, <1>3 DEF Size, End
<1>7. \A i \in 2..t.n : i - 1 \in 1..t.n /\ Start(t, i) = End(t, i - 1)
  <2> TAKE i \in 2..t.n
  <2>1. i \in 1..t.n /\ i # 1 /\ i - 1 \in 1..t.n
    BY <1>1
  <2>2. Start(t, i) = End(t, i - 1) + 0
    BY <2>1 DEF Laid
  <2> QED BY <2>1, <2>2, <1>4
<1> DEFINE from(j) == IF j = 1 THEN 0 ELSE Start(t, starts[j])
           to(j) == IF j < m THEN Start(t, starts[j + 1]) ELSE Size(t)
<1>8. segs = [j \in 1..m |-> [from |-> from(j), to |-> to(j)]]
  BY <1>1 DEF Segments, starts
<1>9. ASSUME NEW j \in 1..m
      PROVE  /\ from(j) \in Int /\ to(j) \in Int /\ from(j) < to(j)
             /\ \E e \in 1..t.n : to(j) = End(t, e)
             /\ from(j) <= Start(t, starts[j])
  <2>1. from(j) \in Int /\ from(j) <= Start(t, starts[j])
    <3>1. Start(t, 1) = 0 /\ Start(t, starts[j]) \in Int
      BY <1>2, <1>3, <1>4 DEF Laid
    <3>2. starts[j] = 1 \/ Start(t, 1) <= Start(t, starts[j])
      <4>1. starts[j] = 1 \/ 1 < starts[j]
        BY <1>1, <1>2
      <4>2. starts[j] = 1 \/ End(t, 1) <= Start(t, starts[j])
        BY <4>1, <1>2, <1>3, <1>5
      <4> QED BY <4>2, <1>2, <1>3, <1>4
    <3> QED BY <3>1, <3>2
  <2>2. CASE j < m
    <3>1. j + 1 \in 1..m /\ j < j + 1
      BY <2>2, <1>1
    <3>2. starts[j + 1] \in 1..t.n /\ starts[j] \in 1..t.n /\ starts[j] < starts[j + 1]
      BY <3>1, <1>1, <1>2
    <3>3. End(t, starts[j]) <= Start(t, starts[j + 1])
      BY <3>2, <1>5
    <3>4. starts[j + 1] \in 2..t.n
      BY <3>2, <1>1
    <3>5. to(j) = Start(t, starts[j + 1])
      BY <2>2
    <3>6. \E e \in 1..t.n : to(j) = End(t, e)
      BY <3>4, <3>5, <1>7
    <3> HIDE DEF from, to
    <3> QED BY <3>2, <3>3, <3>5, <3>6, <2>1, <1>4
  <2>3. CASE ~(j < m)
    <3>1. to(j) = End(t, t.n)
      BY <2>3, <1>6
    <3>2. starts[j] = t.n \/ End(t, starts[j]) <= Start(t, t.n)
      <4>1. starts[j] = t.n \/ starts[j] < t.n
        BY <1>1, <1>2
      <4> QED BY <4>1, <1>2, <1>3, <1>5
    <3>3. starts[j] \in 1..t.n
      BY <1>2
    <3> HIDE DEF from, to
    <3> QED BY <3>1, <3>2, <3>3, <2>1, <1>3, <1>4
  <2> QED BY <2>2, <2>3
<1>10. ASSUME NEW j \in 1..m, NEW x \in DefinitionCuts(t) PROVE x <= from(j) \/ to(j) <= x
  <2>1. PICK b \in B : x = Start(t, b) /\ \E a \in B : a < b
    BY DEF DefinitionCuts
  <2>2. PICK k \in 1..m : starts[k] = b
    BY <1>1
  <2>3. PICK a \in B : a < b
    BY <2>1
  <2>4. PICK l \in 1..m : starts[l] = a
    BY <1>1
  <2>5. k # 1
    <3> SUFFICES ASSUME k = 1 PROVE FALSE
      OBVIOUS
    <3>1. l = k \/ k < l
      BY <1>1
    <3>2. starts[k] = starts[l] \/ starts[k] < starts[l]
      BY <3>1, <1>1
    <3>3. a \in 1..t.n /\ b \in 1..t.n
      OBVIOUS
    <3> QED BY <3>2, <3>3, <2>2, <2>3, <2>4, <1>1
  <2>6. CASE k <= j
    <3>1. k = j \/ k < j
      BY <2>6, <1>1
    <3>2. k = j \/ starts[k] < starts[j]
      BY <3>1, <1>1
    <3>3. k = j \/ End(t, starts[k]) <= Start(t, starts[j])
      BY <3>2, <1>2, <1>5
    <3>4. j # 1
      BY <2>5, <2>6, <1>1
    <3>5. from(j) = Start(t, starts[j])
      BY <3>4
    <3>6. starts[k] \in 1..t.n /\ starts[j] \in 1..t.n
      BY <1>2
    <3> HIDE DEF from, to
    <3> QED BY <3>3, <3>5, <3>6, <2>1, <2>2, <1>4
  <2>7. CASE ~(k <= j)
    <3>1. j < m /\ j + 1 \in 1..m /\ (k = j + 1 \/ j + 1 < k)
      BY <2>7, <1>1
    <3>2. k = j + 1 \/ starts[j + 1] < starts[k]
      BY <3>1, <1>1
    <3>3. k = j + 1 \/ End(t, starts[j + 1]) <= Start(t, starts[k])
      BY <3>1, <3>2, <1>2, <1>5
    <3>4. to(j) = Start(t, starts[j + 1])
      BY <3>1
    <3>5. starts[k] \in 1..t.n /\ starts[j + 1] \in 1..t.n
      BY <3>1, <1>2
    <3> HIDE DEF from, to
    <3> QED BY <3>3, <3>4, <3>5, <2>1, <2>2, <1>4
  <2> QED BY <2>6, <2>7
<1>11. \A j \in 1..m : segs[j].from = from(j) /\ segs[j].to = to(j) /\ segs[j] = [from |-> from(j), to |-> to(j)]
  BY <1>8
<1>12. segs \in Seq(Interval) /\ Len(segs) = m
  <2>1. \A j \in 1..m : [from |-> from(j), to |-> to(j)] \in Interval
    <3> TAKE j \in 1..m
    <3>1. from(j) \in Int /\ to(j) \in Int
      BY <1>9
    <3> HIDE DEF from, to
    <3> QED BY <3>1 DEF Interval
  <2>2. segs \in [1..m -> Interval]
    <3> HIDE DEF from, to, segs
    <3> QED BY <2>1, <1>8
  <2> HIDE DEF from, to, segs
  <2> QED BY <2>2, <1>1
<1>13. from(1) = 0 /\ to(m) = Size(t) /\ \A j \in 1..m - 1 : from(j + 1) = to(j) /\ j + 1 \in 1..m /\ j \in 1..m
  BY <1>1
<1> HIDE DEF from, to, segs, m
<1>14. segs \in Seq(Interval) /\ Len(segs) >= 1
  BY <1>1, <1>12
<1>15. segs[1].from = 0 /\ segs[Len(segs)].to = Size(t)
  BY <1>1, <1>11, <1>12, <1>13
<1>16. \A j \in 1..Len(segs) - 1 : segs[j + 1].from = segs[j].to
  BY <1>11, <1>12, <1>13
<1>17. \A j \in 1..Len(segs) : /\ segs[j].from < segs[j].to /\ \E e \in 1..t.n : segs[j].to = End(t, e)
                              /\ \A x \in DefinitionCuts(t) : x <= segs[j].from \/ segs[j].to <= x
  BY <1>9, <1>10, <1>11, <1>12
<1>18. AreSegments(t, segs)
  BY <1>14, <1>15, <1>16, <1>17 DEF AreSegments
<1> QED BY <1>18 DEF segs

\* How far the merging of segments has come.
LEMMA MergesExist ==
    ASSUME NEW segments, NEW n \in Nat
    PROVE  \E f : f = [i \in 0..n |-> IF i = 0 THEN <<>> ELSE AddSegment(f[i - 1], segments[i])]
<1> DEFINE has(m) ==
               \E f : f = [i \in 0..m |-> IF i = 0 THEN <<>> ELSE AddSegment(f[i - 1], segments[i])]
           wrong == {m \in Nat : ~has(m)}
<1>1. has(0)
  <2> DEFINE f == [i \in 0..0 |-> <<>>]
  <2>1. f = [i \in 0..0 |-> IF i = 0 THEN <<>> ELSE AddSegment(f[i - 1], segments[i])]
    OBVIOUS
  <2> QED BY <2>1
<1>2. ASSUME NEW m \in Nat, has(m) PROVE has(m + 1)
  <2>1. PICK f : f = [i \in 0..m |-> IF i = 0 THEN <<>> ELSE AddSegment(f[i - 1], segments[i])]
    BY <1>2
  <2> DEFINE g == [i \in 0..m + 1 |-> IF i = m + 1 THEN AddSegment(f[m], segments[m + 1]) ELSE f[i]]
  <2>2. \A i \in 0..m + 1 : i # 0 => g[i - 1] = f[i - 1]
    OBVIOUS
  <2>3. \A i \in 0..m : f[i] = IF i = 0 THEN <<>> ELSE AddSegment(f[i - 1], segments[i])
    BY <2>1
  <2>4. \A i \in 0..m + 1 : g[i] = IF i = 0 THEN <<>> ELSE AddSegment(g[i - 1], segments[i])
    <3> TAKE i \in 0..m + 1
    <3>1. CASE i = m + 1
      <4>1. g[i] = AddSegment(f[m], segments[m + 1]) /\ g[i - 1] = f[m] /\ i # 0
        BY <3>1, <2>2
      <4> HIDE DEF g
      <4> QED BY <4>1, <3>1
    <3>2. CASE i # m + 1
      <4>1. g[i] = f[i] /\ i \in 0..m
        BY <3>2
      <4> HIDE DEF g
      <4> QED BY <4>1, <2>2, <2>3
    <3> QED BY <3>1, <3>2
  <2>5. g = [i \in 0..m + 1 |-> g[i]]
    OBVIOUS
  <2> HIDE DEF g
  <2>6. g = [i \in 0..m + 1 |-> IF i = 0 THEN <<>> ELSE AddSegment(g[i - 1], segments[i])]
    BY <2>4, <2>5
  <2> QED BY <2>6
<1> HIDE DEF has
<1>3. wrong = {}
  <2> SUFFICES ASSUME wrong # {} PROVE FALSE
    OBVIOUS
  <2>1. PICK m \in Nat : ~has(m) /\ \A j \in Nat : ~has(j) => m <= j
    BY FirstIs
  <2>2. m # 0 /\ m - 1 \in Nat /\ ~(m <= m - 1)
    BY <2>1, <1>1
  <2>3. has(m - 1 + 1)
    BY <2>1, <2>2, <1>2
  <2> QED BY <2>1, <2>2, <2>3
<1> QED BY <1>3 DEF has

\* Segments merged up to the k-th: still adjoining, and more than one of them
\* together only where they fit.
AreMerged(t, segs, s, k) ==
    /\ s \in Seq(Interval) /\ Len(s) >= 1
    /\ s[1].from = 0 /\ s[Len(s)].to = segs[k].to
    /\ \A j \in 1..Len(s) - 1 : s[j + 1].from = s[j].to
    /\ \A j \in 1..Len(s) : /\ s[j].from < s[j].to /\ \E e \in 1..t.n : s[j].to = End(t, e)
                            /\ \/ EstimateTokens(s[j].to - s[j].from) <= MaxTokens
                               \/ \A x \in DefinitionCuts(t) : x <= s[j].from \/ s[j].to <= x

LEMMA AddSegmentKeeps ==
    ASSUME NEW t, NEW segs, AreSegments(t, segs), NEW k \in 2..Len(segs), NEW s, AreMerged(t, segs, s, k - 1)
    PROVE  AreMerged(t, segs, AddSegment(s, segs[k]), k)
<1> DEFINE n == Len(s)
           c == segs[k]
           next == AddSegment(s, c)
<1>1. /\ s \in Seq(Interval) /\ n \in Nat /\ n >= 1 /\ s # <<>> /\ Last(s) = s[n] /\ n \in 1..n
      /\ s[n].to = segs[k - 1].to
  BY DEF AreMerged, Last
<1>2. /\ c \in Interval /\ c.from = s[n].to /\ c.from < c.to /\ (\E e \in 1..t.n : c.to = End(t, e))
      /\ \A x \in DefinitionCuts(t) : x <= c.from \/ c.to <= x
  <2>1. Len(segs) \in Nat /\ segs \in Seq(Interval)
    BY DEF AreSegments
  <2>2. k \in 1..Len(segs) /\ k - 1 \in 1..Len(segs) - 1 /\ k - 1 + 1 = k
    BY <2>1
  <2>3. c \in Interval
    BY <2>1, <2>2
  <2>4. segs[k - 1 + 1].from = segs[k - 1].to
    BY <2>2 DEF AreSegments
  <2> QED BY <2>2, <2>3, <2>4, <1>1 DEF AreSegments
<1>3. \A j \in 1..n : s[j] \in Interval /\ s[j].from \in Int /\ s[j].to \in Int
  <2>1. \A j \in 1..n : s[j] \in Interval
    BY <1>1
  <2> QED BY <2>1, EndsOf
<1>4. CASE EstimateTokens(c.to - Last(s).from) <= MaxTokens
  <2> DEFINE d == [from |-> s[n].from, to |-> c.to]
  <2>1. next = Append(Front(s), d)
    BY <1>1, <1>4 DEF AddSegment
  <2>2. Front(s) \in Seq(Interval) /\ Len(Front(s)) = n - 1 /\ \A j \in 1..n - 1 : Front(s)[j] = s[j]
    BY <1>1, AllButTheLast
  <2>3. d \in Interval /\ d.from = s[n].from /\ d.to = c.to
    BY <1>1, <1>2, <1>3 DEF Interval
  <2> HIDE DEF d
  <2>4. next \in Seq(Interval) /\ Len(next) = n /\ next[n] = d /\ \A j \in 1..n - 1 : next[j] = s[j]
    <3>1. n - 1 + 1 = n
      BY <1>1
    <3> DEFINE r == Append(Front(s), d)
    <3>2. /\ r \in Seq(Interval) /\ Len(r) = n - 1 + 1 /\ r[n - 1 + 1] = d
          /\ \A j \in 1..n - 1 : r[j] = Front(s)[j]
      BY <2>2, <2>3, Appended
    <3>3. next = r
      BY <2>1
    <3> HIDE DEF next, r
    <3> QED BY <3>1, <3>2, <3>3, <2>2
  <2> HIDE DEF next, n, c
  <2>5. s[n].from < s[n].to /\ s[1].from = 0 /\ s[n].from \in Int /\ s[n].to \in Int /\ c.to \in Int
    <3>1. s[n].from < s[n].to /\ s[1].from = 0
      BY <1>1 DEF AreMerged, n
    <3> QED BY <3>1, <1>1, <1>2, <1>3, EndsOf
  <2>6. next[1].from = 0
    BY <1>1, <2>3, <2>4, <2>5
  <2>7. ASSUME NEW j \in 1..n - 1 PROVE next[j + 1].from = next[j].to
    <3>1. s[j + 1].from = s[j].to
      BY <2>7 DEF AreMerged, n
    <3>2. j + 1 = n \/ j + 1 \in 1..n - 1
      BY <1>1
    <3> QED BY <3>1, <3>2, <2>3, <2>4
  <2>8. ASSUME NEW j \in 1..n
        PROVE /\ next[j].from < next[j].to /\ \E e \in 1..t.n : next[j].to = End(t, e)
              /\ \/ EstimateTokens(next[j].to - next[j].from) <= MaxTokens
                 \/ \A x \in DefinitionCuts(t) : x <= next[j].from \/ next[j].to <= x
    <3>1. CASE j = n
      <4>1. next[j].from = s[n].from /\ next[j].to = c.to
        BY <3>1, <2>3, <2>4
      <4>2. EstimateTokens(c.to - s[n].from) <= MaxTokens
        BY <1>1, <1>4 DEF c
      <4>3. s[n].from < c.to
        BY <2>5, <1>2
      <4> QED BY <4>1, <4>2, <4>3, <1>2
    <3>2. CASE j # n
      <4>1. j \in 1..n - 1
        BY <3>2, <1>1
      <4>2. next[j] = s[j]
        BY <4>1, <2>4
      <4> QED BY <4>2, <2>8 DEF AreMerged, n
    <3> QED BY <3>1, <3>2
  <2>9. next[n].to = c.to
    BY <2>3, <2>4
  <2> QED BY <1>1, <2>4, <2>6, <2>7, <2>8, <2>9 DEF AreMerged, next, c
<1>5. CASE ~(EstimateTokens(c.to - Last(s).from) <= MaxTokens)
  <2>1. next = Append(s, c)
    BY <1>5 DEF AddSegment
  <2>2. next \in Seq(Interval) /\ Len(next) = n + 1 /\ next[n + 1] = c /\ \A j \in 1..n : next[j] = s[j]
    <3> HIDE DEF next, c
    <3> QED BY <2>1, <1>1, <1>2, Appended
  <2> HIDE DEF next, n, c
  <2>3. next[1].from = 0
    BY <1>1, <2>2 DEF AreMerged
  <2>4. ASSUME NEW j \in 1..n PROVE next[j + 1].from = next[j].to
    <3>1. CASE j = n
      BY <3>1, <2>2, <1>2
    <3>2. CASE j # n
      <4>1. j \in 1..n - 1 /\ j + 1 \in 1..n
        BY <3>2, <1>1
      <4> QED BY <4>1, <2>2 DEF AreMerged, n
    <3> QED BY <3>1, <3>2
  <2>5. ASSUME NEW j \in 1..n + 1
        PROVE /\ next[j].from < next[j].to /\ \E e \in 1..t.n : next[j].to = End(t, e)
              /\ \/ EstimateTokens(next[j].to - next[j].from) <= MaxTokens
                 \/ \A x \in DefinitionCuts(t) : x <= next[j].from \/ next[j].to <= x
    <3>1. CASE j = n + 1
      BY <3>1, <2>2, <1>2
    <3>2. CASE j # n + 1
      <4>1. j \in 1..n
        BY <3>2, <1>1
      <4>2. next[j] = s[j]
        BY <4>1, <2>2
      <4> QED BY <4>1, <4>2 DEF AreMerged, n
    <3> QED BY <3>1, <3>2
  <2>6. Len(next) - 1 = n /\ Len(next) >= 1 /\ Len(next) = n + 1 /\ next[Len(next)].to = c.to
    BY <1>1, <2>2
  <2>7. AreMerged(t, segs, next, k)
    <3>1. \A j \in 1..Len(next) - 1 : next[j + 1].from = next[j].to
      BY <2>4, <2>6
    <3>2. \A j \in 1..Len(next) : /\ next[j].from < next[j].to /\ \E e \in 1..t.n : next[j].to = End(t, e)
                                  /\ \/ EstimateTokens(next[j].to - next[j].from) <= MaxTokens
                                     \/ \A x \in DefinitionCuts(t) : x <= next[j].from \/ next[j].to <= x
      BY <2>5, <2>6
    <3>3. next[Len(next)].to = segs[k].to
      BY <2>6 DEF c
    <3> QED BY <2>2, <2>3, <2>6, <3>1, <3>2, <3>3 DEF AreMerged
  <2> QED BY <2>7 DEF next, c
<1> QED BY <1>4, <1>5

LEMMA SegmentsAreMerged ==
    ASSUME NEW t, NEW segs, AreSegments(t, segs)
    PROVE  AreMerged(t, segs, MergeSegments(segs), Len(segs))
<1> DEFINE n == Len(segs)
           f == CHOOSE g : g = [k \in 0..n |-> IF k = 0 THEN <<>> ELSE AddSegment(g[k - 1], segs[k])]
           wrong == {k \in 1..n : ~AreMerged(t, segs, f[k], k)}
<1>1. n \in Nat /\ n >= 1 /\ n \in 1..n /\ segs \in Seq(Interval)
  BY DEF AreSegments
<1>2. f = [k \in 0..n |-> IF k = 0 THEN <<>> ELSE AddSegment(f[k - 1], segs[k])]
  <2>1. \E g : g = [k \in 0..n |-> IF k = 0 THEN <<>> ELSE AddSegment(g[k - 1], segs[k])]
    BY <1>1, MergesExist
  <2> QED BY <2>1
<1>3. MergeSegments(segs) = f[n]
  BY DEF MergeSegments
<1> HIDE DEF f
<1>4. f[0] = <<>> /\ \A k \in 1..n : f[k] = AddSegment(f[k - 1], segs[k])
  BY <1>1, <1>2
<1> HIDE DEF n
<1>5. AreMerged(t, segs, f[1], 1)
  <2>1. f[1] = Append(<<>>, segs[1])
    <3>1. f[1] = AddSegment(f[0], segs[1]) /\ f[0] = <<>>
      BY <1>1, <1>4
    <3>2. AddSegment(<<>>, segs[1]) = Append(<<>>, segs[1])
      BY DEF AddSegment
    <3> QED BY <3>1, <3>2
  <2>2. segs[1] \in Interval /\ <<>> \in Seq(Interval) /\ Len(<<>>) = 0
    BY <1>1 DEF n
  <2>3. f[1] \in Seq(Interval) /\ Len(f[1]) = 1 /\ f[1][1] = segs[1]
    <3>1. 0 + 1 = 1
      OBVIOUS
    <3> QED BY <3>1, <2>1, <2>2, Appended
  <2>4. 1 \in 1..Len(segs)
    BY <1>1 DEF n
  <2>5. /\ segs[1].from = 0 /\ segs[1].from < segs[1].to /\ (\E e \in 1..t.n : segs[1].to = End(t, e))
        /\ \A x \in DefinitionCuts(t) : x <= segs[1].from \/ segs[1].to <= x
    BY <2>4 DEF AreSegments
  <2>6. \A j \in 1..Len(f[1]) : f[1][j] = segs[1]
    BY <2>3
  <2>7. Len(f[1]) >= 1 /\ 1..Len(f[1]) - 1 = {} /\ 1 \in 1..Len(f[1]) /\ Len(f[1]) \in 1..Len(f[1])
    BY <2>3
  <2> QED BY <2>3, <2>5, <2>6, <2>7 DEF AreMerged
<1>6. wrong = {}
  <2> SUFFICES ASSUME wrong # {} PROVE FALSE
    OBVIOUS
  <2>1. wrong \subseteq Nat
    BY <1>1
  <2>2. PICK k \in wrong : \A j \in wrong : k <= j
    BY <2>1, FirstIs
  <2>3. k # 1
    BY <2>2, <1>5
  <2>4. k \in 2..n /\ k \in 1..n /\ k - 1 \in 1..n /\ ~(k <= k - 1)
    BY <2>2, <2>3, <1>1
  <2>5. AreMerged(t, segs, f[k - 1], k - 1)
    BY <2>2, <2>4
  <2>6. AreMerged(t, segs, AddSegment(f[k - 1], segs[k]), k)
    BY <2>4, <2>5, AddSegmentKeeps DEF n
  <2> QED BY <2>2, <2>4, <2>6, <1>4
<1> QED BY <1>1, <1>3, <1>6 DEF n

\* How far the numbering of lines has come.
AreCounted(text, t, chunks, n, f) ==
    /\ ChunkLineRanges(text, chunks) = f[n]
    /\ f[0] = <<>> /\ \A k \in 1..n : f[k] = NextRange(t, f[k - 1], chunks[k])

LEMMA RangesAre ==
    ASSUME NEW text, NEW t, t = Layout(text, 0), NEW chunks, NEW n \in Nat, n = Len(chunks)
    PROVE  \E f : AreCounted(text, t, chunks, n, f)
<1> DEFINE has(m) ==
               \E f : f = [i \in 0..m |-> IF i = 0 THEN <<>> ELSE NextRange(t, f[i - 1], chunks[i])]
           wrong == {m \in Nat : ~has(m)}
<1>1. has(0)
  <2> DEFINE f == [i \in 0..0 |-> <<>>]
  <2>1. f = [i \in 0..0 |-> IF i = 0 THEN <<>> ELSE NextRange(t, f[i - 1], chunks[i])]
    OBVIOUS
  <2> QED BY <2>1
<1>2. ASSUME NEW m \in Nat, has(m) PROVE has(m + 1)
  <2>1. PICK f : f = [i \in 0..m |-> IF i = 0 THEN <<>> ELSE NextRange(t, f[i - 1], chunks[i])]
    BY <1>2
  <2> DEFINE g == [i \in 0..m + 1 |-> IF i = m + 1 THEN NextRange(t, f[m], chunks[m + 1]) ELSE f[i]]
  <2>2. \A i \in 0..m + 1 : i # 0 => g[i - 1] = f[i - 1]
    OBVIOUS
  <2>3. \A i \in 0..m : f[i] = IF i = 0 THEN <<>> ELSE NextRange(t, f[i - 1], chunks[i])
    BY <2>1
  <2>4. \A i \in 0..m + 1 : g[i] = IF i = 0 THEN <<>> ELSE NextRange(t, g[i - 1], chunks[i])
    <3> TAKE i \in 0..m + 1
    <3>1. CASE i = m + 1
      <4>1. g[i] = NextRange(t, f[m], chunks[m + 1]) /\ g[i - 1] = f[m] /\ i # 0
        BY <3>1, <2>2
      <4> HIDE DEF g
      <4> QED BY <4>1, <3>1
    <3>2. CASE i # m + 1
      <4>1. g[i] = f[i] /\ i \in 0..m
        BY <3>2
      <4> HIDE DEF g
      <4> QED BY <4>1, <2>2, <2>3
    <3> QED BY <3>1, <3>2
  <2>5. g = [i \in 0..m + 1 |-> g[i]]
    OBVIOUS
  <2> HIDE DEF g
  <2>6. g = [i \in 0..m + 1 |-> IF i = 0 THEN <<>> ELSE NextRange(t, g[i - 1], chunks[i])]
    BY <2>4, <2>5
  <2> QED BY <2>6
<1> HIDE DEF has
<1>3. wrong = {}
  <2> SUFFICES ASSUME wrong # {} PROVE FALSE
    OBVIOUS
  <2>1. PICK m \in Nat : ~has(m) /\ \A j \in Nat : ~has(j) => m <= j
    BY FirstIs
  <2>2. m # 0 /\ m - 1 \in Nat /\ ~(m <= m - 1)
    BY <2>1, <1>1
  <2>3. has(m - 1 + 1)
    BY <2>1, <2>2, <1>2
  <2> QED BY <2>1, <2>2, <2>3
<1> DEFINE f == CHOOSE g : g = [i \in 0..n |-> IF i = 0 THEN <<>> ELSE NextRange(t, g[i - 1], chunks[i])]
<1>4. f = [i \in 0..n |-> IF i = 0 THEN <<>> ELSE NextRange(t, f[i - 1], chunks[i])]
  <2>1. has(n)
    BY <1>3
  <2>2. \E g : g = [i \in 0..n |-> IF i = 0 THEN <<>> ELSE NextRange(t, g[i - 1], chunks[i])]
    BY <2>1, Zenon DEF has
  <2> QED BY <2>2
<1>5. ChunkLineRanges(text, chunks) = f[n]
  BY DEF ChunkLineRanges
<1> HIDE DEF f
<1>6. f[0] = <<>> /\ \A k \in 1..n : f[k] = NextRange(t, f[k - 1], chunks[k])
  BY <1>4
<1> QED BY <1>5, <1>6 DEF AreCounted

LEMMA LinesInOrder ==
    ASSUME NEW t, Laid(t), NEW i \in 1..t.n, NEW j \in 1..t.n
    PROVE  (End(t, i) < End(t, j) <=> i < j) /\ (Start(t, i) < End(t, j) <=> i <= j) /\ 0 < End(t, i)
<1>1. t.n \in Nat /\ t.sep \in Nat /\ 1 \in 1..t.n
  BY DEF Laid
<1>2. /\ Start(t, i) \in Int /\ End(t, i) \in Int /\ Start(t, i) < End(t, i)
      /\ Start(t, j) \in Int /\ End(t, j) \in Int /\ Start(t, j) < End(t, j)
      /\ Start(t, 1) = 0 /\ End(t, 1) \in Int /\ Start(t, 1) < End(t, 1)
  BY <1>1 DEF Laid
<1>3. /\ i < j => End(t, i) + t.sep <= Start(t, j)
      /\ j < i => End(t, j) + t.sep <= Start(t, i)
      /\ 1 < i => End(t, 1) + t.sep <= Start(t, i)
  BY <1>1, UnitsInOrder
<1>4. (i < j \/ i = j \/ j < i) /\ (i = 1 \/ 1 < i)
  BY <1>1
<1> QED BY <1>1, <1>2, <1>3, <1>4

LEMMA LinesAreTheirs ==
    ASSUME NEW t, Laid(t), NEW c \in Interval, NEW b \in Nat, NEW e \in 1..t.n, b < e,
           c.to = End(t, e), c.from = IF b = 0 THEN 0 ELSE End(t, b)
    PROVE  LinesOf(t, c) = b + 1..e
<1>1. t.n \in Nat /\ e \in Nat /\ (b # 0 => b \in 1..t.n)
  BY DEF Laid
<1>2. \A i \in 1..t.n : Start(t, i) \in Int /\ End(t, i) \in Int
  BY DEF Laid
<1>3. Length(c) # 0
  <2>1. c.from < c.to
    <3>1. CASE b = 0
      BY <3>1, LinesInOrder
    <3>2. CASE b # 0
      <4>1. End(t, b) < End(t, e)
        BY <3>2, <1>1, LinesInOrder
      <4> QED BY <3>2, <4>1
    <3> QED BY <3>1, <3>2
  <2> QED BY <2>1, EndsOf DEF Length
<1>4. ASSUME NEW i \in 1..t.n PROVE Start(t, i) < c.to /\ c.from < End(t, i) <=> i \in b + 1..e
  <2>1. Start(t, i) < c.to <=> i <= e
    BY LinesInOrder
  <2>2. c.from < End(t, i) <=> b < i
    <3>1. CASE b = 0
      BY <3>1, LinesInOrder
    <3>2. CASE b # 0
      <4>1. End(t, b) < End(t, i) <=> b < i
        BY <3>2, <1>1, LinesInOrder
      <4> QED BY <3>2, <4>1
    <3> QED BY <3>1, <3>2
  <2> QED BY <2>1, <2>2, <1>1
<1>5. LinesOf(t, c) = {i \in 1..t.n : Start(t, i) < c.to /\ c.from < End(t, i)}
  BY <1>3 DEF LinesOf
<1>6. b + 1..e \subseteq 1..t.n
  BY <1>1
<1> QED BY <1>4, <1>5, <1>6

LEMMA RangesMatch ==
    ASSUME NEW text, NEW t, t = Layout(text, 0), Laid(t), NEW chunks \in Seq(Interval), chunks # <<>>,
           chunks[1].from = 0,
           \A k \in 1..Len(chunks) : \E e \in 1..t.n : chunks[k].to = End(t, e),
           \A k \in 1..Len(chunks) - 1 : chunks[k + 1].from = chunks[k].to /\ chunks[k].to < chunks[k + 1].to
    PROVE  \A i \in 1..Len(chunks) : LET r == ChunkLineRanges(text, chunks)[i]
                                    IN  LinesOf(t, chunks[i]) = r.from..r.to
<1> DEFINE n == Len(chunks)
           e == [k \in 1..n |-> CHOOSE x \in 1..t.n : chunks[k].to = End(t, x)]
           b == [k \in 1..n |-> IF k = 1 THEN 0 ELSE e[k - 1]]
           r == [k \in 1..n |-> [from |-> b[k] + 1, to |-> e[k]]]
<1>1. n \in Nat /\ n >= 1 /\ n \in 0..n /\ t.n \in Nat
  BY DEF Laid
<1>2. \A k \in 1..n : e[k] \in 1..t.n /\ chunks[k].to = End(t, e[k])
  OBVIOUS
<1>3. \A k \in 1..n : chunks[k] \in Interval
  OBVIOUS
<1> HIDE DEF e
<1>4. ASSUME NEW k \in 1..n
      PROVE  b[k] \in Nat /\ b[k] < e[k] /\ chunks[k].from = IF b[k] = 0 THEN 0 ELSE End(t, b[k])
  <2>1. CASE k = 1
    <3>1. b[k] = 0
      BY <2>1
    <3> HIDE DEF b
    <3> QED BY <3>1, <2>1, <1>2
  <2>2. CASE k # 1
    <3>1. k - 1 \in 1..n /\ k - 1 \in 1..n - 1 /\ k - 1 + 1 = k
      BY <2>2, <1>1
    <3>2. b[k] = e[k - 1]
      BY <2>2
    <3>3. chunks[k].from = chunks[k - 1].to /\ chunks[k - 1].to < chunks[k].to
      <4>1. chunks[k - 1 + 1].from = chunks[k - 1].to /\ chunks[k - 1].to < chunks[k - 1 + 1].to
        BY <3>1
      <4> QED BY <3>1, <4>1
    <3>4. e[k - 1] \in 1..t.n /\ e[k] \in 1..t.n /\ End(t, e[k - 1]) < End(t, e[k])
      BY <3>1, <3>3, <1>2
    <3>5. e[k - 1] < e[k]
      BY <3>4, LinesInOrder
    <3>6. chunks[k].from = End(t, e[k - 1])
      BY <3>1, <3>3, <1>2
    <3> HIDE DEF b
    <3> QED BY <3>2, <3>4, <3>5, <3>6, <1>1
  <2> QED BY <2>1, <2>2
<1>5. \A k \in 1..n : r[k].from = b[k] + 1 /\ r[k].to = e[k] /\ r[k] = [from |-> b[k] + 1, to |-> e[k]]
  OBVIOUS
<1>6. \A k \in 1..n : (k = 1 => b[k] = 0) /\ (k # 1 => b[k] = e[k - 1])
  OBVIOUS
<1> HIDE DEF b, r
<1>7. \A k \in 1..n : LinesOf(t, chunks[k]) = b[k] + 1..e[k]
  BY <1>2, <1>3, <1>4, LinesAreTheirs
<1> HIDE DEF n
<1>8. PICK f : AreCounted(text, t, chunks, n, f)
  <2>1. n \in Nat /\ n = Len(chunks)
    BY <1>1 DEF n
  <2> QED BY <2>1, RangesAre
<1>9. ChunkLineRanges(text, chunks) = f[n]
  BY <1>8 DEF AreCounted
<1>10. f[0] = <<>> /\ \A k \in 1..n : f[k] = NextRange(t, f[k - 1], chunks[k])
  BY <1>8 DEF AreCounted
<1> DEFINE Counted(k) == f[k] \in Seq(Interval) /\ Len(f[k]) = k /\ \A i \in 1..k : f[k][i] = r[i]
           wrong == {k \in 0..n : ~Counted(k)}
<1>11. ASSUME NEW k \in 1..n, Counted(k - 1) PROVE Counted(k)
  <2> DEFINE old == f[k - 1]
             many == Larger(1, Cardinality(LinesOf(t, chunks[k])))
             start == Larger(1, IF old = <<>> THEN 1 ELSE Last(old).to + 1)
  <2>1. b[k] \in Nat /\ e[k] \in 1..t.n /\ b[k] < e[k] /\ k \in Nat /\ k >= 1
    BY <1>1, <1>2, <1>4
  <2>2. many = e[k] - b[k]
    <3>1. Cardinality(b[k] + 1..e[k]) = e[k] - (b[k] + 1) + 1
      <4>1. b[k] + 1 \in Int /\ e[k] \in Int /\ ~(b[k] + 1 > e[k])
        BY <2>1
      <4> QED BY <4>1, FS_Interval
    <3> QED BY <3>1, <2>1, <1>7 DEF Larger
  <2>3. old \in Seq(Interval) /\ Len(old) = k - 1 /\ \A i \in 1..k - 1 : old[i] = r[i]
    BY <1>11
  <2> HIDE DEF old
  <2>4. start = b[k] + 1
    <3>1. CASE k = 1
      <4>1. old = <<>> /\ b[k] = 0
        BY <3>1, <2>3, <1>6
      <4> QED BY <4>1 DEF Larger
    <3>2. CASE k # 1
      <4>1. k - 1 \in 1..k - 1 /\ k - 1 \in 1..n /\ old # <<>>
        BY <3>2, <2>1, <2>3, <1>1
      <4>2. Last(old) = r[k - 1]
        BY <4>1, <2>3 DEF Last
      <4>3. Last(old).to = b[k]
        BY <4>1, <4>2, <3>2, <1>5, <1>6
      <4> QED BY <4>1, <4>3, <2>1 DEF Larger
    <3> QED BY <3>1, <3>2
  <2>5. NextRange(t, old, chunks[k]) = Append(old, [from |-> start, to |-> Smaller(start + many - 1, t.n)])
    BY DEF NextRange
  <2> HIDE DEF start, many
  <2>6. Smaller(start + many - 1, t.n) = e[k]
    BY <2>1, <2>2, <2>4, <1>1 DEF Smaller
  <2>7. f[k] = Append(old, r[k])
    <3>1. f[k] = NextRange(t, old, chunks[k])
      BY <1>10 DEF old
    <3> QED BY <3>1, <2>4, <2>5, <2>6, <1>5
  <2>8. r[k] \in Interval
    <3>1. b[k] + 1 \in Int /\ e[k] \in Int
      BY <2>1
    <3> QED BY <3>1, <1>5, EndsOf
  <2>9. f[k] \in Seq(Interval) /\ Len(f[k]) = k - 1 + 1 /\ f[k][k - 1 + 1] = r[k] /\ \A i \in 1..k - 1 : f[k][i] = old[i]
    BY <2>3, <2>7, <2>8, Appended
  <2>10. k - 1 + 1 = k /\ \A i \in 1..k : i = k \/ i \in 1..k - 1
    BY <2>1
  <2> QED BY <2>3, <2>9, <2>10
<1>12. Counted(0)
  BY <1>10
<1>13. wrong = {}
  <2> SUFFICES ASSUME wrong # {} PROVE FALSE
    OBVIOUS
  <2>1. wrong \subseteq Nat
    BY <1>1
  <2>2. PICK k \in wrong : \A j \in wrong : k <= j
    BY <2>1, FirstIs
  <2>3. k # 0
    BY <2>2, <1>12
  <2>4. k \in 1..n /\ k - 1 \in 0..n /\ ~(k <= k - 1)
    BY <2>2, <2>3, <1>1
  <2> QED BY <2>2, <2>4, <1>11
<1>14. \A i \in 1..n : f[n][i] = r[i]
  BY <1>1, <1>13
<1>15. ASSUME NEW i \in 1..n
       PROVE  LinesOf(t, chunks[i]) = ChunkLineRanges(text, chunks)[i].from..ChunkLineRanges(text, chunks)[i].to
  <2>1. ChunkLineRanges(text, chunks)[i] = r[i]
    BY <1>9, <1>14
  <2>2. r[i].from = b[i] + 1 /\ r[i].to = e[i] /\ LinesOf(t, chunks[i]) = b[i] + 1..e[i]
    BY <1>5, <1>7
  <2> QED BY <2>1, <2>2
<1> QED BY <1>15 DEF n

\* The chunks of a text with something in it.
CutUp(t, chunks, cuts, limit) ==
    /\ chunks \in Seq(Interval) /\ Len(chunks) >= 1
    /\ \A k \in 1..Len(chunks) : \E e \in 1..t.n : chunks[k].to = End(t, e)
    /\ Covers(chunks, t) /\ LongOnlyUncut(chunks, cuts, limit)

LEMMA BoundariesAreCut ==
    ASSUME NEW t, Laid(t), t.sep = 0, t.boundary \subseteq 1..t.n, t.boundary # {}
    PROVE  CutUp(t, ChunkByBoundaries(t), DefinitionCuts(t), MaxChars + CharsPerToken - 1)
<1> DEFINE segs == Segments(t)
           s == MergeSegments(segs)
           n == Len(s)
           c == ChunkByBoundaries(t)
           from(i) == IF i = 1 THEN 0 ELSE Larger(s[i - 1].from, s[i].from - OverlapChars)
           limit == MaxChars + CharsPerToken - 1
<1>1. AreSegments(t, segs) /\ AreMerged(t, segs, s, Len(segs))
  BY SegmentsAre, SegmentsAreMerged
<1>2. /\ s \in Seq(Interval) /\ n \in Nat /\ n >= 1
      /\ s[1].from = 0 /\ s[n].to = Size(t)
      /\ \A j \in 1..n - 1 : s[j + 1].from = s[j].to
      /\ \A j \in 1..n : /\ s[j].from < s[j].to /\ \E e \in 1..t.n : s[j].to = End(t, e)
                         /\ \/ EstimateTokens(s[j].to - s[j].from) <= MaxTokens
                            \/ \A x \in DefinitionCuts(t) : x <= s[j].from \/ s[j].to <= x
  <2>1. s \in Seq(Interval) /\ n \in Nat /\ n >= 1
    <3> HIDE DEF s, segs
    <3> QED BY <1>1 DEF AreMerged
  <2>2. s[n].to = Size(t)
    <3> HIDE DEF s, segs
    <3> QED BY <1>1 DEF AreMerged, AreSegments
  <2> HIDE DEF s, segs
  <2> QED BY <1>1, <2>1, <2>2 DEF AreMerged
<1>3. c = [i \in 1..n |-> IF i = 1 THEN s[i]
                         ELSE [from |-> Larger(s[i - 1].from, s[i].from - OverlapChars), to |-> s[i].to]]
  BY DEF ChunkByBoundaries
<1> HIDE DEF s, c, segs
<1>4. \A i \in 1..n : s[i] \in Interval /\ s[i].from \in Int /\ s[i].to \in Int
  <2>1. \A i \in 1..n : s[i] \in Interval
    BY <1>2
  <2> QED BY <2>1, EndsOf
<1>5. ASSUME NEW i \in 1..n PROVE c[i] \in Interval /\ c[i].from = from(i) /\ c[i].to = s[i].to
  <2>1. CASE i = 1
    <3>1. c[i] = s[i]
      BY <2>1, <1>3
    <3> QED BY <3>1, <2>1, <1>2, <1>4
  <2>2. CASE i # 1
    <3>1. c[i] = [from |-> from(i), to |-> s[i].to]
      BY <2>2, <1>3
    <3>2. i - 1 \in 1..n /\ from(i) = Larger(s[i - 1].from, s[i].from - OverlapChars)
      BY <2>2, <1>2
    <3>3. from(i) \in Int
      BY <3>2, <1>4, Sizes DEF Larger
    <3> HIDE DEF from
    <3> QED BY <3>1, <3>3, <1>4, EndsOf
  <2> QED BY <2>1, <2>2
<1>6. c \in Seq(Interval) /\ Len(c) = n
  <2>1. DOMAIN c = 1..n
    BY <1>3
  <2>2. c = [i \in 1..n |-> c[i]]
    BY <1>3
  <2> QED BY <1>2, <1>5, <2>2
<1>7. ASSUME NEW i \in 1..n - 1
      PROVE  /\ c[i + 1].from <= c[i].to + t.sep /\ c[i].to < c[i + 1].to
             /\ c[i].to - c[i + 1].from <= OverlapChars
  <2>1. i \in 1..n /\ i + 1 \in 1..n /\ i + 1 # 1 /\ i + 1 - 1 = i
    BY <1>2
  <2>2. c[i + 1].from = Larger(s[i].from, s[i + 1].from - OverlapChars)
    BY <2>1, <1>5
  <2>3. s[i + 1].from = s[i].to /\ s[i].from < s[i].to /\ s[i + 1].from < s[i + 1].to
    BY <2>1, <1>2
  <2>4. c[i].to = s[i].to /\ c[i + 1].to = s[i + 1].to
    BY <2>1, <1>5
  <2>5. s[i].from \in Int /\ s[i].to \in Int /\ s[i + 1].to \in Int /\ s[i + 1].from \in Int
    BY <2>1, <1>4
  <2> QED BY <2>2, <2>3, <2>4, <2>5, Sizes DEF Larger
<1>8. c[1].from = 0 /\ Last(c).to = Size(t)
  <2>1. 1 \in 1..n /\ n \in 1..n
    BY <1>2
  <2> QED BY <2>1, <1>2, <1>5, <1>6 DEF Last
<1>9. Covers(c, t)
  <2>1. c # <<>>
    BY <1>2, <1>6
  <2> QED BY <2>1, <1>6, <1>7, <1>8 DEF Covers
<1>10. LongOnlyUncut(c, DefinitionCuts(t), limit)
  <2> SUFFICES ASSUME NEW i \in 1..n, c[i].to - (IF i = 1 THEN 0 ELSE c[i - 1].to) > limit, NEW x \in DefinitionCuts(t)
               PROVE  x <= (IF i = 1 THEN 0 ELSE c[i - 1].to) \/ c[i].to <= x
    BY <1>6 DEF LongOnlyUncut
  <2>1. (IF i = 1 THEN 0 ELSE c[i - 1].to) = s[i].from
    <3>1. CASE i = 1
      BY <3>1, <1>2
    <3>2. CASE i # 1
      <4>1. i - 1 \in 1..n /\ i - 1 \in 1..n - 1 /\ i - 1 + 1 = i
        BY <3>2, <1>2
      <4>2. c[i - 1].to = s[i - 1].to /\ s[i - 1 + 1].from = s[i - 1].to
        BY <4>1, <1>2, <1>5
      <4> QED BY <4>1, <4>2, <3>2
    <3> QED BY <3>1, <3>2
  <2>2. c[i].to = s[i].to
    BY <1>5
  <2>3. s[i].to - s[i].from > limit
    BY <2>1, <2>2
  <2>4. ~(EstimateTokens(s[i].to - s[i].from) <= MaxTokens)
    <3>1. s[i].to - s[i].from \in Int
      BY <1>4
    <3> QED BY <3>1, <2>3, Estimates
  <2>5. x <= s[i].from \/ s[i].to <= x
    BY <2>4, <1>2
  <2> QED BY <2>1, <2>2, <2>5
<1>11. Len(c) >= 1 /\ \A k \in 1..Len(c) : \E e \in 1..t.n : c[k].to = End(t, e)
  <2>1. Len(c) >= 1
    BY <1>2, <1>6
  <2>2. ASSUME NEW k \in 1..n PROVE \E e \in 1..t.n : c[k].to = End(t, e)
    <3>1. c[k].to = s[k].to
      BY <1>5
    <3>2. \E e \in 1..t.n : s[k].to = End(t, e)
      BY <1>2
    <3> QED BY <3>1, <3>2
  <2> QED BY <2>1, <2>2, <1>6
<1>12. CutUp(t, c, DefinitionCuts(t), limit)
  <2> HIDE DEF limit
  <2> QED BY <1>6, <1>9, <1>10, <1>11 DEF CutUp
<1> QED BY <1>12 DEF c

LEMMA PiecesAreCut ==
    ASSUME NEW t, Laid(t), t.n > 0, NEW limit \in Int, limit >= t.sep + MaxChars
    PROVE  CutUp(t, ChunkByUnits(t), UnitCuts(t), limit)
<1> DEFINE c == ChunkByUnits(t)
<1>1. WellCut(t, c) /\ c # <<>> /\ Last(c).to = End(t, t.n)
  BY UnitsAreCut
<1>2. Size(t) = End(t, t.n) /\ t.n \in Nat /\ t.sep \in Nat
  BY DEF Size, End, Laid
<1> HIDE DEF c
<1>3. c \in Seq(Interval) /\ Len(c) \in Nat /\ Len(c) >= 1 /\ \A i \in 1..Len(c) : c[i] \in Interval
  BY <1>1 DEF WellCut
<1>4. Covers(c, t)
  BY <1>1, <1>2 DEF Covers, WellCut
<1>5. LongOnlyUncut(c, UnitCuts(t), limit)
  <2> DEFINE old(i) == IF i = 1 THEN 0 ELSE c[i - 1].to
  <2> SUFFICES ASSUME NEW i \in 1..Len(c), c[i].to - old(i) > limit, NEW x \in UnitCuts(t)
               PROVE  x <= old(i) \/ c[i].to <= x
    BY DEF LongOnlyUncut
  <2>1. c[i].to \in Int /\ old(i) \in Int
    <3>1. i = 1 \/ i - 1 \in 1..Len(c)
      BY <1>3
    <3> QED BY <3>1, <1>3, EndsOf
  <2>2. c[i].to - old(i) > t.sep + MaxChars
    <3> HIDE DEF old
    <3> QED BY <2>1, <1>2, Sizes
  <2>3. LongOnlyUncut(c, UnitCuts(t), t.sep + MaxChars)
    BY <1>1 DEF WellCut
  <2> QED BY <2>2, <2>3 DEF LongOnlyUncut
<1>6. \A k \in 1..Len(c) : \E e \in 1..t.n : c[k].to = End(t, e)
  BY <1>1 DEF WellCut
<1>7. CutUp(t, c, UnitCuts(t), limit)
  BY <1>3, <1>4, <1>5, <1>6 DEF CutUp
<1> QED BY <1>7 DEF c

\* A text that fits is a chunk.
LEMMA OnePieceIsCut ==
    ASSUME NEW t, Laid(t), EstimateTokens(Size(t)) <= MaxTokens, NEW cuts, NEW limit,
           limit = MaxChars + CharsPerToken - 1 \/ limit = t.sep + MaxChars + CharsPerToken - 1
    PROVE  LET c == <<[from |-> 0, to |-> Size(t)]>>
           IN  /\ c \in Seq(Interval) /\ Len(c) = 1 /\ Covers(c, t) /\ LongOnlyUncut(c, cuts, limit)
               /\ c[1].from = 0 /\ c[1].to = Size(t)
               /\ Size(t) > 0 => \E e \in 1..t.n : Size(t) = End(t, e)
<1> DEFINE d == [from |-> 0, to |-> Size(t)]
           c == <<d>>
<1>1. t.n \in Nat /\ t.sep \in Nat /\ (t.n > 0 => t.n \in 1..t.n)
  BY DEF Laid
<1>2. t.n > 0 => Size(t) = End(t, t.n)
  BY <1>1 DEF Size, End
<1>3. Size(t) \in Int /\ (t.n = 0 => Size(t) = 0)
  <2>1. t.n > 0 => End(t, t.n) \in Int
    BY <1>1 DEF Laid
  <2>2. t.n = 0 => Size(t) = 0
    BY DEF Size
  <2> QED BY <2>1, <2>2, <1>1, <1>2
<1>4. d \in Interval /\ d.from = 0 /\ d.to = Size(t)
  BY <1>3, EndsOf
<1> HIDE DEF d
<1>5. c \in Seq(Interval) /\ Len(c) = 1 /\ c[1] = d /\ c # <<>> /\ Last(c) = d
  BY <1>4 DEF Last
<1> HIDE DEF c
<1>6. Covers(c, t)
  <2>1. 1..Len(c) - 1 = {}
    BY <1>5
  <2> QED BY <2>1, <1>4, <1>5 DEF Covers
<1>7. ~(Size(t) - 0 > limit)
  <2>1. CharsPerToken \in Nat
    BY ChunkingAssumption
  <2> QED BY <2>1, <1>1, <1>3, Estimates, Sizes
<1>8. LongOnlyUncut(c, cuts, limit)
  <2> SUFFICES ASSUME NEW i \in 1..1, c[i].to - (IF i = 1 THEN 0 ELSE c[i - 1].to) > limit PROVE FALSE
    BY <1>5 DEF LongOnlyUncut
  <2>1. i = 1
    OBVIOUS
  <2> QED BY <2>1, <1>4, <1>5, <1>7
<1>9. Size(t) > 0 => \E e \in 1..t.n : Size(t) = End(t, e)
  BY <1>1, <1>2, <1>3
<1> QED BY <1>4, <1>5, <1>6, <1>8, <1>9 DEF c, d

\* What the chunks of a code file must be.
CodeIsCut(text, t, chunks, cuts) ==
    /\ Covers(chunks, t) /\ LongOnlyUncut(chunks, cuts, MaxChars + CharsPerToken - 1)
    /\ Size(t) > 0 /\ (\A i \in 1..Len(chunks) - 1 : chunks[i + 1].from = chunks[i].to) =>
          \A i \in 1..Len(chunks) : LET r == ChunkLineRanges(text, chunks)[i]
                                   IN  LinesOf(t, chunks[i]) = r.from..r.to

LEMMA CutUpIsCut ==
    ASSUME NEW text, NEW t, t = Layout(text, 0), Laid(t), NEW chunks, NEW cuts,
           CutUp(t, chunks, cuts, MaxChars + CharsPerToken - 1)
    PROVE  CodeIsCut(text, t, chunks, cuts)
<1>1. /\ chunks \in Seq(Interval) /\ chunks # <<>> /\ chunks[1].from = 0
      /\ \A k \in 1..Len(chunks) : \E e \in 1..t.n : chunks[k].to = End(t, e)
      /\ \A k \in 1..Len(chunks) - 1 : chunks[k].to < chunks[k + 1].to
  <2>1. chunks # <<>>
    BY DEF CutUp
  <2> QED BY <2>1 DEF CutUp, Covers
<1>2. ASSUME \A i \in 1..Len(chunks) - 1 : chunks[i + 1].from = chunks[i].to
      PROVE  \A i \in 1..Len(chunks) : LET r == ChunkLineRanges(text, chunks)[i]
                                      IN  LinesOf(t, chunks[i]) = r.from..r.to
  <2>1. \A k \in 1..Len(chunks) - 1 : chunks[k + 1].from = chunks[k].to /\ chunks[k].to < chunks[k + 1].to
    BY <1>1, <1>2
  <2> QED BY <1>1, <2>1, RangesMatch
<1> QED BY <1>2 DEF CodeIsCut, CutUp

LEMMA AllTextIsCut ==
    ASSUME NEW text, text.lens \in Seq(Nat \ {0}), text.boundary \subseteq 1..Len(text.lens), NEW prefer \in BOOLEAN
    PROVE  TextIsCut(text, prefer)
<1> DEFINE t == Layout(text, 0)
           chunks == ChunkCode(text, prefer)
           cuts == IF prefer /\ t.boundary # {} THEN DefinitionCuts(t) ELSE UnitCuts(t)
           s == Layout(text, 2)
           pieces == ChunkSection(text)
           limit == MaxChars + CharsPerToken - 1
           further == s.sep + MaxChars + CharsPerToken - 1
<1>1. /\ Laid(t) /\ t.n = Len(text.lens) /\ t.sep = 0 /\ t.boundary = text.boundary
      /\ Laid(s) /\ s.sep = 2 /\ t.n \in Nat /\ s.n \in Nat /\ t.boundary \subseteq 1..t.n
  <2>1. /\ Laid(t) /\ t.n = Len(text.lens) /\ t.sep = 0 /\ t.boundary = text.boundary
        /\ Laid(s) /\ s.sep = 2
    BY LayoutIs
  <2> HIDE DEF t, s
  <2> QED BY <2>1 DEF Laid
<1>2. limit \in Int /\ limit >= MaxChars
  BY ChunkingAssumption, Sizes
<1>3. chunks = IF EstimateTokens(Size(t)) <= MaxTokens THEN <<[from |-> 0, to |-> Size(t)]>>
               ELSE IF prefer /\ t.boundary # {} THEN ChunkByBoundaries(t)
               ELSE ChunkByUnits(t)
  BY DEF ChunkCode
<1>4. pieces = IF EstimateTokens(Size(s)) <= MaxTokens
               THEN IF Size(s) > 0 THEN <<[from |-> 0, to |-> Size(s)]>> ELSE <<>>
               ELSE ChunkByUnits(s)
  BY DEF ChunkSection
<1>5. /\ CodeIsCut(text, t, chunks, cuts)
      /\ Covers(pieces, s) /\ LongOnlyUncut(pieces, UnitCuts(s), further)
      => TextIsCut(text, prefer)
  <2> DEFINE wellCut == /\ CodeIsCut(text, t, chunks, cuts)
                        /\ Covers(pieces, s) /\ LongOnlyUncut(pieces, UnitCuts(s), further)
  <2> SUFFICES ASSUME wellCut PROVE TextIsCut(text, prefer)
    OBVIOUS
  <2> QED BY Zenon DEF TextIsCut, CodeIsCut
<1> HIDE DEF t, s, chunks, pieces
<1>6. \A u : Laid(u) /\ ~(EstimateTokens(Size(u)) <= MaxTokens) => u.n > 0
  <2> SUFFICES ASSUME NEW u, Laid(u), ~(EstimateTokens(Size(u)) <= MaxTokens), ~(u.n > 0) PROVE FALSE
    OBVIOUS
  <2>1. u.n = 0
    BY DEF Laid
  <2> QED BY <2>1, Estimates DEF Size
<1>7. CodeIsCut(text, t, chunks, cuts)
  <2>1. CASE EstimateTokens(Size(t)) <= MaxTokens
    <3> DEFINE c == <<[from |-> 0, to |-> Size(t)]>>
    <3>1. /\ c \in Seq(Interval) /\ Len(c) = 1 /\ Covers(c, t) /\ LongOnlyUncut(c, cuts, limit)
          /\ c[1].to = Size(t)
          /\ Size(t) > 0 => \E e \in 1..t.n : Size(t) = End(t, e)
      BY <1>1, <2>1, OnePieceIsCut
    <3>2. chunks = c
      BY <1>3, <2>1
    <3> HIDE DEF c, limit, cuts
    <3>3. CASE Size(t) > 0
      <4>1. \A k \in 1..Len(c) : \E e \in 1..t.n : c[k].to = End(t, e)
        BY <3>1, <3>3
      <4>2. CutUp(t, c, cuts, limit)
        <5>1. Len(c) >= 1
          BY <3>1
        <5> QED BY <5>1, <3>1, <4>1 DEF CutUp
      <4> QED BY <1>1, <3>2, <4>2, CutUpIsCut DEF t, limit
    <3>4. CASE ~(Size(t) > 0)
      BY <3>1, <3>2, <3>4 DEF CodeIsCut, limit
    <3> QED BY <3>3, <3>4
  <2>2. CASE ~(EstimateTokens(Size(t)) <= MaxTokens)
    <3>1. CutUp(t, chunks, cuts, limit)
      <4>1. CASE prefer /\ t.boundary # {}
        <5>1. chunks = ChunkByBoundaries(t) /\ cuts = DefinitionCuts(t)
          BY <2>2, <4>1, <1>3
        <5> QED BY <5>1, <4>1, <1>1, BoundariesAreCut
      <4>2. CASE ~(prefer /\ t.boundary # {})
        <5>1. chunks = ChunkByUnits(t) /\ cuts = UnitCuts(t)
          BY <2>2, <4>2, <1>3
        <5>2. limit >= t.sep + MaxChars
          BY <1>1, <1>2, Sizes
        <5>3. t.n > 0
          BY <1>1, <1>6, <2>2
        <5> HIDE DEF limit, cuts
        <5> QED BY <5>1, <5>2, <5>3, <1>1, <1>2, PiecesAreCut
      <4> QED BY <4>1, <4>2
    <3> HIDE DEF cuts
    <3> QED BY <3>1, <1>1, CutUpIsCut DEF t
  <2> QED BY <2>1, <2>2
<1>8. Covers(pieces, s) /\ LongOnlyUncut(pieces, UnitCuts(s), further)
  <2>1. CASE EstimateTokens(Size(s)) <= MaxTokens
    <3>1. CASE Size(s) > 0
      <4> DEFINE c == <<[from |-> 0, to |-> Size(s)]>>
      <4>1. Covers(c, s) /\ LongOnlyUncut(c, UnitCuts(s), further)
        BY <1>1, <2>1, OnePieceIsCut
      <4>2. pieces = c
        BY <1>4, <2>1, <3>1
      <4> QED BY <4>1, <4>2
    <3>2. CASE ~(Size(s) > 0)
      <4>1. pieces = <<>> /\ Len(pieces) = 0
        BY <1>4, <2>1, <3>2
      <4>2. Size(s) = 0
        <5>1. s.n = 0 \/ s.n \in 1..s.n
          BY <1>1
        <5>2. s.n \in 1..s.n => 0 < End(s, s.n)
          BY <1>1, LinesInOrder
        <5> QED BY <5>1, <5>2, <3>2, <1>1 DEF Size, End
      <4> QED BY <4>1, <4>2 DEF Covers, LongOnlyUncut
    <3> QED BY <3>1, <3>2
  <2>2. CASE ~(EstimateTokens(Size(s)) <= MaxTokens)
    <3>1. pieces = ChunkByUnits(s)
      BY <1>4, <2>2
    <3>2. further \in Int /\ further >= s.sep + MaxChars
      BY <1>1, ChunkingAssumption, Sizes
    <3>3. s.n > 0
      BY <1>1, <1>6, <2>2
    <3>4. CutUp(s, pieces, UnitCuts(s), further)
      <4> HIDE DEF further
      <4> QED BY <3>1, <3>2, <3>3, <1>1, PiecesAreCut
    <3> QED BY <3>4 DEF CutUp
  <2> QED BY <2>1, <2>2
<1> QED BY <1>5, <1>7, <1>8

-----------------------------------------------------------------------------
(* Lists of lists. *)

LEMMA ListIs ==
    ASSUME NEW x, IsList(x)
    PROVE  Len(x) \in Nat /\ DOMAIN x = 1..Len(x) /\ \A i \in DOMAIN x : x[i] \in Range(x)
BY DEF IsList, Range

LEMMA ListOf ==
    ASSUME NEW n \in Nat, NEW x, x = [i \in 1..n |-> x[i]]
    PROVE  IsList(x) /\ Len(x) = n /\ DOMAIN x = 1..n
<1>1. DOMAIN x = 1..n
  OBVIOUS
<1>2. x \in [1..n -> Range(x)]
  BY <1>1 DEF Range
<1> QED BY <1>1, <1>2 DEF IsList

\* What is picked, and where it was.
IsPick(list, I, p) ==
    /\ IsList(p) /\ Len(p) = Cardinality(I) /\ Range(p) = {list[i] : i \in I}
    /\ \A k \in DOMAIN p : InOrder(I)[k] \in I /\ p[k] = list[InOrder(I)[k]]
    /\ \A i \in I : \E k \in DOMAIN p : InOrder(I)[k] = i
    /\ \A k, l \in DOMAIN p : k < l => InOrder(I)[k] < InOrder(I)[l]

LEMMA PickedIs ==
    ASSUME NEW list, IsList(list), NEW I, I \subseteq DOMAIN list
    PROVE  IsPick(list, I, Picked(list, I))
<1> DEFINE c == Cardinality(I)
           at == InOrder(I)
           p == Picked(list, I)
<1>1. /\ c \in Nat /\ (\A k \in 1..c : at[k] \in I) /\ (\A i \in I : \E k \in 1..c : at[k] = i)
      /\ \A k, l \in 1..c : k < l => at[k] < at[l]
  <2>1. Len(list) \in Nat /\ I \subseteq 1..Len(list)
    BY ListIs
  <2>2. /\ Cardinality(I) \in Nat /\ InOrder(I) \in Seq(I) /\ Len(InOrder(I)) = Cardinality(I)
        /\ \A k, l \in 1..Cardinality(I) : k < l => InOrder(I)[k] < InOrder(I)[l]
        /\ \A x \in I : \E k \in 1..Cardinality(I) : InOrder(I)[k] = x
    BY <2>1, InOrderIs
  <2> QED BY <2>2
<1>2. p = [k \in 1..c |-> list[at[k]]]
  BY DEF Picked
<1> HIDE DEF c, at, p
<1>3. IsList(p) /\ Len(p) = c /\ DOMAIN p = 1..c
  <2>1. p = [k \in 1..c |-> p[k]]
    BY <1>2
  <2> QED BY <1>1, <2>1, ListOf
<1>4. Range(p) = {list[i] : i \in I}
  BY <1>1, <1>2, <1>3 DEF Range
<1>5. \A k \in DOMAIN p : at[k] \in I /\ p[k] = list[at[k]]
  BY <1>1, <1>2, <1>3
<1> QED BY <1>1, <1>3, <1>4, <1>5 DEF IsPick, p, at, c

Joined(a, b, j) ==
    /\ IsList(j) /\ Len(j) = Len(a) + Len(b) /\ Range(j) = Range(a) \union Range(b)
    /\ \A i \in 1..Len(a) : j[i] = a[i]
    /\ \A i \in 1..Len(b) : j[Len(a) + i] = b[i]
    /\ \A i \in 1..Len(j) : i \in 1..Len(a) \/ \E k \in 1..Len(b) : i = Len(a) + k

LEMMA JoinIs ==
    ASSUME NEW a, IsList(a), NEW b, IsList(b)
    PROVE  Joined(a, b, a \o b)
<1> DEFINE j == a \o b
           n == Len(a)
           m == Len(b)
<1>1. n \in Nat /\ m \in Nat /\ DOMAIN a = 1..n /\ DOMAIN b = 1..m
  BY ListIs
<1>2. j = [i \in 1..n + m |-> IF i <= n THEN a[i] ELSE b[i - n]]
  <2> DEFINE S == Range(a) \union Range(b)
  <2>1. a \in Seq(S) /\ b \in Seq(S)
    BY DEF IsList
  <2> HIDE DEF S
  <2>2. /\ a \o b \in Seq(S) /\ Len(a \o b) = n + m
        /\ \A i \in 1..n + m : (a \o b)[i] = IF i <= n THEN a[i] ELSE b[i - n]
    BY <2>1, ConcatProperties
  <2>3. j \in [1..n + m -> S]
    <3>1. j \in Seq(S) /\ Len(j) = n + m
      BY <2>2
    <3> HIDE DEF j, n, m
    <3> QED BY <3>1, LenProperties
  <2> QED BY <2>2, <2>3
<1> HIDE DEF j
<1>3. IsList(j) /\ Len(j) = n + m /\ DOMAIN j = 1..n + m
  <2>1. j = [i \in 1..n + m |-> j[i]] /\ n + m \in Nat
    BY <1>1, <1>2
  <2> QED BY <2>1, ListOf
<1>4. \A i \in 1..n : i \in 1..n + m /\ j[i] = a[i]
  BY <1>1, <1>2
<1>5. \A i \in 1..m : n + i \in 1..n + m /\ j[n + i] = b[i]
  BY <1>1, <1>2
<1>6. \A i \in 1..n + m : i \in 1..n \/ \E k \in 1..m : i = n + k
  <2> SUFFICES ASSUME NEW i \in 1..n + m, ~(i <= n) PROVE \E k \in 1..m : i = n + k
    BY <1>1
  <2>1. i - n \in 1..m /\ i = n + (i - n)
    BY <1>1
  <2> QED BY <2>1
<1>7. Range(j) = Range(a) \union Range(b)
  <2> HIDE DEF n, m
  <2> QED BY <1>1, <1>3, <1>4, <1>5, <1>6 DEF Range
<1> QED BY <1>3, <1>4, <1>5, <1>6, <1>7 DEF Joined, j

\* Each element of each list has a place in all of them together.
PlacesUpTo(s, m, flat, at) ==
    /\ IsList(flat)
    /\ \A i \in 1..m : \A k \in DOMAIN s[i] : at[<<i, k>>] \in DOMAIN flat /\ flat[at[<<i, k>>]] = s[i][k]
    /\ \A p \in DOMAIN flat : \E i \in 1..m : \E k \in DOMAIN s[i] : at[<<i, k>>] = p

Flattens(s, m, g) == g = [i \in 1..m |-> IF i = 1 THEN s[i] ELSE g[i - 1] \o s[i]]

LEMMA PlacesGrow ==
    ASSUME NEW s, IsList(s), \A i \in DOMAIN s : IsList(s[i]), NEW m \in 1..Len(s), m + 1 \in 1..Len(s),
           NEW f, NEW at, PlacesUpTo(s, m, f, at)
    PROVE  \E new : PlacesUpTo(s, m + 1, f \o s[m + 1], new)
<1> DEFINE t == s[m + 1]
           j == f \o t
           n == Len(f)
           new == [x \in (1..m + 1) \X Nat |-> IF x[1] = m + 1 THEN n + x[2] ELSE at[x]]
<1>1. /\ IsList(t) /\ IsList(f) /\ n \in Nat /\ Len(t) \in Nat /\ DOMAIN f = 1..n /\ DOMAIN t = 1..Len(t)
      /\ m \in Nat /\ \A i \in 1..m : DOMAIN s[i] \subseteq Nat /\ i \in 1..m + 1 /\ i # m + 1
  <2>1. DOMAIN s = 1..Len(s) /\ Len(s) \in Nat
    BY ListIs
  <2>2. IsList(t) /\ IsList(f)
    BY <2>1 DEF PlacesUpTo
  <2>3. \A i \in 1..m : i \in DOMAIN s /\ i \in 1..m + 1 /\ i # m + 1
    BY <2>1
  <2>4. \A i \in 1..m : DOMAIN s[i] \subseteq Nat
    BY <2>3, ListIs
  <2>5. n \in Nat /\ DOMAIN f = 1..n /\ Len(t) \in Nat /\ DOMAIN t = 1..Len(t)
    BY <2>2, ListIs
  <2> QED BY <2>1, <2>2, <2>3, <2>4, <2>5
<1>2. Joined(f, t, j)
  BY <1>1, JoinIs
<1> HIDE DEF t, j
<1>3. DOMAIN j = 1..n + Len(t) /\ IsList(j)
  BY <1>2, ListIs DEF Joined
<1>4. ASSUME NEW i \in 1..m, NEW k \in DOMAIN s[i]
      PROVE  new[<<i, k>>] = at[<<i, k>>] /\ at[<<i, k>>] \in 1..n /\ j[at[<<i, k>>]] = s[i][k]
  <2>1. <<i, k>> \in (1..m + 1) \X Nat /\ i # m + 1
    BY <1>1
  <2>2. new[<<i, k>>] = at[<<i, k>>]
    BY <2>1
  <2>3. at[<<i, k>>] \in 1..n /\ f[at[<<i, k>>]] = s[i][k]
    BY <1>1 DEF PlacesUpTo
  <2> QED BY <1>2, <2>2, <2>3 DEF Joined
<1>5. ASSUME NEW k \in 1..Len(t) PROVE new[<<m + 1, k>>] = n + k /\ j[n + k] = t[k]
  <2>1. <<m + 1, k>> \in (1..m + 1) \X Nat
    BY <1>1
  <2> QED BY <1>2, <2>1 DEF Joined
<1> HIDE DEF new, n
<1>6. \A i \in 1..m + 1 : \A k \in DOMAIN s[i] : new[<<i, k>>] \in DOMAIN j /\ j[new[<<i, k>>]] = s[i][k]
  <2> TAKE i \in 1..m + 1
  <2> TAKE k \in DOMAIN s[i]
  <2>1. CASE i = m + 1
    <3>1. k \in 1..Len(t) /\ t = s[i]
      BY <2>1, <1>1 DEF t
    <3>2. n + k \in DOMAIN j
      BY <3>1, <1>1, <1>3
    <3> QED BY <2>1, <3>1, <3>2, <1>5
  <2>2. CASE i # m + 1
    <3>1. i \in 1..m
      BY <2>2, <1>1
    <3>2. \A x \in 1..n : x \in DOMAIN j
      BY <1>1, <1>3
    <3> QED BY <3>1, <3>2, <1>4
  <2> QED BY <2>1, <2>2
<1>7. \A p \in DOMAIN j : \E i \in 1..m + 1 : \E k \in DOMAIN s[i] : new[<<i, k>>] = p
  <2> TAKE p \in DOMAIN j
  <2>1. CASE p \in 1..n
    <3>1. PICK i \in 1..m : \E k \in DOMAIN s[i] : at[<<i, k>>] = p
      BY <2>1, <1>1 DEF PlacesUpTo
    <3> QED BY <3>1, <1>1, <1>4
  <2>2. CASE p \notin 1..n
    <3>1. PICK k \in 1..Len(t) : p = n + k
      <4>1. Len(j) = n + Len(t)
        BY <1>2 DEF Joined, n
      <4> QED BY <2>2, <4>1, <1>2, <1>3 DEF Joined, n
    <3>2. k \in DOMAIN s[m + 1] /\ m + 1 \in 1..m + 1
      BY <1>1 DEF t
    <3> QED BY <3>1, <3>2, <1>5
  <2> QED BY <2>1, <2>2
<1>8. PlacesUpTo(s, m + 1, j, new)
  BY <1>3, <1>6, <1>7 DEF PlacesUpTo
<1> QED BY <1>8 DEF j, t

Places(s, flat, at) == PlacesUpTo(s, Len(s), flat, at)

LEMMA FlattenPlaces ==
    ASSUME NEW s, IsList(s), \A i \in DOMAIN s : IsList(s[i])
    PROVE  \E at : Places(s, FlattenSeq(s), at)
<1>1. Len(s) \in Nat /\ DOMAIN s = 1..Len(s)
  BY ListIs
<1>2. CASE Len(s) = 0
  <2>1. FlattenSeq(s) = s
    BY <1>2 DEF FlattenSeq
  <2>2. PlacesUpTo(s, 0, s, <<>>)
    BY <1>1, <1>2 DEF PlacesUpTo
  <2> QED BY <1>2, <2>1, <2>2 DEF Places
<1>3. CASE Len(s) # 0
  <2> DEFINE has(m) == \E g, at : Flattens(s, m, g) /\ PlacesUpTo(s, m, g[m], at)
             wrong == {m \in 1..Len(s) : ~has(m)}
  <2>1. has(1)
    <3> DEFINE g == [i \in 1..1 |-> s[1]]
               at == [x \in {1} \X DOMAIN s[1] |-> x[2]]
    <3>1. 1 \in DOMAIN s /\ IsList(s[1])
      BY <1>1, <1>3
    <3>2. Flattens(s, 1, g)
      <4>1. \A i \in 1..1 : i = 1
        OBVIOUS
      <4>2. g = [i \in 1..1 |-> IF i = 1 THEN s[i] ELSE g[i - 1] \o s[i]]
        BY <4>1
      <4> HIDE DEF g
      <4> QED BY <4>2 DEF Flattens
    <3>3. g[1] = s[1]
      OBVIOUS
    <3>4. \A k \in DOMAIN s[1] : at[<<1, k>>] = k
      OBVIOUS
    <3> HIDE DEF g, at
    <3>5. PlacesUpTo(s, 1, g[1], at)
      <4>1. \A i \in 1..1 : i = 1
        OBVIOUS
      <4>2. 1 \in 1..1
        OBVIOUS
      <4> QED BY <3>1, <3>3, <3>4, <4>1, <4>2 DEF PlacesUpTo
    <3> QED BY <3>2, <3>5
  <2>2. ASSUME NEW m \in 1..Len(s), m + 1 \in 1..Len(s), has(m) PROVE has(m + 1)
    <3>1. PICK g, at : Flattens(s, m, g) /\ PlacesUpTo(s, m, g[m], at)
      BY <2>2
    <3>2. PICK new : PlacesUpTo(s, m + 1, g[m] \o s[m + 1], new)
      BY <2>2, <3>1, PlacesGrow, Zenon
    <3> DEFINE longer == g[m] \o s[m + 1]
               h == [i \in 1..m + 1 |-> IF i = m + 1 THEN longer ELSE g[i]]
    <3> HIDE DEF longer
    <3>3. m + 1 \in 1..m + 1 /\ m + 1 # m /\ m \in 1..m
      BY <1>1
    <3>4. h[m + 1] = longer /\ \A i \in 1..m : h[i] = g[i]
      BY <1>1, <3>3
    <3>5. \A i \in 1..m + 1 : h[i] = IF i = 1 THEN s[i] ELSE h[i - 1] \o s[i]
      <4> TAKE i \in 1..m + 1
      <4>1. CASE i = m + 1
        <5>1. i # 1 /\ i - 1 = m
          BY <1>1, <4>1
        <5> HIDE DEF h
        <5> QED BY <3>3, <3>4, <4>1, <5>1 DEF longer
      <4>2. CASE i # m + 1
        <5>1. i \in 1..m /\ (i # 1 => i - 1 \in 1..m)
          BY <1>1, <4>2
        <5>2. g[i] = IF i = 1 THEN s[i] ELSE g[i - 1] \o s[i]
          BY <3>1, <5>1 DEF Flattens
        <5> HIDE DEF h
        <5> QED BY <3>4, <5>1, <5>2
      <4> QED BY <4>1, <4>2
    <3>6. h = [i \in 1..m + 1 |-> h[i]]
      OBVIOUS
    <3> HIDE DEF h
    <3>7. Flattens(s, m + 1, h)
      BY <3>5, <3>6 DEF Flattens
    <3>8. PlacesUpTo(s, m + 1, h[m + 1], new)
      BY <3>2, <3>4 DEF longer
    <3> QED BY <3>7, <3>8
  <2> HIDE DEF has
  <2>3. wrong = {}
    <3> SUFFICES ASSUME wrong # {} PROVE FALSE
      OBVIOUS
    <3>1. PICK m \in wrong : \A k \in wrong : m <= k
      <4>1. wrong \subseteq Nat
        OBVIOUS
      <4> HIDE DEF wrong
      <4> QED BY <4>1, FirstIs
    <3>2. m # 1 /\ m - 1 \in 1..Len(s) /\ (m - 1) + 1 = m /\ m \in 1..Len(s) /\ ~(m <= m - 1)
      BY <1>1, <2>1, <3>1
    <3>3. has(m - 1)
      BY <3>1, <3>2
    <3>4. has((m - 1) + 1)
      BY <2>2, <3>2, <3>3
    <3> QED BY <3>1, <3>2, <3>4
  <2>4. has(Len(s))
    BY <1>1, <1>3, <2>3
  <2>5. PICK g, at : Flattens(s, Len(s), g) /\ PlacesUpTo(s, Len(s), g[Len(s)], at)
    BY <2>4 DEF has
  <2>6. FlattenSeq(s) = g[Len(s)]
    BY <1>1, <1>3, <2>5, FlattenIs DEF Flattens
  <2> QED BY <2>5, <2>6 DEF Places
<1> QED BY <1>2, <1>3

-----------------------------------------------------------------------------
(* TypeScript. *)

LEMMA UniqueIs ==
    ASSUME NEW d, IsList(d)
    PROVE  /\ IsList(Unique(d)) /\ Range(Unique(d)) = Range(d)
           /\ \A i, k \in DOMAIN Unique(d) : Unique(d)[i] = Unique(d)[k] => i = k
<1> DEFINE I == {i \in DOMAIN d : \A j \in 1..i - 1 : d[j] # d[i]}
           u == Unique(d)
           at == InOrder(I)
<1>1. Len(d) \in Nat /\ DOMAIN d = 1..Len(d)
  BY ListIs
<1>2. IsPick(d, I, u)
  <2>1. u = Picked(d, I) /\ I \subseteq DOMAIN d
    BY DEF Unique
  <2> HIDE DEF I, u
  <2> QED BY <2>1, PickedIs
<1> HIDE DEF u
<1>3. IsList(u) /\ Len(u) \in Nat /\ DOMAIN u = 1..Len(u) /\ Range(u) = {d[i] : i \in I}
  BY <1>2, ListIs DEF IsPick
<1>4. ASSUME NEW i \in DOMAIN d PROVE \E j \in I : d[j] = d[i]
  <2> DEFINE same == {j \in DOMAIN d : d[j] = d[i]}
  <2>1. PICK j \in same : \A k \in same : j <= k
    <3>1. same \subseteq Nat /\ same # {}
      BY <1>1
    <3> HIDE DEF same
    <3> QED BY <3>1, FirstIs
  <2>2. \A k \in 1..j - 1 : k \in DOMAIN d /\ ~(j <= k)
    BY <1>1, <2>1
  <2>3. j \in I
    BY <2>1, <2>2
  <2> QED BY <2>1, <2>3
<1>5. Range(u) = Range(d)
  <2>1. {d[i] : i \in I} = {d[i] : i \in DOMAIN d}
    <3>1. I \subseteq DOMAIN d
      OBVIOUS
    <3> HIDE DEF I
    <3> QED BY <1>4, <3>1
  <2> HIDE DEF I
  <2> QED BY <1>3, <2>1 DEF Range
<1>6. ASSUME NEW k \in DOMAIN u, NEW l \in DOMAIN u, k < l PROVE u[k] # u[l]
  <2>1. /\ at[k] \in I /\ at[l] \in I /\ at[k] < at[l] /\ u[k] = d[at[k]] /\ u[l] = d[at[l]]
    <3> HIDE DEF I
    <3> QED BY <1>2, <1>6 DEF IsPick
  <2>2. at[k] \in 1..at[l] - 1
    <3> HIDE DEF at
    <3> QED BY <1>1, <2>1
  <2> HIDE DEF at
  <2> QED BY <2>1, <2>2
<1>7. ASSUME NEW k \in DOMAIN u, NEW l \in DOMAIN u, u[k] = u[l] PROVE k = l
  <2>1. k \in Int /\ l \in Int
    BY <1>3
  <2> QED BY <1>6, <1>7, <2>1
<1> QED BY <1>3, <1>5, <1>7 DEF u

\* What the parser has to find.
Known(exports) == {s \in Range(exports) : s.node # "other"}
ItselfOf(s) == Declaration(s.node, "", s.name, s.line)
MethodOf(s, m) == Declaration(IF m.node = "method_definition" THEN m.as ELSE "method", s.name, m.name, m.line)
MembersOf(s) ==
    IF s.node \in {"class", "interface"}
    THEN {m \in Range(s.members) : m.node \in MemberNodes(s.node) /\ m.name # Unnamed} ELSE {}
DeclaredBy(s) == {ItselfOf(s)} \union {MethodOf(s, m) : m \in MembersOf(s)}

IsExport(s) ==
    /\ s.node \in {"class", "interface", "type_alias", "enum", "function", "const", "other"}
    /\ s.node \in {"class", "interface"} => IsList(s.members)

LEMMA NothingPicked == ASSUME NEW list PROVE IsList(Picked(list, {})) /\ Range(Picked(list, {})) = {}
<1> DEFINE p == Picked(list, {})
<1>1. p = [k \in 1..0 |-> list[InOrder({})[k]]]
  BY FS_EmptySet DEF Picked
<1>2. p = [k \in 1..0 |-> p[k]]
  BY <1>1
<1> HIDE DEF p
<1>3. IsList(p) /\ DOMAIN p = 1..0
  BY <1>2, ListOf
<1> QED BY <1>3 DEF p, Range

LEMMA MethodsAre ==
    ASSUME NEW s, IsExport(s)
    PROVE  IsList(ExtractMethods(s)) /\ Range(ExtractMethods(s)) = {MethodOf(s, m) : m \in MembersOf(s)}
<1> DEFINE I == {i \in DOMAIN s.members : s.members[i].node \in MemberNodes(s.node) /\ s.members[i].name # Unnamed}
           found == Picked(s.members, I)
           methods == ExtractMethods(s)
<1>1. IsList(found) /\ Range(found) = MembersOf(s)
  <2>1. CASE s.node \in {"class", "interface"}
    <3>1. IsList(s.members) /\ I \subseteq DOMAIN s.members
      BY <2>1 DEF IsExport
    <3>2. {s.members[i] : i \in I} = MembersOf(s)
      BY <2>1 DEF MembersOf, Range
    <3> HIDE DEF I
    <3>3. IsPick(s.members, I, found)
      BY <3>1, PickedIs
    <3> QED BY <3>2, <3>3 DEF IsPick
  <2>2. CASE s.node \notin {"class", "interface"}
    <3>1. I = {} /\ MembersOf(s) = {}
      BY <2>2 DEF MemberNodes, MembersOf
    <3> HIDE DEF I
    <3> QED BY <3>1, NothingPicked
  <2> QED BY <2>1, <2>2
<1>2. methods = [i \in 1..Len(found) |-> MethodOf(s, found[i])]
  BY DEF ExtractMethods, MethodOf
<1> HIDE DEF found, methods
<1>3. Len(found) \in Nat /\ DOMAIN found = 1..Len(found)
  BY <1>1, ListIs
<1>4. IsList(methods) /\ DOMAIN methods = 1..Len(found)
  <2>1. methods = [i \in 1..Len(found) |-> methods[i]]
    BY <1>2
  <2> QED BY <1>3, <2>1, ListOf
<1>5. Range(methods) = {MethodOf(s, m) : m \in Range(found)}
  BY <1>2, <1>3, <1>4 DEF Range
<1> QED BY <1>1, <1>4, <1>5 DEF methods

LEMMA One == ASSUME NEW x PROVE IsList(<<x>>) /\ Len(<<x>>) = 1 /\ Range(<<x>>) = {x} /\ <<x>>[1] = x
<1>1. <<x>> = [i \in 1..1 |-> <<x>>[i]] /\ <<x>>[1] = x
  OBVIOUS
<1>2. IsList(<<x>>) /\ Len(<<x>>) = 1 /\ DOMAIN <<x>> = 1..1
  BY <1>1, ListOf
<1> QED BY <1>1, <1>2 DEF Range

LEMMA FlattenRange ==
    ASSUME NEW s, IsList(s), \A i \in DOMAIN s : IsList(s[i])
    PROVE  IsList(FlattenSeq(s)) /\ Range(FlattenSeq(s)) = UNION {Range(s[i]) : i \in DOMAIN s}
<1> DEFINE flat == FlattenSeq(s)
<1>1. PICK at : Places(s, flat, at)
  BY FlattenPlaces
<1>2. DOMAIN s = 1..Len(s)
  BY ListIs
<1> HIDE DEF flat
<1>3. /\ IsList(flat)
      /\ \A i \in DOMAIN s : \A k \in DOMAIN s[i] : at[<<i, k>>] \in DOMAIN flat /\ flat[at[<<i, k>>]] = s[i][k]
      /\ \A p \in DOMAIN flat : \E i \in DOMAIN s : \E k \in DOMAIN s[i] : at[<<i, k>>] = p
  BY <1>1, <1>2 DEF Places, PlacesUpTo
<1>4. Range(flat) \subseteq UNION {Range(s[i]) : i \in DOMAIN s}
  <2> SUFFICES ASSUME NEW p \in DOMAIN flat PROVE \E i \in DOMAIN s : flat[p] \in Range(s[i])
    BY DEF Range
  <2>1. PICK i \in DOMAIN s : \E k \in DOMAIN s[i] : at[<<i, k>>] = p
    BY <1>3
  <2>2. PICK k \in DOMAIN s[i] : at[<<i, k>>] = p
    BY <2>1
  <2>3. flat[p] = s[i][k]
    BY <1>3, <2>2
  <2> QED BY <2>3 DEF Range
<1>5. ASSUME NEW i \in DOMAIN s PROVE Range(s[i]) \subseteq Range(flat)
  <2>1. \A k \in DOMAIN s[i] : at[<<i, k>>] \in DOMAIN flat /\ flat[at[<<i, k>>]] = s[i][k]
    BY <1>3
  <2> SUFFICES ASSUME NEW k \in DOMAIN s[i] PROVE s[i][k] \in Range(flat)
    BY DEF Range
  <2> QED BY <2>1 DEF Range
<1> QED BY <1>3, <1>4, <1>5 DEF flat

LEMMA ParsedTs ==
    ASSUME NEW exports, IsTypeScript(exports)
    PROVE  /\ IsList(ParseTsSource(exports))
           /\ Range(ParseTsSource(exports)) = UNION {DeclaredBy(s) : s \in Known(exports)}
           /\ \A i, k \in DOMAIN ParseTsSource(exports) : ParseTsSource(exports)[i] = ParseTsSource(exports)[k] => i = k
<1> DEFINE I == {i \in DOMAIN exports : exports[i].node # "other"}
           known == Picked(exports, I)
           parts == [i \in 1..Len(known) |-> <<ItselfOf(known[i])>> \o ExtractMethods(known[i])]
<1>1. IsList(exports) /\ \A s \in Range(exports) : IsExport(s)
  BY DEF IsTypeScript, IsExport
<1>2. ParseTsSource(exports) = Unique(FlattenSeq(parts))
  BY DEF ParseTsSource, ItselfOf
<1>3. IsList(known) /\ Range(known) = Known(exports)
  <2>1. I \subseteq DOMAIN exports /\ {exports[i] : i \in I} = Known(exports)
    BY DEF Known, Range
  <2> HIDE DEF I
  <2>2. IsPick(exports, I, known)
    BY <1>1, <2>1, PickedIs
  <2> QED BY <2>1, <2>2 DEF IsPick
<1> HIDE DEF I, known
<1>4. Len(known) \in Nat /\ DOMAIN known = 1..Len(known) /\ \A i \in DOMAIN known : IsExport(known[i])
  BY <1>1, <1>3, ListIs DEF Known
<1>5. IsList(parts) /\ DOMAIN parts = 1..Len(known)
  <2>1. parts = [i \in 1..Len(known) |-> parts[i]]
    OBVIOUS
  <2> HIDE DEF parts
  <2> QED BY <1>4, <2>1, ListOf
<1>6. ASSUME NEW i \in DOMAIN parts PROVE IsList(parts[i]) /\ Range(parts[i]) = DeclaredBy(known[i])
  <2> DEFINE s == known[i]
             a == <<ItselfOf(s)>>
             b == ExtractMethods(s)
  <2>1. parts[i] = a \o b /\ IsExport(s)
    BY <1>4, <1>5
  <2>2. IsList(a) /\ IsList(b) /\ Range(a) = {ItselfOf(s)} /\ Range(b) = {MethodOf(s, m) : m \in MembersOf(s)}
    <3> HIDE DEF s
    <3> QED BY <2>1, One, MethodsAre
  <2> HIDE DEF a, b, parts
  <2>3. Joined(a, b, a \o b)
    BY <2>2, JoinIs
  <2> QED BY <2>1, <2>2, <2>3 DEF Joined, DeclaredBy
<1> HIDE DEF parts
<1>7. IsList(FlattenSeq(parts)) /\ Range(FlattenSeq(parts)) = UNION {Range(parts[i]) : i \in DOMAIN parts}
  BY <1>5, <1>6, FlattenRange
<1>8. UNION {Range(parts[i]) : i \in DOMAIN parts} = UNION {DeclaredBy(s) : s \in Known(exports)}
  <2>1. {Range(parts[i]) : i \in DOMAIN parts} = {DeclaredBy(known[i]) : i \in DOMAIN known}
    BY <1>4, <1>5, <1>6
  <2>2. {DeclaredBy(known[i]) : i \in DOMAIN known} = {DeclaredBy(s) : s \in Range(known)}
    BY DEF Range
  <2> QED BY <1>3, <2>1, <2>2
<1> DEFINE all == FlattenSeq(parts)
<1> HIDE DEF all
<1>9. /\ IsList(Unique(all)) /\ Range(Unique(all)) = Range(all)
      /\ \A i, k \in DOMAIN Unique(all) : Unique(all)[i] = Unique(all)[k] => i = k
  BY <1>7, UniqueIs DEF all
<1> QED BY <1>2, <1>7, <1>8, <1>9 DEF all

TypeKinds == {"class", "interface", "type_alias", "enum", "function", "const"}
Ways == {"constructor", "getter", "setter", "method"}

IsDeclaration(d) ==
    /\ d = Declaration(d.kind, d.class, d.name, d.line)
    /\ \/ d.kind \in TypeKinds /\ d.class = ""
       \/ d.kind \in Ways

LEMMA AllAreDeclarations ==
    ASSUME NEW exports, IsTypeScript(exports), NEW s \in Known(exports), NEW d \in DeclaredBy(s)
    PROVE  IsDeclaration(d)
<1>1. s \in Range(exports) /\ s.node \in TypeKinds
  BY DEF Known, IsTypeScript, TypeKinds
<1>2. CASE d = ItselfOf(s)
  <2>1. d.kind = s.node /\ d.class = "" /\ d.name = s.name /\ d.line = s.line
    BY <1>2 DEF ItselfOf, Declaration
  <2> QED BY <1>1, <1>2, <2>1 DEF ItselfOf, IsDeclaration
<1>3. CASE d # ItselfOf(s)
  <2>1. PICK m \in MembersOf(s) : d = MethodOf(s, m)
    BY <1>3 DEF DeclaredBy
  <2> DEFINE way == IF m.node = "method_definition" THEN m.as ELSE "method"
  <2>2. way \in Ways
    <3>1. m \in Range(s.members) /\ m.node \in MemberNodes(s.node) /\ s.node \in {"class", "interface"}
      BY DEF MembersOf
    <3>2. s.node = "interface" => m.node # "method_definition"
      BY <3>1 DEF MemberNodes
    <3>3. s.node = "class" => m.as \in Ways
      BY <1>1, <3>1 DEF IsTypeScript, Ways
    <3> QED BY <3>1, <3>2, <3>3 DEF Ways
  <2>3. d = Declaration(way, s.name, m.name, m.line)
    BY <2>1 DEF MethodOf
  <2> HIDE DEF way
  <2>4. d.kind = way /\ d.class = s.name /\ d.name = m.name /\ d.line = m.line
    BY <2>3 DEF Declaration
  <2> QED BY <2>2, <2>3, <2>4 DEF IsDeclaration
<1> QED BY <1>2, <1>3

\* The chunk of a declaration: what it says of where it is from.
Says(d, c) ==
    /\ c.from = d.line
    /\ d.kind \in {"class", "interface"} => c.type = "class_overview" /\ c.class = d.name /\ c.name = ""
    /\ d.kind \in {"type_alias", "enum"} => c.type = "type_definition" /\ c.class = "" /\ c.name = d.name
    /\ d.kind \in {"function", "const"} => c.type = "function" /\ c.class = "" /\ c.name = d.name
    /\ d.kind \in Ways => c.type = "method" /\ c.class = d.class /\ c.name = d.name

LEMMA TsChunkIs ==
    ASSUME NEW d, IsDeclaration(d)
    PROVE  Says(d, TsChunk(d))
<1> DEFINE kind == d.kind
           c == TsChunk(d)
<1>1. kind \in TypeKinds \/ kind \in Ways
  BY DEF IsDeclaration
<1>2. CASE kind \in {"class", "interface"}
  <2>1. c = Chunk("class_overview", d.name, "", d.line, d.line, {})
    BY <1>2 DEF TsChunk, TsChunkType
  <2> HIDE DEF c
  <2>2. c.type = "class_overview" /\ c.class = d.name /\ c.name = "" /\ c.from = d.line
    BY <2>1 DEF Chunk
  <2> QED BY <1>2, <2>2 DEF Says, Ways, c
<1>3. CASE kind \in {"type_alias", "enum"}
  <2>1. c = Chunk("type_definition", "", d.name, d.line, d.line, {})
    BY <1>3 DEF TsChunk, TsChunkType
  <2> HIDE DEF c
  <2>2. c.type = "type_definition" /\ c.class = "" /\ c.name = d.name /\ c.from = d.line
    BY <2>1 DEF Chunk
  <2> QED BY <1>3, <2>2 DEF Says, Ways, c
<1>4. CASE kind \in {"function", "const"}
  <2>1. c = Chunk("function", "", d.name, d.line, d.line, {})
    BY <1>4 DEF TsChunk, TsChunkType
  <2> HIDE DEF c
  <2>2. c.type = "function" /\ c.class = "" /\ c.name = d.name /\ c.from = d.line
    BY <2>1 DEF Chunk
  <2> QED BY <1>4, <2>2 DEF Says, Ways, c
<1>5. CASE kind \in Ways
  <2>1. c = Chunk("method", d.class, d.name, d.line, d.line, {})
    BY <1>5 DEF TsChunk, TsChunkType, Ways
  <2> HIDE DEF c
  <2>2. c.type = "method" /\ c.class = d.class /\ c.name = d.name /\ c.from = d.line
    BY <2>1 DEF Chunk
  <2> QED BY <1>5, <2>2 DEF Says, Ways, c
<1> QED BY <1>1, <1>2, <1>3, <1>4, <1>5 DEF TypeKinds

LEMMA TsIdsDiffer ==
    ASSUME NEW exports, IsTypeScript(exports)
    PROVE  TypeScriptIdsDiffer(exports)
<1> DEFINE found == ParseTsSource(exports)
<1>1. /\ IsList(found) /\ Range(found) = UNION {DeclaredBy(s) : s \in Known(exports)}
      /\ \A i, k \in DOMAIN found : found[i] = found[k] => i = k
  BY ParsedTs
<1> HIDE DEF found
<1> SUFFICES ASSUME NEW i \in DOMAIN found, NEW k \in DOMAIN found, TsChunk(found[i]) = TsChunk(found[k])
             PROVE  i = k \/ (found[i].line = found[k].line /\ found[i].kind # found[k].kind)
  BY DEF TypeScriptIdsDiffer, found
<1> DEFINE d == found[i]
           e == found[k]
<1>2. IsDeclaration(d) /\ IsDeclaration(e)
  <2>1. d \in Range(found) /\ e \in Range(found)
    BY DEF Range
  <2> HIDE DEF d, e
  <2> QED BY <1>1, <2>1, AllAreDeclarations
<1>3. Says(d, TsChunk(d)) /\ Says(e, TsChunk(d))
  <2>1. TsChunk(d) = TsChunk(e)
    OBVIOUS
  <2> HIDE DEF d, e
  <2> QED BY <1>2, <2>1, TsChunkIs
<1>4. d = e => i = k
  BY <1>1
<1> HIDE DEF d, e
<1>5. d.line = e.line /\ (d.kind = e.kind => d.class = e.class /\ d.name = e.name)
  BY <1>2, <1>3 DEF IsDeclaration, Says, TypeKinds
<1>6. d.kind = e.kind => d = e
  BY <1>2, <1>5 DEF IsDeclaration
<1> QED BY <1>4, <1>5, <1>6 DEF d, e

LEMMA TsIsFound ==
    ASSUME NEW exports, IsTypeScript(exports)
    PROVE  TypeScriptIsFound(exports)
<1> DEFINE found == ParseTsSource(exports)
           chunks == BuildTsChunks(found)
<1>1. IsList(found) /\ Range(found) = UNION {DeclaredBy(s) : s \in Known(exports)}
  BY ParsedTs
<1>2. \A d \in Range(found) : TsChunk(d) \in Range(chunks) /\ Says(d, TsChunk(d))
  <2> SUFFICES ASSUME NEW d \in Range(found) PROVE TsChunk(d) \in Range(chunks) /\ Says(d, TsChunk(d))
    OBVIOUS
  <2>1. TsChunk(d) \in Range(chunks)
    <3> HIDE DEF found
    <3>1. DOMAIN found = 1..Len(found)
      BY <1>1, ListIs
    <3>2. chunks = [i \in 1..Len(found) |-> TsChunk(found[i])]
      BY DEF BuildTsChunks
    <3> HIDE DEF chunks
    <3> QED BY <3>1, <3>2 DEF Range
  <2>2. IsDeclaration(d)
    <3> HIDE DEF found
    <3> QED BY <1>1, AllAreDeclarations
  <2> QED BY <2>1, <2>2, TsChunkIs
<1> HIDE DEF chunks
<1>3. ASSUME NEW s \in Range(exports), s.node # "other"
      PROVE  /\ ItselfOf(s) \in Range(found) /\ s.node \in TypeKinds
             /\ \A m \in MembersOf(s) : MethodOf(s, m) \in Range(found)
  <2>1. s \in Known(exports) /\ s.node \in TypeKinds
    BY <1>3 DEF Known, IsTypeScript, TypeKinds
  <2> HIDE DEF found
  <2> QED BY <1>1, <2>1 DEF DeclaredBy
<1> HIDE DEF found
<1>4. ASSUME NEW s \in Range(exports), s.node \in {"class", "interface"}
      PROVE  Has(chunks, "class_overview", s.name, "", s.line)
  <2> DEFINE d == ItselfOf(s)
  <2>1. d \in Range(found)
    BY <1>3, <1>4
  <2>2. d.kind = s.node /\ d.name = s.name /\ d.line = s.line
    BY DEF ItselfOf, Declaration
  <2> HIDE DEF d
  <2>3. Says(d, TsChunk(d)) /\ TsChunk(d) \in Range(chunks)
    BY <1>2, <2>1
  <2> QED BY <1>4, <2>2, <2>3 DEF Says, Has
<1>5. ASSUME NEW s \in Range(exports), s.node \in {"class", "interface"}, NEW m \in Range(s.members),
             m.node # "property", m.name # Unnamed,
             s.node = "class" => \E n \in Range(s.members) : n.name = m.name /\ n.node \notin {"method_signature", "property"}
      PROVE  \E c \in Range(chunks) : c.type = "method" /\ c.class = s.name /\ c.name = m.name
  <2>1. PICK n \in MembersOf(s) : n.name = m.name
    <3>1. CASE s.node = "class"
      <4>1. PICK n \in Range(s.members) : n.name = m.name /\ n.node \notin {"method_signature", "property"}
        BY <1>5, <3>1
      <4>2. n.node \in MemberNodes(s.node)
        BY <3>1, <4>1 DEF IsTypeScript, MemberNodes
      <4> QED BY <1>5, <4>1, <4>2 DEF MembersOf
    <3>2. CASE s.node = "interface"
      <4>1. m.node \in MemberNodes(s.node)
        BY <1>5, <3>2 DEF IsTypeScript, MemberNodes
      <4> QED BY <1>5, <4>1 DEF MembersOf
    <3> QED BY <1>5, <3>1, <3>2
  <2> DEFINE d == MethodOf(s, n)
  <2>2. d \in Range(found)
    BY <1>3, <1>5, <2>1
  <2>3. d.class = s.name /\ d.name = m.name /\ d.kind \in Ways
    <3>1. d.class = s.name /\ d.name = m.name
      BY <2>1 DEF MethodOf, Declaration
    <3>2. d.kind = IF n.node = "method_definition" THEN n.as ELSE "method"
      BY DEF MethodOf, Declaration
    <3>3. n \in Range(s.members) /\ n.node \in MemberNodes(s.node)
      BY <1>5, <2>1 DEF MembersOf
    <3>4. s.node = "interface" => n.node # "method_definition"
      BY <3>3 DEF MemberNodes
    <3>5. s.node = "class" => n.as \in Ways
      BY <3>3 DEF IsTypeScript, Ways
    <3> HIDE DEF d
    <3> QED BY <1>5, <3>1, <3>2, <3>4, <3>5 DEF Ways
  <2> HIDE DEF d
  <2>4. Says(d, TsChunk(d)) /\ TsChunk(d) \in Range(chunks)
    BY <1>2, <2>2
  <2> QED BY <2>3, <2>4 DEF Says
<1>6. ASSUME NEW s \in Range(exports), s.node # "other", s.node \notin {"class", "interface"}
      PROVE  \E type \in {"function", "type_definition"} : Has(chunks, type, "", s.name, s.line)
  <2> DEFINE d == ItselfOf(s)
  <2>1. d \in Range(found) /\ s.node \in TypeKinds
    BY <1>3, <1>6
  <2>2. d.kind = s.node /\ d.name = s.name /\ d.line = s.line
    BY DEF ItselfOf, Declaration
  <2> HIDE DEF d
  <2>3. Says(d, TsChunk(d)) /\ TsChunk(d) \in Range(chunks)
    BY <1>2, <2>1
  <2>4. d.kind \in {"type_alias", "enum"} \/ d.kind \in {"function", "const"}
    BY <1>6, <2>1, <2>2 DEF TypeKinds
  <2> QED BY <2>2, <2>3, <2>4 DEF Says, Has
<1> QED BY <1>4, <1>5, <1>6 DEF TypeScriptIsFound, chunks, found

-----------------------------------------------------------------------------
(* Python. *)

\* Chunks of one type are from different lines.
Differ(chunks) == \A i, k \in DOMAIN chunks : chunks[i].type = chunks[k].type /\ chunks[i].from = chunks[k].from => i = k

LEMMA JoinDiffers ==
    ASSUME NEW a, IsList(a), Differ(a), NEW b, IsList(b), Differ(b),
           \A x \in Range(a), y \in Range(b) : x.type # y.type \/ x.from # y.from
    PROVE  Differ(a \o b)
<1> DEFINE j == a \o b
           n == Len(a)
<1>1. Joined(a, b, j)
  BY JoinIs
<1> HIDE DEF j
<1>2. /\ DOMAIN a = 1..n /\ DOMAIN b = 1..Len(b) /\ n \in Nat /\ DOMAIN j = 1..Len(j)
  BY <1>1, ListIs DEF Joined
<1> SUFFICES ASSUME NEW p \in DOMAIN j, NEW q \in DOMAIN j, j[p].type = j[q].type, j[p].from = j[q].from PROVE p = q
  BY DEF Differ, j
<1>3. \A x \in 1..n, y \in 1..Len(b) : a[x].type # b[y].type \/ a[x].from # b[y].from
  BY <1>2 DEF Range
<1>4. CASE p \in 1..n /\ q \in 1..n
  BY <1>1, <1>2, <1>4 DEF Joined, Differ
<1>5. CASE p \notin 1..n /\ q \notin 1..n
  <2>1. PICK x \in 1..Len(b), y \in 1..Len(b) : p = n + x /\ q = n + y
    BY <1>1, <1>2, <1>5 DEF Joined
  <2>2. j[p] = b[x] /\ j[q] = b[y]
    BY <1>1, <2>1 DEF Joined
  <2> QED BY <1>2, <2>1, <2>2 DEF Differ
<1>6. CASE p \in 1..n /\ q \notin 1..n
  <2>1. PICK y \in 1..Len(b) : q = n + y
    BY <1>1, <1>2, <1>6 DEF Joined
  <2>2. j[p] = a[p] /\ j[q] = b[y]
    BY <1>1, <1>6, <2>1 DEF Joined
  <2> QED BY <1>3, <1>6, <2>1, <2>2
<1>7. CASE p \notin 1..n /\ q \in 1..n
  <2>1. PICK x \in 1..Len(b) : p = n + x
    BY <1>1, <1>2, <1>7 DEF Joined
  <2>2. j[q] = a[q] /\ j[p] = b[x]
    BY <1>1, <1>7, <2>1 DEF Joined
  <2> QED BY <1>3, <1>7, <2>1, <2>2
<1> QED BY <1>4, <1>5, <1>6, <1>7

LEMMA PickedIsLaid ==
    ASSUME NEW list, IsList(list), AreLaid(list), NEW I, I \subseteq DOMAIN list
    PROVE  /\ IsList(Picked(list, I)) /\ AreLaid(Picked(list, I))
           /\ Range(Picked(list, I)) = {list[i] : i \in I}
<1> DEFINE p == Picked(list, I)
           at == InOrder(I)
<1>1. IsPick(list, I, p)
  BY PickedIs
<1> HIDE DEF p, at
<1>2. AreLaid(p)
  <2>1. \A k \in DOMAIN p : at[k] \in DOMAIN list /\ p[k] = list[at[k]]
    BY <1>1 DEF IsPick, at
  <2>2. \A k, l \in DOMAIN p : k < l => at[k] < at[l]
    BY <1>1 DEF IsPick, at
  <2> QED BY <2>1, <2>2 DEF AreLaid
<1> QED BY <1>1, <1>2 DEF IsPick, p

LEMMA DirectIs ==
    ASSUME NEW list, IsList(list), AreLaid(list), NEW is
    PROVE  /\ IsList(Direct(list, is)) /\ AreLaid(Direct(list, is))
           /\ Range(Direct(list, is)) = {s \in Range(list) : s.is = is}
<1> DEFINE I == {i \in DOMAIN list : list[i].is = is}
<1>1. Direct(list, is) = Picked(list, I) /\ I \subseteq DOMAIN list
  BY DEF Direct
<1>2. {list[i] : i \in I} = {s \in Range(list) : s.is = is}
  BY DEF Range
<1> HIDE DEF I
<1> QED BY <1>1, <1>2, PickedIsLaid

Enough(stub, list) == Picked(list, {i \in DOMAIN list : LongEnough(stub, list[i])})

LEMMA EnoughIs ==
    ASSUME NEW list, IsList(list), AreLaid(list), NEW stub
    PROVE  /\ IsList(Enough(stub, list)) /\ AreLaid(Enough(stub, list))
           /\ Range(Enough(stub, list)) = {s \in Range(list) : LongEnough(stub, s)}
<1> DEFINE I == {i \in DOMAIN list : LongEnough(stub, list[i])}
<1>1. Enough(stub, list) = Picked(list, I) /\ I \subseteq DOMAIN list
  BY DEF Enough
<1>2. {list[i] : i \in I} = {s \in Range(list) : LongEnough(stub, s)}
  BY DEF Range
<1> HIDE DEF I
<1> QED BY <1>1, <1>2, PickedIsLaid

\* A chunk for each of some definitions.
OneEach(type, class, list) == [i \in 1..Len(list) |-> Chunk(type, class, list[i].name, list[i].from, list[i].to, {})]

LEMMA OneEachIs ==
    ASSUME NEW type, NEW class, NEW list, IsList(list), AreLaid(list)
    PROVE  /\ IsList(OneEach(type, class, list)) /\ Differ(OneEach(type, class, list))
           /\ \A c \in Range(OneEach(type, class, list)) : c.type = type /\ c.class = class /\ \E s \in Range(list) : c.from = s.from
           /\ \A s \in Range(list) : Has(OneEach(type, class, list), type, class, s.name, s.from)
<1> DEFINE each == OneEach(type, class, list)
<1>1. Len(list) \in Nat /\ DOMAIN list = 1..Len(list)
  BY ListIs
<1>2. each = [i \in 1..Len(list) |-> Chunk(type, class, list[i].name, list[i].from, list[i].to, {})]
  BY DEF OneEach
<1> HIDE DEF each
<1>3. IsList(each) /\ DOMAIN each = 1..Len(list)
  <2>1. each = [i \in 1..Len(list) |-> each[i]]
    BY <1>2
  <2> QED BY <1>1, <2>1, ListOf
<1>4. ASSUME NEW i \in 1..Len(list)
      PROVE  each[i].type = type /\ each[i].class = class /\ each[i].name = list[i].name /\ each[i].from = list[i].from
  <2>1. each[i] = Chunk(type, class, list[i].name, list[i].from, list[i].to, {})
    BY <1>2
  <2> QED BY <2>1 DEF Chunk
<1>5. ASSUME NEW i \in 1..Len(list), NEW k \in 1..Len(list), i < k PROVE list[i].from # list[k].from
  <2>1. /\ list[i].from \in Nat /\ list[i].to \in Nat /\ list[k].from \in Nat
        /\ list[i].from <= list[i].to /\ list[i].to < list[k].from
    BY <1>1, <1>5 DEF AreLaid
  <2> QED BY <2>1
<1>6. Differ(each)
  <2> SUFFICES ASSUME NEW i \in 1..Len(list), NEW k \in 1..Len(list), list[i].from = list[k].from PROVE i = k
    BY <1>3, <1>4 DEF Differ
  <2>1. i \in Int /\ k \in Int
    BY <1>1
  <2> QED BY <1>5, <2>1
<1>7. \A c \in Range(each) : c.type = type /\ c.class = class /\ \E s \in Range(list) : c.from = s.from
  BY <1>1, <1>3, <1>4 DEF Range
<1>8. ASSUME NEW s \in Range(list) PROVE Has(each, type, class, s.name, s.from)
  <2>1. PICK i \in 1..Len(list) : s = list[i]
    BY <1>1 DEF Range
  <2>2. each[i] \in Range(each)
    BY <1>3 DEF Range
  <2> QED BY <1>4, <2>1, <2>2 DEF Has
<1> QED BY <1>3, <1>6, <1>7, <1>8 DEF each

LEMMA NamesAre == ASSUME NEW list, IsList(list) PROVE NamesAmong(list) = {s.name : s \in Range(list)}
<1>1. DOMAIN list = 1..Len(list)
  BY ListIs
<1> QED BY <1>1 DEF NamesAmong, Range

\* The chunks of a class are from its lines, and all its methods are among them.
IsClass(s) ==
    /\ IsList(s.body) /\ AreLaid(s.body) /\ {s.from, s.to} \subseteq Nat /\ s.from <= s.to
    /\ \A m \in Range(s.body) : s.from <= m.from /\ m.to <= s.to
MethodsIn(s) == {m \in Range(s.body) : m.is = "def"}

OfClass(s, stub, chunks) ==
    /\ IsList(chunks) /\ Differ(chunks)
    /\ \A c \in Range(chunks) : /\ c.type \in {"class_overview", "method"} /\ c.from \in Nat
                                /\ s.from <= c.from /\ c.from <= s.to
    /\ Has(chunks, "class_overview", s.name, "", s.from)
    /\ \A m \in MethodsIn(s) : /\ NamedIn(chunks, s.name, m.name)
                               /\ LongEnough(stub, m) => Has(chunks, "method", s.name, m.name, m.from)

LEMMA ClassChunksAre ==
    ASSUME NEW s, IsClass(s), NEW stub
    PROVE  OfClass(s, stub, BuildClassChunks(s, stub))
<1> DEFINE methods == Direct(s.body, "def")
           kept == Enough(stub, methods)
           overview == Chunk("class_overview", s.name, "", s.from, s.to, NamesAmong(methods))
           rest == OneEach("method", s.name, kept)
           all == <<overview>> \o rest
<1>1. BuildClassChunks(s, stub) = all
  BY DEF BuildClassChunks, OneEach, Enough
<1>2. IsList(methods) /\ AreLaid(methods) /\ Range(methods) = MethodsIn(s)
  BY DirectIs DEF IsClass, MethodsIn
<1> HIDE DEF methods
<1>3. IsList(kept) /\ AreLaid(kept) /\ Range(kept) = {m \in MethodsIn(s) : LongEnough(stub, m)}
  BY <1>2, EnoughIs
<1> HIDE DEF kept
<1>4. /\ IsList(rest) /\ Differ(rest)
      /\ \A c \in Range(rest) : c.type = "method" /\ c.class = s.name /\ \E m \in Range(kept) : c.from = m.from
      /\ \A m \in Range(kept) : Has(rest, "method", s.name, m.name, m.from)
  BY <1>3, OneEachIs
<1>5. /\ overview.type = "class_overview" /\ overview.class = s.name /\ overview.name = ""
      /\ overview.from = s.from /\ overview.lists = {m.name : m \in MethodsIn(s)}
  BY <1>2, NamesAre DEF Chunk
<1> HIDE DEF overview, rest
<1>6. /\ IsList(<<overview>>) /\ Range(<<overview>>) = {overview} /\ Differ(<<overview>>)
  <2>1. /\ IsList(<<overview>>) /\ Range(<<overview>>) = {overview} /\ Len(<<overview>>) = 1
    BY One
  <2>2. DOMAIN <<overview>> = 1..1
    BY <2>1, ListIs
  <2>3. \A i \in 1..1 : i = 1
    OBVIOUS
  <2> QED BY <2>1, <2>2, <2>3 DEF Differ
<1>7. IsList(all) /\ Range(all) = {overview} \union Range(rest)
  <2>1. Joined(<<overview>>, rest, all)
    BY <1>4, <1>6, JoinIs
  <2> HIDE DEF all
  <2> QED BY <1>6, <2>1 DEF Joined
<1>8. Differ(all)
  <2>1. \A x \in Range(<<overview>>), y \in Range(rest) : x.type # y.type
    BY <1>4, <1>5, <1>6
  <2> QED BY <1>4, <1>6, <2>1, JoinDiffers
<1> HIDE DEF all
<1>9. ASSUME NEW c \in Range(all)
      PROVE  c.type \in {"class_overview", "method"} /\ c.from \in Nat /\ s.from <= c.from /\ c.from <= s.to
  <2>1. CASE c = overview
    <3>1. s.from \in Nat /\ s.to \in Nat /\ s.from <= s.to
      BY DEF IsClass
    <3>2. c.type = "class_overview" /\ c.from = s.from
      BY <1>5, <2>1
    <3> QED BY <3>1, <3>2
  <2>2. CASE c \in Range(rest)
    <3>1. PICK m \in Range(kept) : c.from = m.from
      BY <1>4, <2>2
    <3>2. m \in Range(s.body)
      BY <1>3, <3>1 DEF MethodsIn
    <3>3. m.from \in Nat /\ m.to \in Nat /\ m.from <= m.to
      BY <3>2 DEF IsClass, AreLaid, Range
    <3>4. s.from <= m.from /\ m.to <= s.to /\ s.from \in Nat /\ s.to \in Nat
      BY <3>2 DEF IsClass
    <3> QED BY <1>4, <2>2, <3>1, <3>3, <3>4
  <2> QED BY <1>7, <2>1, <2>2
<1>10. Has(all, "class_overview", s.name, "", s.from)
  BY <1>5, <1>7 DEF Has
<1>11. ASSUME NEW m \in MethodsIn(s)
       PROVE  NamedIn(all, s.name, m.name) /\ (LongEnough(stub, m) => Has(all, "method", s.name, m.name, m.from))
  <2>1. NamedIn(all, s.name, m.name)
    BY <1>5, <1>7 DEF NamedIn
  <2>2. LongEnough(stub, m) => Has(rest, "method", s.name, m.name, m.from)
    BY <1>3, <1>4
  <2> QED BY <1>7, <2>1, <2>2 DEF Has
<1> QED BY <1>1, <1>7, <1>8, <1>9, <1>10, <1>11 DEF OfClass

\* The chunks of a module.
OfModule(module, stub, chunks) ==
    /\ Differ(chunks)
    /\ \A s \in Range(module) : s.is = "def" =>
          /\ NamedIn(chunks, "", s.name)
          /\ LongEnough(stub, s) => Has(chunks, "function", "", s.name, s.from)
    /\ \A s \in Range(module) : s.is = "class" =>
          /\ NamedIn(chunks, "", s.name) /\ Has(chunks, "class_overview", s.name, "", s.from)
          /\ \A m \in MethodsIn(s) : /\ NamedIn(chunks, s.name, m.name)
                                     /\ LongEnough(stub, m) => Has(chunks, "method", s.name, m.name, m.from)

LEMMA ClassesDiffer ==
    ASSUME NEW classes, IsList(classes), AreLaid(classes), NEW stub,
           NEW parts, IsList(parts), DOMAIN parts = DOMAIN classes,
           \A i \in DOMAIN parts : OfClass(classes[i], stub, parts[i])
    PROVE  Differ(FlattenSeq(parts))
<1> DEFINE flat == FlattenSeq(parts)
<1>1. \A i \in DOMAIN parts : IsList(parts[i])
  BY DEF OfClass
<1>2. PICK at : Places(parts, flat, at)
  BY <1>1, FlattenPlaces
<1>3. DOMAIN parts = 1..Len(parts) /\ Len(parts) \in Nat
  BY ListIs
<1> HIDE DEF flat
<1> SUFFICES ASSUME NEW p \in DOMAIN flat, NEW q \in DOMAIN flat, flat[p].type = flat[q].type, flat[p].from = flat[q].from
             PROVE  p = q
  BY DEF Differ, flat
<1>4. PICK i \in DOMAIN parts : \E k \in DOMAIN parts[i] : at[<<i, k>>] = p
  BY <1>2, <1>3 DEF Places, PlacesUpTo
<1>5. PICK k \in DOMAIN parts[i] : at[<<i, k>>] = p
  BY <1>4
<1>6. PICK j \in DOMAIN parts : \E l \in DOMAIN parts[j] : at[<<j, l>>] = q
  BY <1>2, <1>3 DEF Places, PlacesUpTo
<1>7. PICK l \in DOMAIN parts[j] : at[<<j, l>>] = q
  BY <1>6
<1>8. flat[p] = parts[i][k] /\ flat[q] = parts[j][l]
  BY <1>2, <1>3, <1>5, <1>7 DEF Places, PlacesUpTo
<1> DEFINE c == parts[i][k]
           d == parts[j][l]
<1>9. /\ c.from \in Nat /\ classes[i].from <= c.from /\ c.from <= classes[i].to
      /\ d.from \in Nat /\ classes[j].from <= d.from /\ d.from <= classes[j].to
  <2>1. c \in Range(parts[i]) /\ d \in Range(parts[j])
    BY DEF Range
  <2> HIDE DEF c, d
  <2> QED BY <2>1 DEF OfClass
<1>10. c.type = d.type /\ c.from = d.from
  BY <1>8
<1> HIDE DEF c, d
<1>11. i = j
  <2>1. i \in Int /\ j \in Int
    BY <1>3
  <2>2. /\ classes[i].from \in Nat /\ classes[i].to \in Nat /\ classes[j].from \in Nat /\ classes[j].to \in Nat
        /\ i < j => classes[i].to < classes[j].from
        /\ j < i => classes[j].to < classes[i].from
    BY DEF AreLaid
  <2> QED BY <1>9, <1>10, <2>1, <2>2
<1>12. k = l
  BY <1>10, <1>11 DEF OfClass, Differ, c, d
<1> QED BY <1>5, <1>7, <1>11, <1>12

LEMMA ModuleChunksAre ==
    ASSUME NEW module, IsPython(module), NEW stub
    PROVE  OfModule(module, stub, BuildChunks(module, stub))
<1> DEFINE classes == Direct(module, "class")
           functions == Direct(module, "def")
           kept == Enough(stub, functions)
           end == IF module = <<>> THEN 0 ELSE Last(module).to
           overview == Chunk("module_overview", "", "", 1, end, NamesAmong(classes \o functions))
           parts == [i \in 1..Len(classes) |-> BuildClassChunks(classes[i], stub)]
           middle == FlattenSeq(parts)
           rest == OneEach("function", "", kept)
           all == <<overview>> \o middle \o rest
<1>1. BuildChunks(module, stub) = all
  BY DEF BuildChunks, OneEach, Enough
<1>2. /\ IsList(classes) /\ AreLaid(classes) /\ Range(classes) = {s \in Range(module) : s.is = "class"}
      /\ IsList(functions) /\ AreLaid(functions) /\ Range(functions) = {s \in Range(module) : s.is = "def"}
  BY DirectIs DEF IsPython
<1> HIDE DEF classes, functions
<1>3. IsList(kept) /\ AreLaid(kept) /\ Range(kept) = {s \in Range(functions) : LongEnough(stub, s)}
  BY <1>2, EnoughIs
<1> HIDE DEF kept
<1>4. DOMAIN classes = 1..Len(classes) /\ Len(classes) \in Nat /\ \A i \in DOMAIN classes : IsClass(classes[i])
  <2>1. DOMAIN classes = 1..Len(classes) /\ Len(classes) \in Nat /\ \A i \in DOMAIN classes : classes[i] \in Range(classes)
    BY <1>2, ListIs
  <2>2. ASSUME NEW i \in DOMAIN classes PROVE IsClass(classes[i])
    <3>1. {classes[i].from, classes[i].to} \subseteq Nat /\ classes[i].from <= classes[i].to
      BY <1>2 DEF AreLaid
    <3>2. classes[i] \in Range(module) /\ classes[i].is = "class"
      BY <1>2, <2>1
    <3> QED BY <3>1, <3>2 DEF IsClass, IsPython
  <2> QED BY <2>1, <2>2
<1>5. IsList(parts) /\ DOMAIN parts = DOMAIN classes
  <2>1. parts = [i \in 1..Len(classes) |-> parts[i]]
    OBVIOUS
  <2> HIDE DEF parts
  <2> QED BY <1>4, <2>1, ListOf
<1>6. \A i \in DOMAIN parts : OfClass(classes[i], stub, parts[i])
  <2> TAKE i \in DOMAIN parts
  <2>1. parts[i] = BuildClassChunks(classes[i], stub)
    BY <1>4, <1>5
  <2> HIDE DEF parts
  <2> QED BY <1>4, <1>5, <2>1, ClassChunksAre
<1> HIDE DEF parts
<1>7. IsList(middle) /\ Range(middle) = UNION {Range(parts[i]) : i \in DOMAIN parts} /\ Differ(middle)
  <2>1. \A i \in DOMAIN parts : IsList(parts[i])
    BY <1>6 DEF OfClass
  <2> QED BY <1>2, <1>5, <1>6, <2>1, FlattenRange, ClassesDiffer
<1>8. /\ IsList(rest) /\ Differ(rest)
      /\ \A c \in Range(rest) : c.type = "function" /\ c.class = "" /\ \E s \in Range(kept) : c.from = s.from
      /\ \A s \in Range(kept) : Has(rest, "function", "", s.name, s.from)
  BY <1>3, OneEachIs
<1>9. /\ overview.type = "module_overview" /\ overview.class = ""
      /\ overview.lists = {s.name : s \in Range(classes) \union Range(functions)}
  <2>1. IsList(classes \o functions) /\ Range(classes \o functions) = Range(classes) \union Range(functions)
    BY <1>2, JoinIs DEF Joined
  <2>2. NamesAmong(classes \o functions) = {s.name : s \in Range(classes \o functions)}
    BY <2>1, NamesAre
  <2> HIDE DEF end
  <2>3. overview.type = "module_overview" /\ overview.class = "" /\ overview.lists = NamesAmong(classes \o functions)
    BY DEF Chunk
  <2> HIDE DEF overview
  <2> QED BY <2>1, <2>2, <2>3
<1> HIDE DEF overview, rest, middle
<1>10. IsList(<<overview>>) /\ Range(<<overview>>) = {overview} /\ Differ(<<overview>>)
  <2>1. /\ IsList(<<overview>>) /\ Range(<<overview>>) = {overview} /\ Len(<<overview>>) = 1
    BY One
  <2>2. DOMAIN <<overview>> = 1..1
    BY <2>1, ListIs
  <2>3. \A i \in 1..1 : i = 1
    OBVIOUS
  <2> QED BY <2>1, <2>2, <2>3 DEF Differ
<1>11. \A c \in Range(middle) : c.type \in {"class_overview", "method"}
  BY <1>6, <1>7 DEF OfClass
<1> DEFINE first == <<overview>> \o middle
<1>12. IsList(first) /\ Range(first) = {overview} \union Range(middle) /\ Differ(first)
  <2>1. Joined(<<overview>>, middle, first)
    BY <1>7, <1>10, JoinIs
  <2>2. \A x \in Range(<<overview>>), y \in Range(middle) : x.type # y.type
    BY <1>9, <1>10, <1>11
  <2>3. Differ(first)
    BY <1>7, <1>10, <2>2, JoinDiffers
  <2> HIDE DEF first
  <2> QED BY <1>10, <2>1, <2>3 DEF Joined
<1> HIDE DEF first
<1>13. Range(all) = {overview} \union Range(middle) \union Range(rest) /\ Differ(all)
  <2>1. all = first \o rest
    BY DEF first
  <2>2. Joined(first, rest, first \o rest)
    BY <1>8, <1>12, JoinIs
  <2>3. \A x \in Range(first), y \in Range(rest) : x.type # y.type
    BY <1>8, <1>9, <1>11, <1>12
  <2>4. Differ(first \o rest)
    BY <1>8, <1>12, <2>3, JoinDiffers
  <2> HIDE DEF all
  <2> QED BY <1>12, <2>1, <2>2, <2>4 DEF Joined
<1> HIDE DEF all
<1>14. ASSUME NEW s \in Range(module), s.is = "def"
       PROVE  NamedIn(all, "", s.name) /\ (LongEnough(stub, s) => Has(all, "function", "", s.name, s.from))
  <2>1. NamedIn(all, "", s.name)
    BY <1>2, <1>9, <1>13, <1>14 DEF NamedIn
  <2>2. LongEnough(stub, s) => Has(rest, "function", "", s.name, s.from)
    BY <1>2, <1>3, <1>8, <1>14
  <2> QED BY <1>13, <2>1, <2>2 DEF Has
<1>15. ASSUME NEW s \in Range(module), s.is = "class"
       PROVE  /\ NamedIn(all, "", s.name) /\ Has(all, "class_overview", s.name, "", s.from)
              /\ \A m \in MethodsIn(s) : /\ NamedIn(all, s.name, m.name)
                                         /\ LongEnough(stub, m) => Has(all, "method", s.name, m.name, m.from)
  <2>1. NamedIn(all, "", s.name)
    BY <1>2, <1>9, <1>13, <1>15 DEF NamedIn
  <2>2. PICK i \in DOMAIN parts : s = classes[i]
    BY <1>2, <1>5, <1>15 DEF Range
  <2>3. OfClass(s, stub, parts[i]) /\ Range(parts[i]) \subseteq Range(all)
    BY <1>6, <1>7, <1>13, <2>2
  <2> QED BY <2>1, <2>3 DEF OfClass, Has, NamedIn
<1> QED BY <1>1, <1>13, <1>14, <1>15 DEF OfModule

LEMMA PythonIsListed ==
    ASSUME NEW module, IsPython(module), NEW stub \in BOOLEAN
    PROVE  PythonIdsDiffer(module, stub) /\ PythonIsFound(module, stub)
<1> DEFINE chunks == BuildChunks(module, stub)
<1>1. OfModule(module, stub, chunks)
  BY ModuleChunksAre
<1> HIDE DEF chunks
<1>2. PythonIdsDiffer(module, stub)
  <2> SUFFICES ASSUME NEW i \in DOMAIN chunks, NEW k \in DOMAIN chunks, ChunkId("", chunks[i]) = ChunkId("", chunks[k])
               PROVE  i = k
    BY DEF PythonIdsDiffer, chunks
  <2>1. chunks[i].type = chunks[k].type /\ chunks[i].from = chunks[k].from
    BY DEF ChunkId
  <2> QED BY <1>1, <2>1 DEF OfModule, Differ
<1>3. ASSUME NEW s, {s.from, s.to} \subseteq Nat, stub \/ s.to > s.from + 1 PROVE LongEnough(stub, s)
  BY <1>3 DEF LongEnough, MinMethodLines
<1>4. ASSUME NEW list, IsList(list), AreLaid(list), NEW s \in Range(list), stub \/ s.to > s.from + 1 PROVE LongEnough(stub, s)
  <2>1. {s.from, s.to} \subseteq Nat
    BY <1>4 DEF AreLaid, Range
  <2> QED BY <1>3, <1>4, <2>1
<1>5. ASSUME NEW s \in Range(module), s.is = "def"
      PROVE  NamedIn(chunks, "", s.name) /\ (stub \/ s.to > s.from + 1 => Has(chunks, "function", "", s.name, s.from))
  BY <1>1, <1>4, <1>5 DEF OfModule, IsPython
<1>6. ASSUME NEW s \in Range(module), s.is = "class"
      PROVE  /\ NamedIn(chunks, "", s.name) /\ Has(chunks, "class_overview", s.name, "", s.from)
             /\ \A m \in Range(s.body) : m.is = "def" =>
                   /\ NamedIn(chunks, s.name, m.name)
                   /\ stub \/ m.to > m.from + 1 => Has(chunks, "method", s.name, m.name, m.from)
  <2>1. IsList(s.body) /\ AreLaid(s.body)
    BY <1>6 DEF IsPython
  <2> SUFFICES ASSUME NEW m \in Range(s.body), m.is = "def"
               PROVE  /\ NamedIn(chunks, s.name, m.name)
                      /\ stub \/ m.to > m.from + 1 => Has(chunks, "method", s.name, m.name, m.from)
    BY <1>1, <1>6 DEF OfModule
  <2>2. m \in MethodsIn(s)
    BY DEF MethodsIn
  <2>3. NamedIn(chunks, s.name, m.name) /\ (LongEnough(stub, m) => Has(chunks, "method", s.name, m.name, m.from))
    BY <1>1, <1>6, <2>2 DEF OfModule
  <2> QED BY <1>4, <2>1, <2>3
<1>7. PythonIsFound(module, stub)
  BY <1>5, <1>6 DEF PythonIsFound, chunks
<1> QED BY <1>2, <1>7

-----------------------------------------------------------------------------
(* RST. *)

LEMMA RankIs ==
    ASSUME NEW n \in Nat, NEW S, S \subseteq 1..n, NEW x \in S, NEW k, Cardinality({y \in S : y <= x}) = k
    PROVE  k \in 1..Cardinality(S) /\ InOrder(S)[k] = x
<1>1. /\ \A z \in S : \E l \in 1..Cardinality(S) : InOrder(S)[l] = z
      /\ \A l \in 1..Cardinality(S) : Cardinality({y \in S : y <= InOrder(S)[l]}) = l
  BY InOrderRanks
<1>2. PICK l \in 1..Cardinality(S) : InOrder(S)[l] = x
  BY <1>1
<1> QED BY <1>1, <1>2

\* The keys of rows that are all above some others.
AllBefore(A, B) == \A i \in A, k \in B : i < k
KeysAreJoined(ls, A, B) == Keys(ls, A \union B) = Keys(ls, A) \o Keys(ls, B)

LEMMA KeysJoin ==
    ASSUME NEW ls, NEW n \in Nat, NEW A \in SUBSET (1..n), NEW B \in SUBSET (1..n), AllBefore(A, B)
    PROVE  KeysAreJoined(ls, A, B)
<1> DEFINE U == A \union B
           a == Cardinality(A)
           b == Cardinality(B)
           whole == Keys(ls, U)
           left == Keys(ls, A)
           right == Keys(ls, B)
<1>1. /\ IsFiniteSet(A) /\ IsFiniteSet(B) /\ a \in Nat /\ b \in Nat /\ Cardinality(U) = a + b /\ U \subseteq 1..n
  <2>1. IsFiniteSet(A) /\ IsFiniteSet(B)
    <3>1. IsFiniteSet(1..n) /\ A \in SUBSET (1..n) /\ B \in SUBSET (1..n)
      BY FS_Interval
    <3> QED BY <3>1, FS_Subset
  <2>2. A \cap B = {}
    BY DEF AllBefore
  <2>3. Cardinality(A \cap B) = 0
    BY <2>2, FS_EmptySet
  <2>4. Cardinality(A \union B) = Cardinality(A) + Cardinality(B) - Cardinality(A \cap B)
    BY <2>1, FS_Union
  <2>5. a \in Nat /\ b \in Nat
    BY <2>1, FS_CardinalityType
  <2> QED BY <2>1, <2>3, <2>4, <2>5
<1>2. /\ \A k \in 1..a : InOrder(A)[k] \in A /\ Cardinality({y \in A : y <= InOrder(A)[k]}) = k
      /\ \A k \in 1..b : InOrder(B)[k] \in B /\ Cardinality({y \in B : y <= InOrder(B)[k]}) = k
  <2>1. /\ InOrder(A) \in Seq(A) /\ Len(InOrder(A)) = a
        /\ \A k \in 1..a : Cardinality({y \in A : y <= InOrder(A)[k]}) = k
    BY InOrderRanks
  <2>2. /\ InOrder(B) \in Seq(B) /\ Len(InOrder(B)) = b
        /\ \A k \in 1..b : Cardinality({y \in B : y <= InOrder(B)[k]}) = k
    BY InOrderRanks
  <2> QED BY <2>1, <2>2
<1>3. ASSUME NEW k \in 1..a PROVE InOrder(U)[k] = InOrder(A)[k]
  <2> DEFINE x == InOrder(A)[k]
  <2>1. x \in A /\ Cardinality({y \in A : y <= x}) = k
    BY <1>2
  <2> HIDE DEF x
  <2>2. {y \in U : y <= x} = {y \in A : y <= x}
    <3>1. \A y \in B : ~(y <= x)
      <4> TAKE y \in B
      <4>1. x < y /\ x \in Int /\ y \in Int
        BY <2>1 DEF AllBefore
      <4> QED BY <4>1
    <3> QED BY <3>1
  <2>3. x \in U /\ Cardinality({y \in U : y <= x}) = k
    BY <2>1, <2>2
  <2> HIDE DEF U
  <2> QED BY <1>1, <2>3, RankIs DEF x
<1>4. ASSUME NEW k \in 1..b PROVE InOrder(U)[a + k] = InOrder(B)[k]
  <2> DEFINE x == InOrder(B)[k]
             C == {y \in B : y <= x}
  <2>1. x \in B /\ Cardinality(C) = k
    BY <1>2
  <2> HIDE DEF x
  <2>2. {y \in U : y <= x} = A \union C
    <3>1. \A y \in A : y <= x
      <4> TAKE y \in A
      <4>1. y < x /\ x \in Int /\ y \in Int
        BY <2>1 DEF AllBefore
      <4> QED BY <4>1
    <3> QED BY <3>1
  <2>3. Cardinality(A \union C) = a + k
    <3>1. IsFiniteSet(C) /\ C \subseteq B
      <4>1. C \in SUBSET B
        OBVIOUS
      <4> QED BY <1>1, <4>1, FS_Subset
    <3> HIDE DEF C
    <3>2. A \cap C = {}
      BY <3>1 DEF AllBefore
    <3>3. Cardinality(A \cap C) = 0
      BY <3>2, FS_EmptySet
    <3>4. Cardinality(A \union C) = Cardinality(A) + Cardinality(C) - Cardinality(A \cap C)
      BY <1>1, <3>1, FS_Union
    <3> QED BY <1>1, <2>1, <3>3, <3>4
  <2>4. x \in U /\ Cardinality({y \in U : y <= x}) = a + k
    BY <2>1, <2>2, <2>3
  <2> HIDE DEF U
  <2> QED BY <1>1, <2>4, RankIs DEF x
<1>5. /\ whole = [k \in 1..a + b |-> ls[InOrder(U)[k]].name]
      /\ left = [k \in 1..a |-> ls[InOrder(A)[k]].name]
      /\ right = [k \in 1..b |-> ls[InOrder(B)[k]].name]
  BY <1>1 DEF Keys
<1> HIDE DEF U, whole, left, right, a, b
<1>6. IsList(whole) /\ IsList(left) /\ IsList(right) /\ Len(whole) = a + b /\ Len(left) = a /\ Len(right) = b
  <2>1. whole = [k \in 1..a + b |-> whole[k]] /\ left = [k \in 1..a |-> left[k]] /\ right = [k \in 1..b |-> right[k]]
    BY <1>5
  <2>2. a + b \in Nat
    BY <1>1
  <2>3. IsList(whole) /\ Len(whole) = a + b
    BY <2>1, <2>2, ListOf
  <2>4. IsList(left) /\ Len(left) = a
    BY <1>1, <2>1, ListOf
  <2>5. IsList(right) /\ Len(right) = b
    BY <1>1, <2>1, ListOf
  <2> QED BY <2>3, <2>4, <2>5
<1> DEFINE j == left \o right
<1>7. Joined(left, right, j)
  BY <1>6, JoinIs
<1> HIDE DEF j
<1>8. IsList(j) /\ Len(j) = a + b /\ DOMAIN j = 1..a + b /\ DOMAIN whole = 1..a + b
  BY <1>6, <1>7, ListIs DEF Joined
<1>9. \A k \in 1..a + b : whole[k] = j[k]
  <2> TAKE k \in 1..a + b
  <2>1. CASE k \in 1..a
    <3>1. j[k] = left[k]
      BY <1>6, <1>7, <2>1 DEF Joined
    <3> QED BY <1>3, <1>5, <2>1, <3>1
  <2>2. CASE k \notin 1..a
    <3>1. PICK l \in 1..b : k = a + l
      BY <1>6, <1>7, <1>8, <2>2 DEF Joined
    <3>2. j[k] = right[l]
      BY <1>6, <1>7, <3>1 DEF Joined
    <3> QED BY <1>4, <1>5, <3>1, <3>2
  <2> QED BY <2>1, <2>2
<1>10. whole = j
  <2>1. whole \in Seq(Range(whole)) /\ j \in Seq(Range(j))
    BY <1>6, <1>8 DEF IsList
  <2>2. j = [k \in 1..a + b |-> j[k]] /\ whole = [k \in 1..a + b |-> whole[k]]
    BY <1>5, <1>8, <2>1
  <2> QED BY <1>9, <2>2
<1> QED BY <1>10 DEF whole, j, left, right, U, KeysAreJoined

LEMMA RstIs ==
    ASSUME NEW ls, IsRst(ls)
    PROVE  Len(ls) \in Nat /\ DOMAIN ls = 1..Len(ls) /\ \A i \in 1..Len(ls) : ls[i].kind \in RstKinds
<1>1. Len(ls) \in Nat /\ DOMAIN ls = 1..Len(ls) /\ \A i \in DOMAIN ls : ls[i] \in Range(ls)
  BY ListIs DEF IsRst
<1> QED BY <1>1 DEF IsRst

\* The first line of some kinds, or the end of the file.
IsNext(ls, from, ok, j) ==
    /\ j \in from..Len(ls) + 1 /\ (j <= Len(ls) => ls[j].kind \in ok)
    /\ \A k \in from..j - 1 : ls[k].kind \notin ok

LEMMA NextIs ==
    ASSUME NEW ls, Len(ls) \in Nat, NEW from \in 1..Len(ls) + 1, NEW ok
    PROVE  IsNext(ls, from, ok, NextOf(ls, from, ok))
<1> DEFINE n == Len(ls)
           I == {j \in from..n + 1 : j = n + 1 \/ ls[j].kind \in ok}
<1>1. PICK j \in I : \A k \in I : j <= k
  <2>1. n + 1 \in I
    OBVIOUS
  <2>2. I \subseteq Nat /\ I # {}
    BY <2>1
  <2> HIDE DEF I
  <2> QED BY <2>2, FirstIs
<1>2. \A k \in from..j - 1 : ls[k].kind \notin ok
  <2> TAKE k \in from..j - 1
  <2>1. j \in from..n + 1 /\ k \in from..n + 1 /\ ~(j <= k)
    BY <1>1
  <2> QED BY <1>1, <2>1
<1>3. j \in from..n + 1 /\ (j <= n => ls[j].kind \in ok)
  <2>1. j \in from..n + 1 /\ (j = n + 1 \/ ls[j].kind \in ok)
    BY <1>1
  <2> QED BY <2>1
<1>4. \E x \in from..Len(ls) + 1 : (x <= Len(ls) => ls[x].kind \in ok) /\ \A k \in from..x - 1 : ls[k].kind \notin ok
  BY <1>2, <1>3
<1> QED BY <1>4 DEF NextOf, IsNext

IsPast(ls, from, kinds, j) ==
    /\ j \in from..Len(ls) + 1 /\ (j <= Len(ls) => ls[j].kind \notin kinds)
    /\ \A k \in from..j - 1 : ls[k].kind \in kinds

LEMMA PastIs ==
    ASSUME NEW ls, IsRst(ls), NEW from \in 1..Len(ls) + 1, NEW kinds
    PROVE  IsPast(ls, from, kinds, Past(ls, from, kinds))
<1> DEFINE j == Past(ls, from, kinds)
<1>1. Len(ls) \in Nat /\ \A i \in 1..Len(ls) : ls[i].kind \in RstKinds
  BY RstIs
<1>2. IsNext(ls, from, RstKinds \ kinds, j)
  BY <1>1, NextIs DEF Past
<1> HIDE DEF j
<1>3. j \in from..Len(ls) + 1 /\ (j <= Len(ls) => ls[j].kind \notin kinds)
  BY <1>2 DEF IsNext
<1>4. ASSUME NEW k \in from..j - 1 PROVE ls[k].kind \in kinds
  <2>1. k \in 1..Len(ls)
    BY <1>1, <1>3
  <2> QED BY <1>1, <1>2, <2>1 DEF IsNext
<1> QED BY <1>3, <1>4 DEF IsPast, j

LEMMA SameNext ==
    ASSUME NEW ls, Len(ls) \in Nat, NEW a \in 1..Len(ls) + 1, NEW b \in a..Len(ls) + 1, NEW ok,
           \A k \in a..b - 1 : ls[k].kind \notin ok
    PROVE  NextOf(ls, a, ok) = NextOf(ls, b, ok)
<1> DEFINE x == NextOf(ls, a, ok)
           y == NextOf(ls, b, ok)
<1>1. IsNext(ls, a, ok, x) /\ IsNext(ls, b, ok, y)
  <2>1. b \in 1..Len(ls) + 1
    OBVIOUS
  <2> QED BY <2>1, NextIs
<1> HIDE DEF x, y
<1>2. x \in a..Len(ls) + 1 /\ y \in b..Len(ls) + 1
  BY <1>1 DEF IsNext
<1>3. ~(x < b)
  <2> SUFFICES ASSUME x < b PROVE FALSE
    OBVIOUS
  <2>1. x \in a..b - 1 /\ x <= Len(ls)
    BY <1>2
  <2> QED BY <1>1, <2>1 DEF IsNext
<1>4. ~(x < y)
  <2> SUFFICES ASSUME x < y PROVE FALSE
    OBVIOUS
  <2>1. x \in b..y - 1 /\ x <= Len(ls)
    BY <1>2, <1>3
  <2> QED BY <1>1, <2>1 DEF IsNext
<1>5. ~(y < x)
  <2> SUFFICES ASSUME y < x PROVE FALSE
    OBVIOUS
  <2>1. y \in a..x - 1 /\ y <= Len(ls)
    BY <1>2
  <2> QED BY <1>1, <2>1 DEF IsNext
<1> QED BY <1>2, <1>4, <1>5 DEF x, y

\* Where the title and the content after an anchor are.
AfterAnchor(ls, a) ==
    /\ TitleOf(ls, a) \in a + 1..Len(ls) + 1
    /\ TitleOf(ls, a) <= Len(ls) => ContentOf(ls, a) \in TitleOf(ls, a) + 1..Len(ls) + 1

LEMMA AnchorIs ==
    ASSUME NEW ls, IsRst(ls), NEW a \in 1..Len(ls)
    PROVE  AfterAnchor(ls, a)
<1>1. Len(ls) \in Nat
  BY RstIs
<1> DEFINE title == TitleOf(ls, a)
           rule == title + 1
           start == IF KindAt(ls, rule) = "rule" THEN rule + 1 ELSE rule
<1>2. IsPast(ls, a + 1, {"blank"}, title)
  <2>1. a + 1 \in 1..Len(ls) + 1
    BY <1>1
  <2> QED BY <2>1, PastIs DEF TitleOf
<1>3. ContentOf(ls, a) = Past(ls, start, {"blank"})
  BY DEF ContentOf
<1> HIDE DEF title
<1>4. title \in a + 1..Len(ls) + 1
  BY <1>2 DEF IsPast
<1>5. ASSUME title <= Len(ls) PROVE ContentOf(ls, a) \in title + 1..Len(ls) + 1
  <2>1. start \in 1..Len(ls) + 1 /\ start >= title + 1
    <3>1. rule \in 1..Len(ls) + 1
      BY <1>1, <1>4, <1>5
    <3>2. KindAt(ls, rule) = "rule" => rule <= Len(ls)
      BY DEF KindAt
    <3> QED BY <1>1, <1>4, <3>1, <3>2
  <2> HIDE DEF start
  <2>2. IsPast(ls, start, {"blank"}, ContentOf(ls, a))
    BY <1>3, <2>1, PastIs
  <2> QED BY <1>1, <1>4, <2>1, <2>2 DEF IsPast
<1> QED BY <1>4, <1>5 DEF AfterAnchor, title

\* An anchor with a title, and something after it.
IsTitled(ls, a) ==
    /\ KindAt(ls, TitleOf(ls, a)) = "title"
    /\ \E i \in DOMAIN ls : i > TitleOf(ls, a) /\ ls[i].kind \notin {"rule", "blank"}

EndOf(ls, a) == NextOf(ls, a + 1, {"anchor"})

InSection(ls, a, from, end) ==
    /\ TitleOf(ls, a) <= Len(ls) /\ from \in a + 1..Len(ls) /\ end \in from..Len(ls) + 1
    /\ end = NextOf(ls, from, {"anchor"})
    /\ end <= Len(ls) => ls[end].kind = "anchor"
    /\ \A k \in a + 1..from - 1 : ls[k].kind \in {"title", "rule", "blank"}
    /\ \A k \in a + 1..end - 1 : ls[k].kind # "anchor"

LEMMA SectionIs ==
    ASSUME NEW ls, IsRst(ls), NEW a \in 1..Len(ls), IsTitled(ls, a)
    PROVE  InSection(ls, a, ContentOf(ls, a), EndOf(ls, a))
<1> DEFINE n == Len(ls)
           title == TitleOf(ls, a)
           rule == title + 1
           start == IF KindAt(ls, rule) = "rule" THEN rule + 1 ELSE rule
           from == ContentOf(ls, a)
           end == EndOf(ls, a)
<1>1. n \in Nat /\ DOMAIN ls = 1..n
  BY RstIs
<1>2. IsPast(ls, a + 1, {"blank"}, title)
  <2>1. a + 1 \in 1..n + 1
    BY <1>1
  <2> QED BY <2>1, PastIs DEF TitleOf
<1>3. from = Past(ls, start, {"blank"})
  BY DEF ContentOf
<1>4. title \in a + 1..n /\ ls[title].kind = "title"
  <2>1. title \in a + 1..n + 1
    BY <1>2 DEF IsPast
  <2>2. KindAt(ls, title) = "title"
    BY DEF IsTitled
  <2> HIDE DEF title
  <2>3. title <= n
    BY <2>2 DEF KindAt
  <2> QED BY <1>1, <2>1, <2>2, <2>3 DEF KindAt
<1>5. PICK i \in 1..n : i > title /\ ls[i].kind \notin {"rule", "blank"}
  BY <1>1 DEF IsTitled
<1> HIDE DEF title, from
<1>6. /\ start \in title + 1..i /\ start \in 1..n + 1
      /\ \A k \in title + 1..start - 1 : ls[k].kind = "rule"
  <2>1. CASE KindAt(ls, rule) = "rule"
    <3>1. rule <= n /\ ls[rule].kind = "rule"
      <4>1. rule <= n
        BY <2>1 DEF KindAt
      <4> QED BY <2>1, <4>1 DEF KindAt
    <3>2. rule # i
      BY <1>5, <3>1
    <3>3. start = rule + 1 /\ \A k \in title + 1..start - 1 : k = rule
      BY <1>1, <1>4, <2>1
    <3> QED BY <1>1, <1>4, <1>5, <3>1, <3>2, <3>3
  <2>2. CASE KindAt(ls, rule) # "rule"
    BY <1>1, <1>4, <1>5, <2>2
  <2> QED BY <2>1, <2>2
<1> HIDE DEF start
<1>7. IsPast(ls, start, {"blank"}, from)
  BY <1>3, <1>6, PastIs
<1>8. from \in start..n
  <2>1. from \in start..n + 1
    BY <1>7 DEF IsPast
  <2>2. ~(i <= from - 1)
    <3> SUFFICES ASSUME i <= from - 1 PROVE FALSE
      OBVIOUS
    <3>1. i \in start..from - 1
      BY <1>1, <1>6, <2>1
    <3> QED BY <1>5, <1>7, <3>1 DEF IsPast
  <2> QED BY <1>1, <1>6, <2>1, <2>2
<1>9. \A k \in a + 1..from - 1 : ls[k].kind \in {"title", "rule", "blank"}
  <2> TAKE k \in a + 1..from - 1
  <2>1. \/ k \in a + 1..title - 1 \/ k = title \/ k \in title + 1..start - 1 \/ k \in start..from - 1
    BY <1>1, <1>4, <1>6, <1>8
  <2>2. CASE k \in a + 1..title - 1
    BY <1>2, <2>2 DEF IsPast
  <2>3. CASE k = title
    BY <1>4, <2>3
  <2>4. CASE k \in title + 1..start - 1
    BY <1>6, <2>4
  <2>5. CASE k \in start..from - 1
    BY <1>7, <2>5 DEF IsPast
  <2> QED BY <2>1, <2>2, <2>3, <2>4, <2>5
<1>10. from \in a + 1..n
  BY <1>1, <1>4, <1>6, <1>8
<1>11. end = NextOf(ls, from, {"anchor"})
  <2>1. a + 1 \in 1..n + 1 /\ from \in a + 1..n + 1
    BY <1>1, <1>10
  <2>2. \A k \in a + 1..from - 1 : ls[k].kind \notin {"anchor"}
    BY <1>9
  <2> QED BY <1>1, <2>1, <2>2, SameNext DEF EndOf
<1>12. IsNext(ls, from, {"anchor"}, end) /\ IsNext(ls, a + 1, {"anchor"}, end)
  <2>1. from \in 1..n + 1 /\ a + 1 \in 1..n + 1
    BY <1>1, <1>10
  <2>2. IsNext(ls, from, {"anchor"}, NextOf(ls, from, {"anchor"}))
    BY <1>1, <2>1, NextIs
  <2>3. IsNext(ls, a + 1, {"anchor"}, end)
    BY <1>1, <2>1, NextIs DEF EndOf
  <2> QED BY <1>11, <2>2, <2>3
<1> HIDE DEF end
<1>13. end \in from..n + 1 /\ (end <= n => ls[end].kind = "anchor") /\ \A k \in a + 1..end - 1 : ls[k].kind # "anchor"
  BY <1>12 DEF IsNext
<1> QED BY <1>4, <1>9, <1>10, <1>11, <1>13 DEF InSection, title, from, end

\* The last number of a set before another.
LEMMA LastBefore ==
    ASSUME NEW M, M \subseteq Nat, NEW i \in Nat, NEW l \in M, l < i
    PROVE  \E k \in M : k < i /\ l <= k /\ \A x \in M : x < i => x <= k
<1> DEFINE D == {d \in Nat : \E x \in M : x < i /\ d = i - x}
<1>1. PICK d \in D : \A e \in D : d <= e
  <2>1. D \subseteq Nat /\ i - l \in D
    <3>1. l \in Nat /\ i - l \in Nat
      OBVIOUS
    <3> QED BY <3>1
  <2>2. D # {}
    BY <2>1
  <2> HIDE DEF D
  <2> QED BY <2>1, <2>2, FirstIs
<1>2. PICK k \in M : k < i /\ d = i - k
  OBVIOUS
<1>3. ASSUME NEW x \in M, x < i PROVE x <= k
  <2>1. i - x \in Nat /\ x \in Nat /\ k \in Nat
    BY <1>3
  <2>2. i - x \in D
    BY <1>3, <2>1
  <2>3. d <= i - x
    BY <1>1, <2>2
  <2> HIDE DEF D
  <2> QED BY <1>2, <2>1, <2>3
<1> QED BY <1>2, <1>3

\* What is under a table: the rows before the next table or "or".
RowsOf(ls, table, end) ==
    {i \in table + 1..end - 1 : ls[i].kind = "row" /\ \A k \in table + 1..i : ls[k].kind \notin {"or", "table"}}

NotBroken(ls, from, end) == \A i \in from..end - 1 : ls[i].kind # "blank" \/ ls[i - 1].kind # "blank"

Over(ls, end, i) ==
    \/ i >= end
    \/ ls[i].kind \in {"or", "table"}
    \/ ls[i].kind = "blank" /\ i + 1 < end /\ ls[i + 1].kind = "blank"

LEMMA TableIs ==
    ASSUME NEW ls, IsRst(ls), NEW table \in 1..Len(ls), NEW end \in table + 1..Len(ls) + 1,
           end <= Len(ls) => ls[end].kind = "anchor", NotBroken(ls, table + 1, end)
    PROVE  ParseListTable(ls, table, end) = Keys(ls, RowsOf(ls, table, end))
<1> DEFINE n == Len(ls)
           p == Past(ls, table + 1, {"option"})
           first == Past(ls, p, {"blank"})
           isStop(j) == Over(ls, end, j) /\ \A k \in first..j - 1 : ~Over(ls, end, k)
           stop == CHOOSE j \in first..n + 1 : isStop(j)
<1>1. n \in Nat
  BY RstIs
<1>2. ParseListTable(ls, table, end) = Keys(ls, {i \in first..stop - 1 : ls[i].kind = "row"})
  BY DEF ParseListTable, Over
<1>3. IsPast(ls, table + 1, {"option"}, p) /\ p \in table + 1..end
  <2>1. table + 1 \in 1..n + 1
    BY <1>1
  <2>2. IsPast(ls, table + 1, {"option"}, p)
    BY <2>1, PastIs
  <2> HIDE DEF p
  <2>3. p \in table + 1..n + 1
    BY <2>2 DEF IsPast
  <2>4. ~(end < p)
    <3> SUFFICES ASSUME end < p PROVE FALSE
      OBVIOUS
    <3>1. end \in table + 1..p - 1 /\ end <= n
      BY <1>1, <2>3
    <3>2. ls[end].kind = "option"
      BY <2>2, <3>1 DEF IsPast
    <3> QED BY <3>1, <3>2
  <2> QED BY <1>1, <2>2, <2>3, <2>4
<1> HIDE DEF p
<1>4. IsPast(ls, p, {"blank"}, first) /\ first \in p..end
  <2>1. p \in 1..n + 1
    BY <1>1, <1>3
  <2>2. IsPast(ls, p, {"blank"}, first)
    BY <2>1, PastIs
  <2> HIDE DEF first
  <2>3. first \in p..n + 1
    BY <2>2 DEF IsPast
  <2>4. ~(end < first)
    <3> SUFFICES ASSUME end < first PROVE FALSE
      OBVIOUS
    <3>1. end \in p..first - 1 /\ end <= n
      BY <1>1, <1>3, <2>3
    <3>2. ls[end].kind = "blank"
      BY <2>2, <3>1 DEF IsPast
    <3> QED BY <3>1, <3>2
  <2> QED BY <1>1, <1>3, <2>2, <2>3, <2>4
<1> HIDE DEF first
<1>5. stop \in first..end /\ isStop(stop)
  <2> DEFINE J == {j \in first..n + 1 : Over(ls, end, j)}
  <2>1. end \in J
    BY <1>1, <1>3, <1>4 DEF Over
  <2>2. PICK j \in J : \A k \in J : j <= k
    <3>1. J \subseteq Nat /\ J # {}
      BY <1>1, <1>3, <1>4, <2>1
    <3> HIDE DEF J
    <3> QED BY <3>1, FirstIs
  <2>3. isStop(j)
    <3>1. ASSUME NEW k \in first..j - 1 PROVE ~Over(ls, end, k)
      <4>1. k \in first..n + 1 /\ ~(j <= k)
        BY <1>1, <1>3, <1>4
      <4>2. k \notin J
        BY <2>2, <4>1
      <4> QED BY <4>1, <4>2
    <3>2. Over(ls, end, j)
      OBVIOUS
    <3> QED BY <3>1, <3>2
  <2>4. stop \in first..n + 1 /\ isStop(stop)
    <3> HIDE DEF isStop
    <3> QED BY <2>3
  <2> HIDE DEF stop
  <2>5. ~(end < stop)
    <3> SUFFICES ASSUME end < stop PROVE FALSE
      OBVIOUS
    <3>1. end \in first..stop - 1
      BY <1>1, <1>3, <1>4, <2>4
    <3>2. Over(ls, end, end)
      BY <1>1 DEF Over
    <3> QED BY <2>4, <3>1, <3>2
  <2> QED BY <1>1, <1>3, <1>4, <2>4, <2>5
<1> HIDE DEF stop
<1>6. ASSUME NEW i \in first..stop - 1, ls[i].kind = "row" PROVE i \in RowsOf(ls, table, end)
  <2>1. i \in table + 1..end - 1
    BY <1>1, <1>3, <1>4, <1>5
  <2>2. ASSUME NEW k \in table + 1..i PROVE ls[k].kind \notin {"or", "table"}
    <3>1. k \in table + 1..p - 1 \/ k \in p..first - 1 \/ k \in first..stop - 1
      BY <1>1, <1>3, <1>4, <1>5
    <3>2. CASE k \in table + 1..p - 1
      BY <1>3, <3>2 DEF IsPast
    <3>3. CASE k \in p..first - 1
      BY <1>4, <3>3 DEF IsPast
    <3>4. CASE k \in first..stop - 1
      BY <1>5, <3>4 DEF Over
    <3> QED BY <3>1, <3>2, <3>3, <3>4
  <2> QED BY <1>6, <2>1, <2>2 DEF RowsOf
<1>7. ASSUME NEW i \in RowsOf(ls, table, end) PROVE i \in first..stop - 1 /\ ls[i].kind = "row"
  <2>1. /\ i \in table + 1..end - 1 /\ ls[i].kind = "row"
        /\ \A k \in table + 1..i : ls[k].kind \notin {"or", "table"}
    BY DEF RowsOf
  <2>2. i \notin table + 1..p - 1
    BY <1>3, <2>1 DEF IsPast
  <2>3. i \notin p..first - 1
    BY <1>4, <2>1 DEF IsPast
  <2>4. i >= first
    BY <1>1, <1>3, <1>4, <2>1, <2>2, <2>3
  <2>5. ~(stop <= i)
    <3> SUFFICES ASSUME stop <= i PROVE FALSE
      OBVIOUS
    <3>1. stop \in table + 1..i /\ ~(stop >= end)
      BY <1>1, <1>3, <1>4, <1>5, <2>1
    <3>2. ls[stop].kind = "blank" /\ stop + 1 < end /\ ls[stop + 1].kind = "blank"
      BY <1>5, <2>1, <3>1 DEF Over
    <3>3. stop + 1 \in table + 1..end - 1 /\ (stop + 1) - 1 = stop
      BY <3>1, <3>2
    <3> QED BY <3>2, <3>3 DEF NotBroken
  <2> QED BY <1>1, <1>3, <1>4, <1>5, <2>1, <2>4, <2>5
<1>8. {i \in first..stop - 1 : ls[i].kind = "row"} = RowsOf(ls, table, end)
  BY <1>6, <1>7
<1> QED BY <1>2, <1>8

\* The fields of a section by its tables.
TablesOf(ls, from, end) == {i \in from..end - 1 : ls[i].kind = "table"}
EitherIn(ls, from, end) == \E i \in from..end - 1 : ls[i].kind = "or"

FieldsAre(ls, from, end, fields) ==
    LET tables == InOrder(TablesOf(ls, from, end))
    IN  /\ Len(tables) = 0 => fields = <<>>
        /\ Len(tables) = 1 => fields = ParseListTable(ls, tables[1], end)
        /\ Len(tables) > 1 /\ EitherIn(ls, from, end) =>
              fields = FlattenSeq([i \in 1..Len(tables) |-> ParseListTable(ls, tables[i], end)])

LEMMA DefinitionIs ==
    ASSUME NEW ls, IsRst(ls), NEW a \in 1..Len(ls), NEW from \in 1..Len(ls), NEW end \in 1..Len(ls) + 1
    PROVE  LET t == TypeDefinition(ls, a, from, end)
           IN  t.name = ls[a].name /\ t.from = a /\ t.to = end - 1 /\ FieldsAre(ls, from, end, t.fields)
<1> DEFINE t == TypeDefinition(ls, a, from, end)
           tables == InOrder(TablesOf(ls, from, end))
           def(kind, fields) == [name |-> ls[a].name, from |-> a, to |-> end - 1, kind |-> kind, fields |-> fields]
           many == FlattenSeq([i \in 1..Len(tables) |-> ParseListTable(ls, tables[i], end)])
           other == IF from < end /\ ls[from].kind = "union" THEN "enum" ELSE "alias"
<1>1. Len(tables) \in Nat /\ (Len(tables) = 0 <=> tables = <<>>)
  <2>1. Len(ls) \in Nat /\ TablesOf(ls, from, end) \subseteq 1..Len(ls)
    <3>1. Len(ls) \in Nat
      BY RstIs
    <3> QED BY <3>1 DEF TablesOf
  <2>2. tables \in Seq(TablesOf(ls, from, end))
    BY <2>1, InOrderIs
  <2> HIDE DEF tables
  <2> QED BY <2>2
<1>2. t = CASE Len(tables) > 1 /\ EitherIn(ls, from, end) -> def("dict_or", many)
            [] tables # <<>> /\ ~(Len(tables) > 1 /\ EitherIn(ls, from, end)) -> def("dict", ParseListTable(ls, tables[1], end))
            [] OTHER -> def(other, <<>>)
  BY DEF TypeDefinition, TablesOf, EitherIn
<1>3. FieldsAre(ls, from, end, t.fields) =
        (/\ Len(tables) = 0 => t.fields = <<>>
         /\ Len(tables) = 1 => t.fields = ParseListTable(ls, tables[1], end)
         /\ Len(tables) > 1 /\ EitherIn(ls, from, end) => t.fields = many)
  BY DEF FieldsAre
<1> HIDE DEF many, other, tables, t
<1>4. \A kind, fields : LET d == def(kind, fields) IN d.name = ls[a].name /\ d.from = a /\ d.to = end - 1 /\ d.fields = fields
  OBVIOUS
<1> HIDE DEF def
<1>5. CASE Len(tables) > 1 /\ EitherIn(ls, from, end)
  <2>1. t = def("dict_or", many)
    BY <1>2, <1>5
  <2>2. t.name = ls[a].name /\ t.from = a /\ t.to = end - 1 /\ t.fields = many
    BY <1>4, <2>1
  <2>3. ~(Len(tables) = 0) /\ ~(Len(tables) = 1)
    <3>1. \A c \in Nat : c > 1 => ~(c = 0) /\ ~(c = 1)
      OBVIOUS
    <3> QED BY <1>1, <1>5, <3>1
  <2> QED BY <1>3, <2>2, <2>3 DEF t
<1>6. CASE tables # <<>> /\ ~(Len(tables) > 1 /\ EitherIn(ls, from, end))
  <2>1. t = def("dict", ParseListTable(ls, tables[1], end))
    BY <1>2, <1>6
  <2> QED BY <1>1, <1>3, <1>4, <1>6, <2>1 DEF t
<1>7. CASE tables = <<>>
  <2>1. t = def(other, <<>>)
    BY <1>1, <1>2, <1>7
  <2> QED BY <1>1, <1>3, <1>4, <1>7, <2>1 DEF t
<1> QED BY <1>5, <1>6, <1>7

\* Tables that "or" parts, and rows under them.
MarksOf(ls, a, end) == {i \in a..end - 1 : ls[i].kind \in {"table", "or", "row"}}
IsLastOf(i, places) == i \in places /\ \A k \in places : k <= i
IsUsual(ls, a, end) ==
    /\ \A i \in MarksOf(ls, a, end) : ls[i].kind = "table" <=>
          \A k \in MarksOf(ls, a, end) : IsLastOf(k, {l \in MarksOf(ls, a, end) : l < i}) => ls[k].kind = "or"
    /\ NotBroken(ls, a + 1, end)

RowsIn(ls, a, end) == {i \in a..end - 1 : ls[i].kind = "row"}

LEMMA RowsHaveTables ==
    ASSUME NEW ls, IsRst(ls), NEW a \in 1..Len(ls), NEW from, NEW end, InSection(ls, a, from, end),
           ls[a].kind = "anchor", IsUsual(ls, a, end), NEW row \in RowsIn(ls, a, end)
    PROVE  \E t \in TablesOf(ls, from, end) : row \in RowsOf(ls, t, end)
<1> DEFINE n == Len(ls)
           M == MarksOf(ls, a, end)
           R == RowsIn(ls, a, end)
           T == TablesOf(ls, from, end)
           lone == {i \in R : \A t \in T : i \notin RowsOf(ls, t, end)}
<1>1. n \in Nat /\ from \in a + 1..n /\ end \in from..n + 1
  BY RstIs DEF InSection
<1>2. M \subseteq Nat /\ R \subseteq M
  BY <1>1 DEF MarksOf, RowsIn
<1>3. SUFFICES ASSUME row \in lone PROVE FALSE
  OBVIOUS
<1>4. PICK i \in lone : \A j \in lone : i <= j
  <2>1. lone \subseteq Nat /\ lone # {}
    BY <1>2, <1>3
  <2> HIDE DEF lone
  <2> QED BY <2>1, FirstIs
<1>5. i \in M /\ i \in Nat /\ i \in a..end - 1 /\ ls[i].kind = "row"
  BY <1>2 DEF RowsIn
<1>6. PICK k \in M : IsLastOf(k, {l \in M : l < i}) /\ ls[k].kind # "or"
  <2>1. ~(ls[i].kind = "table")
    BY <1>5
  <2> HIDE DEF M
  <2> QED BY <1>5, <2>1 DEF IsUsual, M
<1>7. k < i /\ k \in a..end - 1 /\ ls[k].kind \in {"table", "row"} /\ \A x \in M : x < i => x <= k
  <2>1. k < i /\ \A x \in M : x < i => x <= k
    BY <1>6 DEF IsLastOf
  <2> QED BY <1>6, <2>1 DEF MarksOf
<1>8. ASSUME NEW x \in k + 1..i PROVE ls[x].kind \notin {"or", "table"}
  <2>1. CASE x = i
    BY <1>5, <2>1
  <2>2. CASE x # i
    <3>1. x < i /\ ~(x <= k) /\ x \in a..end - 1
      BY <1>1, <1>5, <1>7, <2>2
    <3>2. x \notin M
      <4> HIDE DEF M
      <4> QED BY <1>7, <3>1
    <3> QED BY <3>1, <3>2 DEF MarksOf
  <2> QED BY <2>1, <2>2
<1>9. CASE ls[k].kind = "table"
  <2>1. k \in T
    <3>1. k >= from
      <4>1. k # a
        BY <1>9
      <4>2. ~(k \in a + 1..from - 1)
        BY <1>9 DEF InSection
      <4> QED BY <1>1, <1>7, <4>1, <4>2
    <3> QED BY <1>1, <1>7, <1>9, <3>1 DEF TablesOf
  <2>2. i \in RowsOf(ls, k, end)
    <3>1. i \in k + 1..end - 1
      BY <1>1, <1>5, <1>7
    <3> QED BY <1>5, <1>8, <3>1 DEF RowsOf
  <2> QED BY <2>1, <2>2
<1>10. CASE ls[k].kind = "row"
  <2>1. k \in R
    BY <1>7, <1>10 DEF RowsIn
  <2>2. k \notin lone
    <3>1. ~(i <= k)
      BY <1>1, <1>5, <1>7
    <3> HIDE DEF lone
    <3> QED BY <1>4, <3>1
  <2>3. PICK t \in T : k \in RowsOf(ls, t, end)
    BY <2>1, <2>2
  <2>4. t \in from..end - 1 /\ k \in t + 1..end - 1 /\ \A x \in t + 1..k : ls[x].kind \notin {"or", "table"}
    BY <2>3 DEF RowsOf, TablesOf
  <2>5. i \in t + 1..end - 1
    BY <1>1, <1>5, <1>7, <2>4
  <2>6. ASSUME NEW x \in t + 1..i PROVE ls[x].kind \notin {"or", "table"}
    <3>1. x \in t + 1..k \/ x \in k + 1..i
      BY <1>1, <1>5, <1>7, <2>4
    <3> QED BY <1>8, <2>4, <3>1
  <2>7. i \in RowsOf(ls, t, end)
    BY <1>5, <2>5, <2>6 DEF RowsOf
  <2> QED BY <2>7
<1> QED BY <1>7, <1>9, <1>10

LEMMA OrParts ==
    ASSUME NEW ls, IsRst(ls), NEW a \in 1..Len(ls), NEW from, NEW end, InSection(ls, a, from, end),
           ls[a].kind = "anchor", IsUsual(ls, a, end),
           NEW s \in TablesOf(ls, from, end), NEW t \in TablesOf(ls, from, end), s < t
    PROVE  EitherIn(ls, from, end)
<1> DEFINE M == MarksOf(ls, a, end)
<1>1. Len(ls) \in Nat /\ from \in a + 1..Len(ls) /\ end \in from..Len(ls) + 1
  BY RstIs DEF InSection
<1>2. s \in M /\ t \in M /\ M \subseteq Nat /\ s \in from..end - 1 /\ t \in from..end - 1 /\ ls[t].kind = "table"
  BY <1>1 DEF TablesOf, MarksOf
<1>3. PICK k \in M : k < t /\ s <= k /\ \A x \in M : x < t => x <= k
  <2> HIDE DEF M
  <2>1. t \in Nat /\ s \in Nat
    BY <1>2
  <2> QED BY <1>2, <2>1, LastBefore
<1>4. IsLastOf(k, {l \in M : l < t})
  BY <1>3 DEF IsLastOf
<1>5. ls[k].kind = "or"
  <2> HIDE DEF M
  <2> QED BY <1>2, <1>4 DEF IsUsual, M
<1>6. k \in from..end - 1
  <2>1. k \in a..end - 1
    BY DEF MarksOf
  <2> HIDE DEF M
  <2> QED BY <1>1, <1>2, <1>3, <2>1
<1> QED BY <1>5, <1>6 DEF EitherIn

\* The rows under the first tables.
RowsUpTo(ls, tables, end, m) == UNION {RowsOf(ls, tables[j], end) : j \in 1..m}

LEMMA RowsJoin ==
    ASSUME NEW ls, IsRst(ls), NEW from \in 1..Len(ls), NEW end \in from..Len(ls) + 1,
           NEW m \in Nat, m + 1 \in 1..Cardinality(TablesOf(ls, from, end))
    PROVE  LET tables == InOrder(TablesOf(ls, from, end))
           IN  Keys(ls, RowsUpTo(ls, tables, end, m + 1)) =
               Keys(ls, RowsUpTo(ls, tables, end, m)) \o Keys(ls, RowsOf(ls, tables[m + 1], end))
<1> DEFINE n == Len(ls)
           T == TablesOf(ls, from, end)
           c == Cardinality(T)
           tables == InOrder(T)
           A == RowsUpTo(ls, tables, end, m)
           B == RowsOf(ls, tables[m + 1], end)
<1>1. n \in Nat /\ c \in Nat /\ \A j \in 1..c : tables[j] \in T /\ \A k \in 1..c : k < j => tables[k] < tables[j]
  <2>1. n \in Nat /\ T \subseteq 1..n
    BY RstIs DEF TablesOf
  <2>2. c \in Nat /\ tables \in Seq(T) /\ Len(tables) = c /\ \A k, j \in 1..c : k < j => tables[k] < tables[j]
    BY <2>1, InOrderIs
  <2> QED BY <2>1, <2>2
<1> HIDE DEF tables
<1>2. \A t \in T : t \in from..end - 1 /\ ls[t].kind = "table"
  BY DEF TablesOf
<1> HIDE DEF T
<1>3. RowsUpTo(ls, tables, end, m + 1) = A \union B
  <2>1. 1..m + 1 = (1..m) \union {m + 1}
    OBVIOUS
  <2> QED BY <2>1 DEF RowsUpTo
<1>4. \A j \in 1..m : j \in 1..c /\ tables[j] < tables[m + 1] /\ tables[j] \in T /\ tables[m + 1] \in T
  <2>1. m + 1 \in 1..c
    BY DEF T
  <2> TAKE j \in 1..m
  <2>2. j \in 1..c /\ j < m + 1
    BY <1>1, <2>1
  <2> HIDE DEF c
  <2> QED BY <1>1, <2>1, <2>2
<1>5. B \subseteq 1..n
  <2>1. tables[m + 1] \in from..end - 1
    BY <1>1, <1>2 DEF T
  <2> QED BY <1>1, <2>1 DEF RowsOf
<1>6. ASSUME NEW x \in A PROVE x \in 1..n /\ x < tables[m + 1]
  <2>1. PICK j \in 1..m : x \in RowsOf(ls, tables[j], end)
    BY DEF RowsUpTo
  <2>2. /\ tables[j] \in from..end - 1 /\ tables[m + 1] \in from..end - 1 /\ tables[j] < tables[m + 1]
        /\ ls[tables[m + 1]].kind = "table"
    BY <1>2, <1>4
  <2>3. x \in tables[j] + 1..end - 1 /\ \A k \in tables[j] + 1..x : ls[k].kind \notin {"or", "table"}
    BY <2>1 DEF RowsOf
  <2>4. tables[m + 1] \notin tables[j] + 1..x
    BY <2>2, <2>3
  <2> QED BY <1>1, <2>2, <2>3, <2>4
<1>7. \A x \in A, y \in B : x < y
  <2> TAKE x \in A, y \in B
  <2>1. tables[m + 1] \in from..end - 1
    BY <1>1, <1>2 DEF T
  <2>2. y \in tables[m + 1] + 1..end - 1
    BY DEF RowsOf
  <2>3. x \in 1..n /\ x < tables[m + 1]
    BY <1>6
  <2> QED BY <1>1, <2>1, <2>2, <2>3
<1>8. A \subseteq 1..n
  BY <1>6
<1> HIDE DEF A, B
<1>9. Keys(ls, A \union B) = Keys(ls, A) \o Keys(ls, B)
  <2>1. n \in Nat /\ A \subseteq 1..n /\ B \subseteq 1..n /\ \A i \in A, k \in B : i < k
    BY <1>1, <1>5, <1>7, <1>8
  <2> HIDE DEF n
  <2>2. A \in SUBSET (1..n) /\ B \in SUBSET (1..n) /\ AllBefore(A, B)
    BY <2>1 DEF AllBefore
  <2>3. KeysAreJoined(ls, A, B)
    BY <2>1, <2>2, KeysJoin
  <2> QED BY <2>3 DEF KeysAreJoined
<1> QED BY <1>3, <1>9 DEF A, B, tables, T

LEMMA AllKeysAreThere ==
    ASSUME NEW ls, IsRst(ls), NEW a \in 1..Len(ls), NEW from, NEW end, InSection(ls, a, from, end),
           ls[a].kind = "anchor", IsUsual(ls, a, end), NEW fields, FieldsAre(ls, from, end, fields)
    PROVE  fields = Keys(ls, RowsIn(ls, a, end))
<1> DEFINE n == Len(ls)
           T == TablesOf(ls, from, end)
           tables == InOrder(T)
           c == Cardinality(T)
           R == RowsIn(ls, a, end)
<1>1. /\ n \in Nat /\ from \in a + 1..n /\ end \in from..n + 1 /\ from \in 1..n
      /\ end <= n => ls[end].kind = "anchor"
  BY RstIs DEF InSection
<1>2. /\ c \in Nat /\ tables \in Seq(T) /\ Len(tables) = c /\ \A t \in T : \E k \in 1..c : tables[k] = t
      /\ \A j \in 1..c : tables[j] \in T /\ \A k \in 1..c : k < j => tables[k] < tables[j]
  <2>1. T \subseteq 1..n
    BY <1>1 DEF TablesOf
  <2>2. /\ c \in Nat /\ tables \in Seq(T) /\ Len(tables) = c /\ \A k, j \in 1..c : k < j => tables[k] < tables[j]
        /\ \A t \in T : \E k \in 1..c : tables[k] = t
    BY <1>1, <2>1, InOrderIs
  <2> QED BY <2>2
<1>3. R = RowsUpTo(ls, tables, end, c)
  <2>1. ASSUME NEW x \in R PROVE x \in RowsUpTo(ls, tables, end, c)
    <3>1. PICK t \in T : x \in RowsOf(ls, t, end)
      BY RowsHaveTables
    <3>2. PICK k \in 1..c : tables[k] = t
      BY <1>2
    <3> QED BY <3>1, <3>2 DEF RowsUpTo
  <2>2. ASSUME NEW x \in RowsUpTo(ls, tables, end, c) PROVE x \in R
    <3>1. PICK k \in 1..c : x \in RowsOf(ls, tables[k], end)
      BY <2>2 DEF RowsUpTo
    <3>2. tables[k] \in from..end - 1
      BY <1>2 DEF TablesOf
    <3>3. x \in tables[k] + 1..end - 1 /\ ls[x].kind = "row"
      BY <3>1 DEF RowsOf
    <3> HIDE DEF tables
    <3>4. x \in a..end - 1
      BY <1>1, <3>2, <3>3
    <3> QED BY <3>3, <3>4 DEF RowsIn
  <2> QED BY <2>1, <2>2
<1>4. ASSUME NEW k \in 1..c PROVE ParseListTable(ls, tables[k], end) = Keys(ls, RowsOf(ls, tables[k], end))
  <2>1. tables[k] \in from..end - 1
    BY <1>2 DEF TablesOf
  <2> HIDE DEF tables
  <2>2. tables[k] \in 1..n /\ end \in tables[k] + 1..n + 1
    BY <1>1, <2>1
  <2>3. NotBroken(ls, tables[k] + 1, end)
    <3>1. NotBroken(ls, a + 1, end)
      BY DEF IsUsual
    <3>2. tables[k] + 1..end - 1 \subseteq a + 1..end - 1
      BY <1>1, <2>1
    <3> QED BY <3>1, <3>2 DEF NotBroken
  <2> QED BY <1>1, <2>2, <2>3, TableIs
<1>5. /\ c = 0 => fields = <<>>
      /\ c = 1 => fields = ParseListTable(ls, tables[1], end)
      /\ c > 1 /\ EitherIn(ls, from, end) => fields = FlattenSeq([i \in 1..c |-> ParseListTable(ls, tables[i], end)])
  BY <1>2 DEF FieldsAre
<1> DEFINE rows(m) == RowsUpTo(ls, tables, end, m)
<1>6. ASSUME NEW m \in Nat, m + 1 \in 1..c
      PROVE  Keys(ls, rows(m + 1)) = Keys(ls, rows(m)) \o Keys(ls, RowsOf(ls, tables[m + 1], end))
  BY <1>1, <1>6, RowsJoin
<1>7. c > 1 => EitherIn(ls, from, end)
  <2> SUFFICES ASSUME c > 1 PROVE EitherIn(ls, from, end)
    OBVIOUS
  <2>1. 1 \in 1..c /\ 2 \in 1..c /\ 1 < 2
    BY <1>2
  <2>2. tables[1] \in T /\ tables[2] \in T /\ tables[1] < tables[2]
    <3> HIDE DEF tables, T, c
    <3> QED BY <1>2, <2>1
  <2> HIDE DEF tables
  <2> QED BY <2>2, OrParts
<1>8. rows(1) = RowsOf(ls, tables[1], end)
  <2>1. 1..1 = {1}
    OBVIOUS
  <2> QED BY <2>1 DEF RowsUpTo
<1> HIDE DEF tables, c, T, R
<1>9. CASE c = 0
  <2>1. R = {}
    BY <1>3, <1>9 DEF RowsUpTo
  <2>2. Keys(ls, R) = <<>>
    BY <2>1, FS_EmptySet DEF Keys
  <2> QED BY <1>5, <1>9, <2>2 DEF R
<1>10. CASE c = 1
  <2>1. 1 \in 1..c
    BY <1>10
  <2> QED BY <1>3, <1>4, <1>5, <1>8, <1>10, <2>1 DEF R
<1>11. CASE c > 1
  <2> DEFINE s == [i \in 1..c |-> ParseListTable(ls, tables[i], end)]
             g == [i \in 1..c |-> Keys(ls, rows(i))]
  <2>1. Len(s) = c
    <3>1. s = [i \in 1..c |-> s[i]]
      OBVIOUS
    <3> HIDE DEF s
    <3> QED BY <1>2, <3>1, ListOf
  <2>2. \A i \in 1..c : s[i] = Keys(ls, RowsOf(ls, tables[i], end))
    BY <1>4
  <2>3. \A i \in 1..c : g[i] = Keys(ls, rows(i))
    OBVIOUS
  <2>4. fields = FlattenSeq(s)
    BY <1>5, <1>7, <1>11
  <2>5. g = [i \in 1..c |-> g[i]]
    OBVIOUS
  <2> HIDE DEF s, g, rows
  <2>6. ASSUME NEW i \in 1..c PROVE g[i] = IF i = 1 THEN s[i] ELSE g[i - 1] \o s[i]
    <3>1. CASE i = 1
      BY <1>8, <2>2, <2>3, <3>1
    <3>2. CASE i # 1
      <4>1. i - 1 \in 1..c /\ i - 1 \in Nat /\ (i - 1) + 1 = i /\ (i - 1) + 1 \in 1..c
        BY <1>2, <3>2
      <4>2. Keys(ls, rows((i - 1) + 1)) = Keys(ls, rows(i - 1)) \o Keys(ls, RowsOf(ls, tables[(i - 1) + 1], end))
        BY <1>6, <4>1
      <4>3. Keys(ls, rows(i)) = Keys(ls, rows(i - 1)) \o Keys(ls, RowsOf(ls, tables[i], end))
        BY <4>1, <4>2
      <4> QED BY <2>2, <2>3, <3>2, <4>1, <4>3
    <3> QED BY <3>1, <3>2
  <2>7. g = [i \in 1..Len(s) |-> IF i = 1 THEN s[i] ELSE g[i - 1] \o s[i]]
    BY <2>1, <2>5, <2>6
  <2>8. FlattenSeq(s) = g[Len(s)]
    <3>1. Len(s) \in Nat \ {0}
      BY <1>2, <1>11, <2>1
    <3> QED BY <2>7, <3>1, FlattenIs
  <2>9. c \in 1..c
    BY <1>2, <1>11
  <2> QED BY <1>3, <2>1, <2>3, <2>4, <2>8, <2>9 DEF R, rows
<1> QED BY <1>2, <1>9, <1>10, <1>11

\* The parse of a file, from any line of it on.
AnchorFrom(ls, i) == NextOf(ls, i, {"anchor"})
StopsAt(ls, i) ==
    LET x == AnchorFrom(ls, i)
    IN  x > Len(ls) \/ TitleOf(ls, x) > Len(ls) \/ ContentOf(ls, x) > Len(ls)
AfterOf(ls, i) == NextOf(ls, ContentOf(ls, AnchorFrom(ls, i)), {"anchor"})
TypeAt(ls, x) == TypeDefinition(ls, x, ContentOf(ls, x), NextOf(ls, ContentOf(ls, x), {"anchor"}))
Parsed(ls, rest, i) ==
    IF StopsAt(ls, i) THEN <<>> ELSE <<TypeAt(ls, AnchorFrom(ls, i))>> \o rest[AfterOf(ls, i)]
IsParse(ls, m, types) == types = [i \in m..Len(ls) + 1 |-> Parsed(ls, types, i)]

LEMMA ParseAdvances ==
    ASSUME NEW ls, IsRst(ls), NEW i \in 1..Len(ls) + 1
    PROVE  /\ i = Len(ls) + 1 => StopsAt(ls, i)
           /\ ~StopsAt(ls, i) => AfterOf(ls, i) \in i + 1..Len(ls) + 1
<1> DEFINE n == Len(ls)
           x == AnchorFrom(ls, i)
           from == ContentOf(ls, x)
<1>1. n \in Nat
  BY RstIs
<1>2. IsNext(ls, i, {"anchor"}, x)
  BY <1>1, NextIs DEF AnchorFrom
<1> HIDE DEF x
<1>3. x \in i..n + 1
  BY <1>2 DEF IsNext
<1>4. i = n + 1 => StopsAt(ls, i)
  BY <1>1, <1>3 DEF StopsAt, x
<1>5. ASSUME ~StopsAt(ls, i) PROVE AfterOf(ls, i) \in i + 1..n + 1
  <2>1. ~(x > n) /\ ~(TitleOf(ls, x) > n) /\ ~(from > n)
    BY <1>5 DEF StopsAt, x
  <2>2. AfterOf(ls, i) = NextOf(ls, from, {"anchor"})
    BY DEF AfterOf, x
  <2>3. x \in 1..n
    BY <1>1, <1>3, <2>1
  <2>4. AfterAnchor(ls, x)
    BY <2>3, AnchorIs
  <2>5. from \in i + 1..n /\ from \in 1..n + 1
    <3> HIDE DEF from
    <3>1. TitleOf(ls, x) \in x + 1..n + 1 /\ (TitleOf(ls, x) <= n => from \in TitleOf(ls, x) + 1..n + 1)
      BY <2>4 DEF AfterAnchor, from
    <3> QED BY <1>1, <1>3, <2>1, <3>1
  <2> HIDE DEF from
  <2>6. IsNext(ls, from, {"anchor"}, NextOf(ls, from, {"anchor"}))
    BY <1>1, <2>5, NextIs
  <2>7. AfterOf(ls, i) \in from..n + 1
    BY <2>2, <2>6 DEF IsNext
  <2> QED BY <1>1, <2>5, <2>7
<1> QED BY <1>4, <1>5

LEMMA ParseExists ==
    ASSUME NEW ls, IsRst(ls)
    PROVE  \E types : IsParse(ls, 1, types)
<1> DEFINE n == Len(ls)
           has(m) == \E types : IsParse(ls, m, types)
           wrong == {d \in 0..n : ~has(n + 1 - d)}
<1>1. n \in Nat
  BY RstIs
<1>2. has(n + 1)
  <2> DEFINE types == [i \in n + 1..n + 1 |-> <<>>]
  <2>1. \A i \in n + 1..n + 1 : StopsAt(ls, i)
    BY <1>1, ParseAdvances
  <2>2. \A i \in n + 1..n + 1 : types[i] = Parsed(ls, types, i)
    BY <2>1 DEF Parsed
  <2>3. types = [i \in n + 1..n + 1 |-> types[i]]
    OBVIOUS
  <2> HIDE DEF types
  <2>4. IsParse(ls, n + 1, types)
    BY <2>2, <2>3 DEF IsParse
  <2> QED BY <2>4
<1>3. ASSUME NEW m \in 1..n, has(m + 1) PROVE has(m)
  <2>1. PICK types : IsParse(ls, m + 1, types)
    BY <1>3
  <2> DEFINE new == [i \in m..n + 1 |-> IF i = m THEN Parsed(ls, types, m) ELSE types[i]]
  <2>2. \A i \in m..n + 1 : i = m \/ i \in m + 1..n + 1
    BY <1>1
  <2>3. \A i \in m + 1..n + 1 : i \in m..n + 1 /\ i # m /\ new[i] = types[i] /\ types[i] = Parsed(ls, types, i)
    BY <1>1, <2>1 DEF IsParse
  <2>4. m \in m..n + 1 /\ new[m] = Parsed(ls, types, m)
    BY <1>1
  <2>5. ASSUME NEW i \in m..n + 1 PROVE Parsed(ls, types, i) = Parsed(ls, new, i)
    <3>1. i \in 1..n + 1
      BY <1>1
    <3>2. ~StopsAt(ls, i) => AfterOf(ls, i) \in i + 1..n + 1
      BY <3>1, ParseAdvances
    <3>3. ~StopsAt(ls, i) => AfterOf(ls, i) \in m + 1..n + 1
      BY <1>1, <3>2
    <3>4. ~StopsAt(ls, i) => new[AfterOf(ls, i)] = types[AfterOf(ls, i)]
      BY <2>3, <3>3
    <3> HIDE DEF new
    <3> QED BY <3>4 DEF Parsed
  <2>6. new = [i \in m..n + 1 |-> new[i]]
    OBVIOUS
  <2> HIDE DEF new
  <2>7. \A i \in m..n + 1 : new[i] = Parsed(ls, new, i)
    <3> TAKE i \in m..n + 1
    <3>1. Parsed(ls, types, i) = Parsed(ls, new, i)
      BY <2>5
    <3>2. new[i] = Parsed(ls, types, i)
      BY <2>2, <2>3, <2>4
    <3> QED BY <3>1, <3>2
  <2>8. IsParse(ls, m, new)
    BY <2>6, <2>7 DEF IsParse
  <2> QED BY <2>8
<1> HIDE DEF has
<1>4. wrong = {}
  <2> SUFFICES ASSUME wrong # {} PROVE FALSE
    OBVIOUS
  <2>1. PICK d \in wrong : \A e \in wrong : d <= e
    <3>1. wrong \subseteq Nat
      OBVIOUS
    <3> HIDE DEF wrong
    <3> QED BY <3>1, FirstIs
  <2>2. d \in 0..n /\ ~has(n + 1 - d)
    OBVIOUS
  <2>3. d # 0
    BY <1>1, <1>2, <2>2
  <2>4. d - 1 \in 0..n /\ ~(d <= d - 1) /\ n + 1 - d \in 1..n /\ n + 1 - (d - 1) = (n + 1 - d) + 1
    BY <1>1, <2>2, <2>3
  <2>5. has(n + 1 - (d - 1))
    <3>1. d - 1 \notin wrong
      <4> HIDE DEF wrong
      <4> QED BY <2>1, <2>4
    <3> QED BY <2>4, <3>1
  <2>6. has(n + 1 - d)
    BY <1>3, <2>4, <2>5
  <2> QED BY <2>2, <2>6
<1>5. has(n + 1 - n)
  BY <1>1, <1>4
<1>6. n + 1 - n = 1
  BY <1>1
<1> QED BY <1>5, <1>6 DEF has

\* What is parsed from a line on: a type for each anchor there.
AnchorsFrom(ls, m) == {i \in m..Len(ls) : ls[i].kind = "anchor"}
TypesFrom(ls, m, found) ==
    /\ IsList(found) /\ Len(found) = Cardinality(AnchorsFrom(ls, m))
    /\ \A x \in AnchorsFrom(ls, m) : TypeAt(ls, x) \in Range(found)

LEMMA OneTypeMore ==
    ASSUME NEW ls, IsRst(ls), \A x \in AnchorsFrom(ls, 1) : IsTitled(ls, x),
           NEW types, IsParse(ls, 1, types), NEW i \in 1..Len(ls) + 1,
           \A m \in i + 1..Len(ls) + 1 : TypesFrom(ls, m, types[m])
    PROVE  TypesFrom(ls, i, types[i])
<1> DEFINE n == Len(ls)
           x == AnchorFrom(ls, i)
           from == ContentOf(ls, x)
           end == EndOf(ls, x)
<1>1. n \in Nat
  BY RstIs
<1>2. IsNext(ls, i, {"anchor"}, x)
  BY <1>1, NextIs DEF AnchorFrom
<1> HIDE DEF x
<1>3. x \in i..n + 1 /\ (x <= n => ls[x].kind = "anchor") /\ \A k \in i..x - 1 : ls[k].kind # "anchor"
  BY <1>2 DEF IsNext
<1>4. types[i] = Parsed(ls, types, i)
  BY DEF IsParse
<1>5. CASE x = n + 1
  <2>1. AnchorsFrom(ls, i) = {}
    <3>1. n = (n + 1) - 1
      BY <1>1
    <3> QED BY <1>3, <1>5, <3>1 DEF AnchorsFrom
  <2>2. types[i] = <<>>
    <3>1. x > n
      BY <1>1, <1>5
    <3>2. StopsAt(ls, i)
      BY <3>1 DEF StopsAt, x
    <3> QED BY <1>4, <3>2 DEF Parsed
  <2>3. IsList(<<>>) /\ Len(<<>>) = 0
    BY DEF IsList, Range
  <2> QED BY <2>1, <2>2, <2>3, FS_EmptySet DEF TypesFrom
<1>6. CASE x # n + 1
  <2>1. x \in 1..n /\ x \in AnchorsFrom(ls, 1) /\ x \in AnchorsFrom(ls, i)
    BY <1>1, <1>3, <1>6 DEF AnchorsFrom
  <2>2. InSection(ls, x, from, end)
    BY <2>1, SectionIs
  <2> HIDE DEF from, end
  <2>3. /\ TitleOf(ls, x) <= n /\ from \in x + 1..n /\ end \in from..n + 1 /\ end = NextOf(ls, from, {"anchor"})
        /\ \A k \in x + 1..end - 1 : ls[k].kind # "anchor"
    BY <2>2 DEF InSection
  <2>4. ~StopsAt(ls, i) /\ AfterOf(ls, i) = end
    <3>1. ~(x > n) /\ ~(from > n)
      BY <1>1, <2>1, <2>3
    <3>2. ~(TitleOf(ls, x) > n)
      <4>1. AfterAnchor(ls, x)
        BY <2>1, AnchorIs
      <4>2. TitleOf(ls, x) \in x + 1..n + 1
        BY <4>1 DEF AfterAnchor
      <4> QED BY <1>1, <2>1, <2>3, <4>2
    <3> QED BY <2>3, <3>1, <3>2 DEF StopsAt, AfterOf, x, from
  <2>5. types[i] = <<TypeAt(ls, x)>> \o types[end]
    BY <1>4, <2>4 DEF Parsed, x
  <2>6. TypesFrom(ls, end, types[end])
    <3>1. end \in i + 1..n + 1
      BY <1>1, <1>3, <2>1, <2>3
    <3> QED BY <3>1
  <2>7. AnchorsFrom(ls, i) = AnchorsFrom(ls, end) \union {x} /\ x \notin AnchorsFrom(ls, end)
    <3>1. ASSUME NEW k \in AnchorsFrom(ls, i), k # x PROVE k \in AnchorsFrom(ls, end)
      <4>1. k \in i..n /\ ls[k].kind = "anchor"
        BY DEF AnchorsFrom
      <4>2. k \notin i..x - 1 /\ k \notin x + 1..end - 1
        BY <1>3, <2>3, <4>1
      <4>3. k \in end..n
        BY <1>1, <1>3, <2>1, <2>3, <3>1, <4>1, <4>2
      <4> QED BY <4>1, <4>3 DEF AnchorsFrom
    <3>2. end..n \subseteq i..n /\ x \notin end..n
      BY <1>1, <1>3, <2>1, <2>3
    <3>3. AnchorsFrom(ls, end) \subseteq AnchorsFrom(ls, i) /\ x \notin AnchorsFrom(ls, end)
      BY <3>2 DEF AnchorsFrom
    <3> QED BY <2>1, <3>1, <3>3
  <2>8. IsFiniteSet(AnchorsFrom(ls, end))
    <3>1. end \in Int
      BY <1>1, <2>1, <2>3
    <3>2. IsFiniteSet(end..n) /\ AnchorsFrom(ls, end) \in SUBSET (end..n)
      BY <1>1, <3>1, FS_Interval DEF AnchorsFrom
    <3> QED BY <3>2, FS_Subset
  <2>9. Cardinality(AnchorsFrom(ls, i)) = Cardinality(AnchorsFrom(ls, end)) + 1 /\ Cardinality(AnchorsFrom(ls, end)) \in Nat
    BY <2>7, <2>8, FS_AddElement, FS_CardinalityType
  <2> DEFINE rest == types[end]
             one == <<TypeAt(ls, x)>>
  <2>10. IsList(one) /\ Len(one) = 1 /\ Range(one) = {TypeAt(ls, x)}
    BY One
  <2>11. IsList(rest) /\ Len(rest) = Cardinality(AnchorsFrom(ls, end))
    BY <2>6 DEF TypesFrom
  <2>12. \A y \in AnchorsFrom(ls, end) : TypeAt(ls, y) \in Range(rest)
    BY <2>6 DEF TypesFrom
  <2> HIDE DEF rest, one
  <2>13. Joined(one, rest, one \o rest)
    BY <2>10, <2>11, JoinIs
  <2>14. types[i] = one \o rest
    BY <2>5 DEF one, rest
  <2>15. IsList(types[i]) /\ Len(types[i]) = Cardinality(AnchorsFrom(ls, i))
    BY <2>9, <2>10, <2>11, <2>13, <2>14 DEF Joined
  <2>16. Range(types[i]) = {TypeAt(ls, x)} \union Range(rest)
    BY <2>10, <2>13, <2>14 DEF Joined
  <2>17. \A y \in AnchorsFrom(ls, i) : TypeAt(ls, y) \in Range(types[i])
    BY <2>7, <2>12, <2>16
  <2> QED BY <2>15, <2>17 DEF TypesFrom
<1> QED BY <1>5, <1>6

LEMMA AllTypesAreParsed ==
    ASSUME NEW ls, IsRst(ls), \A x \in AnchorsFrom(ls, 1) : IsTitled(ls, x)
    PROVE  TypesFrom(ls, 1, ParseRstTypes(ls))
<1> DEFINE n == Len(ls)
           types == CHOOSE t : IsParse(ls, 1, t)
           wrong == {d \in 0..n : ~TypesFrom(ls, n + 1 - d, types[n + 1 - d])}
<1>1. n \in Nat
  BY RstIs
<1>2. ParseRstTypes(ls) = types[1]
  BY DEF ParseRstTypes, IsParse, Parsed, StopsAt, AfterOf, TypeAt, AnchorFrom
<1>3. IsParse(ls, 1, types)
  BY ParseExists
<1> HIDE DEF types
<1>4. wrong = {}
  <2> SUFFICES ASSUME wrong # {} PROVE FALSE
    OBVIOUS
  <2>1. PICK d \in wrong : \A e \in wrong : d <= e
    <3>1. wrong \subseteq Nat
      OBVIOUS
    <3> HIDE DEF wrong
    <3> QED BY <3>1, FirstIs
  <2> DEFINE i == n + 1 - d
  <2>2. d \in 0..n /\ ~TypesFrom(ls, i, types[i])
    OBVIOUS
  <2>3. i \in 1..n + 1
    BY <1>1, <2>2
  <2>4. ASSUME NEW m \in i + 1..n + 1 PROVE TypesFrom(ls, m, types[m])
    <3>1. n + 1 - m \in 0..n /\ ~(d <= n + 1 - m) /\ n + 1 - (n + 1 - m) = m
      BY <1>1, <2>2
    <3>2. n + 1 - m \notin wrong
      <4> HIDE DEF wrong
      <4> QED BY <2>1, <3>1
    <3> QED BY <3>1, <3>2
  <2> HIDE DEF i, wrong
  <2>5. TypesFrom(ls, i, types[i])
    BY <1>3, <2>3, <2>4, OneTypeMore
  <2> QED BY <2>2, <2>5
<1>5. n + 1 - n = 1 /\ n \in 0..n
  BY <1>1
<1>6. TypesFrom(ls, n + 1 - n, types[n + 1 - n])
  BY <1>4, <1>5
<1> QED BY <1>2, <1>5, <1>6

LEMMA AllTypesAreFound ==
    ASSUME NEW ls, IsRst(ls)
    PROVE  TypesAreFound(ls)
<1> DEFINE n == Len(ls)
           types == ParseRstTypes(ls)
           anchors == {i \in DOMAIN ls : ls[i].kind = "anchor"}
           wellFormed == \A a \in anchors : IsTitled(ls, a)
<1>1. n \in Nat /\ DOMAIN ls = 1..n
  BY RstIs
<1>2. anchors = AnchorsFrom(ls, 1)
  BY <1>1 DEF AnchorsFrom
<1>3. ASSUME wellFormed PROVE TypesFrom(ls, 1, types)
  BY <1>2, <1>3, AllTypesAreParsed
<1> HIDE DEF types
<1>4. ASSUME NEW a \in anchors, IsTitled(ls, a)
      PROVE  LET t == TypeAt(ls, a)
             IN  /\ t.name = ls[a].name /\ t.from = a /\ t.to = EndOf(ls, a) - 1
                 /\ IsUsual(ls, a, EndOf(ls, a)) => t.fields = Keys(ls, RowsIn(ls, a, EndOf(ls, a)))
  <2> DEFINE from == ContentOf(ls, a)
             end == EndOf(ls, a)
             t == TypeAt(ls, a)
  <2>1. a \in 1..n /\ ls[a].kind = "anchor"
    BY <1>1
  <2>2. InSection(ls, a, from, end)
    BY <1>4, <2>1, SectionIs
  <2>3. t = TypeDefinition(ls, a, from, end)
    BY <2>2 DEF TypeAt, InSection
  <2> HIDE DEF from, end, t
  <2>4. from \in 1..n /\ end \in 1..n + 1
    <3>1. from \in a + 1..n /\ end \in from..n + 1
      BY <2>2 DEF InSection
    <3> QED BY <1>1, <2>1, <3>1
  <2>5. t.name = ls[a].name /\ t.from = a /\ t.to = end - 1 /\ FieldsAre(ls, from, end, t.fields)
    BY <2>1, <2>3, <2>4, DefinitionIs
  <2>6. IsUsual(ls, a, end) => t.fields = Keys(ls, RowsIn(ls, a, end))
    <3> DEFINE fields == t.fields
    <3>1. FieldsAre(ls, from, end, fields)
      BY <2>5
    <3> HIDE DEF fields
    <3>2. IsUsual(ls, a, end) => fields = Keys(ls, RowsIn(ls, a, end))
      BY <2>1, <2>2, <3>1, AllKeysAreThere
    <3> QED BY <3>2 DEF fields
  <2> QED BY <2>5, <2>6 DEF t, end
<1> DEFINE isThere(a, t) ==
              /\ t.name = ls[a].name /\ t.from = a /\ t.to = EndOf(ls, a) - 1
              /\ IsUsual(ls, a, EndOf(ls, a)) => t.fields = Keys(ls, RowsIn(ls, a, EndOf(ls, a)))
<1>5. ASSUME wellFormed PROVE Len(types) = Cardinality(anchors) /\ \A a \in anchors : \E t \in Range(types) : isThere(a, t)
  <2>1. Len(types) = Cardinality(anchors) /\ \A a \in anchors : TypeAt(ls, a) \in Range(types)
    BY <1>2, <1>3, <1>5 DEF TypesFrom
  <2>2. ASSUME NEW a \in anchors PROVE \E t \in Range(types) : isThere(a, t)
    <3>1. IsTitled(ls, a)
      BY <1>5
    <3>2. isThere(a, TypeAt(ls, a))
      <4> HIDE DEF anchors
      <4> QED BY <1>4, <3>1
    <3> HIDE DEF isThere
    <3> QED BY <2>1, <3>2
  <2> QED BY <2>1, <2>2
<1> QED BY <1>5 DEF TypesAreFound, types, IsTitled, EndOf, IsUsual, MarksOf, IsLastOf, NotBroken, RowsIn

\* Every text is whole in its chunks, in every state: the chunks of a code file or
\* a section are all of it and in order, overlap by no more than they may, are longer
\* than the limit only where nothing can be cut, and where they do not overlap a
\* chunk is given the numbers of its own lines (_chunk_code, _chunk_by_boundaries,
\* _chunk_by_lines, _compute_chunk_line_ranges, _chunk_section); and what the parsers
\* of Python, TypeScript and RST find in a source file is every definition of it.
THEOREM TextsStayWhole ==
    Spec => [](\A c \in Content : (\A prefer \in BOOLEAN : TextIsCut(texts[c], prefer)) /\ SourceIsListed(texts[c]))
<1> DEFINE TextsTyped == \A c \in Content : /\ texts[c].lens \in Seq(Nat \ {0})
                                           /\ texts[c].boundary \subseteq 1..Len(texts[c].lens)
                                           /\ IsPython(texts[c].module) /\ IsTypeScript(texts[c].exports)
                                           /\ IsRst(texts[c].types)
<1>1. Init => TextsTyped
  BY JobsAreWellFormed DEF Init, JobsAreWellFormed
<1>2. TextsTyped /\ [Next]_vars => TextsTyped'
  <2> SUFFICES ASSUME TextsTyped, [Next]_vars PROVE TextsTyped'
    OBVIOUS
  <2>1. texts' = texts
    BY InputStays DEF input
  <2> QED BY <2>1
<1>3. TextsTyped => \A c \in Content : (\A prefer \in BOOLEAN : TextIsCut(texts[c], prefer)) /\ SourceIsListed(texts[c])
  <2> SUFFICES ASSUME NEW text, text.lens \in Seq(Nat \ {0}), text.boundary \subseteq 1..Len(text.lens),
                      IsPython(text.module), IsTypeScript(text.exports), IsRst(text.types)
               PROVE  (\A prefer \in BOOLEAN : TextIsCut(text, prefer)) /\ SourceIsListed(text)
    OBVIOUS
  <2>1. \A prefer \in BOOLEAN : TextIsCut(text, prefer)
    BY AllTextIsCut
  <2>2. \A stub \in BOOLEAN : PythonIdsDiffer(text.module, stub) /\ PythonIsFound(text.module, stub)
    BY PythonIsListed
  <2>3. TypeScriptIdsDiffer(text.exports) /\ TypeScriptIsFound(text.exports)
    BY TsIdsDiffer, TsIsFound
  <2>4. TypesAreFound(text.types)
    BY AllTypesAreFound
  <2> QED BY <2>1, <2>2, <2>3, <2>4 DEF SourceIsListed
<1> QED BY <1>1, <1>2, <1>3, PTL DEF Spec

\* What a text or a source file is made into is all of it: as it is looked at when a
\* job starts (chunks of github_ingest.py and docs_crawler.py, definitions of
\* ast_extractor.py, ts_tree_sitter_parser.py and rst_type_parser.py).
THEOREM ChunksStayTheText == Spec => []ChunksAreTheText
<1>1. (\A c \in Content : (\A prefer \in BOOLEAN : TextIsCut(texts[c], prefer)) /\ SourceIsListed(texts[c]))
        => ChunksAreTheText
  BY DEF ChunksAreTheText
<1> QED BY <1>1, TextsStayWhole, PTL
=============================================================================
