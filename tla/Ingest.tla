------------------------------- MODULE Ingest -------------------------------
(***************************************************************************)
(* One ingester at work (services/ingest): the examples of a clone         *)
(* (GitHubRepoIngester._ingest_repo), its API source (SourceIngester) or   *)
(* the documentation (DocsCrawler).  Each walks its files group by group,  *)
(* leaves out what it has seen already, makes chunks and hands them to the *)
(* index in one upsert.  An error costs a file; an upsert that fails costs *)
(* the repo; a corrupt index ends the refresh.  The fourth ingester makes  *)
(* the deprecation map out of the two registries of the framework.         *)
(***************************************************************************)
EXTENDS RepoTree, DocsPages, SourceChunks, DeprecationMap

CONSTANTS
    Jobs,      \* the ingester and what it finds: [job, tree, above, lines, texts, registry]
    Content,   \* contents of files, told apart only by being the same
    Versions   \* versions of the framework that are asked about

ASSUME JobsAreWellFormed ==
    /\ Versions \subseteq Nat \union {Malformed}
    /\ \A j \in Jobs : /\ j.job \in {"code", "source", "docs", "registry"}
                   /\ j.tree \subseteq [dir : Seq(STRING), stem : STRING, ext : STRING] /\ j.above \in Seq(STRING)
                   /\ j.lines \in Seq(TextLine)
                   /\ {j.registry.active, j.registry.removals} \subseteq Seq(Record)
                   /\ \A c \in Content : /\ j.texts[c].lens \in Seq(Nat \ {0})
                                        /\ j.texts[c].boundary \subseteq 1..Len(j.texts[c].lens)
                                        /\ IsPython(j.texts[c].module) /\ IsTypeScript(j.texts[c].exports)
                                        /\ IsRst(j.texts[c].types)

VARIABLES
    job,       \* "code", "source", "docs" or "registry"
    tree,      \* the checked-out files
    above,     \* the names of the directories that the clone is in
    lines,     \* llms-full.txt
    texts,     \* what each content is: [lens, boundary, module, exports, types]
    registry,  \* the records of deprecations.json and of removals.json
    stage,     \* "start", "walk", "active", "removals", "upsert", "done", "failed" or "aborted"
    groups,    \* directories and kinds of file still to walk
    group,     \* the one being walked
    files,     \* its files still to read
    seen,      \* seen_source_hashes
    handled,   \* what became of each file: [file, group, content, outcome]
    readme,    \* the README is indexed instead
    map,       \* the deprecation map, as it is built
    aliases,   \* the qualified names of the registry's records
    taken      \* how many of its records have been read

input == <<job, tree, above, lines, texts, registry>>
walk == <<groups, group, files, seen, handled, readme>>
build == <<map, aliases, taken>>
vars == <<input, stage, walk, build>>

AnyContent == CHOOSE c \in Content : TRUE
NoGroup == [kind |-> "none", dir |-> Root]

-----------------------------------------------------------------------------
\* What is walked, in this order.
Order == <<"example", "root", "package", "pyi", "rst", "ts", "page">>

GroupsOf(j, t) ==
    CASE j = "code" -> {[kind |-> "example", dir |-> d] : d \in FindExampleDirs(t)}
                       \union {[kind |-> "root", dir |-> Root] : f \in RootFiles(t)}
      [] j = "source" -> {[kind |-> "package", dir |-> d] : d \in Packages(t)}
                         \union {[kind |-> "pyi", dir |-> Root] : f \in PyiFiles(t)}
                         \union {[kind |-> "rst", dir |-> Root] : f \in RstFiles(t)}
                         \union {[kind |-> "ts", dir |-> Root] : f \in FindTsFiles(t)}
      [] OTHER -> {[kind |-> "page", dir |-> Root]}

FilesOf(g) ==
    CASE g.kind = "example" -> ExampleFiles(tree, above, g.dir)
      [] g.kind = "root" -> RootFiles(tree)
      [] g.kind = "package" -> FindPythonFiles(tree, g.dir)
      [] g.kind = "pyi" -> PyiFiles(tree)
      [] g.kind = "rst" -> RstFiles(tree)
      [] g.kind = "ts" -> FindTsFiles(tree)
      [] OTHER -> LET pages == SplitIntoPages(lines)
                  IN  {[page |-> p, url |-> pages[p].url] : p \in 1..Len(pages)}

\* Groups whose files are compared with those read before, shallow files first.
Deduplicates(g) == g.kind \in {"example", "package", "ts"}
MayBeNext(f) ==
    group.kind \in {"example", "ts"} => \A other \in files : Depth(f) <= Depth(other)

Init ==
    /\ \E j \in Jobs : job = j.job /\ tree = j.tree /\ above = j.above /\ lines = j.lines /\ texts = j.texts
                      /\ registry = j.registry
    /\ stage = "start" /\ groups = {} /\ group = NoGroup /\ files = {} /\ seen = {}
    /\ handled = {} /\ readme = FALSE /\ map = <<>> /\ aliases = <<>> /\ taken = 0

-----------------------------------------------------------------------------
\* The checkout or the download.
BeginFails ==
    /\ stage = "start" /\ job \in {"code", "docs"}
    /\ stage' = "failed"
    /\ UNCHANGED <<input, walk, build>>

Begin ==
    /\ stage = "start" /\ job # "registry"
    /\ groups' = GroupsOf(job, tree)
    /\ stage' = IF job = "source" /\ groups' = {} THEN "done" ELSE "walk"
    /\ UNCHANGED <<input, group, files, seen, handled, readme, build>>

EnterGroup_KeepsSeen(g) ==   \* mutant: what another example had is left out of this one
    /\ stage = "walk" /\ files = {} /\ g \in groups
    /\ \A k \in 1..Len(Order) : Order[k] = g.kind =>
          \A other \in groups : \E l \in k..Len(Order) : Order[l] = other.kind
    /\ groups' = groups \ {g} /\ group' = g /\ files' = FilesOf(g)
    /\ UNCHANGED <<input, stage, seen, handled, readme, build>>

EnterGroup(g) ==
    /\ stage = "walk" /\ files = {} /\ g \in groups
    /\ \A k \in 1..Len(Order) : Order[k] = g.kind =>
          \A other \in groups : \E l \in k..Len(Order) : Order[l] = other.kind
    /\ groups' = groups \ {g} /\ group' = g /\ files' = FilesOf(g)
    /\ seen' = IF g.kind = "example" THEN {} ELSE seen
    /\ UNCHANGED <<input, stage, handled, readme, build>>

Handle(f, c, outcome) ==
    /\ files' = files \ {f}
    /\ handled' = handled \union {[file |-> f, group |-> group, content |-> c, outcome |-> outcome]}
    /\ UNCHANGED <<input, stage, groups, group, readme, build>>

\* It cannot be read, leaves the clone or is too large (a large TypeScript file is
\* no error), or the page cannot be processed.
ReadFails(f) ==
    /\ f \in files /\ MayBeNext(f)
    /\ Handle(f, AnyContent, "failed")
    /\ UNCHANGED seen

SkipDuplicate(f, c) ==
    /\ f \in files /\ MayBeNext(f) /\ Deduplicates(group) /\ c \in seen
    /\ Handle(f, c, "same")
    /\ UNCHANGED seen

\* Read and made into chunks.  Python may not parse, an RST file that cannot be
\* read has no types, and what declares nothing leaves nothing.
Outcomes(g, c) ==
    CASE g.kind \in {"package", "pyi"} -> {"kept", "failed"}
      [] g.kind = "rst" -> {"empty"} \union (IF ParseRstTypes(texts[c].types) # <<>> THEN {"kept"} ELSE {})
      [] g.kind = "ts" -> {IF ParseTsSource(texts[c].exports) # <<>> THEN "kept" ELSE "empty"}
      [] OTHER -> {"kept"}

ReadFile(f, c) ==
    /\ group.kind = "page" => c = AnyContent   \* a page is never compared
    /\ f \in files /\ MayBeNext(f) /\ (Deduplicates(group) => c \notin seen)
    /\ seen' = IF Deduplicates(group) THEN seen \union {c} ELSE seen
    /\ \E outcome \in Outcomes(group, c) : Handle(f, c, outcome)

Kept == {h \in handled : h.outcome = "kept"}

\* The ids of the chunks of a source file, by its path.
PythonPath(f) == Tail(f.dir) \o (IF f.stem = "__init__" THEN <<>> ELSE <<f.stem>>)

ChunkIds(h) ==
    LET text == texts[h.content]
        under(path, chunks) == {ChunkId(path, chunks[i]) : i \in 1..Len(chunks)}
    IN  CASE h.group.kind = "package" -> under(<<".", PythonPath(h.file)>>, BuildChunks(text.module, FALSE))
          [] h.group.kind = "pyi" -> under(<<".", <<h.file.stem>>>>, BuildChunks(text.module, TRUE))
          [] h.group.kind = "ts" -> under(<<IF h.file.dir = Root THEN "." ELSE "/", Append(h.file.dir, h.file.stem)>>,
                                          BuildTsChunks(ParseTsSource(text.exports)))
          [] OTHER -> {<<h.file, name>> : name \in NamesAmong(ParseRstTypes(text.types))}

\* A repo without code is found by its README, if it has one.
Walked ==
    /\ stage = "walk" /\ files = {} /\ groups = {}
    /\ readme' \in IF job = "code" /\ Kept = {} THEN BOOLEAN ELSE {FALSE}
    /\ stage' = IF Kept = {} /\ ~readme' THEN "done" ELSE "upsert"
    /\ UNCHANGED <<input, groups, group, files, seen, handled, build>>

\* The upsert; FatalIndexError is the one error that is not kept here.
Upsert ==
    /\ stage = "upsert"
    /\ stage' \in {"done", "failed", "aborted"}
    /\ UNCHANGED <<input, walk, build>>

-----------------------------------------------------------------------------
(* The deprecation map.  An error leaves the map of an earlier refresh. *)

\* deprecations.json is read, and is a registry; then its records one by one.
BuildMap ==
    /\ stage = "start" /\ job = "registry"
    /\ stage' \in {"active", "failed"}
    /\ UNCHANGED <<input, walk, build>>

Records == IF stage = "active" THEN registry.active ELSE registry.removals
Status == IF stage = "active" THEN "deprecated" ELSE "removed"

AddRecord ==
    /\ stage \in {"active", "removals"} /\ taken < Len(Records)
    /\ LET r == Records[taken + 1]
       IN  IF Publishable(r)
           THEN /\ map' = IF stage = "active" THEN WithDeprecation(map, r) ELSE WithRemoval(map, r)
                /\ aliases' = WithAlias(aliases, r, Status)
           ELSE UNCHANGED <<map, aliases>>
    /\ taken' = taken + 1
    /\ UNCHANGED <<input, stage, walk>>

AddAlias ==
    /\ stage \in {"active", "removals"} /\ taken = Len(Records) /\ aliases # <<>>
    /\ map' = SetDefault(map, Head(aliases).key, Head(aliases).entry)
    /\ aliases' = Tail(aliases)
    /\ UNCHANGED <<input, stage, walk, taken>>

AllTaken == taken = Len(Records) /\ aliases = <<>>

\* The same with removals.json.
MergeRemovals ==
    /\ stage = "active" /\ AllTaken
    /\ stage' \in {"removals", "failed"}
    /\ taken' = 0
    /\ UNCHANGED <<input, walk, map, aliases>>

MapIsBuilt == stage = "removals" /\ AllTaken

SaveMap ==
    /\ MapIsBuilt
    /\ stage' \in {"failed"} \union (IF SaveAccepts(map) THEN {"done"} ELSE {})
    /\ UNCHANGED <<input, walk, build>>

Next ==
    \/ BeginFails \/ Begin \/ Walked \/ Upsert \/ BuildMap \/ AddRecord \/ AddAlias \/ MergeRemovals \/ SaveMap
    \/ \E g \in groups : EnterGroup(g)
    \/ \E f \in files : ReadFails(f) \/ \E c \in Content : (SkipDuplicate(f, c) \/ ReadFile(f, c))

Spec == Init /\ [][Next]_vars
-----------------------------------------------------------------------------
Walking == stage = "walk" /\ groups = {} /\ files = {}

\* Files that Python or TypeScript itself would take for one module.
OneModule(f, g) ==
    \/ f.dir = g.dir /\ f.stem = g.stem
    \/ g.stem = "__init__" /\ g.dir \in {Append(f.dir, f.stem), <<"src", f.stem>>}

\* The chunks of the files of one upsert have different ids, or the index would
\* refuse all of them.  An example's are made of path and position, so a file is
\* in one example only; those of source are made of module, type, names and line,
\* and two files share one only if they are one module (_make_chunk_id).
ChunkIdsDiffer ==
    /\ job = "code" => \A h, i \in handled : h.file = i.file => h = i
    /\ job = "source" =>
          \A h, i \in Kept : ChunkIds(h) \intersect ChunkIds(i) # {} =>
              h = i \/ OneModule(h.file, i.file) \/ OneModule(i.file, h.file)

\* The files an ingester is for, told without its walk.  Where a directory above
\* the clone has a name that is skipped, of the examples only the files that lie
\* at the top are found: those of examples/ itself, or of the root beside others.
Shown(t, d) == Named(d) \notin HiddenDirs \union NonExampleRootDirs /\ CodeIn(t, d) # {}
NoneShown(t) == \A d \in SubDirs(t, Root) : ~Shown(t, d)
LiesAtTheTop(f) == IF HasExamplesDir(tree) THEN f.dir = ExamplesDir ELSE f.dir = Root /\ ~NoneShown(tree)
IsExampleFile(f) ==
    /\ IsCode(f) /\ Parts(f.dir) \intersect SkipDirs = {}
    /\ Parts(above) \intersect SkipDirs = {} \/ LiesAtTheTop(f)
    /\ IF HasExamplesDir(tree) THEN Within(f, ExamplesDir)
       ELSE LET top == Prefix(f.dir, 1)
            IN  \/ f.dir = Root
                \/ Shown(tree, top)
                \/ Named(top) \notin RootFallbackSkipDirs /\ NoneShown(tree)
IsSourceFile(f) ==
    \/ f.ext = "pyi" /\ f.dir = Root
    \/ f.ext = "rst" /\ Within(f, <<"docs">>)
    \/ f.ext = "py" /\ Len(f.dir) >= 2 /\ f.dir[1] = "src" /\ Prefix(f.dir, 2) \in Packages(tree)
       /\ Parts(SubSeq(f.dir, 3, Len(f.dir))) \intersect PySkipDirs = {}
    \/ f.ext \in {"ts", "tsx"} /\ HasTsMarkers(tree) /\ Parts(f.dir) \intersect TsSkipDirs = {}

\* Every such file is dealt with and no other, one that is left out as a copy has
\* its original in the same example, at a path that is not deeper, and where the
\* examples are under topics the chunks of each file get the tags and the
\* execution mode of a taxonomy entry.
NothingIsLost ==
    Walking /\ job # "docs" =>
        /\ {h.file : h \in handled} = {f \in tree : IF job = "code" THEN IsExampleFile(f) ELSE IsSourceFile(f)}
        /\ \A h \in handled : h.outcome = "same" =>
              \E o \in handled : /\ o.content = h.content /\ o.outcome # "same"
                                 /\ h.group.kind = "example" => o.group = h.group /\ Depth(o.file) <= Depth(h.file)
        /\ job = "code" /\ HasExamplesDir(tree) /\ FoundationalDir \notin DirsOf(tree) =>
              \A h \in Kept : HasEntry(tree, h.file, h.group.dir)

\* The chunks of a text are all of it, in order, and longer than the limit only
\* where nothing can be cut; where none repeats the end of the one before it, a
\* chunk is given the numbers of its lines.  (With overlap they run ahead.)
TextIsCut(text, prefer) ==
    LET code == Layout(text, 0)
        byDefinition == prefer /\ code.boundary # {}
        section == Layout(text, 2)
        codeChunks == ChunkCode(text, prefer)
        ranges == ChunkLineRanges(text, codeChunks)
        n == Len(codeChunks)
    IN  /\ Covers(codeChunks, code)
        /\ LongOnlyUncut(codeChunks, IF byDefinition THEN DefinitionCuts(code) ELSE UnitCuts(code),
                         MaxChars + CharsPerToken - 1)
        /\ Covers(ChunkSection(text), section)
        /\ LongOnlyUncut(ChunkSection(text), UnitCuts(section), section.sep + MaxChars + CharsPerToken - 1)
        /\ Size(code) > 0 /\ (\A i \in 1..n - 1 : codeChunks[i + 1].from = codeChunks[i].to) =>
              \A i \in 1..n : LinesOf(code, codeChunks[i]) = ranges[i].from..ranges[i].to

\* The chunks of a source file list every definition it has, and have different
\* ids unless declarations of different kinds and one name are on one line.
SourceIsListed(text) ==
    /\ \A stub \in BOOLEAN : PythonIdsDiffer(text.module, stub) /\ PythonIsFound(text.module, stub)
    /\ TypeScriptIdsDiffer(text.exports) /\ TypeScriptIsFound(text.exports)
    /\ TypesAreFound(text.types)

\* What a text or a source file is made into is all of it.  (It depends on the
\* text alone: it is looked at once.)
ChunksAreTheText ==
    stage = "start" => \A c \in Content : /\ \A prefer \in BOOLEAN : TextIsCut(texts[c], prefer)
                                          /\ SourceIsListed(texts[c])

\* The pages of the documentation are the lines from the first page on; neither
\* cleaning a page, nor cutting it into sections, nor putting it together to be
\* served moves a line into a code block or out of one, and every section listed
\* can be asked for.  (It depends on the lines alone: it is looked at once.)
PagesAreWhole ==
    job = "docs" /\ stage = "start" =>
        LET pages == SplitIntoPages(lines)
        IN  /\ \A p \in 1..Len(pages) - 1 : pages[p].last + 1 = pages[p + 1].first
            /\ pages # <<>> => Last(pages).last = Len(lines)
            /\ \A p \in 1..Len(pages) :
                  LET content == FullContent(pages[p])
                  IN  /\ CleaningMovesNoCode(pages[p].body)
                      /\ SectionsAreWhole(content)
                      /\ ServedAsWritten(content) /\ TitlesRoundTrip(Served(content))

\* What the registries say: the names of a record, and whether one of some
\* records is about a symbol, being its name or that of something it is in.
NamesOf(r) == {r.subject} \union (IF HasAlias(r) THEN {FullPath(r)} ELSE {})
NamesIn(records) == UNION {NamesOf(records[i]) : i \in {k \in 1..Len(records) : records[k].fit}}
About(q, names) == \E n \in names : IsPrefix(n, q)

Symbols == UNION {{FullPath(r), r.module, Append(r.subject, "method"), Append(FullPath(r), "method")}
                  \union NamesOf(r) : r \in Range(registry.active \o registry.removals)}

\* The map that is saved finds a symbol exactly where a registry is about it:
\* no name is lost to another, a symbol that merely contains a deprecated one
\* is not deprecated, and a record that cannot be saved does not cost the map
\* (DeprecationMap.check, _unpublishable_reason).
OnlyNamedIsDeprecated ==
    MapIsBuilt =>
        /\ SaveAccepts(map)
        /\ \A q \in Symbols :
              Check(map, q) # NoEntry <=> About(q, NamesIn(registry.active) \union NamesIn(registry.removals))

\* A symbol that the active registry is about, and that no removal names, is
\* never reported as removed, whatever version is asked about or indexed; as
\* versions grow a symbol goes from current to deprecated to removed and never
\* back (status_for).
StillThereIsNotRemoved ==
    MapIsBuilt =>
        \A q \in Symbols, v \in Versions, w \in Versions :
            LET answer(x) == HandleCheckDeprecation(map, q, x, w)
            IN  /\ About(q, NamesIn(registry.active)) /\ (q \in NamesIn(registry.removals) => q \in NamesIn(registry.active))
                      => answer(v) # "removed"
                /\ 0 < v /\ v < w => LET order == <<"current", "deprecated", "removed">>
                                     IN  \E i, k \in 1..3 : i <= k /\ answer(v) = order[i] /\ answer(w) = order[k]
=============================================================================
