------------------------------ MODULE RepoTree ------------------------------
(***************************************************************************)
(* Which files of a clone are examples, which are API source, and which    *)
(* directories the taxonomy describes (services/ingest/github_ingest.py,   *)
(* source_ingest.py, taxonomy.py).                                         *)
(*                                                                         *)
(* A tree is a set of files [dir, stem, ext]: the names of the directories *)
(* from the clone to the file, and its own; the clone itself lies in       *)
(* directories with the names `above`.  A file the walks refuse (a link, a        *)
(* Storybook fixture, one that is too large) is left out of the tree, and  *)
(* so is a linked directory: both are passed over without a trace.         *)
(***************************************************************************)
EXTENDS Integers, Sequences, FiniteSets

SkipDirs == {".git", "__pycache__", "node_modules", "venv", ".venv", "dist", "build", ".mypy_cache",
             ".pytest_cache", ".ruff_cache", ".egg-info"}
\* Names with a leading dot.
HiddenDirs == {".git", ".github", ".venv", ".claude", ".tox", ".nox", ".next", ".turbo", ".mypy_cache",
               ".pytest_cache", ".ruff_cache", ".egg-info"}
NonSourceDirs == {"docs", "doc", "tests", "test", "scripts", "tools", "ci", ".github", ".tox", ".nox", "assets",
                  "static", "bin", "include", "man", "config", "deploy"}
NonExampleRootDirs == SkipDirs \union {"src", "lib"} \union NonSourceDirs
RootFallbackSkipDirs == NonSourceDirs
PackagedProjectSkip == {"src", "tests", "docs", "scripts", "dashboard", ".github", ".claude"}
PySkipDirs == {"__pycache__", ".git", "tests", "test", ".mypy_cache", ".pytest_cache", ".ruff_cache"}
TsSkipDirs ==
    {"node_modules", "dist", "build", ".git", "tests", "test", "__tests__", "__mocks__", "examples", ".next",
     ".turbo", "coverage"}

CodeExtensions == {"py", "js", "ts", "jsx", "tsx", "json", "yaml", "yml", "toml"}
IsCode(f) == f.ext \in CodeExtensions

Prefix(d, n) == SubSeq(d, 1, n)
Within(f, d) == Len(d) <= Len(f.dir) /\ Prefix(f.dir, Len(d)) = d
Parts(d) == {d[i] : i \in 1..Len(d)}
Depth(f) == Len(f.dir)

DirsOf(tree) == UNION {{Prefix(f.dir, n) : n \in 0..Len(f.dir)} : f \in tree}
SubDirs(tree, d) == {e \in DirsOf(tree) : Len(e) = Len(d) + 1 /\ Prefix(e, Len(d)) = d}
Named(d) == d[Len(d)]
CodeIn(tree, d) == {f \in tree : f.dir = d /\ IsCode(f)}

Root == <<>>
ExamplesDir == <<"examples">>
FoundationalDir == <<"examples", "foundational">>
HasExamplesDir(tree) == ExamplesDir \in DirsOf(tree)

-----------------------------------------------------------------------------
\* Examples.

DiscoverUnderExamples_AllLevels(tree) ==   \* mutant: a topic with code is looked into as well
    LET topics == {d \in SubDirs(tree, ExamplesDir) : Named(d) \notin SkipDirs}
    IN  {d \in topics : CodeIn(tree, d) # {}}
        \union (UNION {{g \in SubDirs(tree, d) : Named(g) \notin SkipDirs} : d \in topics})
        \union (IF CodeIn(tree, ExamplesDir) # {} THEN {ExamplesDir} ELSE {})

\* A directory of examples/ with code of its own is an example; one without is
\* a topic, and the directories in it are.
DiscoverUnderExamples(tree) ==
    LET topics == {d \in SubDirs(tree, ExamplesDir) : Named(d) \notin SkipDirs}
        examples == {d \in topics : CodeIn(tree, d) # {}}
    IN  examples
        \union (UNION {{g \in SubDirs(tree, d) : Named(g) \notin SkipDirs} : d \in topics \ examples})
        \union (IF CodeIn(tree, ExamplesDir) # {} THEN {ExamplesDir} ELSE {})

DiscoverRootLevelExamples(tree) ==
    LET found == {d \in SubDirs(tree, Root) :
                     Named(d) \notin HiddenDirs \union NonExampleRootDirs /\ CodeIn(tree, d) # {}}
    IN  IF found = {} THEN {Root} ELSE found

FindExampleDirs(tree) ==
    IF HasExamplesDir(tree) THEN DiscoverUnderExamples(tree) ELSE DiscoverRootLevelExamples(tree)

\* The names of the whole path are tested, those above the clone too.
IterCodeFiles(tree, above, dir, skipRootDirs) ==
    {f \in tree : /\ Within(f, dir) /\ IsCode(f)
                  /\ (Parts(above) \union Parts(f.dir)) \intersect SkipDirs = {}
                  /\ Len(f.dir) > Len(dir) => f.dir[Len(dir) + 1] \notin skipRootDirs}

IterRootLevelCodeFiles(tree, dir) == CodeIn(tree, dir)

\* The files one example is made of.
ExampleFiles(tree, above, dir) ==
    IF dir = ExamplesDir THEN IterRootLevelCodeFiles(tree, dir)
    ELSE IterCodeFiles(tree, above, dir, IF dir = Root THEN RootFallbackSkipDirs ELSE {})

\* Files of the root beside the examples, in a repo without examples/.
RootFiles(tree) ==
    IF ~HasExamplesDir(tree) /\ FindExampleDirs(tree) # {Root} THEN IterRootLevelCodeFiles(tree, Root)
    ELSE {}

-----------------------------------------------------------------------------
\* The taxonomy: the directories and files it has an entry for.

BuildFromFoundational(tree) ==
    SubDirs(tree, FoundationalDir)
    \union {f.dir \o <<f.stem, f.ext>> : f \in {g \in tree : g.dir = FoundationalDir /\ g.ext = "py"}}

\* The examples of examples/, but for those of one topic.
ScanTopicTree(tree, skip) ==
    {d \in DiscoverUnderExamples(tree) : (IF d = ExamplesDir THEN "examples" ELSE d[2]) \notin skip}

BuildFromExamplesRepo(tree) ==
    LET packaged == \/ <<"src">> \in DirsOf(tree)
                    \/ \E f \in tree : f.dir = Root /\ f.stem = "pyproject" /\ f.ext = "toml"
        skipped == HiddenDirs \union {"__pycache__", "node_modules"}
                   \union IF packaged THEN PackagedProjectSkip ELSE {}
    IN  {d \in SubDirs(tree, Root) : Named(d) \notin skipped}

BuildFromDirectory(tree) ==
    IF FoundationalDir \in DirsOf(tree)
    THEN BuildFromFoundational(tree) \union ScanTopicTree(tree, {"foundational"})
    ELSE IF SubDirs(tree, ExamplesDir) # {} THEN ScanTopicTree(tree, {})
    ELSE BuildFromExamplesRepo(tree)

\* The lookup the ingester uses; it asks for an entry of the root when it needs one.
TaxonomyLookup(tree) ==
    BuildFromDirectory(tree)
    \union IF Root \in FindExampleDirs(tree) \/ ~HasExamplesDir(tree) THEN {Root} ELSE {}

\* The entry a file of an example is given: its own, or that of the example.
HasEntry(tree, f, dir) == {f.dir \o <<f.stem, f.ext>>, dir} \intersect TaxonomyLookup(tree) # {}

-----------------------------------------------------------------------------
\* API source.

Packages(tree) == {d \in SubDirs(tree, <<"src">>) : \E f \in tree : f.dir = d /\ f.stem = "__init__" /\ f.ext = "py"}

FindPythonFiles(tree, package) ==
    {f \in tree : /\ Within(f, package) /\ f.ext = "py"
                  /\ Parts(SubSeq(f.dir, Len(package) + 1, Len(f.dir))) \intersect PySkipDirs = {}}

PyiFiles(tree) == {f \in tree : f.dir = Root /\ f.ext = "pyi"}
RstFiles(tree) == {f \in tree : Within(f, <<"docs">>) /\ f.ext = "rst"}

HasTsMarkers(tree) ==
    \E f \in tree : /\ f.stem \in {"package", "tsconfig"} /\ f.ext = "json" /\ Len(f.dir) <= 1
                    /\ Parts(f.dir) \intersect TsSkipDirs = {}

FindTsFiles(tree) ==
    IF HasTsMarkers(tree)
    THEN {f \in tree : f.ext \in {"ts", "tsx"} /\ Parts(f.dir) \intersect TsSkipDirs = {}} ELSE {}
=============================================================================
