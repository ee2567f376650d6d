# pipecat-context-hub: a TLA+ model of the index, its refresh and its server

The hub is a local MCP server. `refresh` crawls the Pipecat docs site and clones repos, and writes
their chunks into an index with two halves, a SQLite FTS database (`index.db`) and a Chroma
collection. `serve` answers an MCP client's tool calls from that index, and lives as long as the
client does. These modules model the parts where steps of several actors, crashes and failures
meet: what is on disk after any of them, what the next command makes of it, and what a reader sees.

Source paths below are relative to `src/pipecat_context_hub/`.

## The system

| Component | State it keeps | Operations | Hard because |
|---|---|---|---|
| Index store (`services/index/{store,vector,fts,errors}.py`) | keyword rows and metadata; Chroma collections `latest`, staging, backup | open (reader, refresh, forced, reset), upsert, delete, compact, reset, close | two backends with no common commit; renames; either half may be lost; the process may die anywhere |
| Refresh run (`cli.py`) | skip markers (`docs:content_hash`, `repo:<slug>:commit_sha`), re-ingest flags | docs pass, cleanup of removed repos, clone pass, delete and ingest, bookkeeping | markers are not written with the records; every step may fail or be the last |
| Provenance (`cli.py`, `server/tools/check_deprecation.py`) | pin, version stamp, map stamp, the deprecation map file | build the map, write the metadata batch, resolve the version | file and keys are committed apart, over several runs |
| Serving handle (`services/index/reopening.py`) | the current handle, its users, whether it is retired | gate, acquire, open, release, close | threads, a refresh in another process, shutdown, cancellation |
| Refresh lock (`shared/index_lock.py`) | the lock, the generation mark | exclusive and shared holds, the mark | processes |
| Transport (`server/transport.py`, `shared/tracking.py`, `serve` in `cli.py`) | what is watched, calls in flight, shutdown reason, the once-flags | watchdogs, graceful unwind, hard-exit timer | four threads, any of which may hang |
| Generation lock (`services/index/locking.py`) | flocks on the lock file, its parent and the index directory; the registry of inodes | `index_lock`, nested holds, leases | reentrancy across threads and processes, a lock file that is removed |
| Clone (`services/ingest/github_ingest.py`) | the clone on disk: HEAD, working tree, refs, tags | clone, fetch, resolve a branch or a tag, checkout | every git command may fail or be killed; origin changes meanwhile |
| Ingest (`services/ingest/`) | files seen, chunks | discovery, parsers, pages, taxonomy, chunks, upsert | overlapping rules about directories; copies; ids that may collide; cuts |
| Deprecation map (`services/ingest/deprecation_map.py`) | the map file | build from two registries, save, check | names nested in names, aliases, one bad record |
| Retrieval (`services/retrieval/`) | the cross-encoder model | decompose, search, fuse, rerank, merge, evidence | concurrent tasks beside a refresh; ranking arithmetic; lazy load |
| Models (`services/embedding.py`, `onnx_backend.py`) | lazily loaded models | load once, encode | concurrent first loads |
| Configuration (`shared/config.py`, `env_loading.py`, `paths.py`) | real environment, `.env`, `config.toml` | load the layers, prove a path, reset the data directory | precedence, blanks, links |
| Configuration writer (`shared/config_writer.py`, `cli_repos.py`) | `config.toml` | `repos add`, `repos remove` | two writers, kills, links that move |
| Commands (`cli_query.py`, `cli_install.py`, `plugin.py`) | none of their own | one-shot queries, installation | mostly input and output |

How they interact: `refresh` holds `refresh.lock` exclusively for its whole run and marks it;
`serve` never waits for it: it answers "retry" while the lock is held, and before each tool call
compares the mark with the one its handle was opened at. Every open of the index, in either
command, goes through `IndexStore.__init__`, which decides from the two halves whether to go on,
to restore a parked collection or to refuse with a command that repairs the index. The refresh's
bookkeeping and provenance live in the metadata table of the keyword half, so they are lost with it.
The transport's shutdown closes the serving handle, from whichever thread gets there first.
A refresh asks each ingester for a source: the clone is brought to one commit, its files are walked
and made into chunks, and one upsert hands them to the index. What it indexes and where is decided
by the configuration layers, which `repos add` and `repos remove` edit. A query reads both halves of
the serving handle's store, once per concept, and ranks what it finds.

What makes each correct is listed with its properties below; `PROJECT.json` lists the hazards at
their lines, with the properties that cover each, and for the rest why none does.

## Modules

| Module | Models | Composition |
|---|---|---|
| `DurableIndex` | the abstract promise of the index | - |
| `IndexStore` | `IndexStore`, `VectorIndex`, `FTSIndex`, the errors' advice | instantiates `DurableIndex` with a refinement mapping |
| `RefreshRun` | `_run_refresh` and its helpers | rests on `IndexStore` through `VectorsBacked` |
| `Provenance` | the framework's version keys and the deprecation map file | extends `RefreshRun`: every step of a run, with the keys beside it |
| `ReopeningStore` | `ReopeningIndexStore`, the tool call around it, the refresh lock | - |
| `Transport` | `run_stdio`, the watch plan, the idle gate | - |
| `GenerationLock` | `index_lock` on POSIX | - |
| `CloneCache` | `clone_or_fetch`, tag resolution, checkout | - |
| `RepoTree`, `DocsPages`, `Chunking`, `SourceChunks`, `DeprecationMap` | the pure parts of ingest, as operators | used by `Ingest` |
| `Lists` | the numbers of a set in their order, and the elements of a list at some positions | extended by `Chunking`, `SourceChunks` and `ConfigLayers` |
| `Ingest` | one ingester at work: examples, API source, docs or the deprecation map | extends the five pure parts |
| `Ranking` | the arithmetic of retrieval, as operators | used by `Retrieval` |
| `Retrieval` | search requests, their concurrent tasks, the cross-encoder, refreshes | extends `Ranking` |
| `PathLookup` | `shared/paths.py`, the trust of a path, what a reset deletes | used by `ConfigLayers` |
| `ConfigLayers` | the layers, their provenance and warnings, the settings | extends `PathLookup` |
| `ConfigWriter` | two writers of `config.toml`, its owner, kills | extends `ConfigLayers` |
| `*_proofs` | theorems of the module before the underscore (`Refresh_proofs`: of `RefreshRun` and `Provenance`; `Index_proofs`: of `IndexStore` and `Retrieval`) | extend it and TLAPS |
| `MC*` | instances for TLC | extend it |

The operators of the pure modules are checked inside the state machine that uses them, by stating
what they are for without following how they compute it: the reference definitions stand beside the
properties, or at the end of the module (`SourceChunks`, `Ranking`).

### IndexStore

`rows` is what `index.db` holds and `keywordReady` whether its schema is complete; `names` and
`held` are Chroma's collections, `chroma` whether its database exists, `handle` the collection that
`self._collection` points at. A write operation works on `scope`, with `todo` the records whose
vectors it has still to write: `UpsertKeyword` then one `UpsertVectorBatch` after another, or
`DeleteVectorBatch`es and then `DeleteKeyword`. Compaction has one action per call to Chroma
(`CompactDropLeftover` ... `CompactFinish`). `OpenKeyword` and `OpenVector` are the two halves of
`IndexStore.__init__`; the verdicts (`VectorVerdict`, `HalvesVerdict`, `WriterVerdict`,
`ReaderVerdict`) are its refusals, and `Remedy` the command each error message names. `Stop` is a
close, an exception or a kill at any step; `LoseHalf` is somebody removing one half's files.
`keywordLost` is history: what removed `index.db` beside vectors.

### RefreshRun

`content[s]` is what the index holds of a source: nothing, keyword rows only, some of it, or all of
one revision. `marker`, `pending` (`cleanup_failed`) and `vectorEmpty` are keys on disk; the rest
is the run's local state (`fetched` is `prefetched`, `changed` is `changed_repos`, and so on). One
action per step of the code between two writes to disk, with its failing twin where the code
catches the failure. Revisions may come back (a pinned tag, a forced push).

### Provenance

Replaces `Start`, `Clone`, the purges and the end of the run by versions that also keep the
framework's keys, and adds `BuildMap` and `WriteMetadata`. `StampedAnswer` and `Answer` are
`resolve_framework_version`.

### ReopeningStore

A thread is a tool call: `Gate` (`unavailable_reason`), then `Acquire*`, then `Release`, then `Read`
and again. A handle is named by the generation it was opened at; `open` is the set of stores open in
the process; `pc = "opening"` is the time a thread spends in `_open`, with the RLock and a shared
hold on the refresh lock, so every other step that needs either waits. `Cancel` is a cancelled
request: its `finally` will check the store in. A worker of `asyncio.to_thread` that is still queued is
cancelled with it; one that has begun is left behind (`abandoned`), and is `searching` once it has the lock
of its half (`VectorIndex._op_lock`, `FTSIndex._lock`). Closing a store takes those locks, so every step
that closes one waits for such a search (`Searched`, `Closable`), but not for a worker that still waits itself.
A call that has a store checked out keeps it from being closed before shutdown, so its own search is no step.
`loaded` is the generation at which the map in memory was read.

### Transport

`Capture`, `Inspect` and `Startup` are `serve` up to `serve_stdio`; `conf` is how it was launched and
configured. Ticks stand for time: `MaxIdle` of them without a request are the idle timeout. The
watchdogs and the server task put themselves in `fired`; `Wake` is the return of `asyncio.wait`.
`pc`, `timer` and `cleanup` are the main thread, the hard-exit timer and the timer's cleanup thread;
the steps of awaiting cancelled tasks and closing the store have no fairness, since they may hang.

### GenerationLock

An owner is a thread or a task, and `ProcessOf` says of which process: `active` is
`_active_lock_identities`, one registry per process. `thread` is the thread an owner runs on, one of the
spreads in `Layout`: the tasks of one event loop share one, and stand still while one of them is in a call
that has not returned (`Runs`). `pc` follows `index_lock` from `lstat` (`seen`
is `lock_identity`) over the flock on the parent directory (`guard`), the flock on the index
directory of an index without a lock file (`legacy`), `open` (`opened` is `opened_identity`) to the
flock on the file. `Call` and `CallAgain` are the outer and the nested `with`. A reader without a lock file
is in no entry of `_held`: its nested call goes through all of it again (`CallAgainWithout`; `outer` counts
the calls around the innermost one, each with its own shared flock on the index directory). `Unlink` is somebody
who removes the lock file, `Die` the kernel closing what a dead process had open. `generation_lock`
and its leases are not modelled: nothing in the package or its tests calls them.

### CloneCache

Origin is `branches`, `default` and `tags`; the clone on disk is `clone`, `head`, `tree`, `tracking`,
`originHead` and `localTags`, which part ways because a refresh clones without a checkout and may be
killed between any two commands. `Begin` ... `Ingest` are the steps of one call; `CloneFromFails` and
`Damage` leave what a killed or damaged clone leaves. `recent` and `steady` are history: the commits
the followed branch had, and the tags that did not move, since the run began.

### Ingest

`Jobs` are the worlds the run looks at: an ingester and the tree, lines, texts or registries it
finds. `group` is the directory (or the kind of file) being walked, `seen` is `seen_source_hashes`,
`handled` says what became of every file. `EnterGroup` is a turn of the outer loop, `ReadFails`,
`SkipDuplicate` and `ReadFile` the turns of the inner one, in the order the code sorts them
(`MayBeNext`). The deprecation map is built in `map` and `aliases`, record by record: `BuildMap` and
`MergeRemovals` read a registry, `AddRecord` is a turn of the loop over its records (`taken` of which
are done), `AddAlias` one of the loop over the qualified names kept aside, `SaveMap` the end.

`RepoTree` is the discovery of examples, of packages, stubs, RST and TypeScript files, and the
directories a taxonomy entry is made for. `above` is the path of the clone: one rule looks at it (see below).

`DocsPages` splits `llms-full.txt` into pages, cleans a page of its tags, splits it into sections, makes the
text of each, and asks the page that `get_doc` joins of them for its titles and for one section. A line is
what it is as it stands, without its structural tags and without the blanks before it: each of the three steps
reads lines again that the one before it may have changed. An admonition becomes a quotation, which has neither
headings nor fences. A fence is closed by one of its mark that is not shorter. Left out are the collapsing of
blank lines and lines that a tag alone makes or joins: a line is one line before and after. A heading has its
title on its own line (`\s+` in the pattern reaches over a line end, so a bare `##` takes the next line), an
admonition opens at most once on a line, and the sections of a page come back from the index one chunk each
and in their order (a long section is several chunks, whose overlap may repeat a fence).

`Chunking` treats a text as the lengths of its units and a chunk as
an interval of it. `SourceChunks` takes a file as what its syntax tree gives the parser (statements
of Python, exported statements of TypeScript and their members, lines of RST) and makes the
declarations and chunks of it; what a comprehension or a loop keeps of a list it names by its
positions (`Picked`, of `Lists`), which proofs can be about. `IsPython`, `IsTypeScript` and `IsRst` say what
such a file is: definitions on lines of their own, one after the other, members of the kinds the grammar has.
`DeprecationMap` keeps the map as the dict it is: the order of
insertion decides which key answers.

### Retrieval

`stage` is how far a request is, `step` which search of a symbol's cascade, `task` what each
concept's task has read and ranked. `Read` is one of the two reads of a task: no store of the package
reads both halves, or several concepts, at once. `Refresh` is another process replacing the index.
`model` and `available` are the cross-encoder's lazily loaded model and the flag a failed load
leaves. `Ranking` counts scores in units of `1/One` and rounds down; in the instance `One` is so
large that fused scores of different ranks differ by more than the rounding.

A chunk has the line range that is stored with it and the number of lines of its text, which need not agree:
an overview is composed, a cut has an overlap, the ranges of cuts are clamped. A snippet counts its lines from the
first stored one, as the code does; whether that is where the text stands in its file is not said here.

A scenario is what is asked (`Ask`) of which index, given as the lists each generation has for each
search: any chunks in any order, each once in a list (`ScenarioAssumption`). The version of a request is one of
the `Releases`, and a chunk's pin any set of clauses. What sorts, filters or interleaves does so by the places of
the members: `Arrange` puts them in an order, `Pick` keeps those at some indices. The label of a hit
is held against the releases that satisfy its pin (`Direction`) for an `OrdinaryPin` only, which some
release satisfies and which has one bound from above: between two of those (`==2,<4`, `~=0.0.95,<1`) the code
says that a newer release is required although none helps.

### PathLookup, ConfigLayers, ConfigWriter

`fs` is a small file tree with links; a path is a sequence of names and `Up`; `Over` lays one mapping
over another (a tree, an environment), `Put` replaces one entry. `LookupTarget` is
`lookup_target` on the walk it shares with `resolution_chain`; `LoadEnvLayers` the three layers in the order the program reads them, with the
provenance and the warnings it keeps. `KernelHops` is the number of links the system follows
on one way, below the program's `_MAX_SYMLINK_HOPS` of 64 (40 on Linux, 32 on macOS): a way with more
links is proved by the program and opened by nobody. A writer goes through `Start`, `Aim` (the target), `Read`,
`Vet` and `VetAgain` (when there was no file), `EnsureDir` between them or instead (from the last directory on the
way that is there, through links, one `mkdir` after another), `WriteTemp`, `Recheck` and `Replace`; `Retarget` is the owner of the
files, `Killed` a kill or an error at any step. `standing` and `sure` are history: the edits that ended well
and that nothing since may have undone, and the writers whose target was what a reader finds by their path when
they last looked, and is still (`Vouched`). A writer that is not sure may put its file where another's was.

## Runs

`CHECK_DEADLOCK FALSE` is set where the system really may stop: `ReopeningStore` (after shutdown with
no refresh left nothing happens), `Transport` (the process ends), `GenerationLock` (nested
acquisitions and lock files are bounded), `Ingest`, `Retrieval` and `ConfigWriter` (the job, the
requests and the commands end).

| Run | Instance | Shows |
|---|---|---|
| `index_store` | two records of one repo, one of another | `VectorsBacked`, `AdviceWorks`, `ReaderSeesWholeIndex`, and that `IndexStore` implements `DurableIndex` (`KeepsItsPromise`) |
| `refresh_run` | two repos, one with two commits; two texts of the docs | `SkippedAreWhole`, `DocsMarkerIsHonest`, `CleanRunHeals`, `MarkerOutlivesRecords` |
| `provenance` | the framework with a release and an untagged commit | `StampMatchesMap`, `PublishedPinIsAnswered` |
| `reopening_store` | two calls at a time, one worker left behind for each thread, two refreshes | `FreshReads`, `ReadsOpenStore`, `PairedWhenQuiet`, `StaleStoreCloses` (liveness) |
| `transport` | two ticks of idleness, two calls at a time, all configurations | `ExitFollowsClose`, `ShutdownIsBounded` and `OutlivesNoClient` (liveness) |
| `generation_lock` | two threads of one process, or two tasks of one thread, and a thread of another process; two lock files ever; two nested holds | `MutualExclusion`, `RegistryIsExact`, `ParentIsReleased` (liveness) |
| `clone_cache` | two branches, two commits; the tags v1, 1, v2 (a pre-release), v3 (unfit), two at a time; two changes of origin | `LabelsAreTrue`, `HeadIsFollowed`, `RecoveredIsWhole`, `LatestIsNewest` |
| `ingest` | every tree of four of the files in `MCIngest`, in a clone below `repos` alone and below `build` too, every documentation of four plain lines, one page around each code block of up to five lines, and around three lines with tags and indentation, every text of five units, small modules, exports and RST, two records in each registry | `ChunkIdsDiffer`, `NothingIsLost`, `PagesAreWhole`, `ChunksAreTheText`, `OnlyNamedIsDeprecated`, `StillThereIsNotRemoved` |
| `retrieval` | queries of one to three concepts over a few chunks of up to three repos, limits up to four, every kind of version pin, one without a release and one with two bounds from above among them; two requests at once, a refresh between two searches | `LimitOnlyTruncates`, `ConceptsAreServed`, `SpreadWherePossible`, `AnswerSaysWhatItIs` |
| `configuration` | two writers; links to files and directories, relative, absolute, dangling and circular; two moves of a link, to another file, or to the same one by a way that no reader goes | `LookupIsTheKernels`, `ResetSparesConfig`, `ProvenanceIsTrue`, `ExclusionLossIsSaid`, `EditTakesEffect`, `NeverTorn` |

The bounds are enough because of what the code compares. The index store tells apart one repo's
records from the others', and a batch from the rest of its operation: two records and one of
another repo show both. A refresh compares a source's marker with what it fetched, so two
revisions of one repo show every outcome, and the second repo shows a failure of one beside
another; revisions of one source differ only in name, hence the symmetry. Runs are not counted: any
number follow one another. The handle compares generations for equality, so two refreshes show a
stale handle and the one that replaces it; the third thread would only wait for the same lock.
A lock file is compared for being the same, so a second one shows every replacement, and three
owners show a registry shared by two of them and a process that is alone; the two are on two threads, or tasks of one. The clone compares commits
for equality and versions for order: two commits (symmetric), and a tag of each kind `latest` tells
apart, suffice; two changes of origin let it change before and after a fetch. Four files show an
example within an example, a copy of a third file and one in a directory that is skipped. Five lines of a page have
room for a code block, a heading and a fence of another mark or length in it, and half an admonition on either
side; three for a line that stripping or a tag turns into a heading or a fence, with one before and one after. Texts are
measured against a limit of six characters with an overlap of two, so units of one, two and five are
below the overlap, within the limit and, with what precedes them, above it. An RST type is followed
by at most four lines after its title, enough for two anchors in a row, a table after "or" and two
blank lines. The retrieval instance has lists as long as the largest limit and runs of one repo and one
path longer than `MaxSameSource`. A walk of a path may follow three links, and the trees have chains
below that and circles, which exceed any bound; `MaxSteps` is above every walk.

Runs that TLC must find violated state what a comment or a document says, and the code does not do:

| Run | Says | Found |
|---|---|---|
| `refresh_skip` | a skipped repo was re-ingested or unchanged (`cli.py:1335`) | flags are cleared per repo, markers written at the end: a death in between lets a returning commit be skipped over another commit's records |
| `reopening_cancel` | a read checks the store out for the duration of the call (`reopening.py:127`) | a cancelled search is checked in while its worker, which has begun, waits for the lock of its half: it searches a store that was closed |

### Met on the way

Where the text of the repository and its code disagree, or the code does what one would not expect,
and no run shows it:

- Index and refresh. An interrupted reset leaves vectors without `index.db`, which
  `docs/troubleshooting.md:77` rules out (`cli.py:495`). A first ingest that dies leaves records
  without a marker, which no cleanup finds (`cli.py:1858`). A pin without a stamp is written back beside
  the map of another commit (`cli.py:1984`, `2074`). `set_metadata_batch` does not roll back after a
  failed statement, and a later commit publishes the part (`fts.py:565`).
- Serving. `server/main.py:325` says a request cannot pair a new map with old records: a refresh never
  takes the lock it relies on. The docstring of `reopening.py` says the CLI holds the refresh lock
  "around more than this open", `cli_query.py` around the open alone. A failing `ps` disarms the idle
  timeout, which `transport.py:84` says is the fallback; two docstrings there say `run_stdio` closes
  stdin, which it does not; a client that dies before `getppid()` is called is never noticed.
- Locking. The comment at `locking.py:333` ("a writer cannot publish the sibling lock until this
  context exits") fails once a lock file existed and was removed. A reader without a lock file that calls again
  waits for its own flock, or for a writer that waits for it; and where two tasks of one event loop take the lock
  (`locking.py:129` gives the second "its own OS lock"), the second keeps the thread that the first needs to leave.
  The package calls `index_lock` in worker threads only, once each. `ParentIsReleased` excepts these two circles,
  and there are no others (`NoOtherCircle`).
- Clones. Two slugs may be sanitized to one directory (`github_ingest.py:1454`). A tag that upstream
  moved makes every `git fetch --tags` fail. `_resolve_origin_head_commit` says "remote default branch",
  but `origin/HEAD` is never updated: the old branch is followed after the default changes, and every
  refresh of the repo fails once that branch is gone. Which repos were recovered is lost if the run dies.
- Discovery. `_iter_code_files` tests the absolute path for skipped names (`github_ingest.py:610`), so of a clone
  whose data directory is below one of them (`build`, `venv`) only the code that lies at the top of the repo is
  indexed. `NothingIsLost` says so: it asks for the other files where no name above the clone is skipped. With an `examples/` directory no code outside of it
  is indexed. A file in `examples/foundational` has no entry by its path, nor has one of a packaged
  project with a `dashboard/`, which `tests/unit/test_taxonomy.py:1052` promises for every chunk.
- Ids. `foo.ts` and `foo.tsx`, `pkg/a.py` and `pkg/a/__init__.py`, `foo.pyi` and `src/foo/__init__.py`
  share chunk ids, and Chroma refuses the batch; so do a getter and a setter, or a class and an interface
  of one name, on one line, two RST anchors of one name in one file, and two docs pages of one source URL.
- Chunks. `_chunk_section` says it falls back to sentences, and does not. Line numbers ignore the
  overlap and run ahead. A fenced "# x" with "Source:" under it splits a page. `shared/markdown.py:3` says that
  heading detection is "consistent everywhere": a fence or a heading that is indented is none when a page is split, and
  is one where stripping moves it to the start of its section (`docs_crawler.py:160`, `169`), so the page that is served
  may have other headings than the one that was ingested. An admonition with half a code block in it, or that crosses
  another, turns the rest of the page inside out. `ServedAsWritten` and `CleaningMovesNoCode` except both.
  Identical empty
  `__init__.py` files keep one overview.
- Parsers. Python definitions under `if` or `try`, nested classes, class attributes and decorators are in
  no chunk. `parse_ts_source` says "all exported declarations found": a local class exported by name,
  `export default`, generators, namespaces and untyped constants are not, nor are the methods of an
  `export declare class`. In RST a second anchor for one title is swallowed, and so are the fields of a
  second table without "or" between.
- Deprecations. `check` answers with the first prefix in the order of the dict, not the most specific.
- Retrieval. `hybrid.py:63` says that the ranking is the same for every limit and a smaller one only truncates
  it. With fewer places than concepts there is one search for all of them (`hybrid.py:233`), which ranks otherwise; and
  when the cross-encoder's model is loaded by one request and not by another, so do they. `LimitOnlyTruncates` says it of
  what is left: any number of concepts with a place for each, and a search that was scored or was not. `hybrid.py:159` and `249` speak of one batched read under one lock: no store defines it, and
  the tasks always read by themselves, so an answer may mix two generations. `_available` stays false
  after a failed load although a waiting thread then loads the model. A wildcard pin is `newer_required`
  for newer users, and so is one of two upper bounds (`<=0.5,<=0.9`) for a user between them: `rerank.py:184`
  asks whether the user is above the highest version named. A not-found lookup is not of low confidence (`types.py:179`). `vector_weight` and
  `keyword_weight` are not used.
- Configuration. `env_loading.py:5` says a key that is present is never overwritten; a blank one is. A
  blank real variable hides a value of `.env`, but not one of `config.toml`. Two writers can lose an edit;
  a link moved away and back between two steps can write one file's settings over another's.
  `config_writer.py:12` says that the writer cannot replace a file the reader would ignore; the check before
  the rename compares targets only, so a link of another owner, or one more link than the system
  follows, put in the way after the read does just that. `sure` records where it happened;
  `EditTakesEffect` asks nothing of such an edit, nor of those before it: the file such a writer leaves, or the
  directories it makes, may be what another writer's path leads to.
- Installation. Rolling back after a failed or timed-out `mcp remove` can fail because the entry is still
  there, and exit code 4 then says that nothing is registered (`cli_install.py`).

## Fairness

- `reopening_store`: a read of the store returns, and so does the search of a worker that was left behind (`WF` of
  `Release` and `WorkerEnds` for each thread: a query of SQLite or HNSW ends). Nothing else is assumed to happen; in particular calls may keep arriving.
- `transport`: the process starts up, time passes, calls return, the event loop runs the watchdogs'
  polls and wakes `run_stdio`, the server task ends at the end of stdin. In a shutdown only the timer's
  thread and the main thread's bounded steps (the atexit handlers, waited for a second; `os._exit`)
  are fair: the comments of `run_stdio` say where the main thread may hang, and those steps, the
  cancellation and the close, have none. The cleanup thread has none either.

- `generation_lock`: who has the parent directory goes on when it can (`WF` of `Proceed` for each owner:
  the code has no step there that waits for anything but a lock), and who is inside leaves even if it
  calls again and again first (`SF` of `Leave`, of an inner call and of the outermost: a `with` block ends). Both
  only while the owner's thread runs: a task of an event loop that another task of it keeps waiting does nothing
  (`OnItsThread`). Nobody has to call, and a waiting owner need not be served: flock promises no order.

The other runs check safety only and assume nothing.

## Proofs

`IndexStore`, `RefreshRun`, `ReopeningStore`, `Transport`, `GenerationLock` and `CloneCache` have an
inductive invariant `IInv` each, from which their type correctness and safety properties follow for
every value of the constants; `Retrieval` has `QueryInv`, `Ingest` two, one for each of its jobs, and
`ConfigWriter` `TreeInv` and, on top of it, `EffectInv`. Properties proved and no longer run (`OneCleanup`, `OpenersAreAlone` and
their like) are theorems beside those that are.

- `Index_proofs`, the store. The properties alone are not inductive: `IInv` adds what compaction knows at
  each step (the staging copy is within `latest` while copying, equal to it after the count, the
  backup equal to the promoted copy until it is dropped) and what a write operation knows of its
  halves (the records whose vectors remain are within its scope, the scope's rows are in before a
  vector is). That a count proves the copy complete is `CountedCopyIsComplete`, the one place that
  needs the records to be finite. `Refinement` maps every step to `Begin`, `Work`, `End`, `Wipe` or a
  stutter of `DurableIndex`.
- `Index_proofs`, the requests. `QueryInv` says what a task and a request hold at each stage
  (`TaskIs`, `RequestIs`): each half that was read is a beginning of the list that one of the generations
  recorded with the task has for this search, results are chunks of the index with scores from 0 to 1, a
  ranking is a beginning of the fusion while there is no cross-encoder, and an answer is made of its tasks'
  rankings. The properties alone say nothing of a request on its way. With `QueryInv` they are about the
  operators. `PlacesAre` is the root of these: the places of the members of a finite set in a strict order are the numbers
  from 1 to their count, each once, so `Arrange` loses and doubles nothing (`PickIs`, `SortIs`, `RowsAre`,
  `RoundRobinIs`). `DiversityIs` follows `PlaceNext` from one result to the next by the least number where it
  would fail: what is placed and what is pending are together all, and what was forced into a run had no
  alternative, nor has anything after it. `LimitOnlyTruncates` is proved one concept at a time and then of them
  together: every limit asks for at least `MinCandidates`, so each concept ranks the same candidates whatever the limit,
  each search gives the beginning of its ranking
  (`TasksRanked`), and beginnings taken in turn are a beginning, since each is as long as its share (`InTurnBegins`). `RoundRobinIs` gives a concept its
  best result because the first row comes before all others and has a place for each concept.
  `LabelIsTheDirection` and `EvidenceIs` go through the cases of the code, the latter with an average that is at most the largest score
  (`SumIs`, `QuotientIs`); `SnippetIs` is the arithmetic of two ranges of lines.
- `Refresh_proofs`, the markers. `MarkersSound` is the heart: whenever a repo's marker is there, its rows are
  there and neither flag is set, it is whole. It survives because the pending flag is written before
  the delete and cleared after the ingest. Around it, named conjuncts say what each pass of a run has
  settled (`ClonePass`, `Settled`, `IngestPass`, `BookkeepPass`), which gives `CleanRunHeals`.
- `Refresh_proofs`, the provenance. `Refinement`: every step of `Provenance` is one of `RefreshRun` or a
  stutter, so all that is proved of a run holds of one with its keys. A stamp and the commit of the map
  it was made with are written in one batch (`StampedTogether`), and the reader compares the latter with
  the map on disk. `Published` says what a run that published a map knows at each step of its end: the map
  is of the revision it fetched, and after the batch so are stamp and pin (`PublishedPinAnswered`).
  `Marked` is what is added to a run's invariant for `KeysFollowMarker`: bookkeeping leaves no fetched
  repo without a marker.
- `ReopeningStore_proofs`. `OneStore` says that what is open is the handle's store or nothing,
  `Generations` that a handle that is not stale was opened at this generation by which no refresh
  has begun since, `Checkout` and `MapLoaded` what a call holds.
- `Transport_proofs`. Whoever is inside the close has the flag and is alone, and how far the close has
  come when a thread goes on towards `os._exit`.

- `GenerationLock_proofs`. One owner at a time is between the parent's flock and the end
  (`GuardIsExclusive`), a lock file is open from `Open` to the end of the hold and is the one that is
  registered (`OpenIsRegistered`), the flocks on the index directory are what each step needs
  (`LegacyIsSound`), and a lock file beside a reader that went without is not the first one
  (`NoFirstFile`). `InodeIsLeft` only says that the bound is kept. Mutual exclusion does not rest on the file's flock alone, which a removed file evades.
  `NoOtherCircle` is the safety half of `ParentIsReleased`: without those two, the parent directory
  comes before the index directory, and the lock file, behind both, is never waited for.
- `CloneCache_proofs`. After a checkout HEAD and the files are of the commit the run names
  (`TreeIsCheckedOut`); the tags a run resolved are those it fetched, or older than a change of origin
  that `steady` records (`TagsAreFetched`), and the pick is the highest of them (`PickIsHighest`), which
  needs that a finite set of numbers has a maximum (`MaxIsIn`, from the well-foundedness of strict
  subsets). `RecentIsWitnessed` and `CloneHasBranch` do the same for the branch `origin/HEAD` names.
- `Ingest_proofs`, the walk. `WalkInv` holds of any groups of files: what is handled, at hand and still
  ahead are together the files of all groups, each handled once, and a copy has its original before it
  (`WalkInvariant`). The rest is the geometry of directories, for any tree: the directories that
  `FindExampleDirs` returns part the files that `IsExampleFile` describes (no example is within another,
  `ExampleFileIsFound` and `OnlyExampleFiles`), likewise for packages and the kinds of source file, and
  two source files of one id have one module path (`OnePath`). Together they are `IdsOfFilesDiffer` and
  `WalkLosesNothing`.
- `Ingest_proofs`, the deprecation map. The properties are about the map when it is built; `MapInv` is
  what holds on the way there, after any number of records of any two registries: a key is the name of a
  record that was read, of the status its registry gives it, and never a removed one where the active
  registry has the name (`KeysAreNamed`); what was read is a key, or will be when the aliases are put
  (`TakenAreKeys`); the active keys come first (`DeprecatedFirst`). The last is what makes "the first
  key that the symbol is nested under" safe: `check` does not look for the nearest one, and a removed
  key may well be nearer. `CheckIs` says what it finds, with the least of a set of numbers (`FirstIs`).
- `Ingest_proofs`, the pages. `PagesAreWhole` is about one text, which no step changes. The starts of
  the pages and of the sections are the numbers of a set in their order; that `InOrder` is this (`InOrderIs`)
  is a count: the rank of a number is one to one into `1..n`, so every rank is taken. A section has the code it
  has in the page because no fence is open where it begins, and what is open after a line depends only on the lines
  since; the sections are the page, and the served page the sections, because the first ones are a prefix: the least
  place where `FlattenSeq` would differ cannot be (`FlattenIs`). Cleaning moves no code because what is open is the
  same before and after each admonition, by the least line where it would not be.
- `Ingest_proofs`, the chunks of a text. Each recursion is a function over `0..n`: that there is one
  (`EndsExist`, `BuffersExist`, `MergesExist`), and that what holds of its first value and is kept by a step
  holds of its last, both by the least number where it would not. `Held` is what the cutting by lines keeps: the
  units after the last cut are in the buffer, which begins within the overlap before it. `AreMerged` is what the
  merging of definitions keeps: the segments adjoin, and more than one are together only where they fit.
- `Ingest_proofs`, the definitions of a source file. `ChunksStayTheText` is what the last paragraph says of a text and
  `SourceIsListed` of a source file; it speaks of the first state of a job, `TextsStayWhole` of every state. What is
  picked of a list by positions is those elements in their order (`PickedIs`, from `InOrderRanks`); every element of
  joined lists has a place in them, and every place such an element (`FlattenPlaces`). Python: the ids differ because
  definitions stand on lines one after the other, and the methods of a class inside it (`PythonIsListed`).
  TypeScript: what is found is the set of what the exports declare, each once (`ParsedTs`), and type and line of a
  chunk tell its declaration but for the kinds `TypeScriptIdsDiffer` excepts (`TsIdsDiffer`, `TsIsFound`). RST: from
  the end of the file up, the parse from a line on has a type for each anchor there (`OneTypeMore`), the section of
  an anchor with a title reaches to the next one (`SectionIs`), a table has the rows before the next "or" or table
  (`TableIs`), no row is without a table (`RowsHaveTables`), and so the fields are the keys of all rows
  (`AllKeysAreThere`, by `KeysJoin`: the rows of one table come before those of the next).
- `ConfigWriter_proofs`. `FilesStayWhole` needs only that the owner of the files puts links in the way
  (`LinksOnly`): every other step adds directories or puts a whole file in place. `LayersAreNamed` and
  `LossesAreSaid` are about one load of the three layers, whatever is in them: each value in force has
  one of four origins, and an entry of an exclusion list is in force under one of its spellings or said
  to be lost.
- `ConfigWriter_proofs`, the walks of a path. What a path leads to is two walks of the same path, the
  system's (`Looked`) and the program's (`Walked`), taken a component at a time; `TheWalk` says where a walk is
  after any number of steps (`OnItsWay`: no link is among the places it has resolved; `LeadsOn`: what it visited
  stays visited), `TheLookup` that the two are side by side until the system gives up (`Beside`). So every path the
  system opens is proved to be what it opens (`LookupAgrees`). The other way round is harder: the target is
  not there yet, and making it and its directories must not change the walk that found it. It could if the walk
  came back above a missing directory; `NoReturn` shows that a walk without a problem that has left a
  place which is not a directory never gets out of it again, since `..` there would be the problem
  (`NameLeft`, `Deeper`), so the new tree is walked alike (`LeadsThere`).
- `ConfigWriter_proofs`, the reset. Two trees that agree on the locations above what a walk visited walk a
  path alike (`SameWay`), and what is deleted lies inside the data directory (`ResetIs`), which nothing visited is
  when the reset is not refused (`ResetSpares`).
- `ConfigWriter_proofs`, the tree. Both walks need a tree: every entry is in a directory. `TreeInv` keeps
  that, with what each writer holds on the way (`WriterSound`: from the read on it has a target). That
  `mkdir -p` keeps it is `NewDirsAre`: each new directory is in the one made before it, the first in one that is there.
- `ConfigWriter_proofs`, the edits. `EditTakesEffect` compares what the next process loads with what a command
  said it did. `EffectInv` follows it through the steps: what a writer computed does what its edit says to the
  list it read, whatever that was; while a writer is sure, its target is what its path leads to, its own new
  directories included; and the file of a standing edit holds it. Another writer may stand beside it only if it
  read the file afterwards (`saw`), and then its edit keeps the others' repos unless it names them. The lists are
  sequences without repetition by key (`DedupeIs`, `ExtendedIs`, `DropIs`, `EffectiveAre`), again by positions.

The assumptions on the constants are those the modules state (a finite set of records, repos and
docs and `None` distinct, bounds that are natural numbers, branches that are numbered and finitely
many tags, a process for every owner, trees of files and registries of records as `JobsAreWellFormed`
types them (with source files as `IsPython`, `IsTypeScript` and `IsRst` describe them), keys of the configuration that differ (`KeysDiffer`), an owner that moves links and nothing
else (`OwnerMovesLinks`), paths of names and `..` and trees in which everything is in a directory
(`PathAssumption`, `ConfigAssumption`), edits that name finitely many slugs, none blank, and files whose list of
repos is a list (`EditAssumption`), limits of the tools and of a snippet that are at most `_MIN_CANDIDATES`
(`LimitAssumption`; all of them are, 50 being the largest), a score that a thousand divides
(`RankingAssumption`)); TLC evaluates them in the runs.

Only model-checked: liveness (`StaleStoreCloses`, `ShutdownIsBounded`, `OutlivesNoClient`,
`ParentIsReleased`), which is out of the prover's reach. Every invariant and action property of a run is stated by a theorem.

## What the models assume

- Every revision and every text of the docs has at least one record.
- An exception of `set_metadata` ends the run; a failed batch writes nothing.
- The vector half is lost as a whole. Whether a ref is tainted is arbitrary.
- The lock file is usable, and taking it always changes the generation. POSIX locks only.
- Closing a store succeeds; `DeprecationMap.load` does not raise. A failing first open ends `serve`.
- A launcher such as `uv` outlives the hub, and a client's PID is neither 1 nor reused. A failing
  startup and a server task that ends with an error are left out of `Transport`.
- A thread whose last call left a worker behind begins no other call before it has ended. A search has the lock of one half.
- `GenerationLock`: POSIX, and the index directory is there. `CloneCache`: a ref is not tainted (that is
  `RefreshRun`'s), and the slug has a directory of its own.
- `Ingest`: a walk passes over links and files that are too large without a trace; two contents are the
  same or not; a hash does not collide. A tag of `llms-full.txt` is on one line. The syntax trees are what the grammars give.
- `Retrieval`: scores are integers, with `One` units to 1.0; what a read finds is arbitrary, per generation, and ordered; lines are numbered from 1.
- `GenerationLock`: an owner stays on its thread, and a thread is of one process.
- `PathLookup`: a reset sees that the data directory is a link when its path, as given, is an entry of the tree, not
  when it leads to one through another link; it refuses a circle, where `cli.py:475` goes on with the path as given.
- `ConfigWriter`: the rename is atomic, and the temporary file is not in the tree: what `NeverTorn` adds is that no
  other step writes where the configuration is read. The parsing of TOML is what it does to the shapes named in
  `ConfigLayers`; owner and mode of a file are one bit, `safe`, which does not change.

## Not modelled

- `hnsw_validation.py`, `safe_sqlite.py`: checks of the bytes of files; their verdict is a stop of the run
  in `IndexStore` and `RefreshRun`.
- `embedding.py`, `onnx_backend.py`: numbers, and a load under one lock.
- `cli_query.py`: one open, one query, one close; the open is `IndexStore`'s, the query `Retrieval`'s.
- `cli_install.py`, `plugin.py`: they run the clients' own commands and keep nothing.
- The Daily type map, signatures, imports, calls and docstrings: they only decorate a chunk.
- Shared data types, formatting, scripts and the dashboard.

## What is left

1. `cli_install`: registration in several clients with a rollback, under failing and timed-out commands.
2. One query as a whole: `Retrieval` over `ReopeningStore`, so that mixed generations and a closing store
   meet; an abstract "one answer of one index" and the refinement that holds without a refresh.
3. `generation_lock` and its leases, if something begins to use them.
4. Proofs: the refinement of item 2, once it is stated.
