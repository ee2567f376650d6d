---------------------------- MODULE ConfigWriter ----------------------------
(***************************************************************************)
(* `repos add` and `repos remove` (cli_repos.py, shared/config_writer.py)  *)
(* run at the same time, each killed at any step, while the owner of the   *)
(* files points a link on the way to config.toml elsewhere; and what a     *)
(* process started at any moment makes of the file.                        *)
(*                                                                         *)
(* standing and sure are history: the edits that nothing since may have    *)
(* undone, and the writers whose target is still what their path leads to. *)
(***************************************************************************)
EXTENDS ConfigLayers

CONSTANTS
    Writer,
    Scenarios,      \* [fs, real, dotenv, edit, links]
    ConfigPaths,    \* paths a configuration file may be given by
    DataDirs,       \* and a data directory
    DotenvPath,     \* .env in the working directory
    MaxRetargets    \* bound on the owner's changes

\* The owner only points links elsewhere.
ASSUME OwnerMovesLinks ==
    \A s \in Scenarios : \A l \in s.links :
        /\ l.at \in Location /\ l.entry.kind = "link" /\ l.entry.to \in Path
        /\ {l.entry.absolute, l.entry.slash} \subseteq BOOLEAN

\* A list of repos in a file, and the ones an edit names.
Listed(settings) == ExtraRepos \in DOMAIN settings => LET items == settings[ExtraRepos].items IN items \in Seq(Range(items))
Whole(entry) == entry.kind = "file" /\ entry.data.whole
Named(slugs) == IsFiniteSet(slugs) /\ Blank \notin slugs
ASSUME EditAssumption ==
    /\ DefaultRepos \in Seq(Range(DefaultRepos))
    /\ \A s \in Scenarios : /\ \A l \in DOMAIN s.fs : Whole(s.fs[l]) => Listed(s.fs[l].data.settings)
                            /\ \A w \in Writer : Named(s.edit[w].slugs) /\ s.edit[w].adding \in BOOLEAN

PathsTyped(environ) == ConfigFile \in DOMAIN environ => IsBlank(environ[ConfigFile]) \/ environ[ConfigFile][1] \in Path
ASSUME ConfigAssumption ==
    /\ DefaultConfig \in Path /\ DotenvPath \in Path /\ ConfigPaths \subseteq Path /\ DataDirs \subseteq Path
    /\ \A s \in Scenarios : IsTree(s.fs) /\ PathsTyped(s.real) /\ PathsTyped(s.dotenv)

VARIABLES
    fs,
    real, dotenv,   \* the two upper layers, the same for every process
    edit,           \* what each writer is told: [adding, slugs, configOnly]
    links,          \* the entries the owner may put where
    writer,         \* what each writer knows
    standing, sure,
    retargets

inputs == <<real, dotenv, edit, links>>
history == <<standing, sure>>
vars == <<fs, inputs, writer, history, retargets>>

Idle == [at |-> "idle", slugs |-> {}, path |-> Nowhere, target |-> Nowhere, shadowed |-> FALSE,
         read |-> <<>>, settings |-> <<>>, saw |-> {}]

Init ==
    /\ \E s \in Scenarios :
           fs = s.fs /\ real = s.real /\ dotenv = s.dotenv /\ edit = s.edit /\ links = s.links
    /\ writer = [w \in Writer |-> Idle] /\ standing = {} /\ sure = {} /\ retargets = 0

Goes(w, to) == writer' = [writer EXCEPT ![w].at = to]
Loaded == LoadEnvLayers(fs, real, dotenv)

-----------------------------------------------------------------------------
\* main() loads the layers; then checks 1 to 3 of `repos add|remove`.
ShadowingLayer(loaded) ==
    ExtraRepos \in DOMAIN loaded.provenance /\ loaded.provenance[ExtraRepos] \in {"env", ".env"}

\* A tainted repo is refused alone and skipped in a group.
Actionable(w, environ) == {s \in edit[w].slugs : ~Tainted(environ, s)}

Command(w, loaded) ==
    LET path == ResolveConfigPath(loaded.environ)
        shadowed == ShadowingLayer(loaded)
        slugs == Actionable(w, loaded.environ)
    IN  IF \/ \E s \in slugs : IsDefault(s)
           \/ slugs = {}
           \/ shadowed /\ ~edit[w].configOnly
           \/ path = Nowhere
        THEN [Idle EXCEPT !.at = "refused"]
        ELSE [Idle EXCEPT !.at = "aim", !.path = path, !.shadowed = shadowed, !.slugs = slugs]

Start(w) ==
    /\ writer[w].at = "idle" /\ edit[w].slugs # {}
    /\ writer' = [writer EXCEPT ![w] = Command(w, Loaded)]
    /\ UNCHANGED <<fs, inputs, history, retargets>>

\* update_extra_repos, up to the read: the target comes first.
Aim(w) ==
    /\ writer[w].at = "aim"
    /\ LET target == LookupTarget(fs, writer[w].path)
       IN  writer' = [writer EXCEPT ![w].target = target, ![w].at = IF target = Nowhere THEN "refused" ELSE "read"]
    /\ sure' = sure \union {w}
    /\ UNCHANGED <<fs, inputs, standing, retargets>>

\* _current_list, _compute, _edit_in_place.
Editable(settings) == ExtraRepos \in DOMAIN settings => settings[ExtraRepos].shape \in {"array", "csv"}
Current(settings) == IF ExtraRepos \in DOMAIN settings THEN ConfigListValue(settings[ExtraRepos]) ELSE <<>>

Drop(list, slugs) ==
    Picked(list, {i \in DOMAIN list : list[i] = Blank \/ SlugKey(list[i]) \notin {SlugKey(d) : d \in slugs}})
Extended(list, slugs) ==
    list \o Picked(slugs, {i \in Firsts(slugs) : SlugKey(slugs[i]) \notin Keys(SplitCsv(list))})

Compute(current, adding, slugs) ==
    IF adding THEN Extended(current, SetToSeq(slugs)) ELSE Drop(current, slugs)

EditInPlace(settings, after, adding, slugs) ==
    IF ExtraRepos \in DOMAIN settings /\ settings[ExtraRepos].shape = "array"
    THEN [shape |-> "array",
          items |-> Extended(IF adding THEN settings[ExtraRepos].items ELSE Drop(settings[ExtraRepos].items, slugs), after)]
    ELSE [shape |-> "array", items |-> after]

EditOf(w, read) ==
    LET settings == Settings(read)
        before == Current(settings)
        after == Compute(before, edit[w].adding, writer[w].slugs)
    IN  IF \/ read.outcome = "untrusted"
           \/ read.outcome = "read" /\ ~(read.data.whole /\ Editable(settings))
        THEN Goes(w, "refused") /\ UNCHANGED standing
        ELSE IF after = before THEN Goes(w, "unchanged") /\ standing' = standing \union {w}
        ELSE /\ writer' = [writer EXCEPT ![w].at = IF read.outcome = "missing" THEN "vet" ELSE "ensure",
                                         ![w].read = settings, ![w].saw = standing,
                                         ![w].settings = Put(ExtraRepos, EditInPlace(settings, after, edit[w].adding, writer[w].slugs), settings)]
             /\ UNCHANGED standing

Read(w) ==
    /\ writer[w].at = "read"
    /\ EditOf(w, ReadTrustedConfig(fs, writer[w].path))
    /\ UNCHANGED <<fs, inputs, sure, retargets>>

-----------------------------------------------------------------------------
\* No file yet: check_config_write_target, then _ensure_dir, then again.
Vet(w) ==
    /\ writer[w].at = "vet"
    /\ Goes(w, IF PathRefused(fs, writer[w].path) THEN "refused" ELSE "mkdir")
    /\ UNCHANGED <<fs, inputs, history, retargets>>

\* What a writer puts where its path no longer leads may undo what any other did.
Changes(w) == IF w \in sure THEN UNCHANGED sure ELSE sure' = {}

\* _ensure_dir: what is missing below the last directory on the way that is there,
\* also when a file was read, whose directory may be gone by now.
EnsureDir(w) ==
    /\ writer[w].at \in {"mkdir", "ensure"}
    /\ LET dir == Parent(writer[w].target)
           there == {n \in 0..Len(dir) : Kernel(fs, SubSeq(dir, 1, n)) # Nowhere}
           last == CHOOSE n \in there : \A m \in there : m <= n
           base == Kernel(fs, SubSeq(dir, 1, last))
           new == {base \o SubSeq(dir, last + 1, n) : n \in last + 1..Len(dir)}
           next == IF writer[w].at = "mkdir" THEN "revet" ELSE "temp"
       IN  CASE new = {} -> Goes(w, next) /\ UNCHANGED <<fs, history>>
             [] new # {} /\ (~IsA(fs, base, "dir") \/ new \intersect DOMAIN fs # {}) ->
                    Goes(w, "failed") /\ UNCHANGED <<fs, history>>
             [] OTHER -> /\ fs' = WithDirs(fs, new) /\ Goes(w, next)
                         /\ Changes(w) /\ standing' = IF w \in sure THEN standing ELSE {}
    /\ UNCHANGED <<inputs, retargets>>

VetAgain(w) ==
    /\ writer[w].at = "revet"
    /\ Goes(w, IF PathRefused(fs, writer[w].path) THEN "refused" ELSE "temp")
    /\ UNCHANGED <<fs, inputs, history, retargets>>

\* The temporary file beside the target, written, synced and read again.
WrittenTo(settings, whole) ==
    [Directory EXCEPT !.kind = "file", !.data = [whole |-> whole, settings |-> settings]]

WriteTemp(w) ==
    /\ writer[w].at = "temp"
    /\ LET dir == Parent(writer[w].target)
           after == Compute(Current(writer[w].read), edit[w].adding, writer[w].slugs)
       IN  CASE ~IsDir(fs, dir) -> Goes(w, "failed")
             [] IsDir(fs, dir) /\ PathRefused(fs, Append(dir, w)) -> Goes(w, "refused")
             [] IsDir(fs, dir) /\ Current(writer[w].settings) # after -> Goes(w, "refused")
             [] OTHER -> Goes(w, "recheck")
    /\ UNCHANGED <<fs, inputs, history, retargets>>

\* Whether a reader will go by the path once the file is there.
Vouched(w) ==
    /\ ~PathRefused(fs, writer[w].path) /\ Walk(fs, writer[w].path).hops <= KernelHops
    /\ IsA(fs, Parent(writer[w].target), "dir")

Passes(w) ==
    /\ Goes(w, "replace")
    /\ sure' = IF Vouched(w) THEN sure \union {w} ELSE sure \ {w}

Recheck_Skipped(w) ==   \* mutant: straight to the rename
    /\ writer[w].at = "recheck" /\ Passes(w)
    /\ UNCHANGED <<fs, inputs, standing, retargets>>

\* _require_same_target: by the target alone.  The code does not look whether
\* the owner, here since the read, lost the path its readers: Vouched is history.
Recheck(w) ==
    /\ writer[w].at = "recheck"
    /\ IF LookupTarget(fs, writer[w].path) # writer[w].target THEN Goes(w, "refused") /\ UNCHANGED sure ELSE Passes(w)
    /\ UNCHANGED <<fs, inputs, standing, retargets>>

Rewrites(v, w) == \E s \in writer[v].slugs, t \in writer[w].slugs : SlugKey(s) = SlugKey(t)

Replace_InPlace(w) ==   \* mutant: the bytes go to the target itself, and then the rest of them
    /\ writer[w].at \in {"replace", "writing"}
    /\ LET t == writer[w].target
       IN  IF ~IsA(fs, Parent(t), "dir") \/ IsA(fs, t, "dir")
           THEN Goes(w, "failed") /\ UNCHANGED <<fs, history>>
           ELSE /\ fs' = Put(t, WrittenTo(writer[w].settings, writer[w].at = "writing"), fs)
                /\ Goes(w, IF writer[w].at = "writing" THEN "changed" ELSE "writing")
                /\ Changes(w) /\ standing' = {}
    /\ UNCHANGED <<inputs, retargets>>

Replace(w) ==
    /\ writer[w].at = "replace"
    /\ LET t == writer[w].target
       IN  IF ~IsA(fs, Parent(t), "dir") \/ IsA(fs, t, "dir")
           THEN Goes(w, "failed") /\ UNCHANGED <<fs, history>>
           ELSE /\ fs' = Put(t, WrittenTo(writer[w].settings, TRUE), fs)
                /\ Goes(w, "changed") /\ Changes(w)
                /\ standing' = IF w \in sure THEN {v \in standing : v \in writer[w].saw /\ ~Rewrites(v, w)} \union {w}
                               ELSE {}
    /\ UNCHANGED <<inputs, retargets>>

Ended == {"idle", "refused", "failed", "unchanged", "changed", "killed"}

\* An error leaves the command without a change, as a kill does.
Killed(w) ==
    /\ writer[w].at \notin Ended
    /\ \E to \in {"killed", "failed"} : Goes(w, to)
    /\ UNCHANGED <<fs, inputs, history, retargets>>

\* The owner puts another entry at a place on the way to the file.
Retarget ==
    /\ retargets < MaxRetargets
    /\ \E l \in links :
          /\ IsA(fs, Parent(l.at), "dir") /\ ~IsA(fs, l.at, "dir")
          /\ fs' = Put(l.at, l.entry, fs) /\ fs' # fs
    /\ retargets' = retargets + 1 /\ standing' = {} /\ sure' = {}
    /\ UNCHANGED <<inputs, writer>>

Next ==
    \/ \E w \in Writer :
           \/ Start(w) \/ Aim(w) \/ Read(w) \/ Vet(w) \/ EnsureDir(w) \/ VetAgain(w)
           \/ WriteTemp(w) \/ Recheck(w) \/ Replace(w) \/ Killed(w)
    \/ Retarget

Spec == Init /\ [][Next]_vars
-----------------------------------------------------------------------------
\* A path the walk proves is the one the system opens, once the directories
\* and the file are there, unless it has too many links for the system; and
\* the walk proves every path the system opens.
\* The writer creates its file at the one and the reader opens the other.
Created(t) == Over(WithDirs(fs, Ancestors(t) \ {Root}), [l \in {t} |-> WrittenTo(<<>>, TRUE)])

LeadsTo(path, t) ==
    /\ t # Nowhere /\ ~IsA(fs, t, "dir") /\ Walk(fs, path).hops <= KernelHops
       /\ (\A d \in Ancestors(t) : d \in DOMAIN fs => IsA(fs, d, "dir")) => Kernel(Created(t), path) = t
    /\ Kernel(fs, path) # Nowhere => t = Kernel(fs, path)

LookupIsTheKernels == \A path \in ConfigPaths : LeadsTo(path, LookupTarget(fs, path))

\* A reset that is not refused leaves every configuration file in use where
\* its path finds it: deleting any link or directory the lookup passes would
\* lose the file as well.  A data directory that is a link leads to a directory
\* again, if its way does not go through what was deleted.
Spares(after, paths, dataDir) ==
    LET dir == Resolve(fs, dataDir)
        within == {l \in ResolutionChain(fs, dataDir) : IsPrefix(dir, l) /\ l # dir}
    IN  /\ \A p \in paths : IsFile(fs, p) => Kernel(after, p) = Kernel(fs, p)
        /\ IsDir(fs, dataDir) /\ IsLink(after, dataDir) /\ within = {} => IsDir(after, dataDir)

ResetSparesConfig ==
    \A path \in ConfigPaths, dataDir \in DataDirs :
        ~ResetRefused(fs, dataDir, path, DotenvPath) =>
            Spares(DeleteIndexStorage(fs, dataDir), {path, DotenvPath}, dataDir)

\* The provenance map names the layer each value in force comes from, and has
\* no entry for a value that is blank: `repos` decides by it alone whether an
\* edit would have any effect.
FromItsLayer(l, k) ==
    CASE l.provenance[k] = "env" -> k \in DOMAIN real /\ l.environ[k] = real[k]
      [] l.provenance[k] = ".env" -> k \in DOMAIN dotenv \ DOMAIN real /\ l.environ[k] = dotenv[k]
      [] OTHER -> IsBlank(Value(real, k)) /\ k \notin InvocationScoped
NamesTheLayers(l) ==
    \A k \in Key : /\ k \in DOMAIN l.provenance <=> ~IsBlank(Value(l.environ, k))
                   /\ k \in DOMAIN l.provenance => FromItsLayer(l, k)

ProvenanceIsTrue == NamesTheLayers(Loaded)

\* An exclusion written in config.toml that the upper layers override is
\* named in a warning when this run does not make it, and never when it does.
InForce(environ, key, e) ==
    IF key = TaintedRepos THEN Tainted(environ, e) ELSE e \in Range(SplitCsv(Value(environ, key)))

LossIsSaid(l, settings) ==
    \A k \in ExclusionKeys \cap DOMAIN settings :
        Coerced(settings[k]) =>
            \A e \in Range(ConfigListValue(settings[k])) :
                LET said == \E w \in l.warned : w.key = k /\ (w.says = "unknown" \/ e \in w.entries)
                    lost == \E w \in l.warned : w.key = k /\ e \in w.entries
                IN  IF InForce(l.environ, k, e) THEN ~lost ELSE said

ExclusionLossIsSaid ==
    LossIsSaid(Loaded, Settings(ReadOverride(fs, ResolveConfigPath(Loaded.environ))))

\* An edit that ended well, by a path that readers trust at its last check, is
\* what the next process goes by, until a later edit, the owner of the files or a
\* writer the owner misled changes it: the repos of an add are in the file, and
\* effective unless the file now excludes them, and those of a remove are not;
\* where a higher layer was said to hide the file, they are so in the file alone.
ConfiguredRepos ==
    Current(Settings(ReadTrustedConfig(fs, ResolveConfigPath(Loaded.environ))))

EditTakesEffect ==
    \A w \in standing : \A s \in writer[w].slugs :
        /\ SlugKey(s) \in Keys(ConfiguredRepos) <=> edit[w].adding
        /\ ~writer[w].shadowed =>
              (SlugKey(s) \in Keys(EffectiveRepos(Loaded.environ)) <=> edit[w].adding /\ ~Tainted(Loaded.environ, s))

\* No step leaves a configuration file that is not whole, a kill included.
NeverTorn ==
    [][\A l \in DOMAIN fs' :
           fs'[l].kind = "file" /\ ~fs'[l].data.whole => l \in DOMAIN fs /\ fs[l] = fs'[l]]_fs
=============================================================================
