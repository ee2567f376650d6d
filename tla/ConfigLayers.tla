---------------------------- MODULE ConfigLayers ----------------------------
(***************************************************************************)
(* The layers of the configuration (shared/env_loading.py) and what the    *)
(* settings read from them (shared/config.py): the real environment, the   *)
(* .env of the working directory, config.toml, the defaults.               *)
(*                                                                         *)
(* A value in the environment is the sequence of what its commas separate, *)
(* Blank standing for nothing but spaces.  A value of config.toml is       *)
(* [shape, items]: an "array" of strings, a string ("csv"), another scalar *)
(* ("scalar") or anything the loader has no string for ("skipped").        *)
(***************************************************************************)
EXTENDS PathLookup, Lists

CONSTANTS
    ExtraRepos, TaintedRepos, TaintedRefs, DataDir, ConfigFile,  \* keys
    Blank,          \* an entry that is nothing but spaces
    DefaultRepos,   \* the repos that are always there
    DefaultConfig,  \* DEFAULT_CONFIG_PATH
    DefaultDataDir

ASSUME KeysDiffer == \A key \in {ConfigFile, DataDir} : key \notin {ExtraRepos, TaintedRepos, TaintedRefs}

Key == {ExtraRepos, TaintedRepos, TaintedRefs, DataDir, ConfigFile}
InvocationScoped == {ConfigFile}
ExclusionKeys == {TaintedRepos, TaintedRefs}

IsBlank(value) == value \in {<<>>, <<Blank>>}
Value(environ, key) == IF key \in DOMAIN environ THEN environ[key] ELSE <<>>
SplitCsv(value) == Picked(value, {i \in DOMAIN value : value[i] # Blank})

\* shared/repo_slug.py, shared/exclusion_folds.py.
SlugKey(slug) == slug.repo
ExclusionFold_Exact(key, entry) == entry   \* mutant: no folding

ExclusionFold(key, entry) == IF key = TaintedRepos THEN SlugKey(entry) ELSE entry
Keys(slugs) == {SlugKey(slugs[i]) : i \in DOMAIN slugs}

\* Where the first slug of each key is.
Firsts(slugs) == {i \in DOMAIN slugs : \A j \in DOMAIN slugs : j < i => SlugKey(slugs[j]) # SlugKey(slugs[i])}
DedupeSlugs(slugs) == Picked(slugs, Firsts(slugs))

-----------------------------------------------------------------------------
\* shared/config.py reads the environment, and only it.
Tainted(environ, slug) == SlugKey(slug) \in Keys(SplitCsv(Value(environ, TaintedRepos)))

EffectiveRepos(environ) ==
    LET slugs == DedupeSlugs(DefaultRepos \o SplitCsv(Value(environ, ExtraRepos)))
    IN  Picked(slugs, {i \in DOMAIN slugs : ~Tainted(environ, slugs[i])})

IsDefault(slug) == SlugKey(slug) \in Keys(DefaultRepos)

DataDirOf(environ) == IF IsBlank(Value(environ, DataDir)) THEN DefaultDataDir ELSE environ[DataDir][1]

-----------------------------------------------------------------------------
\* A blank override loads nothing; none loads the default.
ResolveConfigPath(environ) ==
    IF ConfigFile \notin DOMAIN environ THEN DefaultConfig
    ELSE IF IsBlank(environ[ConfigFile]) THEN Nowhere ELSE environ[ConfigFile][1]

\* The .env sets what is not there yet, blank or not.
DotenvApplied(environ, dotenv) == [k \in DOMAIN dotenv \ DOMAIN environ |-> dotenv[k]]

\* What reading config.toml ends in: [outcome, data].
Outcome(what) == [outcome |-> what, data |-> Nowhere]
ReadAt(fs, path, at) ==
    CASE at = Nowhere -> Outcome(IF Missing(fs, path) THEN "missing" ELSE "untrusted")
      [] at # Nowhere /\ ~IsA(fs, at, "file") -> Outcome("untrusted")
      [] PathRefused(fs, path) \/ ~fs[at].safe -> Outcome("untrusted")
      [] OTHER -> [outcome |-> "read", data |-> fs[at].data]

ReadTrustedConfig(fs, path) == ReadAt(fs, path, Kernel(fs, path))
ReadOverride(fs, path) == IF path = Nowhere THEN Outcome("missing") ELSE ReadTrustedConfig(fs, path)
Settings(read) == IF read.outcome = "read" /\ read.data.whole THEN read.data.settings ELSE <<>>

Coerced(value) == value.shape # "skipped"
ConfigListValue(value) == SplitCsv(value.items)

\* The exclusions of config.toml that the winning layer does not have.
Shadowed(key, value, active) ==
    LET covered == {ExclusionFold(key, SplitCsv(active)[i]) : i \in DOMAIN SplitCsv(active)}
    IN  {e \in Range(ConfigListValue(value)) : ExclusionFold(key, e) \notin covered}

ShadowWarning(key, value, active) ==
    IF value.shape \notin {"array", "csv"} THEN [key |-> key, says |-> "unknown", entries |-> {}]
    ELSE [key |-> key, says |-> IF Shadowed(key, value, active) = {} THEN "covered" ELSE "lost",
          entries |-> Shadowed(key, value, active)]

\* load_global_config over one key of the file.
Shadows(environ, key) == ~IsBlank(Value(environ, key))

DirCollides(fs, environ, dir) ==
    Collides(fs, ResolveConfigPath(environ), Resolve(fs, dir))

Applies(fs, environ, key, value) ==
    /\ key \notin InvocationScoped
    /\ ~Shadows(environ, key)
    /\ Coerced(value)
    /\ key = DataDir /\ value.items # <<>> => ~DirCollides(fs, environ, value.items[1])

LoadSettings(fs, environ, data) ==
    [applied |-> [k \in {x \in DOMAIN data : Applies(fs, environ, x, data[x])} |-> data[k].items],
     warned |-> {ShadowWarning(k, data[k], environ[k]) :
                    k \in {x \in DOMAIN data \cap ExclusionKeys : Shadows(environ, x)}}]

LoadGlobal(fs, environ) == LoadSettings(fs, environ, Settings(ReadOverride(fs, ResolveConfigPath(environ))))

(* The environment a process goes on with, where each value in it comes from, *)
(* and what was said on the way.                                              *)
Layered(real, fromDotenv, global) ==
    LET environ == Over(global.applied, Over(fromDotenv, real))
        layer(k) == IF k \in DOMAIN global.applied THEN "config.toml"
                    ELSE IF k \in DOMAIN fromDotenv THEN ".env" ELSE "env"
    IN  [environ |-> environ, warned |-> global.warned,
         provenance |-> [k \in {x \in DOMAIN environ : ~IsBlank(environ[x])} |-> layer(k)]]

LoadEnvLayers_LateSnapshot(fs, real, dotenv) ==   \* mutant: looks at the environment after the .env is in it
    LET early == Over(DotenvApplied(real, dotenv), real)
    IN  Layered(early, <<>>, LoadGlobal(fs, early))

\* load_env_layers.
LoadEnvLayers(fs, real, dotenv) ==
    LET fromDotenv == DotenvApplied(real, dotenv)
    IN  Layered(real, fromDotenv, LoadGlobal(fs, Over(fromDotenv, real)))

=============================================================================
