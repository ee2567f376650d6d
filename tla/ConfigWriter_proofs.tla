------------------------ MODULE ConfigWriter_proofs ------------------------
(***************************************************************************)
(* ConfigWriter for any file tree, layers, writers and links: no step      *)
(* leaves a configuration file torn; the provenance of every value in      *)
(* force names its layer; an exclusion that is lost to an upper layer is   *)
(* said to be, and no other; the program's walk of a path proves what the  *)
(* operating system opens; a reset spares the files in use; and what the   *)
(* next process goes by is what an edit that ended well said it did.       *)
(***************************************************************************)
EXTENDS ConfigWriter, TLAPS, FiniteSetTheorems, WellFoundedInduction

-----------------------------------------------------------------------------
(* Files stay whole *)

\* What the owner may put somewhere is never written by a step.
LinksOnly == \A l \in links : l.entry.kind = "link"

LEMMA LinksStay == LinksOnly /\ [Next]_vars => LinksOnly'
<1> SUFFICES ASSUME LinksOnly, [Next]_vars PROVE UNCHANGED links
  BY DEF LinksOnly
<1>1. CASE UNCHANGED vars
  BY <1>1 DEF vars, inputs
<1>2. CASE Retarget
  BY <1>2 DEF Retarget, inputs
<1>3. ASSUME NEW w \in Writer,
             Start(w) \/ Aim(w) \/ Read(w) \/ Vet(w) \/ EnsureDir(w) \/ VetAgain(w)
             \/ WriteTemp(w) \/ Recheck(w) \/ Replace(w) \/ Killed(w)
      PROVE  UNCHANGED links
  BY <1>3 DEF Start, Aim, Read, Vet, EnsureDir, VetAgain, WriteTemp, Recheck, Replace, Killed, inputs
<1> QED BY <1>1, <1>2, <1>3 DEF Next

\* An entry that is new is whole, if it is a file.
NothingTorn ==
    \A l \in DOMAIN fs' : fs'[l].kind = "file" /\ ~fs'[l].data.whole => l \in DOMAIN fs /\ fs[l] = fs'[l]

LEMMA ReplaceKeepsWhole ==
    ASSUME NEW w \in Writer, Replace(w), fs' # fs
    PROVE  NothingTorn
<1> DEFINE t == writer[w].target
           new == WrittenTo(writer[w].settings, TRUE)
<1>1. fs' = Put(t, new, fs)
  BY DEF Replace
<1>2. new.data.whole
  BY DEF WrittenTo, Directory
<1>3. \A l \in DOMAIN fs' : l # t => l \in DOMAIN fs /\ fs'[l] = fs[l]
  BY <1>1 DEF Put, Over
<1>4. fs'[t] = new
  BY <1>1 DEF Put, Over
<1> QED BY <1>2, <1>3, <1>4 DEF NothingTorn

LEMMA EnsureDirKeepsWhole ==
    ASSUME NEW w \in Writer, EnsureDir(w), fs' # fs
    PROVE  NothingTorn
<1>1. PICK dirs : fs' = WithDirs(fs, dirs)
  BY DEF EnsureDir
<1> DEFINE new == [l \in dirs \ DOMAIN fs |-> Directory]
<1>2. fs' = Over(new, fs)
  BY <1>1 DEF WithDirs
<1>3. \A l \in DOMAIN new : fs'[l] = Directory
  BY <1>2 DEF Over
<1>4. \A l \in DOMAIN fs' : l \notin DOMAIN new => l \in DOMAIN fs /\ fs'[l] = fs[l]
  BY <1>2 DEF Over
<1>5. Directory.kind # "file"
  BY DEF Directory
<1> QED BY <1>3, <1>4, <1>5 DEF NothingTorn

LEMMA RetargetKeepsWhole ==
    ASSUME LinksOnly, Retarget
    PROVE  NothingTorn
<1>1. PICK l \in links : fs' = Put(l.at, l.entry, fs)
  BY DEF Retarget
<1>2. l.entry.kind # "file"
  BY DEF LinksOnly
<1>3. \A x \in DOMAIN fs' : x # l.at => x \in DOMAIN fs /\ fs'[x] = fs[x]
  BY <1>1 DEF Put, Over
<1>4. fs'[l.at] = l.entry
  BY <1>1 DEF Put, Over
<1> QED BY <1>2, <1>3, <1>4 DEF NothingTorn

\* No step leaves a configuration file that is not whole: two writers, killed
\* anywhere, and whoever moves links (atomic_write_text's temporary file).
THEOREM FilesStayWhole == Spec => NeverTorn
<1>1. LinksOnly /\ [Next]_vars => [NothingTorn]_fs
  <2> SUFFICES ASSUME LinksOnly, Next, fs' # fs PROVE NothingTorn
    BY DEF vars
  <2>1. CASE Retarget
    BY <2>1, RetargetKeepsWhole
  <2>2. ASSUME NEW w \in Writer,
               Start(w) \/ Aim(w) \/ Read(w) \/ Vet(w) \/ VetAgain(w) \/ WriteTemp(w) \/ Recheck(w) \/ Killed(w)
        PROVE  fs' = fs
    BY <2>2 DEF Start, Aim, Read, Vet, VetAgain, WriteTemp, Recheck, Killed
  <2>3. ASSUME NEW w \in Writer, EnsureDir(w) PROVE NothingTorn
    BY <2>3, EnsureDirKeepsWhole
  <2>4. ASSUME NEW w \in Writer, Replace(w) PROVE NothingTorn
    BY <2>4, ReplaceKeepsWhole
  <2> QED BY <2>1, <2>2, <2>3, <2>4 DEF Next
<1>2. Init => LinksOnly
  BY OwnerMovesLinks DEF Init, LinksOnly
<1> QED BY <1>1, <1>2, LinksStay, PTL DEF Spec, NeverTorn, NothingTorn

-----------------------------------------------------------------------------
(* The layers *)

\* What the layers are before config.toml is laid over them.
Below(env, dot) == Over(DotenvApplied(env, dot), env)

LEMMA BelowIs ==
    ASSUME NEW env, NEW dot, NEW k
    PROVE  /\ k \in DOMAIN env => k \in DOMAIN Below(env, dot) /\ Below(env, dot)[k] = env[k]
           /\ k \in DOMAIN dot \ DOMAIN env => k \in DOMAIN Below(env, dot) /\ Below(env, dot)[k] = dot[k]
           /\ k \in DOMAIN Below(env, dot) => k \in DOMAIN env \union DOMAIN dot
BY DEF Below, Over, DotenvApplied

\* What config.toml gives is what no layer above says anything of.
LEMMA AppliedIs ==
    ASSUME NEW tree, NEW env, NEW data, NEW k \in DOMAIN LoadSettings(tree, env, data).applied
    PROVE  /\ k \in DOMAIN data /\ k \notin InvocationScoped /\ IsBlank(Value(env, k))
           /\ LoadSettings(tree, env, data).applied[k] = data[k].items
BY DEF LoadSettings, Applies, Shadows

\* The environment and its provenance, by layer.
LEMMA LayersAre ==
    ASSUME NEW tree, NEW env, NEW dot
    PROVE  LET l == LoadEnvLayers(tree, env, dot)
               below == Below(env, dot)
               read == Settings(ReadOverride(tree, ResolveConfigPath(below)))
               given == LoadSettings(tree, below, read)
           IN  /\ l.warned = given.warned
               /\ l.environ = Over(given.applied, below)
               /\ DOMAIN l.provenance = {k \in DOMAIN l.environ : ~IsBlank(l.environ[k])}
               /\ \A k \in DOMAIN l.provenance :
                     l.provenance[k] = IF k \in DOMAIN given.applied THEN "config.toml"
                                       ELSE IF k \in DOMAIN dot \ DOMAIN env THEN ".env" ELSE "env"
BY DEF LoadEnvLayers, Layered, LoadGlobal, Below, DotenvApplied

LEMMA EveryLayerIsNamed ==
    ASSUME NEW tree, NEW env, NEW dot, NEW l, l = LoadEnvLayers(tree, env, dot), NEW k
    PROVE  /\ k \in DOMAIN l.provenance <=> ~IsBlank(Value(l.environ, k))
           /\ k \in DOMAIN l.provenance =>
                CASE l.provenance[k] = "env" -> k \in DOMAIN env /\ l.environ[k] = env[k]
                  [] l.provenance[k] = ".env" -> k \in DOMAIN dot \ DOMAIN env /\ l.environ[k] = dot[k]
                  [] OTHER -> IsBlank(Value(env, k)) /\ k \notin InvocationScoped
<1> DEFINE below == Below(env, dot)
           read == Settings(ReadOverride(tree, ResolveConfigPath(below)))
           applied == LoadSettings(tree, below, read).applied
<1>1. /\ l.environ = Over(applied, below)
      /\ DOMAIN l.provenance = {x \in DOMAIN l.environ : ~IsBlank(l.environ[x])}
      /\ \A x \in DOMAIN l.provenance :
            l.provenance[x] = IF x \in DOMAIN applied THEN "config.toml"
                              ELSE IF x \in DOMAIN dot \ DOMAIN env THEN ".env" ELSE "env"
  BY LayersAre
<1>2. IsBlank(<<>>)
  BY DEF IsBlank
<1>3. k \in DOMAIN l.provenance <=> ~IsBlank(Value(l.environ, k))
  BY <1>1, <1>2 DEF Value
<1>4. ASSUME k \in DOMAIN l.provenance, k \in DOMAIN applied
      PROVE  l.provenance[k] = "config.toml" /\ k \notin InvocationScoped /\ IsBlank(Value(env, k))
  <2>1. k \notin InvocationScoped /\ IsBlank(Value(below, k))
    BY <1>4, AppliedIs
  <2>2. IsBlank(Value(env, k))
    BY <2>1, <1>2, BelowIs DEF Value
  <2> QED BY <2>1, <2>2, <1>1, <1>4
<1>5. ASSUME k \in DOMAIN l.provenance, k \notin DOMAIN applied
      PROVE  k \in DOMAIN below /\ l.environ[k] = below[k]
  BY <1>1, <1>5 DEF Over
<1>6. ASSUME k \in DOMAIN l.provenance, k \notin DOMAIN applied, k \in DOMAIN dot \ DOMAIN env
      PROVE  l.provenance[k] = ".env" /\ l.environ[k] = dot[k]
  <2>1. below[k] = dot[k]
    BY <1>6, BelowIs
  <2> QED BY <2>1, <1>1, <1>5, <1>6
<1>7. ASSUME k \in DOMAIN l.provenance, k \notin DOMAIN applied, k \notin DOMAIN dot \ DOMAIN env
      PROVE  l.provenance[k] = "env" /\ k \in DOMAIN env /\ l.environ[k] = env[k]
  <2>1. k \in DOMAIN env
    BY <1>5, <1>7, BelowIs
  <2>2. below[k] = env[k]
    BY <2>1, BelowIs
  <2> QED BY <2>1, <2>2, <1>1, <1>5, <1>7
<1>8. "config.toml" # "env" /\ "config.toml" # ".env" /\ ".env" # "env"
  OBVIOUS
<1>9. CASE k \in DOMAIN l.provenance /\ k \in DOMAIN applied
  BY <1>3, <1>4, <1>8, <1>9
<1>10. CASE k \in DOMAIN l.provenance /\ k \notin DOMAIN applied /\ k \in DOMAIN dot \ DOMAIN env
  BY <1>3, <1>6, <1>8, <1>10
<1>11. CASE k \in DOMAIN l.provenance /\ k \notin DOMAIN applied /\ k \notin DOMAIN dot \ DOMAIN env
  BY <1>3, <1>7, <1>8, <1>11
<1> QED BY <1>3, <1>9, <1>10, <1>11

\* Whatever the three layers say, and wherever the files are, the provenance
\* names the layer of each value in force, and of no other (load_env_layers).
THEOREM LayersAreNamed == Spec => []ProvenanceIsTrue
<1>1. ProvenanceIsTrue
  BY EveryLayerIsNamed DEF ProvenanceIsTrue, NamesTheLayers, FromItsLayer, Loaded
<1> QED BY <1>1, PTL

-----------------------------------------------------------------------------
(* Exclusions *)

LEMMA SaidOf ==
    ASSUME NEW tree, NEW env, NEW data, NEW k
    PROVE  /\ k \in DOMAIN data \cap ExclusionKeys /\ ~IsBlank(Value(env, k)) =>
                 ShadowWarning(k, data[k], env[k]) \in LoadSettings(tree, env, data).warned
           /\ \A w \in LoadSettings(tree, env, data).warned :
                 w.key = k => /\ k \in DOMAIN data \cap ExclusionKeys /\ ~IsBlank(Value(env, k))
                              /\ w = ShadowWarning(k, data[k], env[k])
<1> DEFINE warned == {ShadowWarning(x, data[x], env[x]) : x \in {y \in DOMAIN data \cap ExclusionKeys : Shadows(env, y)}}
<1>1. LoadSettings(tree, env, data).warned = warned
  BY DEF LoadSettings
<1>2. \A x : ShadowWarning(x, data[x], env[x]).key = x
  BY DEF ShadowWarning
<1>3. \A w \in warned : \E x \in DOMAIN data \cap ExclusionKeys : Shadows(env, x) /\ w = ShadowWarning(x, data[x], env[x])
  OBVIOUS
<1>4. k \in DOMAIN data \cap ExclusionKeys /\ Shadows(env, k) => ShadowWarning(k, data[k], env[k]) \in warned
  OBVIOUS
<1>5. Shadows(env, k) <=> ~IsBlank(Value(env, k))
  BY DEF Shadows
<1> HIDE DEF warned
<1> QED BY <1>1, <1>2, <1>3, <1>4, <1>5

\* An exclusion is in force under a value exactly when the value covers it.
LEMMA CoveredIsInForce ==
    ASSUME NEW env, NEW k \in ExclusionKeys, k \in DOMAIN env, NEW value, NEW e \in Range(ConfigListValue(value))
    PROVE  e \in Shadowed(k, value, env[k]) <=> ~InForce(env, k, e)
<1>1. CASE k = TaintedRepos
  BY <1>1 DEF Shadowed, ExclusionFold, InForce, Tainted, Keys, Value
<1>2. CASE k # TaintedRepos
  BY <1>2 DEF Shadowed, ExclusionFold, InForce, Range, Value
<1> QED BY <1>1, <1>2

\* And always under the value it is written in.
LEMMA OwnIsInForce ==
    ASSUME NEW env, NEW k \in ExclusionKeys, k \in DOMAIN env, NEW value, env[k] = value.items,
           NEW e \in Range(ConfigListValue(value))
    PROVE  InForce(env, k, e)
<1>1. PICK i \in DOMAIN SplitCsv(env[k]) : e = SplitCsv(env[k])[i]
  BY DEF Range, ConfigListValue
<1>2. CASE k = TaintedRepos
  BY <1>1, <1>2 DEF InForce, Tainted, Keys, Value
<1>3. CASE k # TaintedRepos
  BY <1>1, <1>3 DEF InForce, Range, Value
<1> QED BY <1>2, <1>3

\* config.toml does not say where it is.
LEMMA SamePlace ==
    ASSUME NEW tree, NEW env, NEW dot
    PROVE  ResolveConfigPath(LoadEnvLayers(tree, env, dot).environ) = ResolveConfigPath(Below(env, dot))
<1> DEFINE below == Below(env, dot)
           read == Settings(ReadOverride(tree, ResolveConfigPath(below)))
           applied == LoadSettings(tree, below, read).applied
           environ == LoadEnvLayers(tree, env, dot).environ
<1>1. environ = Over(applied, below)
  BY LayersAre
<1>2. ConfigFile \notin DOMAIN applied
  BY AppliedIs DEF InvocationScoped
<1>3. /\ ConfigFile \in DOMAIN environ <=> ConfigFile \in DOMAIN below
      /\ ConfigFile \in DOMAIN below => environ[ConfigFile] = below[ConfigFile]
  BY <1>1, <1>2 DEF Over
<1> QED BY <1>3 DEF ResolveConfigPath

LEMMA EveryLossIsSaid ==
    ASSUME NEW tree, NEW env, NEW dot, NEW l, l = LoadEnvLayers(tree, env, dot),
           NEW data, data = Settings(ReadOverride(tree, ResolveConfigPath(l.environ)))
    PROVE  LossIsSaid(l, data)
<1> DEFINE below == Below(env, dot)
           given == LoadSettings(tree, below, data)
<1>1. /\ l.warned = given.warned
      /\ l.environ = Over(given.applied, below)
  BY LayersAre, SamePlace
<1> SUFFICES ASSUME NEW k \in ExclusionKeys \cap DOMAIN data, Coerced(data[k]),
                    NEW e \in Range(ConfigListValue(data[k]))
             PROVE  LET said == \E w \in l.warned : w.key = k /\ (w.says = "unknown" \/ e \in w.entries)
                        lost == \E w \in l.warned : w.key = k /\ e \in w.entries
                    IN  IF InForce(l.environ, k, e) THEN ~lost ELSE said
  BY DEF LossIsSaid
<1>2. k # DataDir /\ k \notin InvocationScoped
  BY KeysDiffer DEF ExclusionKeys, InvocationScoped
<1>3. CASE IsBlank(Value(below, k))
  <2>1. k \in DOMAIN given.applied /\ given.applied[k] = data[k].items
    BY <1>2, <1>3 DEF LoadSettings, Applies, Shadows
  <2>2. k \in DOMAIN l.environ /\ l.environ[k] = data[k].items
    BY <1>1, <2>1 DEF Over
  <2>3. InForce(l.environ, k, e)
    BY <2>2, OwnIsInForce
  <2>4. \A w \in l.warned : w.key # k
    BY <1>1, <1>3, SaidOf
  <2> QED BY <2>3, <2>4
<1>4. CASE ~IsBlank(Value(below, k))
  <2> DEFINE warning == ShadowWarning(k, data[k], below[k])
  <2>1. warning \in l.warned /\ warning.key = k
    <3>1. warning.key = k
      BY DEF ShadowWarning
    <3> QED BY <3>1, <1>1, <1>4, SaidOf
  <2>2. \A w \in l.warned : w.key = k => w = warning
    BY <1>1, <1>4, SaidOf
  <2>3. k \in DOMAIN below
    BY <1>4 DEF Value, IsBlank
  <2>4. k \notin DOMAIN given.applied
    BY <1>4, AppliedIs
  <2>5. k \in DOMAIN l.environ /\ l.environ[k] = below[k]
    BY <1>1, <2>3, <2>4 DEF Over
  <2>6. e \in Shadowed(k, data[k], below[k]) <=> ~InForce(l.environ, k, e)
    BY <2>5, CoveredIsInForce
  <2>7. CASE data[k].shape \notin {"array", "csv"}
    <3>1. warning.says = "unknown" /\ warning.entries = {}
      BY <2>7 DEF ShadowWarning
    <3> QED BY <3>1, <2>1, <2>2
  <2>8. CASE data[k].shape \in {"array", "csv"}
    <3>1. warning.entries = Shadowed(k, data[k], below[k])
      BY <2>8 DEF ShadowWarning
    <3> QED BY <3>1, <2>1, <2>2, <2>6
  <2> QED BY <2>7, <2>8
<1> QED BY <1>3, <1>4

\* An exclusion of config.toml that an upper layer overrides is named in a
\* warning when the run does not make it and never when it does, in whatever
\* spelling each layer has it (exclusion_folds).
THEOREM LossesAreSaid == Spec => []ExclusionLossIsSaid
<1>1. ExclusionLossIsSaid
  BY EveryLossIsSaid DEF ExclusionLossIsSaid, Loaded
<1> QED BY <1>1, PTL

-----------------------------------------------------------------------------
(* Steps of a walk. *)

\* The first of some numbers there are.
LEMMA FirstIs ==
    ASSUME NEW I, I \subseteq Nat, I # {}
    PROVE  \E i \in I : \A j \in I : i <= j
<1>1. IsWellFoundedOn(OpToRel(<, Nat), Nat)
  BY NatLessThanWellFounded
<1>2. PICK i \in I : \A j \in I : <<j, i>> \notin OpToRel(<, Nat)
  BY <1>1, WFMin
<1>3. \A j \in I : ~(j < i)
  BY <1>2 DEF OpToRel
<1> QED BY <1>3

\* What holds at a step and is kept by every later one holds from there on.
LEMMA EveryStep ==
    ASSUME NEW m \in Nat, NEW last \in Nat, NEW P, m \in P, \A n \in m..last : n # last /\ n \in P => n + 1 \in P
    PROVE  \A n \in m..last : n \in P
<1> DEFINE wrong == {n \in m..last : n \notin P}
<1> SUFFICES ASSUME wrong # {} PROVE FALSE
  OBVIOUS
<1>1. PICK n \in wrong : \A j \in wrong : n <= j
  <2>1. wrong \subseteq Nat
    OBVIOUS
  <2> HIDE DEF wrong
  <2> QED BY <2>1, FirstIs
<1>2. n # m /\ n - 1 \in m..last /\ n - 1 # last /\ ~(n <= n - 1) /\ (n - 1) + 1 = n
  BY <1>1
<1>3. n - 1 \in P
  BY <1>1, <1>2
<1>4. (n - 1) + 1 \in P
  BY <1>2, <1>3
<1> QED BY <1>1, <1>2, <1>4

-----------------------------------------------------------------------------
(* Locations. *)

Tokens == STRING \union {Up, MustBeDir}

LEMMA AppendIs ==
    ASSUME NEW S, NEW s \in Seq(S), NEW x \in S
    PROVE  /\ Append(s, x) \in Seq(S) /\ Len(Append(s, x)) = Len(s) + 1 /\ Len(s) \in Nat
           /\ Append(s, x)[Len(s) + 1] = x /\ \A i \in 1..Len(s) : Append(s, x)[i] = s[i]
<1>1. Append(s, x) \in Seq(S) /\ Len(s) \in Nat
  OBVIOUS
<1>2. Len(Append(s, x)) = Len(s) + 1
  OBVIOUS
<1>3. Append(s, x)[Len(s) + 1] = x /\ \A i \in 1..Len(s) : Append(s, x)[i] = s[i]
  OBVIOUS
<1> QED BY <1>1, <1>2, <1>3

LEMMA ParentIs ==
    ASSUME NEW l \in Location
    PROVE  /\ Root \in Location /\ Len(Root) = 0
           /\ Parent(l) \in Location
           /\ Parent(Root) = Root
           /\ l # Root => /\ Len(Parent(l)) = Len(l) - 1 /\ Parent(l) = SubSeq(l, 1, Len(l) - 1) /\ Len(l) >= 1
                          /\ \A i \in 1..Len(l) - 1 : Parent(l)[i] = l[i]
           /\ \A x \in STRING : /\ Append(l, x) \in Location /\ Append(l, x) # Root
                                /\ Parent(Append(l, x)) = l /\ Len(Append(l, x)) = Len(l) + 1
           /\ \A n \in 0..Len(l) : /\ SubSeq(l, 1, n) \in Location /\ Len(SubSeq(l, 1, n)) = n
                                   /\ \A i \in 1..n : SubSeq(l, 1, n)[i] = l[i]
           /\ SubSeq(l, 1, 0) = Root /\ SubSeq(l, 1, Len(l)) = l
<1>1. Root \in Location /\ Len(Root) = 0
  BY DEF Root, Location
<1>2. \A n \in 0..Len(l) : /\ SubSeq(l, 1, n) \in Location /\ Len(SubSeq(l, 1, n)) = n
                           /\ \A i \in 1..n : SubSeq(l, 1, n)[i] = l[i]
  BY DEF Location
<1>3. Parent(Root) = Root
  BY DEF Parent
<1>4. l # Root => Len(l) >= 1 /\ Len(l) \in Nat /\ Parent(l) = SubSeq(l, 1, Len(l) - 1)
  BY DEF Parent, Front, Root, Location
<1>5. l # Root => Len(l) - 1 \in 0..Len(l)
  BY <1>4
<1>6. l # Root => /\ Parent(l) \in Location /\ Len(Parent(l)) = Len(l) - 1
                  /\ \A i \in 1..Len(l) - 1 : Parent(l)[i] = l[i]
  BY <1>2, <1>4, <1>5
<1>7. \A x \in STRING : /\ Append(l, x) \in Location /\ Append(l, x) # Root
                        /\ Parent(Append(l, x)) = l /\ Len(Append(l, x)) = Len(l) + 1
  <2> TAKE x \in STRING
  <2> DEFINE a == Append(l, x)
  <2>1. a \in Location /\ Len(a) = Len(l) + 1 /\ a # Root
    <3>1. a \in Location /\ Len(a) = Len(l) + 1 /\ Len(l) \in Nat
      BY AppendIs DEF Location
    <3> HIDE DEF a
    <3> QED BY <3>1, <1>1
  <2>2. Len(l) \in Nat /\ Len(a) - 1 = Len(l)
    BY <2>1 DEF Location
  <2>3. \A i \in 1..Len(l) : a[i] = l[i]
    BY AppendIs DEF Location
  <2> HIDE DEF a
  <2>4. Parent(a) = SubSeq(a, 1, Len(l))
    BY <2>1, <2>2 DEF Parent, Front
  <2>5. SubSeq(a, 1, Len(l)) = l
    BY <2>1, <2>2, <2>3 DEF Location
  <2> QED BY <2>1, <2>4, <2>5 DEF a
<1>8. SubSeq(l, 1, 0) = Root /\ SubSeq(l, 1, Len(l)) = l
  BY DEF Location, Root
<1> QED BY <1>1, <1>2, <1>3, <1>4, <1>6, <1>7, <1>8

LEMMA PrefixIs ==
    ASSUME NEW p \in Location, NEW l \in Location
    PROVE  IsPrefix(p, l) <=> Len(p) <= Len(l) /\ \A i \in 1..Len(p) : p[i] = l[i]
<1>1. IsPrefix(p, l) <=> Len(p) <= Len(l) /\ SubSeq(p, 1, Len(p)) = SubSeq(l, 1, Len(p))
  BY DEF IsPrefix, Location
<1>2. CASE Len(p) <= Len(l)
  <2> DEFINE q == SubSeq(l, 1, Len(p))
  <2>1. Len(p) \in 0..Len(l)
    BY <1>2 DEF Location
  <2>2. q \in Location /\ Len(q) = Len(p) /\ \A i \in 1..Len(p) : q[i] = l[i]
    BY <2>1, ParentIs
  <2>3. SubSeq(p, 1, Len(p)) = p
    BY ParentIs
  <2> HIDE DEF q
  <2>4. p = q <=> \A i \in 1..Len(p) : p[i] = q[i]
    BY <2>2 DEF Location
  <2> QED BY <1>1, <1>2, <2>2, <2>3, <2>4 DEF q
<1>3. CASE ~(Len(p) <= Len(l))
  BY <1>1, <1>3
<1> QED BY <1>2, <1>3
-----------------------------------------------------------------------------
(* The two walks, step by step. *)

WalkNext(tree, w) == IF w.pending = <<>> THEN w ELSE WalkStep(tree, w)
KernelNext(tree, k) == IF k.pending = <<>> THEN k ELSE KernelStep(tree, k)
WalkFrom(path) == [resolved |-> Root, pending |-> path, visited |-> {}, hops |-> 0, problem |-> FALSE]
KernelFrom(path) == [at |-> Root, pending |-> path, hops |-> 0, missing |-> FALSE]
Walked(tree, path) ==
    CHOOSE f : f = [n \in 0..MaxSteps |-> IF n = 0 THEN WalkFrom(path) ELSE WalkNext(tree, f[n - 1])]
Looked(tree, path) ==
    CHOOSE f : f = [n \in 0..MaxSteps |-> IF n = 0 THEN KernelFrom(path) ELSE KernelNext(tree, f[n - 1])]

LEMMA WalkIs ==
    ASSUME NEW tree, NEW path
    PROVE  LET f == Walked(tree, path)
           IN  /\ Walk(tree, path) = f[MaxSteps] /\ f[0] = WalkFrom(path)
               /\ \A n \in 0..MaxSteps : n # MaxSteps => f[n + 1] = WalkNext(tree, f[n])
<1>1. MaxSteps \in Nat
  BY PathAssumption
<1>2. Walked(tree, path) = [n \in 0..MaxSteps |-> IF n = 0 THEN WalkFrom(path) ELSE WalkNext(tree, Walked(tree, path)[n - 1])]
  <2> DEFINE start == WalkFrom(path)
  <2>1. \E f : f = [i \in 0..MaxSteps |-> IF i = 0 THEN start ELSE WalkNext(tree, f[i - 1])]
    <3> HIDE DEF start
    <3> DEFINE has(m) == \E f : f = [i \in 0..m |-> IF i = 0 THEN start ELSE WalkNext(tree, f[i - 1])]
               wrong == {m \in Nat : ~has(m)}
    <3>1. has(0)
      <4> DEFINE f == [i \in 0..0 |-> start]
      <4>1. f = [i \in 0..0 |-> IF i = 0 THEN start ELSE WalkNext(tree, f[i - 1])]
        OBVIOUS
      <4> QED BY <4>1
    <3>2. ASSUME NEW m \in Nat, has(m) PROVE has(m + 1)
      <4>1. PICK f : f = [i \in 0..m |-> IF i = 0 THEN start ELSE WalkNext(tree, f[i - 1])]
        BY <3>2
      <4> DEFINE g == [i \in 0..m + 1 |-> IF i = m + 1 THEN WalkNext(tree, f[m]) ELSE f[i]]
      <4>2. \A i \in 0..m + 1 : i # 0 => g[i - 1] = f[i - 1]
        OBVIOUS
      <4>3. \A i \in 0..m : f[i] = IF i = 0 THEN start ELSE WalkNext(tree, f[i - 1])
        BY <4>1
      <4>4. \A i \in 0..m + 1 : g[i] = IF i = 0 THEN start ELSE WalkNext(tree, g[i - 1])
        <5> TAKE i \in 0..m + 1
        <5>1. CASE i = m + 1
          <6>1. g[i] = WalkNext(tree, f[m]) /\ g[i - 1] = f[m] /\ i # 0
            BY <5>1, <4>2
          <6> HIDE DEF g
          <6> QED BY <6>1, <5>1
        <5>2. CASE i # m + 1
          <6>1. g[i] = f[i] /\ i \in 0..m
            BY <5>2
          <6> HIDE DEF g
          <6> QED BY <6>1, <4>2, <4>3
        <5> QED BY <5>1, <5>2
      <4>5. g = [i \in 0..m + 1 |-> g[i]]
        OBVIOUS
      <4> HIDE DEF g
      <4>6. g = [i \in 0..m + 1 |-> IF i = 0 THEN start ELSE WalkNext(tree, g[i - 1])]
        BY <4>4, <4>5
      <4> QED BY <4>6
    <3> HIDE DEF has
    <3>3. wrong = {}
      <4> SUFFICES ASSUME wrong # {} PROVE FALSE
        OBVIOUS
      <4>1. PICK m \in wrong : \A j \in wrong : m <= j
        BY FirstIs
      <4>2. m # 0 /\ m - 1 \in Nat /\ ~(m <= m - 1)
        BY <4>1, <3>1
      <4>3. has(m - 1 + 1)
        BY <4>1, <4>2, <3>2
      <4> QED BY <4>1, <4>2, <4>3
    <3>4. has(MaxSteps)
      BY <1>1, <3>3
    <3> QED BY <3>4 DEF has
  <2> QED BY <2>1 DEF Walked
<1> DEFINE f == Walked(tree, path)
<1>3. Walk(tree, path) = f[MaxSteps]
  BY DEF Walk, Walked, WalkNext, WalkFrom
<1> HIDE DEF f
<1>4. \A n \in 0..MaxSteps : f[n] = IF n = 0 THEN WalkFrom(path) ELSE WalkNext(tree, f[n - 1])
  BY <1>2 DEF f
<1>5. \A n \in 0..MaxSteps : n # MaxSteps => n + 1 \in 0..MaxSteps /\ n + 1 # 0 /\ n + 1 - 1 = n
  BY <1>1
<1>6. \A n \in 0..MaxSteps : n # MaxSteps => f[n + 1] = WalkNext(tree, f[n])
  BY <1>4, <1>5
<1>7. f[0] = WalkFrom(path)
  BY <1>1, <1>4
<1> QED BY <1>3, <1>6, <1>7 DEF f

LEMMA LookupIs ==
    ASSUME NEW tree, NEW path
    PROVE  LET f == Looked(tree, path)
           IN  /\ KernelRun(tree, path) = f[MaxSteps] /\ f[0] = KernelFrom(path)
               /\ \A n \in 0..MaxSteps : n # MaxSteps => f[n + 1] = KernelNext(tree, f[n])
<1>1. MaxSteps \in Nat
  BY PathAssumption
<1>2. Looked(tree, path) = [n \in 0..MaxSteps |-> IF n = 0 THEN KernelFrom(path) ELSE KernelNext(tree, Looked(tree, path)[n - 1])]
  <2> DEFINE start == KernelFrom(path)
  <2>1. \E f : f = [i \in 0..MaxSteps |-> IF i = 0 THEN start ELSE KernelNext(tree, f[i - 1])]
    <3> HIDE DEF start
    <3> DEFINE has(m) == \E f : f = [i \in 0..m |-> IF i = 0 THEN start ELSE KernelNext(tree, f[i - 1])]
               wrong == {m \in Nat : ~has(m)}
    <3>1. has(0)
      <4> DEFINE f == [i \in 0..0 |-> start]
      <4>1. f = [i \in 0..0 |-> IF i = 0 THEN start ELSE KernelNext(tree, f[i - 1])]
        OBVIOUS
      <4> QED BY <4>1
    <3>2. ASSUME NEW m \in Nat, has(m) PROVE has(m + 1)
      <4>1. PICK f : f = [i \in 0..m |-> IF i = 0 THEN start ELSE KernelNext(tree, f[i - 1])]
        BY <3>2
      <4> DEFINE g == [i \in 0..m + 1 |-> IF i = m + 1 THEN KernelNext(tree, f[m]) ELSE f[i]]
      <4>2. \A i \in 0..m + 1 : i # 0 => g[i - 1] = f[i - 1]
        OBVIOUS
      <4>3. \A i \in 0..m : f[i] = IF i = 0 THEN start ELSE KernelNext(tree, f[i - 1])
        BY <4>1
      <4>4. \A i \in 0..m + 1 : g[i] = IF i = 0 THEN start ELSE KernelNext(tree, g[i - 1])
        <5> TAKE i \in 0..m + 1
        <5>1. CASE i = m + 1
          <6>1. g[i] = KernelNext(tree, f[m]) /\ g[i - 1] = f[m] /\ i # 0
            BY <5>1, <4>2
          <6> HIDE DEF g
          <6> QED BY <6>1, <5>1
        <5>2. CASE i # m + 1
          <6>1. g[i] = f[i] /\ i \in 0..m
            BY <5>2
          <6> HIDE DEF g
          <6> QED BY <6>1, <4>2, <4>3
        <5> QED BY <5>1, <5>2
      <4>5. g = [i \in 0..m + 1 |-> g[i]]
        OBVIOUS
      <4> HIDE DEF g
      <4>6. g = [i \in 0..m + 1 |-> IF i = 0 THEN start ELSE KernelNext(tree, g[i - 1])]
        BY <4>4, <4>5
      <4> QED BY <4>6
    <3> HIDE DEF has
    <3>3. wrong = {}
      <4> SUFFICES ASSUME wrong # {} PROVE FALSE
        OBVIOUS
      <4>1. PICK m \in wrong : \A j \in wrong : m <= j
        BY FirstIs
      <4>2. m # 0 /\ m - 1 \in Nat /\ ~(m <= m - 1)
        BY <4>1, <3>1
      <4>3. has(m - 1 + 1)
        BY <4>1, <4>2, <3>2
      <4> QED BY <4>1, <4>2, <4>3
    <3>4. has(MaxSteps)
      BY <1>1, <3>3
    <3> QED BY <3>4 DEF has
  <2> QED BY <2>1 DEF Looked
<1> DEFINE f == Looked(tree, path)
<1>3. KernelRun(tree, path) = f[MaxSteps]
  BY DEF KernelRun, Looked, KernelNext, KernelFrom
<1> HIDE DEF f
<1>4. \A n \in 0..MaxSteps : f[n] = IF n = 0 THEN KernelFrom(path) ELSE KernelNext(tree, f[n - 1])
  BY <1>2 DEF f
<1>5. \A n \in 0..MaxSteps : n # MaxSteps => n + 1 \in 0..MaxSteps /\ n + 1 # 0 /\ n + 1 - 1 = n
  BY <1>1
<1>6. \A n \in 0..MaxSteps : n # MaxSteps => f[n + 1] = KernelNext(tree, f[n])
  BY <1>4, <1>5
<1>7. f[0] = KernelFrom(path)
  BY <1>1, <1>4
<1> QED BY <1>3, <1>6, <1>7 DEF f

LEMMA HeadTailAre ==
    ASSUME NEW S, NEW s \in Seq(S), s # <<>>
    PROVE  /\ Head(s) = s[1] /\ Head(s) \in S /\ Tail(s) \in Seq(S) /\ Len(s) \in Nat /\ Len(s) >= 1
           /\ Len(Tail(s)) = Len(s) - 1 /\ \A i \in 1..Len(s) - 1 : Tail(s)[i] = s[i + 1]
<1>1. Len(s) \in Nat /\ Len(s) >= 1
  OBVIOUS
<1>2. Head(s) = s[1] /\ Head(s) \in S
  BY <1>1
<1>3. Tail(s) \in Seq(S) /\ Len(Tail(s)) = Len(s) - 1
  BY <1>1
<1>4. \A i \in 1..Len(s) - 1 : Tail(s)[i] = s[i + 1]
  BY <1>1, <1>3
<1> QED BY <1>1, <1>2, <1>3, <1>4

LEMMA ConcatIs ==
    ASSUME NEW S, NEW s \in Seq(S), NEW t \in Seq(S)
    PROVE  /\ s \o t \in Seq(S) /\ Len(s \o t) = Len(s) + Len(t)
           /\ \A i \in 1..Len(s) : (s \o t)[i] = s[i]
           /\ \A i \in 1..Len(t) : (s \o t)[Len(s) + i] = t[i]
<1>1. s \o t \in Seq(S) /\ Len(s) \in Nat /\ Len(t) \in Nat
  OBVIOUS
<1>2. Len(s \o t) = Len(s) + Len(t)
  OBVIOUS
<1>3. \A i \in 1..Len(s) : (s \o t)[i] = s[i]
  OBVIOUS
<1>4. \A i \in 1..Len(t) : (s \o t)[Len(s) + i] = t[i]
  OBVIOUS
<1> QED BY <1>1, <1>2, <1>3, <1>4

\* A function that says what it is at a number by what it is at the one before.
Recurs(f, last, start, step) == f[0] = start /\ \A n \in 1..last : f[n] = step[<<n, f[n - 1]>>]

LEMMA RecursionIs ==
    ASSUME NEW last \in Nat, NEW T, NEW start \in T, NEW step \in [Nat \X T -> T]
    PROVE  \E f \in [0..last -> T] : Recurs(f, last, start, step)
<1> DEFINE has(m) == \E f \in [0..m -> T] : f[0] = start /\ \A n \in 1..m : f[n] = step[<<n, f[n - 1]>>]
           P == {m \in Nat : has(m)}
<1>1. has(0)
  <2> DEFINE f == [n \in 0..0 |-> start]
  <2>1. f \in [0..0 -> T] /\ f[0] = start /\ \A n \in 1..0 : f[n] = step[<<n, f[n - 1]>>]
    OBVIOUS
  <2> QED BY <2>1
<1>2. ASSUME NEW m \in Nat, has(m) PROVE has(m + 1)
  <2>1. PICK f \in [0..m -> T] : f[0] = start /\ \A n \in 1..m : f[n] = step[<<n, f[n - 1]>>]
    BY <1>2
  <2> DEFINE g == [n \in 0..m + 1 |-> IF n = m + 1 THEN step[<<m + 1, f[m]>>] ELSE f[n]]
  <2>2. f[m] \in T /\ <<m + 1, f[m]>> \in Nat \X T
    BY <2>1
  <2>3. step[<<m + 1, f[m]>>] \in T
    BY <2>2
  <2>4. g \in [0..m + 1 -> T]
    BY <2>1, <2>3
  <2>5. g[0] = start /\ g[m + 1] = step[<<m + 1, f[m]>>] /\ \A n \in 0..m : g[n] = f[n]
    BY <2>1
  <2> HIDE DEF g
  <2>6. ASSUME NEW n \in 1..m + 1 PROVE g[n] = step[<<n, g[n - 1]>>]
    <3>1. CASE n = m + 1
      <4>1. n - 1 = m /\ m \in 0..m
        BY <3>1
      <4> QED BY <2>5, <3>1, <4>1
    <3>2. CASE n # m + 1
      <4>1. n \in 1..m /\ n \in 0..m /\ n - 1 \in 0..m
        BY <3>2
      <4> QED BY <2>1, <2>5, <4>1
    <3> QED BY <3>1, <3>2
  <2> QED BY <2>4, <2>5, <2>6
<1> HIDE DEF has
<1>3. \A m \in 0..last : m \in P
  <2>1. 0 \in P /\ \A m \in 0..last : m # last /\ m \in P => m + 1 \in P
    BY <1>1, <1>2
  <2> HIDE DEF P
  <2>2. 0 \in Nat
    OBVIOUS
  <2> QED BY <2>1, <2>2, EveryStep
<1> QED BY <1>3 DEF has, Recurs

\* The numbers of a set in their order are those of the set, each there: the
\* rank of a number is one to one into 1..c, and so onto it.
LEMMA InOrderIs ==
    ASSUME NEW n \in Nat, NEW S, S \subseteq 1..n
    PROVE  /\ Cardinality(S) \in Nat
           /\ \A k \in 1..Cardinality(S) : InOrder(S)[k] \in S
           /\ \A x \in S : \E k \in 1..Cardinality(S) : InOrder(S)[k] = x
<1> DEFINE upTo(x) == {y \in S : y <= x}
           rank == [x \in S |-> Cardinality(upTo(x))]
           c == Cardinality(S)
<1>1. IsFiniteSet(S) /\ c \in Nat
  <2>1. IsFiniteSet(1..n) /\ S \in SUBSET (1..n)
    BY FS_Interval
  <2>2. IsFiniteSet(S)
    BY <2>1, FS_Subset
  <2> QED BY <2>2, FS_CardinalityType
<1>2. ASSUME NEW x \in S PROVE rank[x] \in 1..c /\ IsFiniteSet(upTo(x))
  <2>1. upTo(x) \in SUBSET S /\ x \in upTo(x)
    OBVIOUS
  <2>2. IsFiniteSet(upTo(x)) /\ Cardinality(upTo(x)) <= c
    BY <1>1, <2>1, FS_Subset
  <2>3. Cardinality(upTo(x)) \in Nat /\ Cardinality(upTo(x)) # 0
    BY <2>1, <2>2, FS_CardinalityType, FS_EmptySet
  <2> QED BY <2>2, <2>3, <1>1
<1>3. ASSUME NEW x \in S, NEW y \in S, x < y PROVE rank[x] < rank[y]
  <2>1. upTo(x) \in SUBSET upTo(y) /\ y \in upTo(y) /\ y \notin upTo(x)
    <3>1. x \in Int /\ y \in Int /\ \A z \in S : z \in Int
      OBVIOUS
    <3>2. ~(y <= x) /\ y <= y /\ \A z \in S : z <= x => z <= y
      BY <3>1, <1>3
    <3> QED BY <3>2
  <2>2. Cardinality(upTo(x)) <= Cardinality(upTo(y)) /\ Cardinality(upTo(x)) # Cardinality(upTo(y))
    BY <2>1, <1>2, FS_Subset
  <2>3. Cardinality(upTo(x)) = rank[x] /\ Cardinality(upTo(y)) = rank[y]
    OBVIOUS
  <2>4. rank[x] \in Nat /\ rank[y] \in Nat
    BY <1>2
  <2> QED BY <2>2, <2>3, <2>4
<1>4. rank \in Injection(S, 1..c)
  <2>1. rank \in [S -> 1..c]
    BY <1>2
  <2>2. ASSUME NEW x \in S, NEW y \in S, rank[x] = rank[y] PROVE x = y
    <3>1. x \in Int /\ y \in Int /\ rank[x] \in Int /\ rank[y] \in Int
      BY <1>2
    <3> QED BY <3>1, <2>2, <1>3
  <2> HIDE DEF rank
  <2> QED BY <2>1, <2>2 DEF Injection, IsInjective
<1>5. rank \in Surjection(S, 1..c)
  <2>1. IsFiniteSet(1..c) /\ Cardinality(1..c) = c
    BY <1>1, FS_Interval
  <2> HIDE DEF rank
  <2> QED BY <1>4, <2>1, FS_Injection
<1>6. ASSUME NEW k \in 1..c PROVE InOrder(S)[k] \in S /\ rank[InOrder(S)[k]] = k
  <2>1. \E x \in S : rank[x] = k
    <3> HIDE DEF rank
    <3> QED BY <1>5 DEF Surjection
  <2>2. \E x \in S : Cardinality(upTo(x)) = k
    BY <2>1
  <2>3. InOrder(S)[k] = CHOOSE x \in S : Cardinality(upTo(x)) = k
    BY DEF InOrder
  <2>4. InOrder(S)[k] \in S /\ Cardinality(upTo(InOrder(S)[k])) = k
    BY <2>2, <2>3
  <2> QED BY <2>4
<1>7. ASSUME NEW x \in S PROVE \E k \in 1..c : InOrder(S)[k] = x
  <2>1. rank[x] \in 1..c
    BY <1>2
  <2>2. InOrder(S)[rank[x]] \in S /\ rank[InOrder(S)[rank[x]]] = rank[x]
    BY <2>1, <1>6
  <2>3. InOrder(S)[rank[x]] = x
    <3> HIDE DEF rank
    <3> QED BY <2>2, <1>4 DEF Injection, IsInjective
  <2> QED BY <2>1, <2>3
<1> QED BY <1>1, <1>6, <1>7

\* What is picked from a list.
LEMMA PickedIs ==
    ASSUME NEW S, NEW list \in Seq(S), NEW I, I \subseteq DOMAIN list
    PROVE  Picked(list, I) \in Seq(S) /\ Range(Picked(list, I)) = {list[i] : i \in I}
<1> DEFINE c == Cardinality(I)
           at == InOrder(I)
           p == Picked(list, I)
<1>1. c \in Nat /\ (\A k \in 1..c : at[k] \in I) /\ \A i \in I : \E k \in 1..c : at[k] = i
  <2>1. Len(list) \in Nat /\ I \subseteq 1..Len(list)
    OBVIOUS
  <2> QED BY <2>1, InOrderIs
<1>2. p = [k \in 1..c |-> list[at[k]]]
  BY DEF Picked
<1>3. \A i \in I : list[i] \in S
  OBVIOUS
<1> HIDE DEF c, at, p
<1>4. p \in [1..c -> S]
  BY <1>1, <1>2, <1>3
<1>5. Range(p) = {list[i] : i \in I}
  BY <1>1, <1>2 DEF Range
<1> QED BY <1>1, <1>4, <1>5 DEF p

LEMMA TokensDiffer ==
    /\ Up # MustBeDir /\ Up \notin STRING /\ MustBeDir \notin STRING
    /\ Nowhere \notin Location /\ Location \subseteq Path /\ Path \subseteq Seq(Tokens)
    /\ MaxSteps \in Nat /\ MaxHops \in Nat /\ KernelHops \in 0..MaxHops /\ KernelHops \in Nat
    /\ Root \in Location
<1>1. Up # MustBeDir /\ Up \notin STRING /\ MustBeDir \notin STRING /\ Nowhere \notin Path
  BY PathAssumption
<1>2. \A l \in Seq(STRING) : l \in Seq(STRING \union {Up})
  OBVIOUS
<1>3. \A l \in Seq(STRING \union {Up}) : l \in Seq(STRING \union {Up, MustBeDir})
  OBVIOUS
<1>4. Root \in Location
  BY DEF Root, Location
<1>5. Location \subseteq Path /\ Path \subseteq Seq(Tokens)
  BY <1>2, <1>3 DEF Location, Path, Tokens
<1> QED BY <1>1, <1>4, <1>5, PathAssumption

LEMMA LinkIs ==
    ASSUME NEW tree, IsTree(tree), NEW l \in Location, IsLink(tree, l)
    PROVE  /\ l \in DOMAIN tree /\ l # Root /\ IsA(tree, Parent(l), "dir")
           /\ Parts(tree[l]) \in Seq(Tokens) /\ tree[l].absolute \in BOOLEAN
<1>1. l \in DOMAIN tree /\ l # Root
  BY DEF IsLink, IsA
<1>2. /\ IsA(tree, Parent(l), "dir") /\ tree[l].to \in Path
      /\ {tree[l].absolute, tree[l].slash} \subseteq BOOLEAN
  BY <1>1 DEF IsTree
<1>3. tree[l].to \in Seq(Tokens) /\ tree[l].absolute \in BOOLEAN
  BY <1>2, TokensDiffer
<1>4. <<MustBeDir>> \in Seq(Tokens) /\ <<>> \in Seq(Tokens)
  BY DEF Tokens
<1>5. Parts(tree[l]) \in Seq(Tokens)
  <2> DEFINE e == tree[l].to
             m == IF tree[l].slash THEN <<MustBeDir>> ELSE <<>>
  <2>1. m \in Seq(Tokens)
    BY <1>4
  <2>2. Parts(tree[l]) = e \o m
    BY DEF Parts
  <2> HIDE DEF e, m
  <2> QED BY <2>1, <2>2, <1>3, ConcatIs DEF e
<1> QED BY <1>1, <1>2, <1>3, <1>5

\* What a step of each walk may do, by the name it takes.
WalkState == [resolved : Location \union {Nowhere}, pending : Seq(Tokens), visited : SUBSET Location, hops : Nat,
              problem : BOOLEAN]
KernelState == [at : Location \union {Nowhere}, pending : Seq(Tokens), hops : 0..KernelHops, missing : BOOLEAN]

WalkMoves(tree, w, v) ==
    LET name == Head(w.pending)
        rest == Tail(w.pending)
        current == Append(w.resolved, name)
    IN  /\ v.problem \in BOOLEAN /\ (w.problem => v.problem) /\ w.hops <= v.hops /\ w.visited \subseteq v.visited
        /\ name = MustBeDir =>
              /\ v.resolved = w.resolved /\ v.pending = rest /\ v.hops = w.hops /\ v.visited = w.visited
              /\ v.problem <=> w.problem \/ (NeedsDir(tree, w, name) /\ ~IsDir(tree, w.resolved))
        /\ name = Up =>
              /\ v.resolved = Parent(w.resolved) /\ v.pending = rest /\ v.hops = w.hops /\ v.visited = w.visited
              /\ v.problem <=> w.problem \/ ~IsDir(tree, w.resolved)
        /\ name \in STRING /\ ~IsLink(tree, current) =>
              /\ v.resolved = current /\ v.pending = rest /\ v.hops = w.hops
              /\ v.visited = w.visited \union {current} /\ (v.problem <=> w.problem)
        /\ name \in STRING /\ IsLink(tree, current) =>
              /\ v.visited = w.visited \union {current}
              /\ w.hops = MaxHops => v.resolved = Nowhere /\ v.pending = <<>> /\ v.problem /\ v.hops = w.hops
              /\ w.hops # MaxHops =>
                    /\ v.hops = w.hops + 1 /\ (v.problem <=> w.problem) /\ v.pending = Parts(tree[current]) \o rest
                    /\ v.resolved = IF tree[current].absolute THEN Root ELSE w.resolved

LEMMA WalkStepIs ==
    ASSUME NEW tree, IsTree(tree), NEW w \in WalkState, w.pending # <<>>, w.resolved \in Location
    PROVE  WalkStep(tree, w) \in WalkState /\ WalkMoves(tree, w, WalkStep(tree, w))
<1> DEFINE name == Head(w.pending)
           rest == Tail(w.pending)
           current == Append(w.resolved, name)
           v == WalkStep(tree, w)
           seen == [w EXCEPT !.visited = w.visited \union {current}]
           problem == w.problem \/ (NeedsDir(tree, w, name) /\ ~IsDir(tree, w.resolved))
           checked == [w EXCEPT !.problem = problem, !.pending = rest]
<1>0. problem \in BOOLEAN /\ (w.problem => problem) /\ <<>> \in Seq(Tokens)
  OBVIOUS
<1>1. name \in Tokens /\ rest \in Seq(Tokens) /\ w.hops \in Nat /\ w.problem \in BOOLEAN /\ w.visited \subseteq Location
  BY HeadTailAre DEF WalkState
<1>2. name \in STRING => current \in Location
  BY ParentIs
<1>3. /\ w = [resolved |-> w.resolved, pending |-> w.pending, visited |-> w.visited, hops |-> w.hops, problem |-> w.problem]
      /\ name # MustBeDir /\ name # Up <=> name \in STRING
  BY <1>1, TokensDiffer DEF WalkState, Tokens
<1>4. CASE name = MustBeDir
  <2>1. v = checked
    BY <1>4 DEF WalkStep
  <2>2. /\ checked.resolved = w.resolved /\ checked.pending = rest /\ checked.hops = w.hops /\ checked.visited = w.visited
        /\ checked.problem = problem
        /\ checked \in WalkState
    <3> HIDE DEF problem
    <3> QED BY <1>0, <1>1 DEF WalkState
  <2> HIDE DEF v, checked, problem
  <2>4. v.problem \in BOOLEAN /\ (v.problem <=> problem) /\ (w.problem => v.problem)
    BY <2>1, <2>2, <1>0
  <2>5. w.hops <= v.hops /\ w.visited \subseteq v.visited
    BY <2>1, <2>2, <1>1
  <2>6. (name # Up /\ name \notin STRING) /\ v \in WalkState
    BY <2>1, <2>2, <1>4, TokensDiffer
  <2>3. v \in WalkState /\ WalkMoves(tree, w, v)
    BY <2>1, <2>2, <2>4, <2>5, <2>6, Zenon DEF WalkMoves, problem
  <2> QED BY <2>3 DEF v
<1>5. CASE name = Up
  <2>1. v = [checked EXCEPT !.resolved = Parent(checked.resolved)]
    BY <1>5, TokensDiffer DEF WalkStep
  <2>2. NeedsDir(tree, w, name)
    BY <1>5 DEF NeedsDir
  <2>3. Parent(w.resolved) \in Location
    BY ParentIs
  <2>4. /\ v.resolved = Parent(w.resolved) /\ v.pending = rest /\ v.hops = w.hops /\ v.visited = w.visited
        /\ v.problem = problem
        /\ v \in WalkState
    <3> HIDE DEF v, problem
    <3> QED BY <1>0, <1>1, <2>1, <2>3 DEF WalkState
  <2> HIDE DEF v
  <2>6. v.problem \in BOOLEAN /\ (v.problem <=> w.problem \/ ~IsDir(tree, w.resolved)) /\ (w.problem => v.problem)
    BY <2>2, <2>4, <1>0
  <2>7. w.hops <= v.hops /\ w.visited \subseteq v.visited
    BY <2>4, <1>1
  <2>8. name # MustBeDir /\ name \notin STRING
    BY <1>5, TokensDiffer
  <2>5. v \in WalkState /\ WalkMoves(tree, w, v)
    BY <2>4, <2>6, <2>7, <2>8, Zenon DEF WalkMoves
  <2> QED BY <2>5 DEF v
<1>6. CASE name \in STRING /\ ~IsLink(tree, current)
  <2>1. v = [seen EXCEPT !.resolved = current, !.pending = rest]
    BY <1>6, TokensDiffer DEF WalkStep
  <2>2. /\ v.resolved = current /\ v.pending = rest /\ v.hops = w.hops /\ v.visited = w.visited \union {current}
        /\ v.problem = w.problem /\ v \in WalkState
    <3> HIDE DEF v, current
    <3> QED BY <1>1, <1>2, <1>6, <2>1 DEF WalkState
  <2> HIDE DEF v
  <2>4. v.problem \in BOOLEAN /\ (v.problem <=> w.problem)
    BY <2>2, <1>1
  <2>5. w.hops <= v.hops /\ w.visited \subseteq v.visited
    BY <2>2, <1>1
  <2>6. name # MustBeDir /\ name # Up
    BY <1>6, TokensDiffer
  <2>3. v \in WalkState /\ WalkMoves(tree, w, v)
    BY <2>2, <2>4, <2>5, <2>6, <1>6, Zenon DEF WalkMoves
  <2> QED BY <2>3 DEF v
<1>7. CASE name \in STRING /\ IsLink(tree, current)
  <2>1. v = Follow(tree, seen, current, rest)
    BY <1>7, TokensDiffer DEF WalkStep
  <2>2. Parts(tree[current]) \in Seq(Tokens)
    BY <1>2, <1>7, LinkIs
  <2>3. Parts(tree[current]) \o rest \in Seq(Tokens)
    BY <1>1, <2>2, ConcatIs
  <2>4. /\ seen.resolved = w.resolved /\ seen.hops = w.hops /\ seen.problem = w.problem /\ seen.pending = w.pending
        /\ seen.visited = w.visited \union {current} /\ seen \in WalkState
    <3> HIDE DEF current
    <3> QED BY <1>1, <1>2, <1>7 DEF WalkState
  <2>7. name # MustBeDir /\ name # Up
    BY <1>7, TokensDiffer
  <2>5. CASE w.hops = MaxHops
    <3>1. v = [seen EXCEPT !.resolved = Nowhere, !.pending = <<>>, !.problem = TRUE]
      BY <2>1, <2>4, <2>5 DEF Follow
    <3>2. /\ v.resolved = Nowhere /\ v.pending = <<>> /\ v.hops = w.hops /\ v.problem /\ v.problem \in BOOLEAN
          /\ v.visited = w.visited \union {current} /\ v \in WalkState
      <4>1. \A s \in WalkState : LET x == [s EXCEPT !.resolved = Nowhere, !.pending = <<>>, !.problem = TRUE]
                                 IN  /\ x \in WalkState /\ x.resolved = Nowhere /\ x.pending = <<>> /\ x.hops = s.hops
                                     /\ x.visited = s.visited /\ x.problem = TRUE
        BY <1>0 DEF WalkState
      <4> HIDE DEF v, seen
      <4> QED BY <3>1, <2>4, <4>1
    <3> HIDE DEF v
    <3>4. w.hops <= v.hops /\ w.visited \subseteq v.visited
      BY <3>2, <1>1
    <3>3. v \in WalkState /\ WalkMoves(tree, w, v)
      BY <3>2, <3>4, <2>7, <1>7, <2>5, Zenon DEF WalkMoves
    <3> QED BY <3>3 DEF v
  <2>6. CASE w.hops # MaxHops
    <3> DEFINE to == IF tree[current].absolute THEN Root ELSE w.resolved
               parts == Parts(tree[current]) \o rest
    <3>1. v = [seen EXCEPT !.hops = seen.hops + 1, !.pending = parts,
                           !.resolved = IF tree[current].absolute THEN Root ELSE seen.resolved]
      BY <2>1, <2>4, <2>6 DEF Follow
    <3>2. to \in Location
      BY TokensDiffer
    <3>3. /\ v.resolved = to /\ v.pending = parts /\ v.hops = w.hops + 1 /\ v.problem = w.problem
          /\ v.visited = w.visited \union {current} /\ v \in WalkState
      <4>1. v = [seen EXCEPT !.hops = w.hops + 1, !.pending = parts, !.resolved = to]
        BY <3>1, <2>4
      <4>3. w.hops + 1 \in Nat /\ parts \in Seq(Tokens)
        BY <1>1, <2>3
      <4> HIDE DEF v, seen, parts, to, current
      <4>4. /\ v \in WalkState /\ v.resolved = to /\ v.pending = parts /\ v.hops = w.hops + 1
            /\ v.visited = seen.visited /\ v.problem = seen.problem
        <5>1. seen \in WalkState /\ w.hops + 1 \in Nat /\ parts \in Seq(Tokens) /\ to \in Location
          BY <4>3, <2>4, <3>2
        <5> QED BY <4>1, <5>1 DEF WalkState
      <4> QED BY <4>4, <2>4
    <3> HIDE DEF v
    <3>5. w.hops <= v.hops /\ w.visited \subseteq v.visited /\ v.problem \in BOOLEAN
      BY <3>3, <1>1
    <3>4. v \in WalkState /\ WalkMoves(tree, w, v)
      BY <3>3, <3>5, <2>6, <2>7, <1>7, Zenon DEF WalkMoves
    <3> QED BY <3>4 DEF v
  <2> QED BY <2>5, <2>6
<1> QED BY <1>3, <1>4, <1>5, <1>6, <1>7

KernelMoves(tree, k, v) ==
    LET name == Head(k.pending)
        rest == Tail(k.pending)
        here == Append(k.at, name)
    IN  /\ ~IsA(tree, k.at, "dir") => v.at = Nowhere /\ v.pending = <<>>
        /\ IsA(tree, k.at, "dir") =>
              /\ name = MustBeDir => v.at = k.at /\ v.pending = rest /\ v.hops = k.hops
              /\ name = Up => v.at = Parent(k.at) /\ v.pending = rest /\ v.hops = k.hops
              /\ name \in STRING /\ ~IsLink(tree, here) /\ here \in DOMAIN tree =>
                    v.at = here /\ v.pending = rest /\ v.hops = k.hops
              /\ name \in STRING /\ ~IsLink(tree, here) /\ here \notin DOMAIN tree => v.at = Nowhere /\ v.pending = <<>>
              /\ name \in STRING /\ IsLink(tree, here) /\ k.hops = KernelHops => v.at = Nowhere /\ v.pending = <<>>
              /\ name \in STRING /\ IsLink(tree, here) /\ k.hops # KernelHops =>
                    /\ v.at = IF tree[here].absolute THEN Root ELSE k.at
                    /\ v.pending = Parts(tree[here]) \o rest /\ v.hops = k.hops + 1

LEMMA KernelStepIs ==
    ASSUME NEW tree, NEW k \in KernelState, k.pending # <<>>, k.at \in Location,
           \A l \in Location : l = Append(k.at, Head(k.pending)) /\ IsLink(tree, l) => Parts(tree[l]) \in Seq(Tokens)
    PROVE  KernelStep(tree, k) \in KernelState /\ KernelMoves(tree, k, KernelStep(tree, k))
<1> DEFINE name == Head(k.pending)
           rest == Tail(k.pending)
           here == Append(k.at, name)
           v == KernelStep(tree, k)
           gone(missing) == [k EXCEPT !.at = Nowhere, !.pending = <<>>, !.missing = missing]
<1>1. name \in Tokens /\ rest \in Seq(Tokens) /\ k.hops \in 0..KernelHops /\ k.hops \in Nat /\ KernelHops \in Nat
  BY HeadTailAre, TokensDiffer DEF KernelState
<1>2. name \in STRING => here \in Location
  BY ParentIs
<1>3. /\ name # MustBeDir /\ name # Up <=> name \in STRING
      /\ Up # MustBeDir /\ <<>> \in Seq(Tokens)
  BY <1>1, TokensDiffer DEF Tokens
<1>4. \A m \in BOOLEAN : gone(m).at = Nowhere /\ gone(m).pending = <<>> /\ gone(m) \in KernelState
  BY <1>1, <1>3 DEF KernelState
<1>5. CASE ~IsA(tree, k.at, "dir")
  <2>1. v = gone(FALSE)
    BY <1>5 DEF KernelStep
  <2>2. v.at = Nowhere /\ v.pending = <<>> /\ v \in KernelState
    <3> HIDE DEF v, gone
    <3> QED BY <2>1, <1>4
  <2> HIDE DEF v
  <2>3. v \in KernelState /\ KernelMoves(tree, k, v)
    BY <2>2, <1>5, Zenon DEF KernelMoves
  <2> QED BY <2>3 DEF v
<1>6. CASE IsA(tree, k.at, "dir") /\ name = MustBeDir
  <2>1. v = [k EXCEPT !.pending = rest]
    BY <1>6 DEF KernelStep
  <2>2. v.at = k.at /\ v.pending = rest /\ v.hops = k.hops /\ v \in KernelState
    <3> HIDE DEF v, rest
    <3> QED BY <2>1, <1>1 DEF KernelState
  <2>4. name # Up /\ name \notin STRING
    BY <1>3, <1>6
  <2> HIDE DEF v
  <2>3. v \in KernelState /\ KernelMoves(tree, k, v)
    BY <2>2, <2>4, <1>6, Zenon DEF KernelMoves
  <2> QED BY <2>3 DEF v
<1>7. CASE IsA(tree, k.at, "dir") /\ name = Up
  <2>1. v = [k EXCEPT !.at = Parent(k.at), !.pending = rest]
    BY <1>3, <1>7 DEF KernelStep
  <2>2. v.at = Parent(k.at) /\ v.pending = rest /\ v.hops = k.hops /\ v \in KernelState
    <3>1. Parent(k.at) \in Location
      BY ParentIs
    <3> HIDE DEF v, rest
    <3> QED BY <2>1, <3>1, <1>1 DEF KernelState
  <2>4. name # MustBeDir /\ name \notin STRING
    BY <1>3, <1>7
  <2> HIDE DEF v
  <2>3. v \in KernelState /\ KernelMoves(tree, k, v)
    BY <2>2, <2>4, <1>7, Zenon DEF KernelMoves
  <2> QED BY <2>3 DEF v
<1>8. CASE IsA(tree, k.at, "dir") /\ name \in STRING /\ ~IsLink(tree, here) /\ here \in DOMAIN tree
  <2>1. v = [k EXCEPT !.at = here, !.pending = rest]
    BY <1>3, <1>8 DEF KernelStep
  <2>2. v.at = here /\ v.pending = rest /\ v.hops = k.hops /\ v \in KernelState
    <3> HIDE DEF v, rest, here
    <3> QED BY <2>1, <1>1, <1>2, <1>8 DEF KernelState
  <2>4. name # MustBeDir /\ name # Up
    BY <1>3, <1>8
  <2> HIDE DEF v
  <2>3. v \in KernelState /\ KernelMoves(tree, k, v)
    BY <2>2, <2>4, <1>8, Zenon DEF KernelMoves
  <2> QED BY <2>3 DEF v
<1>9. CASE IsA(tree, k.at, "dir") /\ name \in STRING /\ ~IsLink(tree, here) /\ here \notin DOMAIN tree
  <2>1. v = gone(TRUE)
    BY <1>3, <1>9 DEF KernelStep
  <2>2. v.at = Nowhere /\ v.pending = <<>> /\ v \in KernelState
    <3> HIDE DEF v, gone
    <3> QED BY <2>1, <1>4
  <2>4. name # MustBeDir /\ name # Up
    BY <1>3, <1>9
  <2> HIDE DEF v
  <2>3. v \in KernelState /\ KernelMoves(tree, k, v)
    BY <2>2, <2>4, <1>9, Zenon DEF KernelMoves
  <2> QED BY <2>3 DEF v
<1>10. CASE IsA(tree, k.at, "dir") /\ name \in STRING /\ IsLink(tree, here) /\ k.hops = KernelHops
  <2>1. v = gone(FALSE)
    BY <1>3, <1>10 DEF KernelStep
  <2>2. v.at = Nowhere /\ v.pending = <<>> /\ v \in KernelState
    <3> HIDE DEF v, gone
    <3> QED BY <2>1, <1>4
  <2>4. name # MustBeDir /\ name # Up
    BY <1>3, <1>10
  <2> HIDE DEF v
  <2>3. v \in KernelState /\ KernelMoves(tree, k, v)
    BY <2>2, <2>4, <1>10, Zenon DEF KernelMoves
  <2> QED BY <2>3 DEF v
<1>11. CASE IsA(tree, k.at, "dir") /\ name \in STRING /\ IsLink(tree, here) /\ k.hops # KernelHops
  <2> DEFINE to == IF tree[here].absolute THEN Root ELSE k.at
             parts == Parts(tree[here]) \o rest
  <2>1. v = [k EXCEPT !.at = to, !.pending = parts, !.hops = k.hops + 1]
    BY <1>3, <1>11 DEF KernelStep
  <2>2. to \in Location
    BY TokensDiffer
  <2>3. parts \in Seq(Tokens)
    <3>1. Parts(tree[here]) \in Seq(Tokens)
      BY <1>2, <1>11
    <3> QED BY <3>1, <1>1, ConcatIs
  <2>5. k.hops + 1 \in 0..KernelHops
    BY <1>1, <1>11
  <2>4. name # MustBeDir /\ name # Up
    BY <1>3, <1>11
  <2>6. v.at = to /\ v.pending = parts /\ v.hops = k.hops + 1 /\ v \in KernelState
    <3> HIDE DEF v, parts, to, here
    <3> QED BY <2>1, <2>2, <2>3, <2>5 DEF KernelState
  <2> HIDE DEF v
  <2>7. v \in KernelState /\ KernelMoves(tree, k, v)
    BY <2>6, <2>4, <1>11, Zenon DEF KernelMoves
  <2> QED BY <2>7 DEF v
<1> QED BY <1>3, <1>5, <1>6, <1>7, <1>8, <1>9, <1>10, <1>11

-----------------------------------------------------------------------------
(* Trees *)

LEMMA TreePrefix ==
    ASSUME NEW tree, IsTree(tree), NEW l \in Location, l \in DOMAIN tree, NEW n \in 0..Len(l) - 1
    PROVE  IsA(tree, SubSeq(l, 1, n), "dir")
<1> DEFINE wrong == {m \in Nat : m < Len(l) /\ ~IsA(tree, SubSeq(l, 1, Len(l) - 1 - m), "dir")}
<1>1. Len(l) \in Nat /\ n \in Nat /\ n <= Len(l) - 1
  BY DEF Location
<1>2. wrong = {}
  <2> SUFFICES ASSUME wrong # {} PROVE FALSE
    OBVIOUS
  <2>1. PICK m \in wrong : \A j \in wrong : m <= j
    <3>1. wrong \subseteq Nat
      OBVIOUS
    <3> HIDE DEF wrong
    <3> QED BY <3>1, FirstIs
  <2>2. CASE m = 0
    <3>1. l # Root
      BY <1>1, <2>1, ParentIs
    <3>2. IsA(tree, Parent(l), "dir") /\ Parent(l) = SubSeq(l, 1, Len(l) - 1)
      BY <3>1, ParentIs DEF IsTree
    <3> QED BY <3>2, <2>1, <2>2, <1>1
  <2>3. CASE m # 0
    <3> DEFINE i == Len(l) - m
               p == SubSeq(l, 1, i)
    <3>1. i \in 0..Len(l) /\ i >= 1 /\ i - 1 \in 0..Len(l) /\ m - 1 \in Nat /\ m - 1 < Len(l) /\ Len(l) - 1 - (m - 1) = i /\ Len(l) - 1 - m = i - 1 /\ ~(m <= m - 1)
      BY <2>1, <2>3, <1>1
    <3>2. IsA(tree, p, "dir")
      BY <3>1, <2>1
    <3> HIDE DEF i
    <3>3. p \in Location /\ Len(p) = i /\ \A x \in 1..i : p[x] = l[x]
      BY <3>1, ParentIs
    <3> HIDE DEF p
    <3>4. p # Root
      BY <3>1, <3>3, ParentIs
    <3>5. p \in DOMAIN tree
      BY <3>2, <3>4 DEF IsA
    <3>6. IsA(tree, Parent(p), "dir")
      BY <3>5 DEF IsTree
    <3>7. Parent(p) \in Location /\ Len(Parent(p)) = i - 1 /\ \A x \in 1..i - 1 : Parent(p)[x] = p[x]
      BY <3>3, <3>4, ParentIs
    <3>8. SubSeq(l, 1, i - 1) \in Location /\ Len(SubSeq(l, 1, i - 1)) = i - 1 /\ \A x \in 1..i - 1 : SubSeq(l, 1, i - 1)[x] = l[x]
      BY <3>1, ParentIs
    <3>9. Parent(p) = SubSeq(l, 1, i - 1)
      <4>1. \A x \in 1..i - 1 : x \in 1..i
        BY <3>1
      <4> DEFINE a == Parent(p)
                 b == SubSeq(l, 1, i - 1)
      <4> HIDE DEF a, b
      <4>2. a \in Seq(STRING) /\ b \in Seq(STRING) /\ Len(a) = Len(b) /\ \A x \in 1..Len(a) : a[x] = b[x]
        BY <3>3, <3>7, <3>8, <4>1 DEF a, b, Location
      <4>3. a = b
        BY <4>2
      <4> QED BY <4>3 DEF a, b
    <3> QED BY <3>1, <3>6, <3>9, <2>1
  <2> QED BY <2>2, <2>3
<1>3. Len(l) - 1 - n \in Nat /\ Len(l) - 1 - n < Len(l) /\ Len(l) - 1 - (Len(l) - 1 - n) = n
  BY <1>1
<1> QED BY <1>2, <1>3

LEMMA SameLocation ==
    ASSUME NEW a \in Location, NEW b \in Location, Len(a) = Len(b), \A i \in 1..Len(a) : a[i] = b[i]
    PROVE  a = b
BY DEF Location

LEMMA RootIs ==
    /\ Root \in Location /\ Len(Root) = 0 /\ Parent(Root) = Root
    /\ \A l \in Location : /\ Len(l) \in Nat /\ (l # Root => Len(l) >= 1)
                           /\ SubSeq(l, 1, Len(l)) = l /\ SubSeq(l, 1, 0) = Root
<1>1. Root \in Location
  BY TokensDiffer
<1>2. Len(Root) = 0 /\ Parent(Root) = Root
  BY <1>1, ParentIs
<1>3. ASSUME NEW l \in Location
      PROVE  Len(l) \in Nat /\ (l # Root => Len(l) >= 1) /\ SubSeq(l, 1, Len(l)) = l /\ SubSeq(l, 1, 0) = Root
  <2>1. Len(l) \in Nat
    BY DEF Location
  <2>2. (l # Root => Len(l) >= 1) /\ SubSeq(l, 1, Len(l)) = l /\ SubSeq(l, 1, 0) = Root
    BY ParentIs
  <2> QED BY <2>1, <2>2
<1> QED BY <1>1, <1>2, <1>3

\* No link on the way to l, l included.
Clear(tree, l) == \A n \in 1..Len(l) : ~IsLink(tree, SubSeq(l, 1, n))

LEMMA ClearIs ==
    ASSUME NEW tree, NEW l \in Location, Clear(tree, l)
    PROVE  /\ Clear(tree, Root) /\ Clear(tree, Parent(l)) /\ ~IsLink(tree, l)
           /\ \A x \in STRING : ~IsLink(tree, Append(l, x)) => Clear(tree, Append(l, x))
<1>1. Clear(tree, Root) /\ Len(l) \in Nat
  BY RootIs DEF Clear
<1>2. Clear(tree, Parent(l))
  <2>1. CASE l = Root
    BY <1>1, <2>1, ParentIs
  <2>2. CASE l # Root
    <3> DEFINE p == Parent(l)
    <3>1. p \in Location /\ Len(p) = Len(l) - 1 /\ \A i \in 1..Len(l) - 1 : p[i] = l[i]
      BY <2>2, ParentIs
    <3> HIDE DEF p
    <3>2. ASSUME NEW n \in 1..Len(p) PROVE ~IsLink(tree, SubSeq(p, 1, n))
      <4>1. n \in 0..Len(p) /\ n \in 0..Len(l) /\ n \in 1..Len(l)
        BY <1>1, <3>1
      <4>2. SubSeq(p, 1, n) \in Location /\ Len(SubSeq(p, 1, n)) = n /\ \A i \in 1..n : SubSeq(p, 1, n)[i] = p[i]
        BY <3>1, <4>1, ParentIs
      <4>3. SubSeq(l, 1, n) \in Location /\ Len(SubSeq(l, 1, n)) = n /\ \A i \in 1..n : SubSeq(l, 1, n)[i] = l[i]
        BY <4>1, ParentIs
      <4>4. \A i \in 1..n : p[i] = l[i]
        BY <3>1, <1>1
      <4>5. SubSeq(p, 1, n) = SubSeq(l, 1, n)
        BY <4>2, <4>3, <4>4, SameLocation
      <4> QED BY <4>1, <4>5 DEF Clear
    <3> QED BY <3>2 DEF Clear, p
  <2> QED BY <2>1, <2>2
<1>3. ~IsLink(tree, l)
  <2>1. CASE l = Root
    BY <2>1 DEF IsLink, IsA
  <2>2. CASE l # Root
    <3>1. Len(l) \in 1..Len(l) /\ SubSeq(l, 1, Len(l)) = l
      BY <2>2, RootIs
    <3> QED BY <3>1 DEF Clear
  <2> QED BY <2>1, <2>2
<1>4. ASSUME NEW x \in STRING, ~IsLink(tree, Append(l, x)) PROVE Clear(tree, Append(l, x))
  <2> DEFINE a == Append(l, x)
  <2>1. a \in Location /\ Len(a) = Len(l) + 1 /\ \A i \in 1..Len(l) : a[i] = l[i]
    <3>1. a \in Location /\ Len(a) = Len(l) + 1
      BY ParentIs
    <3>2. \A i \in 1..Len(l) : a[i] = l[i]
      BY AppendIs DEF Location
    <3> QED BY <3>1, <3>2
  <2>2. SubSeq(a, 1, Len(a)) = a
    BY <2>1, ParentIs
  <2> HIDE DEF a
  <2>3. ASSUME NEW n \in 1..Len(l) PROVE SubSeq(a, 1, n) = SubSeq(l, 1, n)
    <3>1. n \in 0..Len(l) /\ n \in 0..Len(a)
      BY <1>1, <2>1
    <3>2. SubSeq(a, 1, n) \in Location /\ Len(SubSeq(a, 1, n)) = n /\ \A i \in 1..n : SubSeq(a, 1, n)[i] = a[i]
      BY <2>1, <3>1, ParentIs
    <3>3. SubSeq(l, 1, n) \in Location /\ Len(SubSeq(l, 1, n)) = n /\ \A i \in 1..n : SubSeq(l, 1, n)[i] = l[i]
      BY <3>1, ParentIs
    <3>4. \A i \in 1..n : a[i] = l[i]
      BY <2>1, <1>1
    <3> QED BY <3>2, <3>3, <3>4, SameLocation
  <2>4. \A n \in 1..Len(a) : n \in 1..Len(l) \/ n = Len(a)
    BY <1>1, <2>1
  <2>5. ~IsLink(tree, a)
    BY <1>4 DEF a
  <2>6. Clear(tree, a)
    BY <2>2, <2>3, <2>4, <2>5 DEF Clear
  <2> QED BY <2>6 DEF a
<1> QED BY <1>1, <1>2, <1>3, <1>4

\* Looking up a place is finding the directory that is there.
LEMMA Straight ==
    ASSUME NEW tree, IsTree(tree), NEW l \in Location, Clear(tree, l), Len(l) <= MaxSteps
    PROVE  IsDir(tree, l) <=> IsA(tree, l, "dir")
<1> DEFINE f == Looked(tree, l)
           along(n) == /\ f[n].at = SubSeq(l, 1, n) /\ Len(f[n].pending) = Len(l) - n
                       /\ \A i \in 1..Len(l) - n : f[n].pending[i] = l[n + i]
           gone(n) == f[n].at = Nowhere /\ f[n].pending = <<>> /\ ~IsA(tree, l, "dir")
           there(n) == n >= Len(l) /\ f[n].at = l /\ f[n].pending = <<>>
           P == {n \in 0..MaxSteps : f[n] \in KernelState /\ (gone(n) \/ there(n) \/ (n < Len(l) /\ along(n)))}
<1>1. Len(l) \in Nat /\ MaxSteps \in Nat /\ l \in Seq(Tokens)
  BY TokensDiffer DEF Location
<1>2. /\ KernelRun(tree, l) = f[MaxSteps] /\ f[0] = KernelFrom(l)
      /\ \A n \in 0..MaxSteps : n # MaxSteps => f[n + 1] = KernelNext(tree, f[n])
  BY LookupIs
<1> HIDE DEF f
<1>3. 0 \in P
  <2>1. f[0].at = Root /\ f[0].pending = l /\ f[0].hops = 0 /\ f[0] \in KernelState
    BY <1>1, <1>2, TokensDiffer DEF KernelFrom, KernelState
  <2>2. CASE l = Root
    <3>1. there(0)
      BY <2>1, <2>2, ParentIs DEF Root
    <3> QED BY <1>1, <2>1, <3>1
  <2>3. CASE l # Root
    <3>1. 0 < Len(l)
      BY <2>3, RootIs
    <3>2. SubSeq(l, 1, 0) = Root
      BY ParentIs
    <3>3. along(0)
      BY <2>1, <3>2, <1>1
    <3> QED BY <1>1, <2>1, <3>1, <3>3
  <2> QED BY <2>2, <2>3
<1>4. ASSUME NEW n \in 0..MaxSteps, n # MaxSteps, n \in P PROVE n + 1 \in P
  <2>1. n + 1 \in 0..MaxSteps /\ n \in Nat /\ f[n + 1] = KernelNext(tree, f[n]) /\ f[n] \in KernelState
    BY <1>1, <1>2, <1>4
  <2>2. CASE f[n].pending = <<>>
    <3>1. f[n + 1] = f[n]
      BY <2>1, <2>2 DEF KernelNext
    <3>2. ~(n < Len(l) /\ along(n))
      BY <2>2, <1>1, <2>1
    <3>3. gone(n + 1) \/ there(n + 1)
      <4>1. gone(n) \/ there(n)
        BY <1>4, <3>2
      <4>2. gone(n) => gone(n + 1)
        BY <3>1
      <4>3. there(n) => there(n + 1)
        BY <3>1, <2>1, <1>1
      <4> QED BY <4>1, <4>2, <4>3
    <3> QED BY <2>1, <3>1, <3>3
  <2>3. CASE f[n].pending # <<>>
    <3> DEFINE k == f[n]
               v == f[n + 1]
               p == SubSeq(l, 1, n)
               here == Append(p, l[n + 1])
    <3>1. n < Len(l) /\ along(n)
      BY <1>4, <2>3
    <3>2. n \in 0..Len(l) - 1 /\ n \in 0..Len(l) /\ n + 1 \in 0..Len(l) /\ n + 1 \in 1..Len(l)
      BY <3>1, <2>1, <1>1
    <3>3. p \in Location /\ Len(p) = n /\ \A i \in 1..n : p[i] = l[i]
      BY <3>2, ParentIs
    <3>4. l[n + 1] \in STRING
      BY <3>2 DEF Location
    <3>5. here = SubSeq(l, 1, n + 1) /\ here \in Location
      <4>1. here \in Location /\ Len(here) = n + 1 /\ here[n + 1] = l[n + 1] /\ \A i \in 1..n : here[i] = p[i]
        <5> HIDE DEF p
        <5> QED BY <3>3, <3>4, AppendIs DEF Location
      <4>2. SubSeq(l, 1, n + 1) \in Location /\ Len(SubSeq(l, 1, n + 1)) = n + 1 /\ \A i \in 1..n + 1 : SubSeq(l, 1, n + 1)[i] = l[i]
        BY <3>2, ParentIs
      <4>3. \A i \in 1..n + 1 : i \in 1..n \/ i = n + 1
        BY <2>1
      <4> HIDE DEF here, p
      <4>4. \A i \in 1..n + 1 : here[i] = SubSeq(l, 1, n + 1)[i]
        BY <4>1, <4>2, <4>3, <3>3
      <4> QED BY <4>1, <4>2, <4>4, SameLocation
    <3>6. k.at = p /\ k.pending \in Seq(Tokens) /\ Head(k.pending) = l[n + 1] /\ Len(k.pending) = Len(l) - n
      <4>1. k.pending \in Seq(Tokens)
        BY <2>1 DEF KernelState
      <4>2. Head(k.pending) = k.pending[1]
        BY <4>1, <2>3, HeadTailAre
      <4>3. 1 \in 1..Len(l) - n
        BY <3>2, <1>1
      <4> QED BY <3>1, <4>1, <4>2, <4>3
    <3>7. ~IsLink(tree, here)
      BY <3>2, <3>5 DEF Clear
    <3>8. v \in KernelState /\ KernelMoves(tree, k, v)
      <4>1. v = KernelStep(tree, k)
        BY <2>1, <2>3 DEF KernelNext
      <4> HIDE DEF v, k, p, here
      <4>2. \A x \in Location : x = Append(k.at, Head(k.pending)) /\ IsLink(tree, x) => Parts(tree[x]) \in Seq(Tokens)
        BY LinkIs
      <4>3. k \in KernelState /\ k.pending # <<>> /\ k.at \in Location
        BY <2>1, <2>3, <3>3, <3>6 DEF k
      <4> QED BY <4>1, <4>2, <4>3, KernelStepIs
    <3>9. ASSUME v.at = Nowhere, v.pending = <<>>, ~IsA(tree, p, "dir") \/ here \notin DOMAIN tree
          PROVE  gone(n + 1)
      <4>1. ASSUME IsA(tree, l, "dir") PROVE FALSE
        <5>1. l \in DOMAIN tree
          BY <4>1, <3>2, ParentIs DEF IsA
        <5>2. IsA(tree, p, "dir")
          BY <5>1, <3>2, TreePrefix
        <5>3. n + 1 \in 0..Len(l) - 1 \/ n + 1 = Len(l)
          BY <3>2, <1>1
        <5>4. CASE n + 1 = Len(l)
          <6>1. here = l
            BY <5>4, <3>5, ParentIs
          <6> QED BY <6>1, <5>1, <5>2, <3>9
        <5>5. CASE n + 1 \in 0..Len(l) - 1
          <6>1. IsA(tree, here, "dir")
            BY <5>1, <5>5, <3>5, TreePrefix
          <6>2. here # Root
            BY <3>3, <3>4, ParentIs
          <6>3. here \in DOMAIN tree
            BY <6>1, <6>2 DEF IsA
          <6> QED BY <6>3, <5>2, <3>9
        <5> QED BY <5>3, <5>4, <5>5
      <4> QED BY <3>9, <4>1
    <3>10. CASE IsA(tree, p, "dir") /\ here \in DOMAIN tree
      <4>1. v.at = here /\ v.pending = Tail(k.pending)
        <5> HIDE DEF v, k, p, here
        <5>1. Append(k.at, Head(k.pending)) = here
          BY <3>6 DEF here
        <5> QED BY <5>1, <3>4, <3>6, <3>7, <3>8, <3>10 DEF KernelMoves
      <4>2. Len(v.pending) = Len(l) - n - 1 /\ \A i \in 1..Len(l) - n - 1 : v.pending[i] = k.pending[i + 1]
        <5> HIDE DEF v, k
        <5> QED BY <4>1, <3>6, <2>3, HeadTailAre DEF k
      <4>3. \A i \in 1..Len(l) - (n + 1) : v.pending[i] = l[n + 1 + i]
        <5>1. \A i \in 1..Len(l) - (n + 1) : i + 1 \in 1..Len(l) - n /\ i \in 1..Len(l) - n - 1 /\ n + (i + 1) = n + 1 + i
          BY <2>1, <1>1
        <5> QED BY <5>1, <4>2, <3>1
      <4>4. CASE n + 1 < Len(l)
        <5>1. Len(v.pending) = Len(l) - (n + 1)
          BY <4>2, <2>1, <1>1
        <5>2. v.at = SubSeq(l, 1, n + 1)
          BY <4>1, <3>5
        <5>3. along(n + 1)
          BY <5>1, <5>2, <4>3
        <5> QED BY <5>3, <4>4, <2>1, <3>8
      <4>5. CASE n + 1 = Len(l)
        <5>1. v.at = l
          BY <4>1, <4>5, <3>5, ParentIs
        <5>2. v.pending \in Seq(Tokens) /\ Len(v.pending) = 0
          <6>1. v.pending \in Seq(Tokens)
            BY <3>8 DEF KernelState
          <6> QED BY <6>1, <4>2, <4>5, <2>1, <1>1
        <5>3. v.pending = <<>>
          <6> HIDE DEF v
          <6> QED BY <5>2
        <5>4. there(n + 1)
          BY <5>1, <5>3, <4>5, <2>1
        <5> QED BY <5>4, <2>1, <3>8
      <4> QED BY <4>4, <4>5, <3>2, <1>1
    <3>11. CASE ~(IsA(tree, p, "dir") /\ here \in DOMAIN tree)
      <4>1. v.at = Nowhere /\ v.pending = <<>>
        <5> HIDE DEF v, k, p, here
        <5>1. Append(k.at, Head(k.pending)) = here
          BY <3>6 DEF here
        <5> QED BY <5>1, <3>4, <3>6, <3>7, <3>8, <3>11 DEF KernelMoves
      <4>2. gone(n + 1)
        BY <4>1, <3>9, <3>11
      <4> QED BY <4>2, <2>1, <3>8
    <3> QED BY <3>10, <3>11
  <2> QED BY <2>2, <2>3
<1>5. MaxSteps \in P
  <2> HIDE DEF P
  <2>1. 0 \in Nat /\ MaxSteps \in 0..MaxSteps /\ \A n \in 0..MaxSteps : n # MaxSteps /\ n \in P => n + 1 \in P
    BY <1>1, <1>4
  <2>2. \A n \in 0..MaxSteps : n \in P
    BY <1>1, <1>3, <2>1, EveryStep, Zenon
  <2> QED BY <2>1, <2>2
<1>6. gone(MaxSteps) \/ there(MaxSteps)
  BY <1>5, <1>1
<1>7. Kernel(tree, l) = f[MaxSteps].at
  BY <1>2, <1>6 DEF Kernel, Arrived
<1>8. l # Nowhere
  BY TokensDiffer
<1> QED BY <1>6, <1>7, <1>8 DEF IsDir, IsThere

LEMMA LexicalIs ==
    ASSUME NEW path \in Path
    PROVE  Lexical(path) \in Location
<1> DEFINE last == Len(path)
           start == Root
           next(n, l) == IF path[n] = Up THEN Parent(l) ELSE Append(l, path[n])
           at == CHOOSE f : f = [n \in 0..last |-> IF n = 0 THEN start ELSE next(n, f[n - 1])]
<1>1. last \in Nat /\ start \in Location /\ \A i \in 1..last : path[i] \in STRING \union {Up}
  BY RootIs DEF Path
<1>2. \A n \in 1..last, l \in Location : next(n, l) \in Location
  <2> TAKE n \in 1..last, l \in Location
  <2>1. path[n] \in STRING \union {Up}
    BY <1>1
  <2> HIDE DEF last
  <2> QED BY <2>1, ParentIs
<1>3. Lexical(path) = at[last]
  BY DEF Lexical
<1> HIDE DEF last, start, next
<1> DEFINE step == [p \in Nat \X Location |-> IF p[1] \in 1..last THEN next(p[1], p[2]) ELSE p[2]]
<1>4. step \in [Nat \X Location -> Location]
  BY <1>2
<1>5. \A n \in 1..last, l \in Location : step[<<n, l>>] = next(n, l)
  <2> TAKE n \in 1..last, l \in Location
  <2>1. <<n, l>> \in Nat \X Location
    BY <1>1
  <2> QED BY <2>1
<1> HIDE DEF step
<1>6. PICK f \in [0..last -> Location] : Recurs(f, last, start, step)
  BY <1>1, <1>4, RecursionIs, Zenon
<1>7. \A n \in 0..last : f[n] = IF n = 0 THEN start ELSE next(n, f[n - 1])
  <2> TAKE n \in 0..last
  <2>1. n # 0 => n \in 1..last /\ n - 1 \in 0..last
    BY <1>1
  <2>2. n # 0 => f[n - 1] \in Location /\ f[n] = step[<<n, f[n - 1]>>]
    BY <1>6, <2>1 DEF Recurs
  <2>3. n # 0 => f[n] = next(n, f[n - 1])
    BY <1>5, <2>1, <2>2
  <2> QED BY <1>6, <2>3 DEF Recurs
<1>8. f = [n \in 0..last |-> IF n = 0 THEN start ELSE next(n, f[n - 1])]
  BY <1>7
<1>9. at = [n \in 0..last |-> IF n = 0 THEN start ELSE next(n, at[n - 1])]
  BY <1>8
<1> HIDE DEF at
<1> DEFINE P == {n \in 0..last : at[n] \in Location}
<1>10. 0 \in P
  BY <1>1, <1>9
<1>11. ASSUME NEW n \in 0..last, n # last, at[n] \in Location PROVE n + 1 \in P
  <2>1. n + 1 \in 0..last /\ n + 1 \in 1..last /\ n + 1 # 0 /\ n + 1 - 1 = n
    BY <1>1, <1>11
  <2>2. at[n + 1] = next(n + 1, at[n])
    BY <1>9, <2>1
  <2> QED BY <1>2, <1>11, <2>1, <2>2
<1>12. last \in P
  <2>1. 0 \in Nat /\ last \in 0..last /\ \A n \in 0..last : n # last /\ n \in P => n + 1 \in P
    BY <1>1, <1>11
  <2> HIDE DEF P
  <2>2. \A n \in 0..last : n \in P
    BY <1>1, <1>10, <2>1, EveryStep, Zenon
  <2> QED BY <2>1, <2>2
<1> QED BY <1>3, <1>12

-----------------------------------------------------------------------------
(* The walk *)

\* Where a walk may be after n parts.
OnItsWay(tree, w, n) ==
    /\ w \in WalkState
    /\ w.resolved = Nowhere => w.problem /\ w.pending = <<>>
    /\ w.resolved # Nowhere =>
          /\ Len(w.resolved) <= n /\ Clear(tree, w.resolved)
          /\ w.resolved = Root \/ \E v \in w.visited : IsPrefix(w.resolved, v)

LeadsOn(w, v) == (w.problem => v.problem) /\ w.hops <= v.hops /\ w.visited \subseteq v.visited

LEMMA PrefixesAre ==
    ASSUME NEW a \in Location, NEW b \in Location, IsPrefix(a, b)
    PROVE  IsPrefix(b, b) /\ IsPrefix(Parent(a), b) /\ \A c \in Location : IsPrefix(b, c) => IsPrefix(a, c)
<1>1. Len(a) \in Nat /\ Len(b) \in Nat /\ Len(a) <= Len(b) /\ \A i \in 1..Len(a) : a[i] = b[i]
  BY PrefixIs, RootIs
<1>2. IsPrefix(b, b)
  BY <1>1, PrefixIs
<1>3. IsPrefix(Parent(a), b)
  <2>1. CASE a = Root
    BY <2>1, RootIs
  <2>2. CASE a # Root
    <3> DEFINE p == Parent(a)
    <3>1. p \in Location /\ Len(p) = Len(a) - 1 /\ \A i \in 1..Len(a) - 1 : p[i] = a[i]
      BY <2>2, ParentIs
    <3> HIDE DEF p
    <3>2. Len(p) <= Len(b) /\ \A i \in 1..Len(p) : p[i] = b[i]
      BY <1>1, <3>1
    <3>3. IsPrefix(p, b)
      BY <3>1, <3>2, PrefixIs
    <3> QED BY <3>3 DEF p
  <2> QED BY <2>1, <2>2
<1>4. ASSUME NEW c \in Location, IsPrefix(b, c) PROVE IsPrefix(a, c)
  <2>1. Len(b) <= Len(c) /\ Len(c) \in Nat /\ \A i \in 1..Len(b) : b[i] = c[i]
    BY <1>4, PrefixIs, RootIs
  <2>2. Len(a) <= Len(c) /\ \A i \in 1..Len(a) : a[i] = c[i]
    BY <1>1, <2>1
  <2> QED BY <2>2, PrefixIs
<1> QED BY <1>2, <1>3, <1>4

LEMMA OneStepOn ==
    ASSUME NEW tree, IsTree(tree), NEW n \in Nat, NEW w, OnItsWay(tree, w, n)
    PROVE  /\ OnItsWay(tree, WalkNext(tree, w), n + 1) /\ LeadsOn(w, WalkNext(tree, w))
           /\ w.pending # <<>> => w.resolved \in Location /\ WalkMoves(tree, w, WalkNext(tree, w)) /\ Head(w.pending) \in Tokens
<1> DEFINE v == WalkNext(tree, w)
           name == Head(w.pending)
           current == Append(w.resolved, name)
<1>1. w \in WalkState /\ w.hops \in Nat /\ w.pending \in Seq(Tokens)
  BY DEF OnItsWay, WalkState
<1>2. CASE w.pending = <<>>
  <2>1. v = w
    BY <1>2 DEF WalkNext
  <2>2. w.resolved # Nowhere => w.resolved \in Location
    BY <1>1 DEF WalkState
  <2>3. w.resolved # Nowhere => Len(w.resolved) <= n + 1
    BY <2>2, RootIs DEF OnItsWay
  <2>4. OnItsWay(tree, w, n + 1)
    BY <2>3 DEF OnItsWay
  <2>5. LeadsOn(w, w)
    BY <1>1 DEF LeadsOn
  <2> QED BY <2>1, <2>4, <2>5, <1>2
<1>3. CASE w.pending # <<>>
  <2>1. w.resolved # Nowhere /\ w.resolved \in Location
    BY <1>1, <1>3 DEF OnItsWay, WalkState
  <2>2. v \in WalkState /\ WalkMoves(tree, w, v)
    BY <1>1, <1>3, <2>1, WalkStepIs DEF WalkNext
  <2>3. name \in Tokens
    BY <1>1, <1>3, HeadTailAre
  <2>4. LeadsOn(w, v)
    BY <2>2 DEF WalkMoves, LeadsOn
  <2>5. Len(w.resolved) \in Nat /\ Len(w.resolved) <= n /\ Clear(tree, w.resolved)
        /\ (w.resolved = Root \/ \E x \in w.visited : IsPrefix(w.resolved, x))
    BY <2>1, RootIs DEF OnItsWay
  <2>6. w.visited \subseteq v.visited /\ w.visited \subseteq Location
    BY <1>1, <2>4 DEF LeadsOn, WalkState
  <2> HIDE DEF v
  <2>7. ASSUME v.resolved = w.resolved PROVE OnItsWay(tree, v, n + 1)
    <3>1. v.resolved = Root \/ \E x \in v.visited : IsPrefix(v.resolved, x)
      BY <2>5, <2>6, <2>7
    <3> QED BY <2>1, <2>2, <2>5, <2>7, <3>1 DEF OnItsWay
  <2>8. CASE name = MustBeDir
    <3>1. v.resolved = w.resolved
      BY <2>2, <2>8 DEF WalkMoves
    <3>2. OnItsWay(tree, v, n + 1)
      BY <3>1, <2>7
    <3> QED BY <3>2, <2>1, <2>2, <2>3, <2>4, <1>3 DEF v
  <2>9. CASE name = Up
    <3> DEFINE p == Parent(w.resolved)
    <3>1. v.resolved = p
      BY <2>2, <2>9 DEF WalkMoves
    <3>2. p \in Location /\ Clear(tree, p)
      BY <2>1, <2>5, ParentIs, ClearIs
    <3>3. Len(p) <= n + 1
      <4>1. w.resolved # Root => Len(p) = Len(w.resolved) - 1
        BY <2>1, ParentIs
      <4> QED BY <4>1, <2>5, RootIs
    <3>4. p = Root \/ \E x \in v.visited : IsPrefix(p, x)
      <4>1. CASE w.resolved = Root
        BY <4>1, RootIs
      <4>2. CASE w.resolved # Root
        <5>1. PICK x \in w.visited : IsPrefix(w.resolved, x)
          BY <4>2, <2>5
        <5>2. IsPrefix(p, x)
          BY <5>1, <2>1, <2>6, PrefixesAre
        <5> QED BY <5>2, <2>6
      <4> QED BY <4>1, <4>2
    <3> HIDE DEF p
    <3>5. OnItsWay(tree, v, n + 1)
      BY <3>1, <3>2, <3>3, <3>4, <2>2, TokensDiffer DEF OnItsWay
    <3> QED BY <3>5, <2>1, <2>2, <2>3, <2>4, <1>3 DEF v
  <2>10. CASE name \in STRING /\ ~IsLink(tree, current)
    <3>1. v.resolved = current /\ current \in v.visited
      BY <2>2, <2>10 DEF WalkMoves
    <3>2. current \in Location /\ Len(current) = Len(w.resolved) + 1
      BY <2>1, <2>10, ParentIs
    <3>3. Clear(tree, current)
      BY <2>1, <2>5, <2>10, ClearIs
    <3> HIDE DEF current
    <3>4. IsPrefix(current, current)
      BY <3>2, PrefixIs, RootIs
    <3>5. Len(current) <= n + 1
      BY <3>2, <2>5
    <3>6. OnItsWay(tree, v, n + 1)
      BY <3>1, <3>2, <3>3, <3>4, <3>5, <2>2, TokensDiffer DEF OnItsWay
    <3> QED BY <3>6, <2>1, <2>2, <2>3, <2>4, <1>3 DEF v
  <2>11. CASE name \in STRING /\ IsLink(tree, current)
    <3>1. CASE w.hops = MaxHops
      <4>1. v.resolved = Nowhere /\ v.pending = <<>> /\ v.problem
        BY <2>2, <2>11, <3>1 DEF WalkMoves
      <4>2. OnItsWay(tree, v, n + 1)
        BY <4>1, <2>2 DEF OnItsWay
      <4> QED BY <4>2, <2>1, <2>2, <2>3, <2>4, <1>3 DEF v
    <3>2. CASE w.hops # MaxHops
      <4>1. v.resolved = IF tree[current].absolute THEN Root ELSE w.resolved
        BY <2>2, <2>11, <3>2 DEF WalkMoves
      <4>2. CASE v.resolved = w.resolved
        <5>1. OnItsWay(tree, v, n + 1)
          BY <4>2, <2>7
        <5> QED BY <5>1, <2>1, <2>2, <2>3, <2>4, <1>3 DEF v
      <4>3. CASE v.resolved = Root
        <5>1. Clear(tree, Root) /\ Len(Root) = 0 /\ Root # Nowhere
          BY <2>1, <2>5, ClearIs, RootIs, TokensDiffer
        <5>2. OnItsWay(tree, v, n + 1)
          BY <4>3, <5>1, <2>2 DEF OnItsWay
        <5> QED BY <5>2, <2>1, <2>2, <2>3, <2>4, <1>3 DEF v
      <4> QED BY <4>1, <4>2, <4>3
    <3> QED BY <3>1, <3>2
  <2>12. name = MustBeDir \/ name = Up \/ name \in STRING
    BY <2>3 DEF Tokens
  <2> QED BY <2>8, <2>9, <2>10, <2>11, <2>12
<1> QED BY <1>2, <1>3

\* A walk, all of it.
LEMMA TheWalk ==
    ASSUME NEW tree, IsTree(tree), NEW path \in Path
    PROVE  LET f == Walked(tree, path)
           IN  \A n \in 0..MaxSteps : OnItsWay(tree, f[n], n) /\ LeadsOn(f[n], f[MaxSteps])
<1> DEFINE f == Walked(tree, path)
           P == {n \in 0..MaxSteps : OnItsWay(tree, f[n], n)}
<1>1. /\ f[0] = WalkFrom(path)
      /\ \A n \in 0..MaxSteps : n # MaxSteps => f[n + 1] = WalkNext(tree, f[n])
  BY WalkIs
<1> HIDE DEF f
<1>2. MaxSteps \in Nat /\ \A n \in 0..MaxSteps : n \in Nat /\ n \in 0..MaxSteps /\ (n # MaxSteps => n + 1 \in 0..MaxSteps)
  BY TokensDiffer
<1>3. OnItsWay(tree, f[0], 0)
  <2>1. /\ f[0].resolved = Root /\ f[0].pending = path /\ f[0].visited = {} /\ f[0].hops = 0 /\ f[0].problem = FALSE
        /\ f[0] \in WalkState
    BY <1>1, TokensDiffer DEF WalkFrom, WalkState
  <2>2. Clear(tree, Root) /\ Len(Root) = 0
    BY RootIs DEF Clear
  <2> QED BY <2>1, <2>2, TokensDiffer DEF OnItsWay
<1>4. \A n \in 0..MaxSteps : n # MaxSteps /\ n \in P => n + 1 \in P
  BY <1>1, <1>2, OneStepOn
<1>5. \A n \in 0..MaxSteps : n \in P
  <2>1. 0 \in P /\ 0 \in Nat
    BY <1>2, <1>3
  <2> HIDE DEF P
  <2> QED BY <1>2, <1>4, <2>1, EveryStep, Zenon
<1>6. \A n \in 0..MaxSteps : OnItsWay(tree, f[n], n)
  BY <1>5
<1>7. ASSUME NEW n \in 0..MaxSteps PROVE LeadsOn(f[n], f[MaxSteps])
  <2> DEFINE Q == {m \in n..MaxSteps : LeadsOn(f[n], f[m])}
  <2>1. n \in Q
    <3>1. f[n].hops \in Nat
      BY <1>6 DEF OnItsWay, WalkState
    <3> QED BY <3>1, <1>2 DEF LeadsOn
  <2>2. ASSUME NEW m \in n..MaxSteps, m # MaxSteps, m \in Q PROVE m + 1 \in Q
    <3>1. m \in 0..MaxSteps /\ m + 1 \in 0..MaxSteps /\ m + 1 \in n..MaxSteps
      BY <1>2, <2>2
    <3>2. f[m + 1] = WalkNext(tree, f[m]) /\ OnItsWay(tree, f[m], m) /\ m \in Nat
      BY <1>1, <1>2, <1>6, <2>2, <3>1
    <3>3. LeadsOn(f[m], f[m + 1])
      BY <3>2, OneStepOn
    <3>4. f[n].hops \in Nat /\ f[m].hops \in Nat /\ f[m + 1].hops \in Nat
      BY <1>6, <3>1 DEF OnItsWay, WalkState
    <3>5. LeadsOn(f[n], f[m + 1])
      BY <2>2, <3>3, <3>4 DEF LeadsOn
    <3> QED BY <3>1, <3>5
  <2>3. MaxSteps \in n..MaxSteps /\ n \in Nat
    BY <1>2
  <2>4. \A m \in n..MaxSteps : m \in Q
    <3> HIDE DEF Q
    <3>1. \A m \in n..MaxSteps : m # MaxSteps /\ m \in Q => m + 1 \in Q
      BY <2>2
    <3> QED BY <1>2, <2>1, <2>3, <3>1, EveryStep, Zenon
  <2> QED BY <2>3, <2>4
<1> QED BY <1>6, <1>7 DEF f

\* What the operating system does beside it.
Beside(k, w) ==
    /\ k \in KernelState
    /\ \/ k.at = Nowhere /\ k.pending = <<>>
       \/ k.at \in Location /\ k.at = w.resolved /\ k.pending = w.pending /\ k.hops = w.hops /\ ~w.problem

LEMMA StaysBeside ==
    ASSUME NEW tree, IsTree(tree), NEW n \in 0..MaxSteps, NEW w, OnItsWay(tree, w, n), NEW k, Beside(k, w)
    PROVE  Beside(KernelNext(tree, k), WalkNext(tree, w))
<1> DEFINE v == WalkNext(tree, w)
           j == KernelNext(tree, k)
           name == Head(w.pending)
           here == Append(w.resolved, name)
<1>1. CASE k.pending = <<>>
  <2>1. j = k
    BY <1>1 DEF KernelNext
  <2>2. w.pending = <<>> \/ k.at = Nowhere
    BY <1>1 DEF Beside
  <2>3. w.pending = <<>> => v = w
    BY DEF WalkNext
  <2> QED BY <2>1, <2>2, <2>3, <1>1 DEF Beside
<1>2. CASE k.pending # <<>>
  <2>1. /\ k \in KernelState /\ k.at \in Location /\ k.at = w.resolved /\ k.pending = w.pending /\ k.hops = w.hops
        /\ ~w.problem
    BY <1>2 DEF Beside
  <2>2. w.resolved \in Location /\ WalkMoves(tree, w, v) /\ name \in Tokens /\ v.pending \in Seq(Tokens)
    <3>1. n \in Nat
      BY TokensDiffer
    <3>2. OnItsWay(tree, v, n + 1)
      BY <3>1, OneStepOn
    <3> QED BY <3>1, <3>2, <2>1, <1>2, OneStepOn DEF OnItsWay, WalkState
  <2>3. j \in KernelState /\ KernelMoves(tree, k, j)
    <3>1. j = KernelStep(tree, k)
      BY <1>2 DEF KernelNext
    <3> HIDE DEF j
    <3>2. \A x \in Location : x = Append(k.at, Head(k.pending)) /\ IsLink(tree, x) => Parts(tree[x]) \in Seq(Tokens)
      BY LinkIs
    <3> QED BY <3>1, <3>2, <1>2, <2>1, KernelStepIs
  <2>4. IsDir(tree, w.resolved) <=> IsA(tree, w.resolved, "dir")
    <3>1. Clear(tree, w.resolved) /\ Len(w.resolved) <= n /\ n <= MaxSteps /\ n \in Nat /\ MaxSteps \in Nat /\ Len(w.resolved) \in Nat
      BY <2>2, TokensDiffer, RootIs DEF OnItsWay
    <3>2. Len(w.resolved) <= MaxSteps
      BY <3>1
    <3> QED BY <2>2, <3>1, <3>2, Straight
  <2>5. Head(k.pending) = name /\ Tail(k.pending) = Tail(w.pending) /\ Append(k.at, Head(k.pending)) = here
    BY <2>1
  <2>6. KernelHops \in 0..MaxHops /\ k.hops \in 0..KernelHops /\ MaxHops \in Nat
    BY <2>1, TokensDiffer DEF KernelState
  <2> HIDE DEF v, j
  <2>7. CASE ~IsA(tree, k.at, "dir")
    <3>1. j.at = Nowhere /\ j.pending = <<>>
      BY <2>3, <2>7 DEF KernelMoves
    <3> QED BY <3>1, <2>3 DEF Beside, j, v
  <2>8. CASE IsA(tree, k.at, "dir") /\ name = MustBeDir
    <3>1. j.at = k.at /\ j.pending = Tail(k.pending) /\ j.hops = k.hops
      BY <2>3, <2>5, <2>8 DEF KernelMoves
    <3>2. v.resolved = w.resolved /\ v.pending = Tail(w.pending) /\ v.hops = w.hops
          /\ (v.problem <=> w.problem \/ (NeedsDir(tree, w, name) /\ ~IsDir(tree, w.resolved)))
      BY <2>2, <2>8 DEF WalkMoves
    <3>3. ~v.problem
      BY <2>1, <2>4, <2>8, <3>2
    <3> QED BY <3>1, <3>2, <3>3, <2>1, <2>3, <2>5 DEF Beside, j, v
  <2>9. CASE IsA(tree, k.at, "dir") /\ name = Up
    <3>1. j.at = Parent(k.at) /\ j.pending = Tail(k.pending) /\ j.hops = k.hops
      BY <2>3, <2>5, <2>9 DEF KernelMoves
    <3>2. v.resolved = Parent(w.resolved) /\ v.pending = Tail(w.pending) /\ v.hops = w.hops
          /\ (v.problem <=> w.problem \/ ~IsDir(tree, w.resolved))
      BY <2>2, <2>9 DEF WalkMoves
    <3>3. ~v.problem
      BY <2>1, <2>4, <2>9, <3>2
    <3>4. Parent(k.at) \in Location
      BY <2>1, ParentIs
    <3> QED BY <3>1, <3>2, <3>3, <3>4, <2>1, <2>3, <2>5 DEF Beside, j, v
  <2>10. CASE IsA(tree, k.at, "dir") /\ name \in STRING /\ ~IsLink(tree, here)
    <3>1. v.resolved = here /\ v.pending = Tail(w.pending) /\ v.hops = w.hops /\ (v.problem <=> w.problem)
      BY <2>2, <2>10 DEF WalkMoves
    <3>2. CASE here \in DOMAIN tree
      <4>1. j.at = here /\ j.pending = Tail(k.pending) /\ j.hops = k.hops
        BY <2>3, <2>5, <2>10, <3>2 DEF KernelMoves
      <4>2. here \in Location
        BY <2>2, <2>10, ParentIs
      <4> QED BY <3>1, <4>1, <4>2, <2>1, <2>3, <2>5 DEF Beside, j, v
    <3>3. CASE here \notin DOMAIN tree
      <4>1. j.at = Nowhere /\ j.pending = <<>>
        BY <2>3, <2>5, <2>10, <3>3 DEF KernelMoves
      <4> QED BY <4>1, <2>3 DEF Beside, j, v
    <3> QED BY <3>2, <3>3
  <2>11. CASE IsA(tree, k.at, "dir") /\ name \in STRING /\ IsLink(tree, here)
    <3>1. CASE k.hops = KernelHops
      <4>1. j.at = Nowhere /\ j.pending = <<>>
        BY <2>3, <2>5, <2>11, <3>1 DEF KernelMoves
      <4> QED BY <4>1, <2>3 DEF Beside, j, v
    <3>2. CASE k.hops # KernelHops
      <4>1. j.at = (IF tree[here].absolute THEN Root ELSE k.at) /\ j.pending = Parts(tree[here]) \o Tail(k.pending)
            /\ j.hops = k.hops + 1
        BY <2>3, <2>5, <2>11, <3>2 DEF KernelMoves
      <4>2. w.hops # MaxHops
        BY <2>1, <2>6, <3>2
      <4>3. v.hops = w.hops + 1 /\ (v.problem <=> w.problem) /\ v.pending = Parts(tree[here]) \o Tail(w.pending)
            /\ v.resolved = IF tree[here].absolute THEN Root ELSE w.resolved
        BY <2>2, <2>11, <4>2 DEF WalkMoves
      <4>4. j.at \in Location
        BY <4>1, <2>1, RootIs
      <4> HIDE DEF here
      <4> QED BY <4>1, <4>3, <4>4, <2>1, <2>3, <2>5 DEF Beside, j, v
    <3> QED BY <3>1, <3>2
  <2>12. name = MustBeDir \/ name = Up \/ name \in STRING
    BY <2>2 DEF Tokens
  <2> QED BY <2>7, <2>8, <2>9, <2>10, <2>11, <2>12
<1> QED BY <1>1, <1>2

LEMMA TheLookup ==
    ASSUME NEW tree, IsTree(tree), NEW path \in Path
    PROVE  /\ \A n \in 0..MaxSteps : Beside(Looked(tree, path)[n], Walked(tree, path)[n])
           /\ Kernel(tree, path) # Nowhere => \A n \in 0..MaxSteps : Looked(tree, path)[n].at # Nowhere
<1> DEFINE f == Looked(tree, path)
           g == Walked(tree, path)
           P == {n \in 0..MaxSteps : Beside(f[n], g[n])}
<1>1. /\ f[0] = KernelFrom(path)
      /\ \A n \in 0..MaxSteps : n # MaxSteps => f[n + 1] = KernelNext(tree, f[n])
  BY LookupIs
<1>2. /\ g[0] = WalkFrom(path)
      /\ \A n \in 0..MaxSteps : n # MaxSteps => g[n + 1] = WalkNext(tree, g[n])
  BY WalkIs
<1>3. \A n \in 0..MaxSteps : OnItsWay(tree, g[n], n)
  BY TheWalk
<1>4. Kernel(tree, path) = Arrived(f[MaxSteps])
  BY LookupIs DEF Kernel
<1> HIDE DEF f, g
<1>5. MaxSteps \in Nat /\ 0 \in Nat /\ MaxSteps \in 0..MaxSteps /\ \A n \in 0..MaxSteps : n \in Nat /\ n \in 0..MaxSteps /\ (n # MaxSteps => n + 1 \in 0..MaxSteps)
  BY TokensDiffer
<1>6. Beside(f[0], g[0])
  <2>1. f[0].at = Root /\ f[0].pending = path /\ f[0].hops = 0 /\ f[0] \in KernelState
    BY <1>1, TokensDiffer DEF KernelFrom, KernelState
  <2>2. g[0].resolved = Root /\ g[0].pending = path /\ g[0].hops = 0 /\ g[0].problem = FALSE
    BY <1>2 DEF WalkFrom
  <2> QED BY <2>1, <2>2, TokensDiffer DEF Beside
<1>7. \A n \in 0..MaxSteps : n # MaxSteps /\ n \in P => n + 1 \in P
  BY <1>1, <1>2, <1>3, <1>5, StaysBeside
<1>8. \A n \in 0..MaxSteps : n \in P
  <2>1. 0 \in P
    BY <1>5, <1>6
  <2> HIDE DEF P
  <2> QED BY <1>5, <1>7, <2>1, EveryStep, Zenon
<1>9. \A n \in 0..MaxSteps : Beside(f[n], g[n])
  BY <1>8
<1>10. ASSUME NEW n \in 0..MaxSteps, f[n].at = Nowhere PROVE Kernel(tree, path) = Nowhere
  <2> DEFINE Q == {m \in n..MaxSteps : f[m].at = Nowhere}
  <2>1. \A m \in n..MaxSteps : m # MaxSteps /\ m \in Q => m + 1 \in Q
    <3> TAKE m \in n..MaxSteps
    <3> HAVE m # MaxSteps /\ m \in Q
    <3>1. m \in 0..MaxSteps /\ m + 1 \in n..MaxSteps
      BY <1>5
    <3>2. f[m].pending = <<>>
      BY <1>9, <3>1, TokensDiffer DEF Beside
    <3>3. f[m + 1] = f[m]
      BY <1>1, <3>1, <3>2 DEF KernelNext
    <3> QED BY <3>1, <3>3
  <2>2. n \in Q /\ n \in Nat /\ MaxSteps \in n..MaxSteps
    BY <1>5, <1>10
  <2>3. \A m \in n..MaxSteps : m \in Q
    <3> HIDE DEF Q
    <3> QED BY <1>5, <2>1, <2>2, EveryStep, Zenon
  <2>4. f[MaxSteps].at = Nowhere
    BY <2>2, <2>3
  <2> QED BY <1>4, <2>4 DEF Arrived
<1> QED BY <1>9, <1>10 DEF f, g

\* A path that leads somewhere is proved to lead there.
LEMMA LookupAgrees ==
    ASSUME NEW tree, IsTree(tree), NEW path \in Path
    PROVE  /\ Kernel(tree, path) \in Location \union {Nowhere}
           /\ Kernel(tree, path) # Nowhere =>
                 /\ LookupTarget(tree, path) = Kernel(tree, path) /\ Resolve(tree, path) = Kernel(tree, path)
                 /\ \A n \in 0..MaxSteps :
                        LET k == Looked(tree, path)[n]
                            w == Walked(tree, path)[n]
                        IN  k \in KernelState /\ k.at \in Location /\ k.at = w.resolved /\ k.pending = w.pending
                 /\ Walk(tree, path).pending = <<>> /\ KernelRun(tree, path).pending = <<>>
<1> DEFINE k == Looked(tree, path)
           w == Walked(tree, path)
<1>1. KernelRun(tree, path) = k[MaxSteps] /\ Walk(tree, path) = w[MaxSteps] /\ MaxSteps \in 0..MaxSteps
  BY LookupIs, WalkIs, TokensDiffer
<1>2. /\ \A n \in 0..MaxSteps : Beside(k[n], w[n])
      /\ Kernel(tree, path) # Nowhere => \A n \in 0..MaxSteps : k[n].at # Nowhere
  BY TheLookup
<1> HIDE DEF k, w
<1>3. Kernel(tree, path) = IF k[MaxSteps].pending = <<>> THEN k[MaxSteps].at ELSE Nowhere
  BY <1>1 DEF Kernel, Arrived
<1>4. k[MaxSteps].at \in Location \union {Nowhere}
  BY <1>1, <1>2 DEF Beside, KernelState
<1>5. ASSUME Kernel(tree, path) # Nowhere
      PROVE  /\ LookupTarget(tree, path) = Kernel(tree, path) /\ Resolve(tree, path) = Kernel(tree, path)
             /\ \A n \in 0..MaxSteps : k[n] \in KernelState /\ k[n].at \in Location /\ k[n].at = w[n].resolved /\ k[n].pending = w[n].pending
             /\ Walk(tree, path).pending = <<>> /\ KernelRun(tree, path).pending = <<>>
  <2>1. \A n \in 0..MaxSteps : k[n] \in KernelState /\ k[n].at \in Location /\ k[n].at = w[n].resolved /\ k[n].pending = w[n].pending /\ ~w[n].problem
    BY <1>2, <1>5 DEF Beside
  <2>2. k[MaxSteps].pending = <<>> /\ Kernel(tree, path) = k[MaxSteps].at
    BY <1>3, <1>5
  <2> QED BY <2>1, <2>2, <1>1 DEF LookupTarget, Proven, Resolve
<1> QED BY <1>3, <1>4, <1>5 DEF k, w

-----------------------------------------------------------------------------
(* What is not there yet *)

LEMMA AncestorIs ==
    ASSUME NEW a \in Location, NEW b \in Location, IsPrefix(a, b)
    PROVE  (a = b \/ a \in Ancestors(b)) /\ (Len(a) < Len(b) => a \in Ancestors(b))
<1>1. Len(a) \in Nat /\ Len(b) \in Nat /\ Len(a) <= Len(b) /\ \A i \in 1..Len(a) : a[i] = b[i]
  BY PrefixIs, RootIs
<1>2. CASE Len(a) = Len(b)
  <2>1. a = b
    BY <1>1, <1>2, SameLocation
  <2> QED BY <2>1, <1>1, <1>2
<1>3. CASE Len(a) < Len(b)
  <2> DEFINE p == SubSeq(b, 1, Len(a))
  <2>1. Len(a) \in 0..Len(b) - 1 /\ Len(a) \in 0..Len(b)
    BY <1>1, <1>3
  <2>2. p \in Location /\ Len(p) = Len(a) /\ \A i \in 1..Len(a) : p[i] = b[i]
    BY <2>1, ParentIs
  <2>3. p \in Ancestors(b)
    BY <2>1 DEF Ancestors
  <2> HIDE DEF p
  <2>4. a = p
    BY <1>1, <2>2, SameLocation
  <2> QED BY <2>3, <2>4
<1> QED BY <1>1, <1>2, <1>3

\* A name that is still to come.
NameLeft(pending) == \E i \in 1..Len(pending) : pending[i] # MustBeDir

\* From where there is no directory the walk only goes on by names.
LEMMA Deeper ==
    ASSUME NEW tree, IsTree(tree), NEW n \in 0..MaxSteps, NEW w, OnItsWay(tree, w, n), w.pending # <<>>,
           ~IsA(tree, w.resolved, "dir"), NEW v, v = WalkNext(tree, w), ~v.problem
    PROVE  LET name == Head(w.pending)
               current == Append(w.resolved, name)
           IN  /\ NameLeft(w.pending) /\ ~IsA(tree, v.resolved, "dir") /\ v.pending = Tail(w.pending)
               /\ \/ name = MustBeDir /\ v.resolved = w.resolved /\ NameLeft(v.pending)
                  \/ name \in STRING /\ v.resolved = current /\ current \in Location
<1> DEFINE name == Head(w.pending)
           current == Append(w.resolved, name)
<1>1. n \in Nat /\ n <= MaxSteps /\ MaxSteps \in Nat
  BY TokensDiffer
<1>2. w.resolved \in Location /\ WalkMoves(tree, w, v) /\ name \in Tokens
  BY <1>1, OneStepOn
<1>3. w.pending \in Seq(Tokens)
  BY DEF OnItsWay, WalkState
<1>4. ~IsDir(tree, w.resolved)
  <2>1. Clear(tree, w.resolved) /\ Len(w.resolved) <= n /\ Len(w.resolved) \in Nat
    BY <1>2, TokensDiffer, RootIs DEF OnItsWay
  <2>2. Len(w.resolved) <= MaxSteps
    BY <1>1, <2>1
  <2> QED BY <2>1, <2>2, <1>2, Straight
<1>5. /\ Head(w.pending) = w.pending[1] /\ Len(w.pending) \in Nat /\ Len(w.pending) >= 1
      /\ Len(Tail(w.pending)) = Len(w.pending) - 1
      /\ \A i \in 1..Len(w.pending) - 1 : Tail(w.pending)[i] = w.pending[i + 1]
  BY <1>3, HeadTailAre
<1>6. CASE name = MustBeDir
  <2>1. v.resolved = w.resolved /\ v.pending = Tail(w.pending)
        /\ (v.problem <=> w.problem \/ (NeedsDir(tree, w, name) /\ ~IsDir(tree, w.resolved)))
    BY <1>2, <1>6 DEF WalkMoves
  <2>2. ~NeedsDir(tree, w, name)
    BY <2>1, <1>4
  <2>3. PICK i \in 2..Len(w.pending) : w.pending[i] # MustBeDir
    BY <2>2, <1>6 DEF NeedsDir
  <2>4. i \in 1..Len(w.pending) /\ i - 1 \in 1..Len(w.pending) - 1 /\ i - 1 + 1 = i
    BY <1>5, <2>3
  <2>5. NameLeft(w.pending) /\ NameLeft(Tail(w.pending))
    BY <2>3, <2>4, <1>5 DEF NameLeft
  <2> QED BY <2>1, <2>5, <1>6
<1>7. CASE name = Up
  <2>1. v.problem <=> w.problem \/ ~IsDir(tree, w.resolved)
    BY <1>2, <1>7 DEF WalkMoves
  <2> QED BY <2>1, <1>4
<1>8. CASE name \in STRING
  <2>1. current \in Location /\ current # Root /\ Parent(current) = w.resolved
    BY <1>2, <1>8, ParentIs
  <2>2. ~IsLink(tree, current)
    BY <2>1, LinkIs
  <2>3. v.resolved = current /\ v.pending = Tail(w.pending)
    BY <1>2, <1>8, <2>2 DEF WalkMoves
  <2>4. NameLeft(w.pending)
    <3>1. 1 \in 1..Len(w.pending) /\ w.pending[1] # MustBeDir
      BY <1>5, <1>8, TokensDiffer
    <3> QED BY <3>1 DEF NameLeft
  <2>5. ~IsA(tree, current, "dir")
    <3> HIDE DEF current
    <3> QED BY <2>1 DEF IsTree, IsA
  <2> QED BY <2>1, <2>3, <2>4, <2>5, <1>8
<1> QED BY <1>2, <1>6, <1>7, <1>8 DEF Tokens

\* And never comes back.
LEMMA NoReturn ==
    ASSUME NEW tree, IsTree(tree), NEW path \in Path, ~Walk(tree, path).problem, NEW m \in 0..MaxSteps,
           Walked(tree, path)[m].resolved \in Location, ~IsA(tree, Walked(tree, path)[m].resolved, "dir")
    PROVE  LET from == Walked(tree, path)[m]
               end == Walk(tree, path)
           IN  /\ end.resolved \in Location /\ IsPrefix(from.resolved, end.resolved)
               /\ end.pending = <<>> /\ NameLeft(from.pending) => Len(from.resolved) < Len(end.resolved)
<1> DEFINE f == Walked(tree, path)
           from == f[m].resolved
           P == {n \in m..MaxSteps : /\ f[n].resolved \in Location /\ IsPrefix(from, f[n].resolved)
                                     /\ ~IsA(tree, f[n].resolved, "dir")
                                     /\ NameLeft(f[m].pending) => NameLeft(f[n].pending) \/ Len(from) < Len(f[n].resolved)}
<1>1. /\ Walk(tree, path) = f[MaxSteps]
      /\ \A n \in 0..MaxSteps : n # MaxSteps => f[n + 1] = WalkNext(tree, f[n])
  BY WalkIs
<1>2. \A n \in 0..MaxSteps : OnItsWay(tree, f[n], n) /\ LeadsOn(f[n], f[MaxSteps])
  BY TheWalk
<1> HIDE DEF f
<1>3. /\ MaxSteps \in Nat /\ m \in Nat /\ MaxSteps \in m..MaxSteps /\ m \in m..MaxSteps
      /\ \A n \in m..MaxSteps : n \in Nat /\ n \in 0..MaxSteps /\ (n # MaxSteps => n + 1 \in m..MaxSteps /\ n + 1 \in 0..MaxSteps)
  BY TokensDiffer
<1>4. \A n \in 0..MaxSteps : ~f[n].problem
  BY <1>1, <1>2 DEF LeadsOn
<1>5. from \in Location /\ ~IsA(tree, from, "dir") /\ Len(from) \in Nat
  BY RootIs DEF f
<1>6. m \in P
  <2>1. IsPrefix(from, from)
    BY <1>5, PrefixIs
  <2> QED BY <1>3, <1>5, <2>1
<1>7. ASSUME NEW n \in m..MaxSteps, n # MaxSteps, n \in P PROVE n + 1 \in P
  <2> DEFINE w == f[n]
             v == f[n + 1]
             name == Head(w.pending)
             current == Append(w.resolved, name)
  <2>1. /\ n \in 0..MaxSteps /\ n + 1 \in m..MaxSteps /\ OnItsWay(tree, w, n) /\ v = WalkNext(tree, w) /\ ~v.problem
    BY <1>1, <1>2, <1>3, <1>4, <1>7
  <2>2. /\ w.resolved \in Location /\ IsPrefix(from, w.resolved) /\ ~IsA(tree, w.resolved, "dir")
        /\ NameLeft(f[m].pending) => NameLeft(w.pending) \/ Len(from) < Len(w.resolved)
    BY <1>7
  <2> HIDE DEF w, v
  <2>3. CASE w.pending = <<>>
    <3>1. v = w
      BY <2>1, <2>3 DEF WalkNext
    <3> QED BY <3>1, <2>1, <2>2 DEF w, v
  <2>4. CASE w.pending # <<>>
    <3>1. /\ ~IsA(tree, v.resolved, "dir")
          /\ \/ name = MustBeDir /\ v.resolved = w.resolved /\ NameLeft(v.pending)
             \/ name \in STRING /\ v.resolved = current /\ current \in Location
      BY <2>1, <2>2, <2>4, Deeper
    <3>2. CASE name = MustBeDir /\ v.resolved = w.resolved /\ NameLeft(v.pending)
      BY <3>1, <3>2, <2>1, <2>2 DEF w, v
    <3>3. CASE name \in STRING /\ v.resolved = current /\ current \in Location
      <4>1. Len(current) = Len(w.resolved) + 1 /\ Parent(current) = w.resolved /\ Len(w.resolved) \in Nat /\ current # Root
        BY <2>2, <3>3, ParentIs, RootIs
      <4>2. Len(from) <= Len(w.resolved)
        BY <2>2, <1>5, PrefixIs
      <4>3. IsPrefix(w.resolved, current)
        <5> HIDE DEF current
        <5>1. IsPrefix(current, current)
          BY <3>3, PrefixIs, RootIs
        <5> QED BY <5>1, <4>1, <3>3, PrefixesAre
      <4>4. IsPrefix(from, current)
        <5> HIDE DEF current
        <5> QED BY <4>3, <2>2, <3>3, <1>5, PrefixesAre
      <4>5. Len(from) < Len(current)
        BY <4>1, <4>2, <1>5
      <4> HIDE DEF current
      <4> QED BY <3>1, <3>3, <4>4, <4>5, <2>1 DEF v
    <3> QED BY <3>1, <3>2, <3>3
  <2> QED BY <2>3, <2>4
<1>8. MaxSteps \in P
  <2> HIDE DEF P
  <2>1. \A n \in m..MaxSteps : n # MaxSteps /\ n \in P => n + 1 \in P
    BY <1>7
  <2>2. \A n \in m..MaxSteps : n \in P
    BY <1>3, <1>6, <2>1, EveryStep, Zenon
  <2> QED BY <2>2, <1>3
<1>9. ~NameLeft(<<>>)
  BY DEF NameLeft
<1> QED BY <1>1, <1>8, <1>9 DEF f

\* A tree with a file at t, and the directories it takes.
Grown(tree, t) == Over(WithDirs(tree, Ancestors(t) \ {Root}), [l \in {t} |-> WrittenTo(<<>>, TRUE)])

LEMMA GrownIs ==
    ASSUME NEW tree, NEW t \in Location, t # Root, ~IsLink(tree, t), t \notin Ancestors(t),
           \A d \in Ancestors(t) : d \in DOMAIN tree => IsA(tree, d, "dir")
    PROVE  LET g == Grown(tree, t)
           IN  /\ \A l \in DOMAIN tree : l \in DOMAIN g /\ g[l] = tree[l]
               /\ t \in DOMAIN g /\ \A l \in Ancestors(t) : IsA(g, l, "dir") /\ (l # Root => l \in DOMAIN g)
               /\ \A l : (IsLink(g, l) <=> IsLink(tree, l)) /\ (IsA(tree, l, "dir") => IsA(g, l, "dir"))
<1> DEFINE ls == Ancestors(t) \ {Root}
           new == [l \in ls \ DOMAIN tree |-> Directory]
           top == Over(new, tree)
           file == [l \in {t} |-> WrittenTo(<<>>, TRUE)]
           g == Over(top, file)
<1>1. Grown(tree, t) = g
  BY DEF Grown, WithDirs
<1>2. /\ DOMAIN top = (ls \ DOMAIN tree) \union DOMAIN tree
      /\ \A l \in DOMAIN tree : top[l] = tree[l]
      /\ \A l \in ls \ DOMAIN tree : top[l] = Directory
  BY DEF Over
<1>3. /\ DOMAIN g = DOMAIN top \union {t} /\ \A l \in DOMAIN top : g[l] = top[l]
      /\ t \notin DOMAIN top => g[t] = WrittenTo(<<>>, TRUE)
  <2> HIDE DEF top
  <2> QED BY DEF Over
<1>4. Directory.kind = "dir" /\ WrittenTo(<<>>, TRUE).kind = "file"
  BY DEF Directory, WrittenTo
<1> HIDE DEF g, top, ls
<1>5. \A l \in DOMAIN tree : l \in DOMAIN g /\ g[l] = tree[l]
  BY <1>2, <1>3
<1>6. \A l \in DOMAIN g : l \in DOMAIN tree \/ (l \in ls /\ g[l] = Directory) \/ (l = t /\ g[l] = WrittenTo(<<>>, TRUE))
  BY <1>2, <1>3
<1>7. t \in DOMAIN g
  BY <1>3
<1>8. ASSUME NEW l \in Ancestors(t) PROVE IsA(g, l, "dir") /\ (l # Root => l \in DOMAIN g)
  <2>1. CASE l = Root
    BY <2>1 DEF IsA
  <2>2. CASE l # Root /\ l \in DOMAIN tree
    BY <2>2, <1>5 DEF IsA
  <2>3. CASE l # Root /\ l \notin DOMAIN tree
    <3>1. l \in ls \ DOMAIN tree
      BY <2>3 DEF ls
    <3>2. l \in DOMAIN g /\ g[l] = Directory
      BY <3>1, <1>2, <1>3
    <3> QED BY <3>2, <2>3, <1>4 DEF IsA
  <2> QED BY <2>1, <2>2, <2>3
<1>9. ASSUME NEW l PROVE (IsLink(g, l) <=> IsLink(tree, l)) /\ (IsA(tree, l, "dir") => IsA(g, l, "dir"))
  <2>1. CASE l = Root
    BY <2>1 DEF IsA, IsLink
  <2>2. CASE l # Root /\ l \in DOMAIN tree
    BY <2>2, <1>5 DEF IsA, IsLink
  <2>3. CASE l # Root /\ l \notin DOMAIN tree
    BY <2>3, <1>4, <1>6 DEF IsA, IsLink
  <2> QED BY <2>1, <2>2, <2>3
<1> QED BY <1>1, <1>5, <1>7, <1>8, <1>9

\* What g has that the tree has not is off every link and on the way to t.
Reaches(tree, g, t) ==
    /\ \A l \in DOMAIN tree : l \in DOMAIN g /\ (IsLink(tree, l) => g[l] = tree[l])
    /\ t \in DOMAIN g /\ \A l \in Ancestors(t) : IsA(g, l, "dir") /\ (l # Root => l \in DOMAIN g)
    /\ \A l : (IsLink(g, l) <=> IsLink(tree, l)) /\ (IsA(tree, l, "dir") => IsA(g, l, "dir"))

\* Once the directories and the file are there, the system goes where the walk went.
LEMMA LeadsOnTo ==
    ASSUME NEW tree, IsTree(tree), NEW path \in Path, NEW t, t = LookupTarget(tree, path), t # Nowhere,
           ~IsA(tree, t, "dir"), Walk(tree, path).hops <= KernelHops, NEW g, Reaches(tree, g, t)
    PROVE  Kernel(g, path) = t
<1> DEFINE f == Walked(tree, path)
           end == Walk(tree, path)
           h == Looked(g, path)
           with(n) == /\ h[n] \in KernelState /\ h[n].at = f[n].resolved /\ h[n].pending = f[n].pending /\ h[n].hops = f[n].hops
           P == {n \in 0..MaxSteps : with(n)}
<1>1. /\ end = f[MaxSteps] /\ f[0] = WalkFrom(path)
      /\ \A n \in 0..MaxSteps : n # MaxSteps => f[n + 1] = WalkNext(tree, f[n])
  BY WalkIs
<1>2. \A n \in 0..MaxSteps : OnItsWay(tree, f[n], n) /\ LeadsOn(f[n], f[MaxSteps])
  BY TheWalk
<1>3. /\ KernelRun(g, path) = h[MaxSteps] /\ h[0] = KernelFrom(path)
      /\ \A n \in 0..MaxSteps : n # MaxSteps => h[n + 1] = KernelNext(g, h[n])
  BY LookupIs
<1>4. ~end.problem /\ end.pending = <<>> /\ end.resolved = t
  BY DEF LookupTarget, Proven
<1> HIDE DEF f, h
<1>5. /\ MaxSteps \in Nat /\ MaxSteps \in 0..MaxSteps /\ 0 \in 0..MaxSteps
      /\ \A n \in 0..MaxSteps : n \in Nat /\ n \in 0..MaxSteps /\ (n # MaxSteps => n + 1 \in 0..MaxSteps)
  BY TokensDiffer
<1>6. \A n \in 0..MaxSteps : ~f[n].problem /\ f[n].hops <= KernelHops /\ f[n].hops \in Nat /\ f[n].resolved \in Location
  <2> TAKE n \in 0..MaxSteps
  <2>1. f[n] \in WalkState /\ f[MaxSteps] \in WalkState /\ LeadsOn(f[n], f[MaxSteps]) /\ (f[n].resolved = Nowhere => f[n].problem)
    BY <1>2, <1>5 DEF OnItsWay
  <2>2. ~f[n].problem /\ f[n].hops <= f[MaxSteps].hops /\ f[MaxSteps].hops <= KernelHops
    BY <2>1, <1>1, <1>4 DEF LeadsOn
  <2>3. f[n].hops \in Nat /\ f[MaxSteps].hops \in Nat /\ f[n].resolved \in Location \union {Nowhere} /\ KernelHops \in Nat
    BY <2>1, TokensDiffer DEF WalkState
  <2> QED BY <2>1, <2>2, <2>3
<1>7. t \in Location /\ Clear(tree, t) /\ ~IsLink(tree, t) /\ t # Root
  <2>1. t \in Location
    BY <1>1, <1>4, <1>5, <1>6
  <2>2. Clear(tree, t)
    BY <1>1, <1>2, <1>4, <1>5 DEF OnItsWay
  <2> QED BY <2>1, <2>2, ClearIs DEF IsA
<1>9. /\ \A l \in DOMAIN tree : l \in DOMAIN g /\ (IsLink(tree, l) => g[l] = tree[l])
      /\ t \in DOMAIN g /\ \A l \in Ancestors(t) : IsA(g, l, "dir") /\ (l # Root => l \in DOMAIN g)
      /\ \A l : (IsLink(g, l) <=> IsLink(tree, l)) /\ (IsA(tree, l, "dir") => IsA(g, l, "dir"))
  BY DEF Reaches
<1>10. 0 \in P
  <2>1. f[0].resolved = Root /\ f[0].pending = path /\ f[0].hops = 0
    BY <1>1 DEF WalkFrom
  <2>2. h[0].at = Root /\ h[0].pending = path /\ h[0].hops = 0 /\ h[0] \in KernelState
    BY <1>3, TokensDiffer DEF KernelFrom, KernelState
  <2> QED BY <2>1, <2>2, <1>5
<1>11. ASSUME NEW n \in 0..MaxSteps, n # MaxSteps, n \in P PROVE n + 1 \in P
  <2> DEFINE w == f[n]
             v == f[n + 1]
             k == h[n]
             j == h[n + 1]
             name == Head(w.pending)
             here == Append(w.resolved, name)
  <2>1. /\ n \in Nat /\ n + 1 \in 0..MaxSteps /\ OnItsWay(tree, w, n) /\ v = WalkNext(tree, w) /\ j = KernelNext(g, k)
        /\ k \in KernelState /\ k.at = w.resolved /\ k.pending = w.pending /\ k.hops = w.hops
    BY <1>1, <1>2, <1>3, <1>5, <1>11
  <2>2. /\ ~w.problem /\ ~v.problem /\ v.hops <= KernelHops /\ v.hops \in Nat /\ w.hops \in Nat /\ w.resolved \in Location /\ v.resolved \in Location
    BY <1>5, <1>6, <1>11
  <2>3. CASE w.pending = <<>>
    <3>1. v = w /\ j = k
      BY <2>1, <2>3 DEF WalkNext, KernelNext
    <3> HIDE DEF w, v, k, j
    <3>2. j \in KernelState /\ j.at = v.resolved /\ j.pending = v.pending /\ j.hops = v.hops
      BY <3>1, <2>1
    <3> QED BY <3>2, <2>1 DEF j, v
  <2>4. CASE w.pending # <<>>
    <3>1. WalkMoves(tree, w, v) /\ name \in Tokens
      <4> HIDE DEF w, v
      <4> QED BY <2>1, <2>4, OneStepOn
    <3>2. ASSUME ~IsA(tree, w.resolved, "dir") PROVE w.resolved \in Ancestors(t)
      <4>1. NameLeft(w.pending)
        <5> HIDE DEF w, v
        <5> QED BY <1>5, <1>11, <2>1, <2>2, <2>4, <3>2, Deeper
      <4>2. IsPrefix(w.resolved, t) /\ Len(w.resolved) < Len(t)
        BY <1>4, <1>11, <2>2, <3>2, <4>1, NoReturn DEF f
      <4> QED BY <4>2, <2>2, <1>7, AncestorIs
    <3>3. IsA(g, k.at, "dir")
      BY <3>2, <2>1, <1>9
    <3>4. ASSUME name \in STRING, ~IsLink(tree, here) PROVE here \in DOMAIN g
      <4>1. CASE here \in DOMAIN tree
        BY <4>1, <1>9
      <4>2. CASE here \notin DOMAIN tree
        <5>1. v.resolved = here
          BY <3>1, <3>4 DEF WalkMoves
        <5>2. here \in Location /\ here # Root
          BY <2>2, <3>4, ParentIs
        <5>3. ~IsA(tree, v.resolved, "dir")
          <6> HIDE DEF here
          <6> QED BY <4>2, <5>1, <5>2 DEF IsA
        <5>4. IsPrefix(v.resolved, t)
          BY <1>4, <2>1, <2>2, <5>3, NoReturn DEF f
        <5>5. v.resolved = t \/ v.resolved \in Ancestors(t)
          BY <5>4, <2>2, <1>7, AncestorIs
        <5> HIDE DEF here
        <5> QED BY <5>1, <5>2, <5>5, <1>9
      <4> QED BY <4>1, <4>2
    <3>5. IsLink(tree, here) /\ here \in Location => IsLink(g, here) /\ g[here] = tree[here] /\ Parts(g[here]) \in Seq(Tokens)
      <4> HIDE DEF here
      <4>1. ASSUME IsLink(tree, here), here \in Location PROVE here \in DOMAIN tree /\ Parts(tree[here]) \in Seq(Tokens)
        BY <4>1, LinkIs
      <4> QED BY <4>1, <1>9
    <3>6. name \in STRING => here \in Location
      BY <2>2, ParentIs
    <3>7. Head(k.pending) = name /\ Tail(k.pending) = Tail(w.pending) /\ Append(k.at, Head(k.pending)) = here
      BY <2>1
    <3> HIDE DEF w, v, k, j, here
    <3>8. j \in KernelState /\ KernelMoves(g, k, j)
      <4>1. j = KernelStep(g, k)
        BY <2>1, <2>4 DEF KernelNext
      <4>2. \A x \in Location : x = Append(k.at, Head(k.pending)) /\ IsLink(g, x) => Parts(g[x]) \in Seq(Tokens)
        BY <3>5, <3>7, <1>9
      <4> QED BY <4>1, <4>2, <2>1, <2>2, <2>4, KernelStepIs
    <3>9. CASE name = MustBeDir
      <4>1. j.at = k.at /\ j.pending = Tail(k.pending) /\ j.hops = k.hops
        BY <3>3, <3>7, <3>8, <3>9 DEF KernelMoves
      <4>2. v.resolved = w.resolved /\ v.pending = Tail(w.pending) /\ v.hops = w.hops
        BY <3>1, <3>9 DEF WalkMoves
      <4> QED BY <4>1, <4>2, <3>7, <3>8, <2>1 DEF j, v
    <3>10. CASE name = Up
      <4>1. j.at = Parent(k.at) /\ j.pending = Tail(k.pending) /\ j.hops = k.hops
        BY <3>3, <3>7, <3>8, <3>10 DEF KernelMoves
      <4>2. v.resolved = Parent(w.resolved) /\ v.pending = Tail(w.pending) /\ v.hops = w.hops
        BY <3>1, <3>10 DEF WalkMoves
      <4> QED BY <4>1, <4>2, <3>7, <3>8, <2>1 DEF j, v
    <3>11. CASE name \in STRING /\ ~IsLink(tree, here)
      <4>1. j.at = here /\ j.pending = Tail(k.pending) /\ j.hops = k.hops
        <5>1. ~IsLink(g, here) /\ here \in DOMAIN g
          BY <3>4, <3>11, <1>9
        <5> QED BY <5>1, <3>3, <3>7, <3>8, <3>11 DEF KernelMoves
      <4>2. v.resolved = here /\ v.pending = Tail(w.pending) /\ v.hops = w.hops
        BY <3>1, <3>11 DEF WalkMoves, here
      <4> QED BY <4>1, <4>2, <3>7, <3>8, <2>1 DEF j, v
    <3>12. CASE name \in STRING /\ IsLink(tree, here)
      <4>1. w.hops # MaxHops
        <5>1. w.hops = MaxHops => v.problem
          BY <3>1, <3>12 DEF WalkMoves, here
        <5> QED BY <5>1, <2>2
      <4>2. v.hops = w.hops + 1 /\ v.pending = Parts(tree[here]) \o Tail(w.pending)
            /\ v.resolved = IF tree[here].absolute THEN Root ELSE w.resolved
        BY <3>1, <3>12, <4>1 DEF WalkMoves, here
      <4>3. k.hops # KernelHops
        BY <4>2, <2>1, <2>2, TokensDiffer
      <4>4. IsLink(g, here) /\ g[here] = tree[here]
        BY <3>5, <3>6, <3>12
      <4>5. j.at = (IF tree[here].absolute THEN Root ELSE k.at) /\ j.pending = Parts(tree[here]) \o Tail(k.pending)
            /\ j.hops = k.hops + 1
        BY <3>3, <3>7, <3>8, <3>12, <4>3, <4>4 DEF KernelMoves
      <4> QED BY <4>2, <4>5, <3>7, <3>8, <2>1 DEF j, v
    <3> QED BY <3>1, <3>9, <3>10, <3>11, <3>12 DEF Tokens
  <2> QED BY <2>3, <2>4
<1>12. MaxSteps \in P
  <2> HIDE DEF P
  <2>1. \A n \in 0..MaxSteps : n # MaxSteps /\ n \in P => n + 1 \in P
    BY <1>11
  <2>2. 0 \in Nat
    OBVIOUS
  <2>3. \A n \in 0..MaxSteps : n \in P
    BY <1>5, <1>10, <2>1, <2>2, EveryStep, Zenon
  <2> QED BY <2>3, <1>5
<1>13. h[MaxSteps].pending = <<>> /\ h[MaxSteps].at = t
  BY <1>12, <1>1, <1>4
<1> QED BY <1>3, <1>13 DEF Kernel, Arrived

\* Where a walk ends there is no link, nor on the way there.
LEMMA EndsClear ==
    ASSUME NEW tree, IsTree(tree), NEW path \in Path, NEW t, t = LookupTarget(tree, path), t # Nowhere
    PROVE  /\ t \in Location /\ Clear(tree, t) /\ ~IsLink(tree, t) /\ t \notin Ancestors(t) /\ Len(t) <= MaxSteps
           /\ ~Walk(tree, path).problem /\ Walk(tree, path).pending = <<>> /\ Walk(tree, path).resolved = t
<1> DEFINE f == Walked(tree, path)
           end == Walk(tree, path)
<1>1. end = f[MaxSteps]
  BY WalkIs
<1>2. MaxSteps \in 0..MaxSteps
  BY TokensDiffer
<1>3. OnItsWay(tree, f[MaxSteps], MaxSteps)
  BY <1>2, TheWalk
<1> HIDE DEF f
<1>4. ~end.problem /\ end.pending = <<>> /\ end.resolved = t
  BY DEF LookupTarget, Proven
<1>5. t \in Location /\ Clear(tree, t) /\ Len(t) <= MaxSteps
  BY <1>1, <1>3, <1>4 DEF OnItsWay, WalkState
<1>6. ~IsLink(tree, t)
  BY <1>5, ClearIs
<1>7. t \notin Ancestors(t)
  <2> SUFFICES ASSUME NEW n \in 0..Len(t) - 1, t = SubSeq(t, 1, n) PROVE FALSE
    BY DEF Ancestors
  <2>1. Len(t) \in Nat
    BY <1>5, RootIs
  <2>2. n \in 0..Len(t) /\ n # Len(t)
    BY <2>1
  <2>3. Len(SubSeq(t, 1, n)) = n
    BY <1>5, <2>2, ParentIs
  <2> QED BY <2>2, <2>3
<1> QED BY <1>4, <1>5, <1>6, <1>7

LEMMA LeadsThere ==
    ASSUME NEW tree, IsTree(tree), NEW path \in Path, NEW t, t = LookupTarget(tree, path), t # Nowhere,
           ~IsA(tree, t, "dir"), Walk(tree, path).hops <= KernelHops,
           \A d \in Ancestors(t) : d \in DOMAIN tree => IsA(tree, d, "dir")
    PROVE  Kernel(Grown(tree, t), path) = t
<1>1. t \in Location /\ ~IsLink(tree, t) /\ t \notin Ancestors(t) /\ t # Root
  BY EndsClear DEF IsA
<1>2. Reaches(tree, Grown(tree, t), t)
  BY <1>1, GrownIs DEF Reaches
<1> QED BY <1>2, LeadsOnTo

-----------------------------------------------------------------------------
(* What a reset leaves *)

\* A path leads where it did if everything on its way is as it was.
LEMMA SameWay ==
    ASSUME NEW tree, IsTree(tree), NEW path \in Path, Kernel(tree, path) # Nowhere, NEW g,
           \A v \in ResolutionChain(tree, path), l \in Location :
               IsPrefix(l, v) /\ l \in DOMAIN tree =>
                   l \in DOMAIN g /\ g[l].kind = tree[l].kind /\ (IsLink(tree, l) => g[l] = tree[l])
    PROVE  Kernel(g, path) = Kernel(tree, path)
<1> DEFINE f == Walked(tree, path)
           k == Looked(tree, path)
           h == Looked(g, path)
           chain == ResolutionChain(tree, path)
           P == {n \in 0..MaxSteps : h[n] = k[n]}
<1>1. /\ chain = f[MaxSteps].visited
      /\ \A n \in 0..MaxSteps : n # MaxSteps => f[n + 1] = WalkNext(tree, f[n])
  BY WalkIs DEF ResolutionChain
<1>2. \A n \in 0..MaxSteps : OnItsWay(tree, f[n], n) /\ LeadsOn(f[n], f[MaxSteps])
  BY TheWalk
<1>3. /\ KernelRun(g, path) = h[MaxSteps] /\ h[0] = KernelFrom(path)
      /\ \A n \in 0..MaxSteps : n # MaxSteps => h[n + 1] = KernelNext(g, h[n])
  BY LookupIs
<1>4. /\ KernelRun(tree, path) = k[MaxSteps] /\ k[0] = KernelFrom(path)
      /\ \A n \in 0..MaxSteps : n # MaxSteps => k[n + 1] = KernelNext(tree, k[n])
  BY LookupIs
<1>5. \A n \in 0..MaxSteps : k[n] \in KernelState /\ k[n].at \in Location /\ k[n].at = f[n].resolved /\ k[n].pending = f[n].pending
  BY LookupAgrees
<1> HIDE DEF f, k, h
<1>6. /\ MaxSteps \in Nat /\ MaxSteps \in 0..MaxSteps /\ 0 \in 0..MaxSteps /\ 0 \in Nat
      /\ \A n \in 0..MaxSteps : n \in Nat /\ n \in 0..MaxSteps /\ (n # MaxSteps => n + 1 \in 0..MaxSteps)
  BY TokensDiffer
<1>7. chain \subseteq Location
  BY <1>1, <1>2, <1>6 DEF OnItsWay, WalkState
<1>8. ASSUME NEW v \in chain, NEW l \in Location, IsPrefix(l, v)
      PROVE  /\ IsA(tree, l, "dir") => IsA(g, l, "dir")
             /\ l # Root /\ l \in DOMAIN tree => l \in DOMAIN g /\ (IsLink(g, l) <=> IsLink(tree, l)) /\ (IsLink(tree, l) => g[l] = tree[l])
  BY <1>8 DEF IsA, IsLink
<1> HIDE DEF chain
<1>9. 0 \in P
  BY <1>3, <1>4, <1>6
<1>10. ASSUME NEW n \in 0..MaxSteps, n # MaxSteps, n \in P PROVE n + 1 \in P
  <2> DEFINE w == f[n]
             v == f[n + 1]
             s == k[n]
             j == k[n + 1]
             name == Head(s.pending)
             here == Append(s.at, name)
  <2>1. /\ n \in Nat /\ n + 1 \in 0..MaxSteps /\ OnItsWay(tree, w, n) /\ v = WalkNext(tree, w)
        /\ j = KernelNext(tree, s) /\ h[n + 1] = KernelNext(g, s) /\ LeadsOn(v, f[MaxSteps]) /\ LeadsOn(w, f[MaxSteps])
    BY <1>1, <1>2, <1>3, <1>4, <1>6, <1>10
  <2>2. s \in KernelState /\ s.at \in Location /\ s.at = w.resolved /\ s.pending = w.pending /\ j.at # Nowhere
    BY <1>5, <1>6, <1>10, TokensDiffer
  <2> HIDE DEF w, v, s, j
  <2>3. CASE s.pending = <<>>
    <3>1. h[n + 1] = j
      BY <2>1, <2>3 DEF KernelNext
    <3> QED BY <3>1, <2>1 DEF j
  <2>4. CASE s.pending # <<>>
    <3>1. j = KernelStep(tree, s) /\ h[n + 1] = KernelStep(g, s)
      BY <2>1, <2>4 DEF KernelNext
    <3>2. KernelMoves(tree, s, j)
      <4>1. \A x \in Location : x = Append(s.at, Head(s.pending)) /\ IsLink(tree, x) => Parts(tree[x]) \in Seq(Tokens)
        BY LinkIs
      <4> QED BY <4>1, <3>1, <2>2, <2>4, KernelStepIs
    <3>3. WalkMoves(tree, w, v) /\ name \in Tokens
      BY <2>1, <2>2, <2>4, OneStepOn
    <3>4. IsA(tree, s.at, "dir")
      BY <3>2, <2>2 DEF KernelMoves
    <3>5. IsA(g, s.at, "dir")
      <4>1. CASE s.at = Root
        BY <4>1 DEF IsA
      <4>2. CASE s.at # Root
        <5>1. PICK x \in w.visited : IsPrefix(s.at, x)
          BY <4>2, <2>1, <2>2, TokensDiffer DEF OnItsWay
        <5>2. x \in chain
          BY <5>1, <2>1, <1>1 DEF LeadsOn
        <5> QED BY <5>1, <5>2, <2>2, <3>4, <1>8
      <4> QED BY <4>1, <4>2
    <3>6. CASE name = MustBeDir \/ name = Up
      <4>1. KernelStep(g, s) = KernelStep(tree, s)
        BY <3>4, <3>5, <3>6, TokensDiffer DEF KernelStep
      <4> QED BY <4>1, <3>1, <2>1 DEF j
    <3>7. CASE name \in STRING
      <4>1. here \in Location /\ here # Root /\ IsPrefix(here, here)
        <5>1. here \in Location /\ here # Root
          BY <2>2, <3>7, ParentIs
        <5> QED BY <5>1, PrefixIs, RootIs
      <4>2. here \in chain
        <5>1. here \in v.visited
          BY <3>3, <3>7, <2>2 DEF WalkMoves
        <5> QED BY <5>1, <2>1, <1>1 DEF LeadsOn
      <4>3. here \in DOMAIN tree
        <5>1. IsLink(tree, here) => here \in DOMAIN tree
          BY <4>1, LinkIs
        <5> QED BY <5>1, <3>2, <3>4, <3>7, <2>2 DEF KernelMoves
      <4>4. here \in DOMAIN g /\ (IsLink(g, here) <=> IsLink(tree, here)) /\ (IsLink(tree, here) => g[here] = tree[here])
        BY <4>1, <4>2, <4>3, <1>8
      <4>5. name # MustBeDir /\ name # Up
        BY <3>7, TokensDiffer
      <4>6. KernelStep(g, s) = KernelStep(tree, s)
        <5>1. CASE ~IsLink(tree, here)
          BY <3>4, <3>5, <4>3, <4>4, <4>5, <5>1 DEF KernelStep
        <5>2. CASE IsLink(tree, here)
          BY <3>4, <3>5, <4>3, <4>4, <4>5, <5>2 DEF KernelStep
        <5> QED BY <5>1, <5>2
      <4> QED BY <4>6, <3>1, <2>1 DEF j
    <3> QED BY <3>3, <3>6, <3>7 DEF Tokens
  <2> QED BY <2>3, <2>4
<1>11. MaxSteps \in P
  <2> HIDE DEF P
  <2>1. \A n \in 0..MaxSteps : n # MaxSteps /\ n \in P => n + 1 \in P
    BY <1>10
  <2>2. \A n \in 0..MaxSteps : n \in P
    BY <1>6, <1>9, <2>1, EveryStep, Zenon
  <2> QED BY <2>2, <1>6
<1>12. h[MaxSteps] = k[MaxSteps]
  BY <1>11
<1> QED BY <1>3, <1>4, <1>12 DEF Kernel

LEMMA ResetIs ==
    ASSUME NEW tree, NEW path, NEW dir, dir = Resolve(tree, path)
    PROVE  LET after == DeleteIndexStorage(tree, path)
           IN  /\ \A l \in DOMAIN tree : ~IsPrefix(dir, l) => l \in DOMAIN after /\ after[l] = tree[l]
               /\ IsLink(after, path) => IsLink(tree, path)
               /\ IsLink(tree, path) /\ IsA(tree, dir, "dir") /\ IsPrefix(dir, dir) => dir \in DOMAIN after /\ after[dir].kind = "dir"
<1> DEFINE after == DeleteIndexStorage(tree, path)
           left == IF IsA(tree, dir, "dir") THEN {l \in DOMAIN tree : ~IsPrefix(dir, l)} ELSE DOMAIN tree
           kept == [l \in left |-> tree[l]]
           ls == (Ancestors(dir) \ {Root}) \union {dir}
           new == [l \in ls \ DOMAIN kept |-> Directory]
<1>1. after = IF IsLink(tree, path) THEN Over(new, kept) ELSE kept
  BY DEF DeleteIndexStorage, WithDirs
<1>2. left \subseteq DOMAIN tree /\ \A l \in DOMAIN tree : ~IsPrefix(dir, l) => l \in left
  OBVIOUS
<1>3. DOMAIN kept = left /\ \A l \in left : kept[l] = tree[l]
  OBVIOUS
<1>4. DOMAIN new = ls \ left /\ \A l \in ls \ left : new[l] = Directory
  BY <1>3
<1>5. Directory.kind = "dir" /\ dir \in ls
  BY DEF Directory
<1>6. IsA(tree, dir, "dir") /\ IsPrefix(dir, dir) => dir \notin left
  OBVIOUS
<1> HIDE DEF after, left, kept, ls, new
<1>7. CASE ~IsLink(tree, path)
  BY <1>1, <1>2, <1>3, <1>7 DEF IsLink, IsA, after
<1>8. CASE IsLink(tree, path)
  <2>1. /\ DOMAIN after = (ls \ left) \union left
        /\ \A l \in left : after[l] = tree[l]
        /\ \A l \in ls \ left : after[l] = Directory
    BY <1>1, <1>3, <1>4, <1>8 DEF Over
  <2> QED BY <2>1, <1>2, <1>5, <1>6, <1>8 DEF after
<1> QED BY <1>7, <1>8

LEMMA ResetSpares ==
    ASSUME NEW tree, IsTree(tree), NEW path \in Path, NEW other \in Path, NEW dataDir \in Path,
           ~ResetRefused(tree, dataDir, path, other), NEW after, after = DeleteIndexStorage(tree, dataDir)
    PROVE  LET dir == Resolve(tree, dataDir)
               within == {l \in ResolutionChain(tree, dataDir) : IsPrefix(dir, l) /\ l # dir}
           IN  /\ \A p \in {path, other} : IsFile(tree, p) => Kernel(after, p) = Kernel(tree, p)
               /\ IsDir(tree, dataDir) /\ IsLink(after, dataDir) /\ within = {} => IsDir(after, dataDir)
<1> DEFINE dir == Resolve(tree, dataDir)
<1>1. dir # Nowhere /\ ~Collides(tree, path, dir) /\ ~Collides(tree, other, dir)
  BY DEF ResetRefused
<1>2. ASSUME NEW p \in Path
      PROVE  ResolutionChain(tree, p) \subseteq Location /\ Resolve(tree, p) \in Location \union {Nowhere}
  <2>1. Walk(tree, p) = Walked(tree, p)[MaxSteps] /\ MaxSteps \in 0..MaxSteps
    BY WalkIs, TokensDiffer
  <2>2. Walk(tree, p) \in WalkState
    BY <2>1, TheWalk DEF OnItsWay
  <2> QED BY <2>2 DEF WalkState, ResolutionChain, Resolve
<1>3. dir \in Location
  BY <1>1, <1>2
<1>4. /\ \A l \in DOMAIN tree : ~IsPrefix(dir, l) => l \in DOMAIN after /\ after[l] = tree[l]
      /\ IsLink(after, dataDir) => IsLink(tree, dataDir)
      /\ IsLink(tree, dataDir) /\ IsA(tree, dir, "dir") /\ IsPrefix(dir, dir) => dir \in DOMAIN after /\ after[dir].kind = "dir"
  BY ResetIs
<1>5. IsPrefix(dir, dir)
  BY <1>3, PrefixIs, RootIs
<1> HIDE DEF dir
<1>6. ASSUME NEW p \in {path, other}, IsFile(tree, p) PROVE Kernel(after, p) = Kernel(tree, p)
  <2>1. p \in Path /\ p # Nowhere /\ Kernel(tree, p) # Nowhere
    BY <1>6, PathAssumption DEF IsFile, IsThere
  <2>2. \A v \in ResolutionChain(tree, p) : ~IsPrefix(dir, v)
    <3>1. ~ConfigSourceCollides(tree, p, dir)
      BY <1>1, <1>6, <2>1 DEF Collides
    <3> QED BY <3>1, <1>6 DEF ConfigSourceCollides, IsInside
  <2>3. ASSUME NEW v \in ResolutionChain(tree, p), NEW l \in Location, IsPrefix(l, v), l \in DOMAIN tree
        PROVE  l \in DOMAIN after /\ after[l] = tree[l]
    <3>1. v \in Location
      BY <1>2, <2>1
    <3>2. ~IsPrefix(dir, l)
      BY <3>1, <2>2, <2>3, <1>3, PrefixesAre
    <3> QED BY <3>2, <2>3, <1>4
  <2> QED BY <2>1, <2>3, SameWay
<1>7. ASSUME IsDir(tree, dataDir), IsLink(after, dataDir), \A v \in ResolutionChain(tree, dataDir) : IsPrefix(dir, v) => v = dir
      PROVE  IsDir(after, dataDir)
  <2>1. Kernel(tree, dataDir) # Nowhere /\ Kernel(tree, dataDir) = dir /\ IsA(tree, dir, "dir")
    BY <1>7, LookupAgrees DEF IsDir, IsThere, dir
  <2>2. dir \in DOMAIN after /\ after[dir].kind = "dir"
    BY <1>4, <1>5, <1>7, <2>1
  <2>3. ASSUME NEW v \in ResolutionChain(tree, dataDir), NEW l \in Location, IsPrefix(l, v), l \in DOMAIN tree
        PROVE  l \in DOMAIN after /\ after[l].kind = tree[l].kind /\ (IsLink(tree, l) => after[l] = tree[l])
    <3>1. v \in Location
      BY <1>2
    <3>2. CASE ~IsPrefix(dir, l)
      BY <3>2, <2>3, <1>4
    <3>3. CASE IsPrefix(dir, l)
      <4>1. v = dir
        BY <3>1, <3>3, <2>3, <1>3, <1>7, PrefixesAre
      <4>2. Len(l) = Len(dir) /\ \A i \in 1..Len(l) : l[i] = dir[i]
        <5>1. Len(l) <= Len(dir) /\ Len(dir) <= Len(l) /\ Len(l) \in Nat /\ Len(dir) \in Nat /\ \A i \in 1..Len(l) : l[i] = dir[i]
          BY <4>1, <3>3, <2>3, <1>3, PrefixIs, RootIs
        <5> QED BY <5>1
      <4>3. l = dir
        BY <4>2, <1>3, SameLocation
      <4>4. l = Root => IsLink(tree, l) = FALSE
        BY DEF IsLink, IsA
      <4>5. l # Root => tree[l].kind = "dir"
        BY <4>3, <2>1 DEF IsA
      <4>6. l # Root
        BY <2>3 DEF IsTree
      <4> QED BY <4>3, <4>5, <4>6, <2>2 DEF IsLink, IsA
    <3> QED BY <3>2, <3>3
  <2>4. Kernel(after, dataDir) = dir
    BY <2>1, <2>3, SameWay
  <2>5. IsA(after, dir, "dir")
    BY <2>2, <2>1 DEF IsA
  <2> QED BY <2>1, <2>4, <2>5 DEF IsDir, IsThere
<1> QED BY <1>6, <1>7 DEF dir

-----------------------------------------------------------------------------
(* The file system stays a tree, whoever writes to it. *)

LEMMA PutKeepsTree ==
    ASSUME NEW tree, IsTree(tree), NEW at \in Location, IsA(tree, Parent(at), "dir"), ~IsA(tree, at, "dir"), NEW entry,
           entry.kind \in {"file", "link"}, entry.to \in Path, {entry.absolute, entry.slash} \subseteq BOOLEAN
    PROVE  IsTree(Put(at, entry, tree))
<1> DEFINE g == Put(at, entry, tree)
<1>1. /\ DOMAIN g = DOMAIN tree \union {at} /\ g[at] = entry
      /\ \A l \in DOMAIN tree : l # at => g[l] = tree[l]
      /\ g = [l \in DOMAIN g |-> g[l]]
  BY DEF Put, Over
<1>2. at # Root
  BY DEF IsA
<1> HIDE DEF g
<1>3. \A l : IsA(tree, l, "dir") => IsA(g, l, "dir")
  BY <1>1 DEF IsA
<1>4. ASSUME NEW l \in DOMAIN g
      PROVE  /\ l \in Location \ {Root} /\ IsA(tree, Parent(l), "dir")
             /\ g[l].kind \in {"dir", "file", "link"} /\ g[l].to \in Path /\ {g[l].absolute, g[l].slash} \subseteq BOOLEAN
  <2>1. CASE l = at
    BY <2>1, <1>1, <1>2
  <2>2. CASE l # at
    <3>1. l \in DOMAIN tree /\ g[l] = tree[l]
      BY <2>2, <1>1
    <3> QED BY <3>1 DEF IsTree
  <2> QED BY <2>1, <2>2
<1>5. IsTree(g)
  BY <1>1, <1>3, <1>4 DEF IsTree
<1> QED BY <1>5 DEF g

LEMMA WithDirsKeepsTree ==
    ASSUME NEW tree, IsTree(tree), NEW ls,
           \A l \in ls : l \in Location \ {Root} /\ (IsA(tree, Parent(l), "dir") \/ (Parent(l) \in ls /\ Parent(l) \notin DOMAIN tree))
    PROVE  IsTree(WithDirs(tree, ls))
<1> DEFINE g == WithDirs(tree, ls)
<1>1. /\ DOMAIN g = DOMAIN tree \union (ls \ DOMAIN tree)
      /\ \A l \in DOMAIN tree : g[l] = tree[l]
      /\ \A l \in ls \ DOMAIN tree : g[l] = Directory
      /\ g = [l \in DOMAIN g |-> g[l]]
  BY DEF WithDirs, Over
<1>2. Directory.kind = "dir" /\ Directory.to \in Path /\ {Directory.absolute, Directory.slash} \subseteq BOOLEAN
  <2>1. <<>> \in Path
    BY TokensDiffer DEF Root
  <2> QED BY <2>1 DEF Directory
<1> HIDE DEF g
<1>3. \A l : IsA(tree, l, "dir") \/ (l \in ls /\ l \notin DOMAIN tree) => IsA(g, l, "dir")
  BY <1>1, <1>2 DEF IsA
<1>4. ASSUME NEW l \in DOMAIN g
      PROVE  /\ l \in Location \ {Root} /\ IsA(g, Parent(l), "dir")
             /\ g[l].kind \in {"dir", "file", "link"} /\ g[l].to \in Path /\ {g[l].absolute, g[l].slash} \subseteq BOOLEAN
  <2>1. CASE l \in DOMAIN tree
    <3>1. g[l] = tree[l]
      BY <2>1, <1>1
    <3>2. /\ l \in Location \ {Root} /\ IsA(tree, Parent(l), "dir")
          /\ tree[l].kind \in {"dir", "file", "link"} /\ tree[l].to \in Path /\ {tree[l].absolute, tree[l].slash} \subseteq BOOLEAN
      BY <2>1 DEF IsTree
    <3> QED BY <3>1, <3>2, <1>3
  <2>2. CASE l \notin DOMAIN tree
    <3>1. l \in ls /\ g[l] = Directory
      BY <2>2, <1>1
    <3> QED BY <3>1, <1>2, <1>3
  <2> QED BY <2>1, <2>2
<1>5. IsTree(g)
  BY <1>1, <1>4 DEF IsTree
<1> QED BY <1>5 DEF g

\* A directory to be made is in the one before it.
MadeAfter(base, dir, last, n) ==
    LET l == base \o SubSeq(dir, last + 1, n)
    IN  /\ l \in Location \ {Root}
        /\ n = last + 1 => Parent(l) = base
        /\ n # last + 1 => n - 1 \in last + 1..Len(dir) /\ Parent(l) = base \o SubSeq(dir, last + 1, n - 1)

LEMMA NewDirsAre ==
    ASSUME NEW base \in Location, NEW dir \in Location, NEW last \in 0..Len(dir), NEW n \in last + 1..Len(dir)
    PROVE  MadeAfter(base, dir, last, n)
<1>1. Len(dir) \in Nat /\ Len(base) \in Nat /\ last \in Nat /\ n \in Nat /\ last < n /\ n <= Len(dir)
  BY RootIs
<1>2. ASSUME NEW m \in last..Len(dir)
      PROVE  LET s == SubSeq(dir, last + 1, m)
                 l == base \o s
             IN  /\ l \in Location /\ Len(l) = Len(base) + (m - last)
                 /\ \A i \in 1..Len(base) : l[i] = base[i]
                 /\ \A i \in 1..m - last : l[Len(base) + i] = dir[last + i]
  <2> DEFINE s == SubSeq(dir, last + 1, m)
  <2>1. m \in Nat /\ last <= m /\ m <= Len(dir) /\ dir \in Seq(STRING)
    BY <1>1 DEF Location
  <2>2. \A i \in last + 1..m : dir[i] \in STRING
    BY <2>1, <1>1
  <2>3. s = [i \in 1..m - last |-> dir[i + last]]
    BY <2>1, <1>1
  <2>4. m - last \in Nat /\ \A i \in 1..m - last : i + last \in last + 1..m /\ i + last = last + i
    BY <2>1, <1>1
  <2>5. Len(s) = m - last /\ \A i \in 1..m - last : s[i] = dir[last + i]
    BY <2>3, <2>4
  <2>6. s \in Seq(STRING)
    BY <2>2, <2>3, <2>4
  <2> HIDE DEF s
  <2>7. base \in Seq(STRING)
    BY DEF Location
  <2>8. /\ base \o s \in Seq(STRING) /\ Len(base \o s) = Len(base) + Len(s)
        /\ \A i \in 1..Len(base) : (base \o s)[i] = base[i]
        /\ \A i \in 1..Len(s) : (base \o s)[Len(base) + i] = s[i]
    BY <2>6, <2>7, ConcatIs
  <2> QED BY <2>5, <2>8 DEF Location, s
<1> DEFINE l == base \o SubSeq(dir, last + 1, n)
<1>3. /\ l \in Location /\ Len(l) = Len(base) + (n - last)
      /\ \A i \in 1..Len(base) : l[i] = base[i]
      /\ \A i \in 1..n - last : l[Len(base) + i] = dir[last + i]
  BY <1>1, <1>2
<1> HIDE DEF l
<1>4. l # Root /\ Parent(l) \in Location /\ Len(Parent(l)) = Len(l) - 1 /\ \A i \in 1..Len(l) - 1 : Parent(l)[i] = l[i]
  <2>1. l # Root
    BY <1>1, <1>3, RootIs
  <2> QED BY <2>1, <1>3, ParentIs
<1>5. ASSUME n = last + 1 PROVE Parent(l) = base
  <2>1. Len(Parent(l)) = Len(base) /\ \A i \in 1..Len(base) : Parent(l)[i] = base[i]
    BY <1>1, <1>3, <1>4, <1>5
  <2> QED BY <2>1, <1>4, SameLocation
<1>6. ASSUME n # last + 1 PROVE n - 1 \in last + 1..Len(dir) /\ Parent(l) = base \o SubSeq(dir, last + 1, n - 1)
  <2> DEFINE p == base \o SubSeq(dir, last + 1, n - 1)
  <2>1. n - 1 \in last + 1..Len(dir) /\ n - 1 \in last..Len(dir) /\ n - 1 \in Nat
    BY <1>1, <1>6
  <2>2. /\ p \in Location /\ Len(p) = Len(base) + (n - 1 - last)
        /\ \A i \in 1..Len(base) : p[i] = base[i]
        /\ \A i \in 1..n - 1 - last : p[Len(base) + i] = dir[last + i]
    BY <2>1, <1>2
  <2> HIDE DEF p
  <2>3. Len(Parent(l)) = Len(p)
    BY <2>2, <1>1, <1>3, <1>4
  <2>4. ASSUME NEW i \in 1..Len(p) PROVE Parent(l)[i] = p[i]
    <3>1. Parent(l)[i] = l[i]
      BY <2>3, <2>4, <1>4
    <3>2. CASE i \in 1..Len(base)
      BY <3>1, <3>2, <2>2, <1>3
    <3>3. CASE i \notin 1..Len(base)
      <4> DEFINE x == i - Len(base)
      <4>1. x \in 1..n - 1 - last /\ x \in 1..n - last /\ Len(base) + x = i
        BY <2>2, <2>4, <3>3, <1>1
      <4> HIDE DEF x
      <4>2. l[Len(base) + x] = dir[last + x] /\ p[Len(base) + x] = dir[last + x]
        BY <4>1, <2>2, <1>3
      <4> QED BY <4>1, <4>2, <3>1
    <3> QED BY <3>2, <3>3
  <2>5. Parent(l) = p
    BY <2>2, <2>3, <2>4, <1>4, SameLocation
  <2> QED BY <2>1, <2>5 DEF p
<1> QED BY <1>3, <1>4, <1>5, <1>6 DEF l, MadeAfter

\* What every process knows and every file is, at any time.
Aiming == {"read", "vet", "mkdir", "ensure", "revet", "temp", "recheck", "replace"}
WriterSound(r) ==
    /\ {"at", "path", "target"} \subseteq DOMAIN r
    /\ r.path \in Path \union {Nowhere} /\ r.target \in Location \union {Nowhere}
    /\ r.at = "aim" => r.path \in Path
    /\ r.at \in Aiming => r.target \in Location

LinksTyped ==
    \A l \in links : l.at \in Location /\ l.entry.kind = "link" /\ l.entry.to \in Path
                     /\ {l.entry.absolute, l.entry.slash} \subseteq BOOLEAN

TreeInv ==
    /\ IsTree(fs) /\ LinksTyped /\ PathsTyped(real) /\ PathsTyped(dotenv)
    /\ DOMAIN writer = Writer /\ \A w \in Writer : WriterSound(writer[w])

\* A step of a writer that does not look for its file again.
KeptBy(s, r) ==
    /\ {"at", "path", "target"} \subseteq DOMAIN s /\ s.path = r.path /\ s.target = r.target
    /\ s.at # "aim" /\ (s.at \in Aiming => r.at \in Aiming)

LEMMA SoundIsKept ==
    ASSUME TreeInv, NEW w \in Writer, NEW s, KeptBy(s, writer[w]), writer' = [writer EXCEPT ![w] = s]
    PROVE  DOMAIN writer' = Writer /\ \A x \in Writer : WriterSound(writer'[x])
<1>1. DOMAIN writer = Writer /\ \A x \in Writer : WriterSound(writer[x])
  BY DEF TreeInv
<1>2. WriterSound(s)
  BY <1>1 DEF KeptBy, WriterSound
<1>3. DOMAIN writer' = Writer /\ \A x \in Writer : writer'[x] = IF x = w THEN s ELSE writer[x]
  BY <1>1
<1> QED BY <1>1, <1>2, <1>3

LEMMA GoesKeeps ==
    ASSUME TreeInv, NEW w \in Writer, NEW to, Goes(w, to), to # "aim", to \in Aiming => writer[w].at \in Aiming
    PROVE  DOMAIN writer' = Writer /\ \A x \in Writer : WriterSound(writer'[x])
<1> DEFINE r == writer[w]
           s == [r EXCEPT !.at = to]
<1>1. WriterSound(r) /\ DOMAIN writer = Writer
  BY DEF TreeInv
<1>2. writer' = [writer EXCEPT ![w] = s]
  BY DEF Goes
<1> HIDE DEF r
<1>3. KeptBy(s, r)
  <2>1. DOMAIN s = DOMAIN r /\ s.at = to /\ s.path = r.path /\ s.target = r.target
    BY <1>1 DEF WriterSound
  <2> HIDE DEF s
  <2> QED BY <2>1, <1>1 DEF KeptBy, WriterSound, r
<1> QED BY <1>2, <1>3, SoundIsKept DEF r

\* The path that a command goes by.
LEMMA CommandIs ==
    ASSUME TreeInv, NEW w
    PROVE  WriterSound(Command(w, Loaded))
<1> DEFINE path == ResolveConfigPath(Loaded.environ)
           below == Below(real, dotenv)
           slugs == Actionable(w, Loaded.environ)
           shadowed == ShadowingLayer(Loaded)
<1>1. path = ResolveConfigPath(below)
  BY SamePlace DEF Loaded
<1>2. path \in Path \union {Nowhere}
  <2>1. ConfigFile \in DOMAIN below => IsBlank(below[ConfigFile]) \/ below[ConfigFile][1] \in Path
    <3> HIDE DEF below
    <3>1. ConfigFile \in DOMAIN below =>
             \/ ConfigFile \in DOMAIN real /\ below[ConfigFile] = real[ConfigFile]
             \/ ConfigFile \in DOMAIN dotenv /\ below[ConfigFile] = dotenv[ConfigFile]
      BY BelowIs DEF below
    <3> QED BY <3>1 DEF TreeInv, PathsTyped
  <2>2. DefaultConfig \in Path
    BY ConfigAssumption
  <2> HIDE DEF below
  <2> QED BY <1>1, <2>1, <2>2 DEF ResolveConfigPath
<1>3. Command(w, Loaded) \in {[Idle EXCEPT !.at = "refused"]}
      \/ (path # Nowhere /\ Command(w, Loaded) = [Idle EXCEPT !.at = "aim", !.path = path, !.shadowed = shadowed, !.slugs = slugs])
  BY DEF Command
<1> HIDE DEF path, slugs, shadowed
<1>4. WriterSound([Idle EXCEPT !.at = "refused"])
  BY DEF WriterSound, Idle, Aiming
<1>5. path # Nowhere => WriterSound([Idle EXCEPT !.at = "aim", !.path = path, !.shadowed = shadowed, !.slugs = slugs])
  BY <1>2 DEF WriterSound, Idle, Aiming
<1> QED BY <1>3, <1>4, <1>5

LEMMA TreeInit == Init => TreeInv
<1> SUFFICES ASSUME Init PROVE TreeInv
  OBVIOUS
<1>1. PICK s \in Scenarios : fs = s.fs /\ real = s.real /\ dotenv = s.dotenv /\ links = s.links
  BY DEF Init
<1>2. IsTree(fs) /\ PathsTyped(real) /\ PathsTyped(dotenv)
  BY <1>1, ConfigAssumption
<1>3. LinksTyped
  BY <1>1, OwnerMovesLinks DEF LinksTyped
<1>4. WriterSound(Idle)
  BY DEF WriterSound, Idle, Aiming
<1>5. DOMAIN writer = Writer /\ \A w \in Writer : writer[w] = Idle
  BY DEF Init
<1> QED BY <1>2, <1>3, <1>4, <1>5 DEF TreeInv

LEMMA EnsureDirKeepsTree ==
    ASSUME TreeInv, NEW w \in Writer, EnsureDir(w)
    PROVE  IsTree(fs')
<1> DEFINE dir == Parent(writer[w].target)
           there == {n \in 0..Len(dir) : Kernel(fs, SubSeq(dir, 1, n)) # Nowhere}
           last == CHOOSE n \in there : \A m \in there : m <= n
           base == Kernel(fs, SubSeq(dir, 1, last))
           new == {base \o SubSeq(dir, last + 1, n) : n \in last + 1..Len(dir)}
<1>1. dir \in Location /\ IsTree(fs) /\ Len(dir) \in Nat
  <2>1. writer[w].target \in Location
    BY DEF TreeInv, WriterSound, EnsureDir, Aiming
  <2>2. dir \in Location
    BY <2>1, ParentIs
  <2> QED BY <2>2, RootIs DEF TreeInv
<1>2. fs' = fs \/ (fs' = WithDirs(fs, new) /\ (new # {} => IsA(fs, base, "dir") /\ new \intersect DOMAIN fs = {}))
  BY DEF EnsureDir
<1> HIDE DEF dir, there, last, base, new
<1>3. 0 \in there
  <2>1. SubSeq(dir, 1, 0) = Root /\ Clear(fs, Root) /\ Len(Root) = 0 /\ Root \in Location
    BY <1>1, RootIs DEF Clear
  <2>2. IsDir(fs, Root)
    BY <1>1, <2>1, Straight, TokensDiffer DEF IsA
  <2>3. Kernel(fs, Root) # Nowhere
    BY <2>2 DEF IsDir, IsThere
  <2>4. Kernel(fs, SubSeq(dir, 1, 0)) # Nowhere
    BY <2>1, <2>3
  <2>5. 0 \in 0..Len(dir)
    BY <1>1
  <2> QED BY <2>4, <2>5 DEF there
<1>4. last \in there
  <2> DEFINE I == {m \in Nat : m <= Len(dir) /\ Len(dir) - m \in there}
  <2>1. Len(dir) \in I
    BY <1>1, <1>3
  <2>2. PICK i \in I : \A j \in I : i <= j
    <3> I \subseteq Nat
      OBVIOUS
    <3> HIDE DEF I
    <3> QED BY <2>1, FirstIs
  <2>3. \A m \in there : m \in 0..Len(dir) /\ m \in Nat
    BY <1>1 DEF there
  <2>4. \A m \in there : Len(dir) - m \in I
    <3> TAKE m \in there
    <3>1. m \in Nat /\ m <= Len(dir) /\ Len(dir) - m \in Nat /\ Len(dir) - m <= Len(dir) /\ Len(dir) - (Len(dir) - m) = m
      BY <1>1, <2>3
    <3> QED BY <3>1
  <2>5. \A m \in there : m <= Len(dir) - i
    <3> TAKE m \in there
    <3>1. i <= Len(dir) - m /\ i \in Nat /\ m \in Nat
      BY <2>2, <2>3, <2>4
    <3> QED BY <3>1, <1>1
  <2>6. Len(dir) - i \in there
    BY <2>2
  <2> QED BY <2>5, <2>6 DEF last
<1>5. last \in 0..Len(dir) /\ base \in Location
  <2>1. last \in 0..Len(dir) /\ base # Nowhere
    BY <1>4 DEF there, base
  <2>2. SubSeq(dir, 1, last) \in Path
    BY <1>1, <2>1, ParentIs, TokensDiffer
  <2>3. base \in Location \union {Nowhere}
    BY <1>1, <2>2, LookupAgrees DEF base
  <2> QED BY <2>1, <2>3
<1>6. ASSUME new # {} => IsA(fs, base, "dir") /\ new \intersect DOMAIN fs = {} PROVE IsTree(WithDirs(fs, new))
  <2>1. ASSUME NEW l \in new
        PROVE  l \in Location \ {Root} /\ (IsA(fs, Parent(l), "dir") \/ (Parent(l) \in new /\ Parent(l) \notin DOMAIN fs))
    <3>1. PICK n \in last + 1..Len(dir) : l = base \o SubSeq(dir, last + 1, n)
      BY DEF new
    <3>2. MadeAfter(base, dir, last, n)
      BY <1>1, <1>5, NewDirsAre
    <3>3. n # last + 1 => Parent(l) \in new
      BY <3>1, <3>2 DEF new, MadeAfter
    <3> QED BY <1>6, <3>1, <3>2, <3>3 DEF MadeAfter
  <2> QED BY <1>1, <2>1, WithDirsKeepsTree
<1> QED BY <1>1, <1>2, <1>6

LEMMA ReplaceKeepsTree ==
    ASSUME TreeInv, NEW w \in Writer, Replace(w)
    PROVE  IsTree(fs')
<1> DEFINE t == writer[w].target
           new == WrittenTo(writer[w].settings, TRUE)
<1>1. t \in Location /\ IsTree(fs)
  BY DEF TreeInv, WriterSound, Replace, Aiming
<1>2. fs' = fs \/ (fs' = Put(t, new, fs) /\ IsA(fs, Parent(t), "dir") /\ ~IsA(fs, t, "dir"))
  BY DEF Replace
<1>3. new.kind = "file" /\ new.to = <<>> /\ new.absolute = FALSE /\ new.slash = FALSE
  BY DEF WrittenTo, Directory
<1>4. <<>> \in Path
  BY TokensDiffer DEF Root
<1>5. new.kind \in {"file", "link"} /\ new.to \in Path /\ {new.absolute, new.slash} \subseteq BOOLEAN
  BY <1>3, <1>4
<1> HIDE DEF t, new
<1>6. IsA(fs, Parent(t), "dir") /\ ~IsA(fs, t, "dir") => IsTree(Put(t, new, fs))
  BY <1>1, <1>5, PutKeepsTree
<1> QED BY <1>1, <1>2, <1>6

LEMMA RetargetKeepsTree ==
    ASSUME TreeInv, Retarget
    PROVE  IsTree(fs')
<1>1. PICK l \in links : fs' = Put(l.at, l.entry, fs) /\ IsA(fs, Parent(l.at), "dir") /\ ~IsA(fs, l.at, "dir")
  BY DEF Retarget
<1>2. l.at \in Location /\ l.entry.kind = "link" /\ l.entry.to \in Path /\ {l.entry.absolute, l.entry.slash} \subseteq BOOLEAN
  BY DEF TreeInv, LinksTyped
<1> QED BY <1>1, <1>2, PutKeepsTree DEF TreeInv

LEMMA LookupTyped ==
    ASSUME NEW tree, IsTree(tree), NEW path \in Path
    PROVE  LookupTarget(tree, path) \in Location \union {Nowhere}
<1>1. MaxSteps \in Nat /\ MaxSteps \in 0..MaxSteps
  BY TokensDiffer
<1>2. Walk(tree, path) = Walked(tree, path)[MaxSteps] /\ OnItsWay(tree, Walked(tree, path)[MaxSteps], MaxSteps)
  BY <1>1, WalkIs, TheWalk
<1> QED BY <1>2 DEF LookupTarget, Proven, OnItsWay, WalkState

LEMMA TreeStep == TreeInv /\ [Next]_vars => TreeInv'
<1> SUFFICES ASSUME TreeInv, [Next]_vars PROVE TreeInv'
  OBVIOUS
<1> DEFINE Writers == DOMAIN writer' = Writer /\ \A x \in Writer : WriterSound(writer'[x])
<1>1. ASSUME IsTree(fs'), Writers, UNCHANGED inputs PROVE TreeInv'
  BY <1>1 DEF TreeInv, LinksTyped, PathsTyped, inputs
<1>2. IsTree(fs) /\ DOMAIN writer = Writer /\ \A w \in Writer : WriterSound(writer[w])
  BY DEF TreeInv
<1> HIDE DEF Writers
<1>3. CASE UNCHANGED vars
  <2>1. Writers
    BY <1>2, <1>3 DEF vars, Writers
  <2> QED BY <1>1, <1>2, <1>3, <2>1 DEF vars
<1>4. CASE Retarget
  <2>1. UNCHANGED <<inputs, writer>>
    BY <1>4 DEF Retarget
  <2>2. Writers
    BY <1>2, <2>1 DEF Writers
  <2> QED BY <1>1, <1>4, <2>1, <2>2, RetargetKeepsTree
<1>5. ASSUME NEW w \in Writer, Start(w) PROVE TreeInv'
  <2>1. writer' = [writer EXCEPT ![w] = Command(w, Loaded)] /\ UNCHANGED <<fs, inputs>>
    BY <1>5 DEF Start
  <2>2. Writers
    BY <1>2, <2>1, CommandIs DEF Writers
  <2> QED BY <1>1, <1>2, <2>1, <2>2
<1>6. ASSUME NEW w \in Writer, Aim(w) PROVE TreeInv'
  <2> DEFINE target == LookupTarget(fs, writer[w].path)
             to == IF target = Nowhere THEN "refused" ELSE "read"
             s == [writer[w] EXCEPT !.target = target, !.at = to]
  <2>1. writer[w].at = "aim" /\ writer' = [writer EXCEPT ![w] = s] /\ UNCHANGED <<fs, inputs>>
    BY <1>6 DEF Aim
  <2>2. writer[w].path \in Path
    BY <1>2, <2>1 DEF WriterSound
  <2>3. target \in Location \union {Nowhere}
    BY <1>2, <2>2, LookupTyped
  <2> HIDE DEF target
  <2>4. {"at", "path", "target"} \subseteq DOMAIN writer[w]
    BY <1>2 DEF WriterSound
  <2>5. DOMAIN s = DOMAIN writer[w] /\ s.path = writer[w].path /\ s.target = target /\ s.at = to
    BY <2>4
  <2> HIDE DEF s
  <2>6. to # "aim" /\ (to \in Aiming => target # Nowhere)
    BY DEF Aiming
  <2>7. WriterSound(s)
    BY <2>2, <2>3, <2>4, <2>5, <2>6 DEF WriterSound
  <2>8. Writers
    BY <1>2, <2>1, <2>7 DEF Writers
  <2> QED BY <1>1, <1>2, <2>1, <2>8
<1>7. ASSUME NEW w \in Writer, Read(w) PROVE TreeInv'
  <2> DEFINE read == ReadTrustedConfig(fs, writer[w].path)
             settings == Settings(read)
             after == Compute(Current(settings), edit[w].adding, writer[w].slugs)
             to == IF read.outcome = "missing" THEN "vet" ELSE "ensure"
             put == Put(ExtraRepos, EditInPlace(settings, after, edit[w].adding, writer[w].slugs), settings)
             s == [writer[w] EXCEPT !.at = to, !.read = settings, !.saw = standing, !.settings = put]
  <2>1. writer[w].at = "read" /\ EditOf(w, read) /\ UNCHANGED <<fs, inputs>>
    BY <1>7 DEF Read
  <2>2. Goes(w, "refused") \/ Goes(w, "unchanged") \/ writer' = [writer EXCEPT ![w] = s]
    BY <2>1 DEF EditOf
  <2>3. CASE Goes(w, "refused")
    BY <2>1, <2>3, <1>1, <1>2, GoesKeeps DEF Writers, Aiming
  <2>4. CASE Goes(w, "unchanged")
    BY <2>1, <2>4, <1>1, <1>2, GoesKeeps DEF Writers, Aiming
  <2>5. CASE writer' = [writer EXCEPT ![w] = s]
    <3> HIDE DEF settings, put
    <3>1. to # "aim" /\ writer[w].at \in Aiming
      BY <2>1 DEF Aiming
    <3> HIDE DEF to
    <3>2. {"at", "path", "target"} \subseteq DOMAIN writer[w]
      BY <1>2 DEF WriterSound
    <3>3. DOMAIN s = DOMAIN writer[w] /\ s.path = writer[w].path /\ s.target = writer[w].target /\ s.at = to
      BY <3>2
    <3> HIDE DEF s
    <3>4. KeptBy(s, writer[w])
      BY <3>1, <3>2, <3>3 DEF KeptBy
    <3>5. Writers
      BY <2>5, <3>4, SoundIsKept DEF Writers
    <3> QED BY <3>5, <2>1, <1>1, <1>2
  <2> QED BY <2>2, <2>3, <2>4, <2>5
<1>8. ASSUME NEW w \in Writer, Vet(w) \/ VetAgain(w) \/ WriteTemp(w) \/ Killed(w) PROVE TreeInv'
  <2>1. UNCHANGED <<fs, inputs>>
    BY <1>8 DEF Vet, VetAgain, WriteTemp, Killed
  <2>2. \E to \in {"refused", "mkdir", "temp", "failed", "recheck", "killed"} :
           Goes(w, to) /\ (to \in Aiming => writer[w].at \in Aiming)
    BY <1>8 DEF Vet, VetAgain, WriteTemp, Killed, Aiming
  <2>3. Writers
    BY <2>2, GoesKeeps DEF Writers
  <2> QED BY <2>1, <2>3, <1>1, <1>2
<1>9. ASSUME NEW w \in Writer, EnsureDir(w) \/ Replace(w) PROVE TreeInv'
  <2>1. UNCHANGED inputs
    BY <1>9 DEF EnsureDir, Replace
  <2>2. \E to \in {"failed", "revet", "temp", "changed"} : Goes(w, to) /\ (to \in Aiming => writer[w].at \in Aiming)
    BY <1>9 DEF EnsureDir, Replace, Aiming
  <2>3. Writers
    BY <2>2, GoesKeeps DEF Writers
  <2> QED BY <2>1, <2>3, <1>1, <1>9, EnsureDirKeepsTree, ReplaceKeepsTree
<1>10. ASSUME NEW w \in Writer, Recheck(w) PROVE TreeInv'
  <2>1. UNCHANGED <<fs, inputs>> /\ writer[w].at \in Aiming
    BY <1>10 DEF Recheck, Aiming
  <2>2. \E to \in {"refused", "replace"} : Goes(w, to)
    BY <1>10 DEF Recheck, Passes
  <2>3. Writers
    BY <2>1, <2>2, GoesKeeps DEF Writers
  <2> QED BY <2>1, <2>3, <1>1, <1>2
<1> QED BY <1>3, <1>4, <1>5, <1>6, <1>7, <1>8, <1>9, <1>10 DEF Next

LEMMA TreesStay == Spec => []TreeInv
BY TreeInit, TreeStep, PTL DEF Spec

LEMMA EveryLookupIsTheKernels ==
    ASSUME NEW path \in Path, IsTree(fs)
    PROVE  LeadsTo(path, LookupTarget(fs, path))
<1> DEFINE t == LookupTarget(fs, path)
<1>1. Created(t) = Grown(fs, t)
  BY DEF Created, Grown
<1>2. ASSUME t # Nowhere, ~IsA(fs, t, "dir"), Walk(fs, path).hops <= KernelHops,
             \A d \in Ancestors(t) : d \in DOMAIN fs => IsA(fs, d, "dir")
      PROVE  Kernel(Created(t), path) = t
  BY <1>1, <1>2, LeadsThere
<1>3. Kernel(fs, path) # Nowhere => t = Kernel(fs, path)
  BY LookupAgrees
<1> QED BY <1>2, <1>3 DEF LeadsTo

\* Whatever the tree, its links and the path, the walk that finds the target of
\* an edit (resolve_lookup) proves what the system opens, once its directories
\* are made, and everything the system opens: no writer creates a file at one
\* place that every reader looks for at another.
THEOREM LookupsAreTheKernels == Spec => []LookupIsTheKernels
<1>1. TreeInv => LookupIsTheKernels
  <2>1. ConfigPaths \subseteq Path
    BY ConfigAssumption
  <2> QED BY <2>1, EveryLookupIsTheKernels DEF TreeInv, LookupIsTheKernels
<1> QED BY <1>1, TreesStay, PTL

\* A reset that is not refused leaves every configuration file in use where its
\* path finds it, and a data directory that is a link leads to a directory
\* again (_delete_index_storage, _config_source_collides).
THEOREM ResetsSpareConfig == Spec => []ResetSparesConfig
<1>1. TreeInv => ResetSparesConfig
  <2> SUFFICES ASSUME TreeInv, NEW path \in ConfigPaths, NEW dataDir \in DataDirs,
                      ~ResetRefused(fs, dataDir, path, DotenvPath)
               PROVE  Spares(DeleteIndexStorage(fs, dataDir), {path, DotenvPath}, dataDir)
    BY DEF ResetSparesConfig
  <2>1. path \in Path /\ dataDir \in Path /\ DotenvPath \in Path /\ IsTree(fs)
    BY ConfigAssumption DEF TreeInv
  <2> DEFINE after == DeleteIndexStorage(fs, dataDir)
  <2>2. /\ \A p \in {path, DotenvPath} : IsFile(fs, p) => Kernel(after, p) = Kernel(fs, p)
        /\ IsDir(fs, dataDir) /\ IsLink(after, dataDir)
             /\ {l \in ResolutionChain(fs, dataDir) : IsPrefix(Resolve(fs, dataDir), l) /\ l # Resolve(fs, dataDir)} = {}
           => IsDir(after, dataDir)
    BY <2>1, ResetSpares
  <2> QED BY <2>2 DEF Spares
<1> QED BY <1>1, TreesStay, PTL

-----------------------------------------------------------------------------
(* Lists of repos *)
LEMMA InRange ==
    ASSUME NEW S, NEW s \in Seq(S)
    PROVE  s \in Seq(Range(s)) /\ Range(s) \subseteq S /\ DOMAIN s = 1..Len(s)
BY DEF Range

LEMMA KeysAre ==
    ASSUME NEW s
    PROVE  Keys(s) = {SlugKey(x) : x \in Range(s)}
BY DEF Keys, Range

LEMMA SplitIs ==
    ASSUME NEW S, NEW value \in Seq(S)
    PROVE  SplitCsv(value) \in Seq(S) /\ Range(SplitCsv(value)) = Range(value) \ {Blank}
<1> DEFINE I == {i \in DOMAIN value : value[i] # Blank}
<1>1. SplitCsv(value) \in Seq(S) /\ Range(SplitCsv(value)) = {value[i] : i \in I}
  <2>1. SplitCsv(value) = Picked(value, I) /\ I \subseteq DOMAIN value
    BY DEF SplitCsv
  <2> HIDE DEF I
  <2> QED BY <2>1, PickedIs
<1>2. {value[i] : i \in I} = Range(value) \ {Blank}
  BY DEF Range
<1> QED BY <1>1, <1>2

LEMMA FirstsAre ==
    ASSUME NEW S, NEW slugs \in Seq(S)
    PROVE  Firsts(slugs) \subseteq DOMAIN slugs /\ {SlugKey(slugs[i]) : i \in Firsts(slugs)} = Keys(slugs)
<1>1. DOMAIN slugs = 1..Len(slugs)
  OBVIOUS
<1>2. ASSUME NEW i \in DOMAIN slugs PROVE \E j \in Firsts(slugs) : SlugKey(slugs[j]) = SlugKey(slugs[i])
  <2> DEFINE I == {j \in DOMAIN slugs : SlugKey(slugs[j]) = SlugKey(slugs[i])}
  <2>1. PICK j \in I : \A k \in I : j <= k
    <3>1. I \subseteq Nat /\ I # {}
      BY <1>1
    <3> HIDE DEF I
    <3> QED BY <3>1, FirstIs
  <2>2. \A k \in DOMAIN slugs : k < j => SlugKey(slugs[k]) # SlugKey(slugs[j])
    <3> TAKE k \in DOMAIN slugs
    <3>1. j \in Nat /\ k \in Nat
      BY <1>1, <2>1
    <3> QED BY <2>1, <3>1
  <2> QED BY <2>1, <2>2 DEF Firsts
<1> QED BY <1>2 DEF Firsts, Keys

LEMMA DedupeIs ==
    ASSUME NEW S, NEW slugs \in Seq(S)
    PROVE  DedupeSlugs(slugs) \in Seq(S) /\ Keys(DedupeSlugs(slugs)) = Keys(slugs)
<1> DEFINE I == Firsts(slugs)
<1>1. I \subseteq DOMAIN slugs /\ {SlugKey(slugs[i]) : i \in I} = Keys(slugs)
  BY FirstsAre
<1> HIDE DEF I
<1>2. DedupeSlugs(slugs) = Picked(slugs, I)
  BY DEF DedupeSlugs, I
<1>3. Picked(slugs, I) \in Seq(S) /\ Range(Picked(slugs, I)) = {slugs[i] : i \in I}
  BY <1>1, PickedIs
<1> QED BY <1>1, <1>2, <1>3, KeysAre

LEMMA RangeOfConcat ==
    ASSUME NEW S, NEW s \in Seq(S), NEW t \in Seq(S)
    PROVE  s \o t \in Seq(S) /\ Range(s \o t) = Range(s) \union Range(t)
<1> DEFINE u == s \o t
<1>1. /\ u \in Seq(S) /\ Len(u) = Len(s) + Len(t)
      /\ \A i \in 1..Len(s) : u[i] = s[i]
      /\ \A i \in 1..Len(t) : u[Len(s) + i] = t[i]
  BY ConcatIs
<1> HIDE DEF u
<1>2. DOMAIN u = 1..Len(s) + Len(t) /\ DOMAIN s = 1..Len(s) /\ DOMAIN t = 1..Len(t) /\ Len(s) \in Nat /\ Len(t) \in Nat
  BY <1>1
<1>3. \A i \in 1..Len(s) + Len(t) : i \in 1..Len(s) \/ (i - Len(s) \in 1..Len(t) /\ i = Len(s) + (i - Len(s)))
  BY <1>2
<1>4. /\ \A i \in 1..Len(s) : i \in 1..Len(s) + Len(t)
      /\ \A i \in 1..Len(t) : Len(s) + i \in 1..Len(s) + Len(t)
  BY <1>2
<1>5. Range(u) \subseteq Range(s) \union Range(t)
  <2> SUFFICES ASSUME NEW i \in 1..Len(s) + Len(t) PROVE u[i] \in Range(s) \union Range(t)
    BY <1>2 DEF Range
  <2>1. CASE i \in 1..Len(s)
    <3>1. u[i] = s[i] /\ i \in DOMAIN s
      BY <1>1, <1>2, <2>1
    <3> QED BY <3>1 DEF Range
  <2>2. CASE i - Len(s) \in 1..Len(t) /\ i = Len(s) + (i - Len(s))
    <3>1. u[i] = t[i - Len(s)] /\ i - Len(s) \in DOMAIN t
      BY <1>1, <1>2, <2>2
    <3> QED BY <3>1 DEF Range
  <2> QED BY <1>3, <2>1, <2>2
<1>6. Range(s) \subseteq Range(u)
  BY <1>1, <1>2, <1>4 DEF Range
<1>7. Range(t) \subseteq Range(u)
  <2> SUFFICES ASSUME NEW i \in 1..Len(t) PROVE t[i] \in Range(u)
    BY <1>2 DEF Range
  <2>1. u[Len(s) + i] = t[i] /\ Len(s) + i \in DOMAIN u
    BY <1>1, <1>2, <1>4
  <2> QED BY <2>1 DEF Range
<1> QED BY <1>1, <1>5, <1>6, <1>7 DEF u

LEMMA ExtendedIs ==
    ASSUME NEW S, NEW list \in Seq(S), NEW slugs \in Seq(S)
    PROVE  /\ Extended(list, slugs) \in Seq(S)
           /\ Range(list) \subseteq Range(Extended(list, slugs)) /\ Range(Extended(list, slugs)) \subseteq Range(list) \union Range(slugs)
           /\ Blank \notin Range(list) => Keys(Extended(list, slugs)) = Keys(list) \union Keys(slugs)
<1> DEFINE I == {i \in Firsts(slugs) : SlugKey(slugs[i]) \notin Keys(SplitCsv(list))}
           more == Picked(slugs, I)
<1>1. Firsts(slugs) \subseteq DOMAIN slugs /\ {SlugKey(slugs[i]) : i \in Firsts(slugs)} = Keys(slugs)
  BY FirstsAre
<1>2. I \subseteq DOMAIN slugs
  BY <1>1
<1>3. {SlugKey(slugs[i]) : i \in I} = Keys(slugs) \ Keys(SplitCsv(list))
  BY <1>1
<1>4. Extended(list, slugs) = list \o more
  BY DEF Extended
<1> HIDE DEF I
<1>5. more \in Seq(S) /\ Range(more) = {slugs[i] : i \in I}
  BY <1>2, PickedIs
<1> HIDE DEF more
<1>7. list \o more \in Seq(S) /\ Range(list \o more) = Range(list) \union Range(more)
  BY <1>5, RangeOfConcat
<1>8. Range(more) \subseteq Range(slugs)
  BY <1>2, <1>5 DEF Range
<1>9. ASSUME Blank \notin Range(list) PROVE Keys(SplitCsv(list)) = Keys(list)
  <2>1. Range(SplitCsv(list)) = Range(list)
    BY <1>9, SplitIs
  <2> QED BY <2>1, KeysAre
<1>10. Keys(list \o more) = Keys(list) \union {SlugKey(slugs[i]) : i \in I}
  BY <1>5, <1>7, KeysAre
<1> QED BY <1>3, <1>4, <1>7, <1>8, <1>9, <1>10

LEMMA DropIs ==
    ASSUME NEW S, NEW list \in Seq(S), NEW slugs
    PROVE  /\ Drop(list, slugs) \in Seq(S) /\ Range(Drop(list, slugs)) \subseteq Range(list)
           /\ Blank \notin Range(list) => Keys(Drop(list, slugs)) = Keys(list) \ {SlugKey(d) : d \in slugs}
<1> DEFINE I == {i \in DOMAIN list : list[i] = Blank \/ SlugKey(list[i]) \notin {SlugKey(d) : d \in slugs}}
<1>1. Drop(list, slugs) \in Seq(S) /\ Range(Drop(list, slugs)) = {list[i] : i \in I}
  <2>1. Drop(list, slugs) = Picked(list, I) /\ I \subseteq DOMAIN list
    BY DEF Drop
  <2> HIDE DEF I
  <2> QED BY <2>1, PickedIs
<1>2. {list[i] : i \in I} \subseteq Range(list)
  BY DEF Range
<1>3. ASSUME Blank \notin Range(list)
      PROVE  {list[i] : i \in I} = {x \in Range(list) : SlugKey(x) \notin {SlugKey(d) : d \in slugs}}
  BY <1>3 DEF Range
<1> QED BY <1>1, <1>2, <1>3, KeysAre

LEMMA SetToSeqIs ==
    ASSUME NEW S, IsFiniteSet(S)
    PROVE  SetToSeq(S) \in Seq(S) /\ Range(SetToSeq(S)) = S
<1> DEFINE n == Cardinality(S)
           f == SetToSeq(S)
<1>1. n \in Nat /\ ExistsBijection(1..n, S)
  BY FS_CardinalityType
<1>2. PICK b \in Bijection(1..n, S) : TRUE
  BY <1>1 DEF ExistsBijection
<1>3. b \in [1..n -> S] /\ IsInjective(b)
  BY <1>2 DEF Bijection, Injection
<1>4. f \in [1..n -> S] /\ IsInjective(f)
  BY <1>3 DEF SetToSeq
<1> HIDE DEF f
<1>5. IsFiniteSet(1..n) /\ Cardinality(1..n) = n
  BY <1>1, FS_Interval
<1>6. f \in Injection(1..n, S)
  BY <1>4 DEF Injection
<1>7. f \in Surjection(1..n, S)
  BY <1>5, <1>6, FS_Injection
<1>9. Range(f) = S
  BY <1>7 DEF Surjection, Range
<1>10. f \in Seq(S)
  BY <1>1, <1>4
<1> QED BY <1>9, <1>10 DEF f

\* What a list is after an edit, by its keys.
Edited(before, after, adding, slugs) ==
    \A k : k \in Keys(after) <=> IF adding THEN k \in Keys(before) \/ k \in {SlugKey(d) : d \in slugs}
                                 ELSE k \in Keys(before) /\ k \notin {SlugKey(d) : d \in slugs}

LEMMA ComputeIs ==
    ASSUME NEW list, list \in Seq(Range(list)), Blank \notin Range(list), NEW adding, NEW slugs, Named(slugs)
    PROVE  LET after == Compute(list, adding, slugs)
           IN  after \in Seq(Range(after)) /\ Blank \notin Range(after) /\ Edited(list, after, adding, slugs)
<1> DEFINE S == Range(list) \union slugs
           named == SetToSeq(slugs)
<1>1. named \in Seq(slugs) /\ Range(named) = slugs
  BY SetToSeqIs DEF Named
<1> HIDE DEF named
<1>2. list \in Seq(S) /\ named \in Seq(S)
  BY <1>1
<1> HIDE DEF S
<1>3. CASE adding
  <2> DEFINE after == Extended(list, named)
  <2>1. after \in Seq(S) /\ Range(after) \subseteq Range(list) \union slugs /\ Keys(after) = Keys(list) \union Keys(named)
    BY <1>1, <1>2, ExtendedIs
  <2>2. Compute(list, adding, slugs) = after
    BY <1>3 DEF Compute, named
  <2> HIDE DEF after
  <2>3. Blank \notin Range(after)
    BY <2>1 DEF Named
  <2>4. Keys(named) = {SlugKey(d) : d \in slugs}
    BY <1>1, KeysAre
  <2>5. after \in Seq(Range(after))
    BY <2>1, InRange
  <2> QED BY <1>3, <2>1, <2>2, <2>3, <2>4, <2>5 DEF Edited
<1>4. CASE ~adding
  <2> DEFINE after == Drop(list, slugs)
  <2>1. after \in Seq(S) /\ Range(after) \subseteq Range(list) /\ Keys(after) = Keys(list) \ {SlugKey(d) : d \in slugs}
    BY <1>2, DropIs
  <2>2. Compute(list, adding, slugs) = after
    BY <1>4 DEF Compute
  <2> HIDE DEF after
  <2>3. Blank \notin Range(after)
    BY <2>1
  <2>5. after \in Seq(Range(after))
    BY <2>1, InRange
  <2> QED BY <1>4, <2>1, <2>2, <2>3, <2>5 DEF Edited
<1> QED BY <1>3, <1>4

LEMMA CurrentIs ==
    ASSUME NEW settings, Listed(settings)
    PROVE  LET list == Current(settings) IN list \in Seq(Range(list)) /\ Blank \notin Range(list)
<1>1. CASE ExtraRepos \in DOMAIN settings
  <2> DEFINE items == settings[ExtraRepos].items
             list == SplitCsv(items)
  <2>1. items \in Seq(Range(items))
    BY <1>1 DEF Listed
  <2>2. Current(settings) = list
    BY <1>1 DEF Current, ConfigListValue
  <2> HIDE DEF items
  <2>3. list \in Seq(Range(items)) /\ Range(list) = Range(items) \ {Blank}
    BY <2>1, SplitIs
  <2> HIDE DEF list
  <2>4. list \in Seq(Range(list)) /\ Blank \notin Range(list)
    BY <2>3, InRange
  <2> QED BY <2>2, <2>4
<1>2. CASE ExtraRepos \notin DOMAIN settings
  <2>1. Current(settings) = <<>>
    BY <1>2 DEF Current
  <2>2. <<>> \in Seq(Range(<<>>)) /\ Range(<<>>) = {}
    BY DEF Range
  <2> QED BY <2>1, <2>2
<1> QED BY <1>1, <1>2

\* What a writer would put in the file is a list it could edit again.
LEMMA EditInPlaceIs ==
    ASSUME NEW settings, Listed(settings), NEW after, after \in Seq(Range(after)), NEW adding, NEW slugs,
           NEW put, put = Put(ExtraRepos, EditInPlace(settings, after, adding, slugs), settings)
    PROVE  Listed(put) /\ Editable(put)
<1> DEFINE e == EditInPlace(settings, after, adding, slugs)
           old == settings[ExtraRepos].items
           kept == IF adding THEN old ELSE Drop(old, slugs)
<1>1. ExtraRepos \in DOMAIN put /\ put[ExtraRepos] = e
  BY DEF Put, Over
<1>2. e.shape = "array"
  BY DEF EditInPlace
<1>3. e.items \in Seq(Range(e.items))
  <2>1. CASE ExtraRepos \in DOMAIN settings /\ settings[ExtraRepos].shape = "array"
    <3> DEFINE S == Range(old) \union Range(after)
    <3>1. e.items = Extended(kept, after)
      BY <2>1 DEF EditInPlace
    <3>2. old \in Seq(Range(old))
      BY <2>1 DEF Listed
    <3> HIDE DEF e, old
    <3>3. old \in Seq(S) /\ after \in Seq(S)
      BY <3>2
    <3> HIDE DEF S
    <3>4. kept \in Seq(S)
      BY <3>3, DropIs
    <3> HIDE DEF kept
    <3>5. Extended(kept, after) \in Seq(S)
      BY <3>3, <3>4, ExtendedIs
    <3> QED BY <3>1, <3>5, InRange
  <2>2. CASE ~(ExtraRepos \in DOMAIN settings /\ settings[ExtraRepos].shape = "array")
    <3>1. e.items = after
      BY <2>2 DEF EditInPlace
    <3> QED BY <3>1
  <2> QED BY <2>1, <2>2
<1> HIDE DEF e
<1> QED BY <1>1, <1>2, <1>3 DEF Listed, Editable

-----------------------------------------------------------------------------
(* What a process makes of the file *)

\* Whether a higher layer hides the list of the file is the same for every file.
LEMMA ShadowedIs ==
    ASSUME NEW tree, NEW env, NEW dot
    PROVE  ShadowingLayer(LoadEnvLayers(tree, env, dot)) <=> ~IsBlank(Value(Below(env, dot), ExtraRepos))
<1> DEFINE l == LoadEnvLayers(tree, env, dot)
           below == Below(env, dot)
           read == Settings(ReadOverride(tree, ResolveConfigPath(below)))
           applied == LoadSettings(tree, below, read).applied
<1>1. /\ l.environ = Over(applied, below)
      /\ DOMAIN l.provenance = {x \in DOMAIN l.environ : ~IsBlank(l.environ[x])}
      /\ \A x \in DOMAIN l.provenance :
            l.provenance[x] = IF x \in DOMAIN applied THEN "config.toml"
                              ELSE IF x \in DOMAIN dot \ DOMAIN env THEN ".env" ELSE "env"
  BY LayersAre
<1>2. IsBlank(<<>>)
  BY DEF IsBlank
<1>3. ExtraRepos \in DOMAIN applied => IsBlank(Value(below, ExtraRepos))
  BY AppliedIs
<1> HIDE DEF l, below, read, applied
<1>4. CASE ExtraRepos \in DOMAIN applied
  <2>1. ExtraRepos \in DOMAIN l.provenance => l.provenance[ExtraRepos] = "config.toml"
    BY <1>1, <1>4
  <2>2. ~ShadowingLayer(l)
    BY <2>1 DEF ShadowingLayer
  <2> QED BY <1>3, <1>4, <2>2 DEF l, below
<1>5. CASE ExtraRepos \notin DOMAIN applied
  <2>1. ExtraRepos \in DOMAIN l.environ <=> ExtraRepos \in DOMAIN below
    BY <1>1, <1>5 DEF Over
  <2>2. ExtraRepos \in DOMAIN below => l.environ[ExtraRepos] = below[ExtraRepos]
    BY <1>1, <1>5 DEF Over
  <2>3. ExtraRepos \in DOMAIN l.provenance <=> ~IsBlank(Value(below, ExtraRepos))
    BY <1>1, <1>2, <2>1, <2>2 DEF Value
  <2>4. ExtraRepos \in DOMAIN l.provenance => l.provenance[ExtraRepos] \in {"env", ".env"}
    BY <1>1, <1>5
  <2> QED BY <2>3, <2>4 DEF ShadowingLayer, l, below
<1> QED BY <1>4, <1>5

LEMMA NothingIn ==
    ASSUME NEW S, NEW s \in Seq(S), Range(s) = {}
    PROVE  s = <<>>
<1>1. DOMAIN s = 1..Len(s) /\ Len(s) \in Nat
  OBVIOUS
<1>2. DOMAIN s = {}
  BY DEF Range
<1>3. Len(s) = 0
  <2> DEFINE n == Len(s)
  <2>1. 1..n = {} /\ n \in Nat
    BY <1>1, <1>2
  <2> HIDE DEF n
  <2>2. n = 0
    BY <2>1
  <2> QED BY <2>2 DEF n
<1> QED BY <1>3

LEMMA BlankSays ==
    ASSUME NEW value, IsBlank(value)
    PROVE  SplitCsv(value) = <<>>
<1>1. value \in Seq({Blank}) /\ Range(value) \subseteq {Blank}
  <2>1. value = <<>> \/ value = <<Blank>>
    BY DEF IsBlank
  <2>2. <<>> \in Seq({Blank}) /\ <<Blank>> \in Seq({Blank})
    OBVIOUS
  <2>3. value \in Seq({Blank})
    BY <2>1, <2>2
  <2> QED BY <2>3, InRange
<1>2. SplitCsv(value) \in Seq({Blank}) /\ Range(SplitCsv(value)) = {}
  <2>1. SplitCsv(value) \in Seq({Blank}) /\ Range(SplitCsv(value)) = Range(value) \ {Blank}
    BY <1>1, SplitIs
  <2> QED BY <1>1, <2>1
<1> QED BY <1>2, NothingIn

\* What a process makes of a file it can edit, where no higher layer hides it.
LEMMA FileSays ==
    ASSUME NEW tree, NEW env, NEW dot, NEW path, path = ResolveConfigPath(Below(env, dot)), path # Nowhere,
           NEW settings, settings = Settings(ReadTrustedConfig(tree, path)), Editable(settings),
           IsBlank(Value(Below(env, dot), ExtraRepos))
    PROVE  SplitCsv(Value(LoadEnvLayers(tree, env, dot).environ, ExtraRepos)) = Current(settings)
<1> DEFINE below == Below(env, dot)
           applied == LoadSettings(tree, below, settings).applied
           environ == LoadEnvLayers(tree, env, dot).environ
<1>1. environ = Over(applied, below)
  <2>1. ReadOverride(tree, path) = ReadTrustedConfig(tree, path)
    BY DEF ReadOverride
  <2> QED BY <2>1, LayersAre
<1>2. applied = [k \in {x \in DOMAIN settings : Applies(tree, below, x, settings[x])} |-> settings[k].items]
  BY DEF LoadSettings
<1> HIDE DEF below, applied, environ
<1>3. CASE ExtraRepos \in DOMAIN settings
  <2>1. settings[ExtraRepos].shape \in {"array", "csv"}
    BY <1>3 DEF Editable
  <2>2. Applies(tree, below, ExtraRepos, settings[ExtraRepos])
    BY <2>1, KeysDiffer DEF Applies, Coerced, Shadows, InvocationScoped, below
  <2>3. ExtraRepos \in DOMAIN applied /\ applied[ExtraRepos] = settings[ExtraRepos].items
    BY <1>2, <1>3, <2>2
  <2>4. Value(environ, ExtraRepos) = settings[ExtraRepos].items
    BY <1>1, <2>3 DEF Over, Value
  <2> QED BY <1>3, <2>4 DEF Current, ConfigListValue, environ
<1>4. CASE ExtraRepos \notin DOMAIN settings
  <2>1. ExtraRepos \notin DOMAIN applied
    BY <1>2, <1>4
  <2>2. Value(environ, ExtraRepos) = Value(below, ExtraRepos)
    BY <1>1, <2>1 DEF Over, Value
  <2>3. SplitCsv(Value(environ, ExtraRepos)) = <<>>
    BY <2>2, BlankSays DEF below
  <2> QED BY <1>4, <2>3 DEF Current, environ
<1> QED BY <1>3, <1>4

\* The effective repos, by their keys.
LEMMA EffectiveAre ==
    ASSUME NEW environ, NEW list, list = SplitCsv(Value(environ, ExtraRepos)), list \in Seq(Range(list)), NEW k
    PROVE  k \in Keys(EffectiveRepos(environ)) <=>
              /\ k \in Keys(DefaultRepos) \/ k \in Keys(list)
              /\ k \notin Keys(SplitCsv(Value(environ, TaintedRepos)))
<1> DEFINE S == Range(DefaultRepos) \union Range(list)
           all == DefaultRepos \o list
           slugs == DedupeSlugs(all)
           I == {i \in DOMAIN slugs : ~Tainted(environ, slugs[i])}
           out == Keys(SplitCsv(Value(environ, TaintedRepos)))
<1>1. DefaultRepos \in Seq(S) /\ list \in Seq(S)
  <2>1. DefaultRepos \in Seq(Range(DefaultRepos))
    BY EditAssumption
  <2> QED BY <2>1
<1>2. EffectiveRepos(environ) = Picked(slugs, I) /\ I \subseteq DOMAIN slugs
  BY DEF EffectiveRepos
<1> HIDE DEF S, I
<1>3. all \in Seq(S) /\ Range(all) = Range(DefaultRepos) \union Range(list)
  BY <1>1, RangeOfConcat
<1> HIDE DEF all
<1>4. slugs \in Seq(S) /\ Keys(slugs) = Keys(all)
  BY <1>3, DedupeIs
<1> HIDE DEF slugs
<1>5. Range(Picked(slugs, I)) = {slugs[i] : i \in I}
  BY <1>2, <1>4, PickedIs
<1>7. Keys(all) = Keys(DefaultRepos) \union Keys(list)
  BY <1>3, KeysAre
<1>8. Keys(Picked(slugs, I)) = {SlugKey(slugs[i]) : i \in I}
  BY <1>5, KeysAre
<1>9. {SlugKey(slugs[i]) : i \in I} = {x \in Keys(slugs) : x \notin out}
  BY DEF I, Tainted, Keys
<1> HIDE DEF out
<1> QED BY <1>2, <1>4, <1>7, <1>8, <1>9 DEF out

-----------------------------------------------------------------------------
(* A file put where the walk leads *)

\* Two trees with the same links, the second with no directory less.
SameLinks(tree, g) ==
    \A l : /\ IsLink(g, l) <=> IsLink(tree, l)
           /\ IsLink(tree, l) => g[l] = tree[l]
           /\ IsA(tree, l, "dir") => IsA(g, l, "dir")

\* A walk that meets no problem is the same walk where there are more directories.
LEMMA SameWalk ==
    ASSUME NEW tree, IsTree(tree), NEW g, IsTree(g), SameLinks(tree, g), NEW path \in Path, ~Walk(tree, path).problem
    PROVE  Walk(g, path) = Walk(tree, path)
<1> DEFINE f == Walked(tree, path)
           h == Walked(g, path)
           P == {n \in 0..MaxSteps : h[n] = f[n]}
<1>1. /\ Walk(tree, path) = f[MaxSteps] /\ f[0] = WalkFrom(path)
      /\ \A n \in 0..MaxSteps : n # MaxSteps => f[n + 1] = WalkNext(tree, f[n])
  BY WalkIs
<1>2. /\ Walk(g, path) = h[MaxSteps] /\ h[0] = WalkFrom(path)
      /\ \A n \in 0..MaxSteps : n # MaxSteps => h[n + 1] = WalkNext(g, h[n])
  BY WalkIs
<1>3. \A n \in 0..MaxSteps : OnItsWay(tree, f[n], n) /\ LeadsOn(f[n], f[MaxSteps])
  BY TheWalk
<1> HIDE DEF f, h
<1>4. /\ MaxSteps \in Nat /\ MaxSteps \in 0..MaxSteps /\ 0 \in 0..MaxSteps /\ 0 \in Nat
      /\ \A n \in 0..MaxSteps : n \in Nat /\ n <= MaxSteps /\ n \in 0..MaxSteps /\ (n # MaxSteps => n + 1 \in 0..MaxSteps)
  BY TokensDiffer
<1>5. 0 \in P
  BY <1>1, <1>2, <1>4
<1>6. ASSUME NEW n \in 0..MaxSteps, n # MaxSteps, n \in P PROVE n + 1 \in P
  <2> DEFINE w == f[n]
             v == f[n + 1]
             name == Head(w.pending)
             current == Append(w.resolved, name)
  <2>1. /\ n \in Nat /\ n + 1 \in 0..MaxSteps /\ OnItsWay(tree, w, n) /\ v = WalkNext(tree, w) /\ h[n + 1] = WalkNext(g, w)
        /\ ~w.problem /\ ~v.problem
    BY <1>1, <1>2, <1>3, <1>4, <1>6 DEF LeadsOn
  <2> HIDE DEF w, v
  <2>2. CASE w.pending = <<>>
    <3>1. h[n + 1] = v
      BY <2>1, <2>2 DEF WalkNext
    <3> QED BY <3>1, <2>1 DEF v
  <2>3. CASE w.pending # <<>>
    <3>1. v = WalkStep(tree, w) /\ h[n + 1] = WalkStep(g, w)
      BY <2>1, <2>3 DEF WalkNext
    <3>2. WalkMoves(tree, w, v) /\ name \in Tokens /\ w.resolved \in Location
      BY <2>1, <2>3, OneStepOn
    <3>3. IsDir(tree, w.resolved) => IsDir(g, w.resolved)
      <4>1. Clear(tree, w.resolved) /\ Len(w.resolved) <= n /\ Len(w.resolved) \in Nat
        BY <2>1, <3>2, TokensDiffer, RootIs DEF OnItsWay
      <4>2. Len(w.resolved) <= MaxSteps
        BY <4>1, <1>4
      <4>3. Clear(g, w.resolved)
        BY <4>1 DEF Clear, SameLinks
      <4>4. IsA(tree, w.resolved, "dir") => IsA(g, w.resolved, "dir")
        BY DEF SameLinks
      <4> QED BY <3>2, <4>1, <4>2, <4>3, <4>4, Straight
    <3>4. IsLink(g, current) <=> IsLink(tree, current)
      BY DEF SameLinks
    <3>5. IsLink(tree, current) => g[current] = tree[current]
      BY DEF SameLinks
    <3> HIDE DEF current, name
    <3>6. CASE name = MustBeDir
      <4>1. NeedsDir(tree, w, name) => IsDir(tree, w.resolved)
        BY <2>1, <3>2, <3>6 DEF WalkMoves, name
      <4>2. NeedsDir(g, w, name) <=> NeedsDir(tree, w, name)
        BY DEF NeedsDir
      <4>3. (NeedsDir(g, w, name) /\ ~IsDir(g, w.resolved)) <=> (NeedsDir(tree, w, name) /\ ~IsDir(tree, w.resolved))
        BY <4>1, <4>2, <3>3
      <4>4. WalkStep(g, w) = WalkStep(tree, w)
        BY <4>3, <3>6 DEF WalkStep, name
      <4> QED BY <4>4, <3>1, <2>1 DEF v
    <3>7. CASE name = Up
      <4>1. IsDir(tree, w.resolved)
        BY <2>1, <3>2, <3>7 DEF WalkMoves, name
      <4>3. (NeedsDir(g, w, name) /\ ~IsDir(g, w.resolved)) <=> (NeedsDir(tree, w, name) /\ ~IsDir(tree, w.resolved))
        BY <4>1, <3>3
      <4>4. WalkStep(g, w) = WalkStep(tree, w)
        BY <4>3, <3>7, TokensDiffer DEF WalkStep, name
      <4> QED BY <4>4, <3>1, <2>1 DEF v
    <3>8. CASE name \in STRING
      <4>1. name # MustBeDir /\ name # Up
        BY <3>8, TokensDiffer
      <4>2. CASE IsLink(tree, current)
        <5>1. \A s : Follow(g, s, current, Tail(w.pending)) = Follow(tree, s, current, Tail(w.pending))
          BY <3>5, <4>2 DEF Follow
        <5>2. WalkStep(g, w) = WalkStep(tree, w)
          BY <5>1, <4>1, <4>2, <3>4 DEF WalkStep, name, current
        <5> QED BY <5>2, <3>1, <2>1 DEF v
      <4>3. CASE ~IsLink(tree, current)
        <5>1. WalkStep(g, w) = WalkStep(tree, w)
          BY <4>1, <4>3, <3>4 DEF WalkStep, name, current
        <5> QED BY <5>1, <3>1, <2>1 DEF v
      <4> QED BY <4>2, <4>3
    <3> QED BY <3>2, <3>6, <3>7, <3>8 DEF Tokens
  <2> QED BY <2>2, <2>3
<1>7. MaxSteps \in P
  <2> HIDE DEF P
  <2>1. \A n \in 0..MaxSteps : n # MaxSteps /\ n \in P => n + 1 \in P
    BY <1>6
  <2>2. \A n \in 0..MaxSteps : n \in P
    BY <1>4, <1>5, <2>1, EveryStep, Zenon
  <2> QED BY <2>2, <1>4
<1> QED BY <1>1, <1>2, <1>7

\* With one file more, or another in its place, a path leads where it did or to that file.
LeadsAside(tree, g, path, t) ==
    LET at == Kernel(g, path)
    IN  at = t \/ at = Nowhere \/ at = Root \/ (at \in DOMAIN tree /\ at = Kernel(tree, path))

LEMMA OneFileMore ==
    ASSUME NEW tree, IsTree(tree), NEW t \in Location, t # Root, ~IsA(tree, t, "dir"), ~IsLink(tree, t),
           NEW entry, entry.kind = "file", NEW g, g = Put(t, entry, tree), NEW path \in Path
    PROVE  LeadsAside(tree, g, path, t)
<1> DEFINE at == Kernel(g, path)
           h == Looked(g, path)
           k == Looked(tree, path)
           gone(n) == h[n].at = Nowhere /\ h[n].pending = <<>>
           same(n) == h[n] = k[n] /\ (h[n].at = Root \/ h[n].at \in DOMAIN tree)
           P == {n \in 0..MaxSteps : gone(n) \/ (h[n] \in KernelState /\ h[n].at = t) \/ same(n)}
<1>1. /\ KernelRun(g, path) = h[MaxSteps] /\ h[0] = KernelFrom(path)
      /\ \A n \in 0..MaxSteps : n # MaxSteps => h[n + 1] = KernelNext(g, h[n])
  BY LookupIs
<1>2. /\ KernelRun(tree, path) = k[MaxSteps] /\ k[0] = KernelFrom(path)
      /\ \A n \in 0..MaxSteps : n # MaxSteps => k[n + 1] = KernelNext(tree, k[n])
  BY LookupIs
<1>3. \A n \in 0..MaxSteps : Beside(k[n], Walked(tree, path)[n])
  BY TheLookup
<1> HIDE DEF h, k
<1>4. /\ MaxSteps \in Nat /\ MaxSteps \in 0..MaxSteps /\ 0 \in 0..MaxSteps /\ 0 \in Nat
      /\ \A n \in 0..MaxSteps : n \in Nat /\ n \in 0..MaxSteps /\ (n # MaxSteps => n + 1 \in 0..MaxSteps)
  BY TokensDiffer
<1>5. DOMAIN g = DOMAIN tree \union {t} /\ g[t] = entry /\ \A l \in DOMAIN tree : l # t => g[l] = tree[l]
  BY DEF Put, Over
<1>6. \A l : /\ IsA(g, l, "dir") <=> IsA(tree, l, "dir")
             /\ IsLink(g, l) <=> IsLink(tree, l)
             /\ IsLink(tree, l) => g[l] = tree[l]
  BY <1>5 DEF IsA, IsLink
<1>7. 0 \in P
  <2>1. h[0] = k[0] /\ h[0].at = Root
    BY <1>1, <1>2 DEF KernelFrom
  <2> QED BY <2>1, <1>4
<1>8. ASSUME NEW n \in 0..MaxSteps, n # MaxSteps, n \in P PROVE n + 1 \in P
  <2> DEFINE a == h[n]
             b == h[n + 1]
  <2>1. n + 1 \in 0..MaxSteps /\ b = KernelNext(g, a)
    BY <1>1, <1>4, <1>8
  <2>2. CASE a.pending = <<>>
    <3>1. b = a
      BY <2>1, <2>2 DEF KernelNext
    <3>2. k[n].pending = <<>> => k[n + 1] = k[n]
      BY <1>2, <1>8 DEF KernelNext
    <3>3. same(n) => same(n + 1)
      BY <3>1, <3>2, <2>2
    <3> QED BY <2>1, <3>1, <3>3, <1>8
  <2>3. CASE a.pending # <<>>
    <3> DEFINE name == Head(a.pending)
               here == Append(a.at, name)
               j == k[n + 1]
    <3>1. a \in KernelState /\ a.at \in Location /\ (a.at = t \/ same(n)) /\ b = KernelStep(g, a)
      <4>1. a.at = t \/ same(n)
        BY <1>8, <2>3
      <4>2. same(n) => a \in KernelState /\ a.at \in Location
        BY <1>3, <2>3, TokensDiffer DEF Beside
      <4>3. b = KernelStep(g, a)
        BY <2>1, <2>3 DEF KernelNext
      <4>4. a.at = t => a \in KernelState
        BY <1>8, <2>3, <4>2
      <4> QED BY <4>1, <4>2, <4>3, <4>4
    <3>2. name \in Tokens
      BY <3>1, <2>3, HeadTailAre DEF KernelState
    <3>3. b \in KernelState /\ KernelMoves(g, a, b)
      <4>1. \A x \in Location : x = Append(a.at, Head(a.pending)) /\ IsLink(g, x) => Parts(g[x]) \in Seq(Tokens)
        BY <1>6, LinkIs
      <4> HIDE DEF a, b
      <4> QED BY <2>3, <3>1, <4>1, KernelStepIs
    <3>4. CASE ~IsA(g, a.at, "dir")
      <4>1. gone(n + 1)
        BY <3>3, <3>4 DEF KernelMoves
      <4> QED BY <4>1, <2>1
    <3>5. CASE IsA(g, a.at, "dir")
      <4>1. IsA(tree, a.at, "dir") /\ a.at # t
        BY <1>6, <3>5
      <4>2. a = k[n] /\ (a.at = Root \/ a.at \in DOMAIN tree) /\ j = KernelStep(tree, a)
        BY <1>2, <1>8, <2>3, <3>1, <4>1 DEF KernelNext
      <4> HIDE DEF a, b, j, here, name
      <4>3. CASE name = MustBeDir \/ name = Up
        <5>1. KernelStep(g, a) = KernelStep(tree, a)
          BY <3>5, <4>1, <4>3, TokensDiffer DEF KernelStep, name
        <5>2. b.at = a.at \/ b.at = Parent(a.at)
          BY <3>3, <3>5, <4>3 DEF KernelMoves, name
        <5>3. Parent(a.at) = Root \/ Parent(a.at) \in DOMAIN tree
          BY <4>2, RootIs DEF IsTree, IsA
        <5>4. b = j /\ (b.at = Root \/ b.at \in DOMAIN tree)
          BY <3>1, <4>2, <5>1, <5>2, <5>3
        <5> QED BY <5>4, <2>1 DEF b, j
      <4>4. CASE name \in STRING /\ IsLink(tree, here)
        <5>1. name # MustBeDir /\ name # Up /\ IsLink(g, here) /\ g[here] = tree[here]
          BY <4>4, <1>6, TokensDiffer
        <5>2. KernelStep(g, a) = KernelStep(tree, a)
          BY <3>5, <4>1, <4>4, <5>1 DEF KernelStep, name, here
        <5>3. b.at = Root \/ b.at = a.at \/ (b.at = Nowhere /\ b.pending = <<>>)
          <6>1. CASE a.hops = KernelHops
            BY <3>3, <3>5, <4>4, <5>1, <6>1 DEF KernelMoves, name, here
          <6>2. CASE a.hops # KernelHops
            BY <3>3, <3>5, <4>4, <5>1, <6>2 DEF KernelMoves, name, here
          <6> QED BY <6>1, <6>2
        <5>4. (b = j /\ (b.at = Root \/ b.at \in DOMAIN tree)) \/ (b.at = Nowhere /\ b.pending = <<>>)
          BY <3>1, <4>2, <5>2, <5>3
        <5> QED BY <5>4, <2>1 DEF b, j
      <4>5. CASE name \in STRING /\ ~IsLink(tree, here)
        <5>1. name # MustBeDir /\ name # Up /\ ~IsLink(g, here)
          BY <4>5, <1>6, TokensDiffer
        <5>2. CASE here \in DOMAIN tree
          <6>1. here \in DOMAIN g
            BY <1>5, <5>2
          <6>2. KernelStep(g, a) = KernelStep(tree, a)
            BY <3>5, <4>1, <4>5, <5>1, <5>2, <6>1 DEF KernelStep, name, here
          <6>3. b.at = here
            BY <3>3, <3>5, <4>5, <5>1, <6>1 DEF KernelMoves, name, here
          <6>4. b = j /\ b.at \in DOMAIN tree
            BY <3>1, <4>2, <5>2, <6>2, <6>3
          <6> QED BY <6>4, <2>1 DEF b, j
        <5>3. CASE here \notin DOMAIN tree /\ here = t
          <6>1. b.at = t
            BY <1>5, <3>3, <3>5, <4>5, <5>1, <5>3 DEF KernelMoves, name, here
          <6> QED BY <6>1, <3>3, <2>1 DEF b
        <5>4. CASE here \notin DOMAIN tree /\ here # t
          <6>1. b.at = Nowhere /\ b.pending = <<>>
            BY <1>5, <3>3, <3>5, <4>5, <5>1, <5>4 DEF KernelMoves, name, here
          <6> QED BY <6>1, <2>1 DEF b
        <5> QED BY <5>2, <5>3, <5>4
      <4> QED BY <3>2, <4>3, <4>4, <4>5 DEF Tokens
    <3> QED BY <3>4, <3>5
  <2> QED BY <2>2, <2>3
<1>9. MaxSteps \in P
  <2> HIDE DEF P
  <2>1. \A n \in 0..MaxSteps : n # MaxSteps /\ n \in P => n + 1 \in P
    BY <1>8
  <2>2. \A n \in 0..MaxSteps : n \in P
    BY <1>4, <1>7, <2>1, EveryStep, Zenon
  <2> QED BY <2>2, <1>4
<1>10. at = Arrived(h[MaxSteps])
  BY <1>1 DEF Kernel
<1>11. Kernel(tree, path) = Arrived(k[MaxSteps])
  BY <1>2 DEF Kernel
<1> HIDE DEF at
<1>12. at = t \/ at = Nowhere \/ at = Root \/ (at \in DOMAIN tree /\ at = Kernel(tree, path))
  BY <1>9, <1>10, <1>11 DEF Arrived
<1> QED BY <1>12 DEF LeadsAside, at

\* What a process reads is the file the walk leads to.
LEMMA ReadIs ==
    ASSUME NEW tree, IsTree(tree), NEW path \in Path, NEW read, read = ReadTrustedConfig(tree, path), read.outcome = "read"
    PROVE  LET t == LookupTarget(tree, path)
           IN  t \in DOMAIN tree /\ tree[t].kind = "file" /\ read.data = tree[t].data
<1> DEFINE at == Kernel(tree, path)
<1>1. read = ReadAt(tree, path, at)
  BY DEF ReadTrustedConfig
<1>2. Outcome("missing").outcome # "read" /\ Outcome("untrusted").outcome # "read"
  BY DEF Outcome
<1>3. at # Nowhere => LookupTarget(tree, path) = at
  BY LookupAgrees
<1> HIDE DEF at
<1>4. at # Nowhere /\ IsA(tree, at, "file") /\ read.data = tree[at].data
  <2>1. at # Nowhere
    BY <1>1, <1>2 DEF ReadAt
  <2>2. IsA(tree, at, "file") /\ ~(PathRefused(tree, path) \/ ~tree[at].safe)
    BY <1>1, <1>2, <2>1 DEF ReadAt
  <2>3. read = [outcome |-> "read", data |-> tree[at].data]
    BY <1>1, <2>1, <2>2 DEF ReadAt
  <2> QED BY <2>1, <2>2, <2>3
<1>5. at \in DOMAIN tree /\ tree[at].kind = "file"
  BY <1>4 DEF IsA
<1> QED BY <1>3, <1>4, <1>5

\* Readers trust the way to t, and it is one they can take once the file is there.
Open(tree, path, t) ==
    ~PathRefused(tree, path) /\ Walk(tree, path).hops <= KernelHops /\ IsA(tree, Parent(t), "dir")

IsPut(tree, g, path, t, settings) ==
    /\ IsTree(g) /\ SameLinks(tree, g) /\ Walk(g, path) = Walk(tree, path) /\ t \in Location /\ t # Root /\ t \in DOMAIN g
    /\ g[t] = WrittenTo(settings, TRUE) /\ \A l \in DOMAIN tree : l # t => l \in DOMAIN g /\ g[l] = tree[l]

LEMMA PutIs ==
    ASSUME NEW tree, IsTree(tree), NEW path \in Path, NEW t, t = LookupTarget(tree, path), t # Nowhere,
           ~IsA(tree, t, "dir"), IsA(tree, Parent(t), "dir"), NEW settings, NEW g, g = Put(t, WrittenTo(settings, TRUE), tree)
    PROVE  IsPut(tree, g, path, t, settings)
<1> DEFINE new == WrittenTo(settings, TRUE)
<1>1. t \in Location /\ ~IsLink(tree, t) /\ t # Root /\ ~Walk(tree, path).problem
  BY EndsClear DEF IsA
<1>2. new.kind = "file" /\ new.to \in Path /\ {new.absolute, new.slash} \subseteq BOOLEAN
  <2>1. <<>> \in Path
    BY TokensDiffer DEF Root
  <2> QED BY <2>1 DEF WrittenTo, Directory
<1>3. DOMAIN g = DOMAIN tree \union {t} /\ g[t] = new /\ \A l \in DOMAIN tree : l # t => g[l] = tree[l]
  BY DEF Put, Over
<1> HIDE DEF new
<1>4. IsTree(g)
  <2>1. IsTree(Put(t, new, tree))
    <3>1. new.kind \in {"file", "link"}
      BY <1>2
    <3> QED BY <1>1, <1>2, <3>1, PutKeepsTree
  <2> QED BY <2>1 DEF new
<1>5. SameLinks(tree, g)
  BY <1>1, <1>2, <1>3 DEF SameLinks, IsA, IsLink
<1>6. Walk(g, path) = Walk(tree, path)
  BY <1>1, <1>4, <1>5, SameWalk
<1> QED BY <1>1, <1>3, <1>4, <1>5, <1>6 DEF new, IsPut

Stays(g, path, t) == LookupTarget(g, path) = t /\ Open(g, path, t)

TakenIn(g, path, t, settings) ==
    LookupTarget(g, path) = t /\ Open(g, path, t) /\ Settings(ReadTrustedConfig(g, path)) = settings

\* A writer that may be trusted leaves a file that readers trust.
LEMMA StaysOpen ==
    ASSUME NEW tree, IsTree(tree), NEW path \in Path, NEW t, t = LookupTarget(tree, path), t # Nowhere,
           ~IsA(tree, t, "dir"), Open(tree, path, t), NEW settings, NEW g, g = Put(t, WrittenTo(settings, TRUE), tree)
    PROVE  Stays(g, path, t)
<1>1. /\ IsTree(g) /\ SameLinks(tree, g) /\ Walk(g, path) = Walk(tree, path) /\ t \in Location /\ t # Root /\ t \in DOMAIN g
      /\ g[t] = WrittenTo(settings, TRUE) /\ \A l \in DOMAIN tree : l # t => l \in DOMAIN g /\ g[l] = tree[l]
  <2>1. IsA(tree, Parent(t), "dir")
    BY DEF Open
  <2>2. IsPut(tree, g, path, t, settings)
    BY <2>1, PutIs, Zenon
  <2> QED BY <2>2 DEF IsPut
<1>2. LookupTarget(g, path) = t
  BY <1>1 DEF LookupTarget
<1>3. ResolutionChain(g, path) = ResolutionChain(tree, path)
  BY <1>1 DEF ResolutionChain
<1>4. ~LinkRefused(tree, path) /\ ~ParentRefused(tree, path, t)
  BY DEF Open, PathRefused, TargetRefused
<1>5. ~LinkRefused(g, path)
  BY <1>1, <1>3, <1>4 DEF LinkRefused, SameLinks
<1>6. HoldingDirs(g, path, t) = HoldingDirs(tree, path, t)
  BY <1>3 DEF HoldingDirs
<1>7. HoldingDirs(tree, path, t) \subseteq Path
  <2>1. ResolutionChain(tree, path) \subseteq Location
    <3>1. MaxSteps \in 0..MaxSteps
      BY TokensDiffer
    <3>2. Walk(tree, path) = Walked(tree, path)[MaxSteps] /\ OnItsWay(tree, Walked(tree, path)[MaxSteps], MaxSteps)
      BY <3>1, WalkIs, TheWalk
    <3> QED BY <3>2 DEF ResolutionChain, OnItsWay, WalkState
  <2>2. \A l \in Location : Ancestors(l) \subseteq Location
    <3> SUFFICES ASSUME NEW l \in Location, NEW n \in 0..Len(l) - 1 PROVE SubSeq(l, 1, n) \in Location
      BY DEF Ancestors
    <3>1. n \in 0..Len(l)
      BY RootIs
    <3> QED BY <3>1, ParentIs
  <2>3. Parent(Lexical(path)) \in Location
    BY LexicalIs, ParentIs
  <2> QED BY <1>1, <2>1, <2>2, <2>3, TokensDiffer DEF HoldingDirs
<1>8. WrittenTo(settings, TRUE).safe = TRUE /\ WrittenTo(settings, TRUE).kind = "file"
  BY DEF WrittenTo, Directory
<1>9. ~ParentRefused(g, path, t)
  <2> SUFFICES ASSUME NEW d \in HoldingDirs(tree, path, t), NEW at, at = Kernel(g, d), at \notin {Nowhere, Root}
               PROVE  g[at].safe
    BY <1>6 DEF ParentRefused
  <2>1. ~IsLink(tree, t)
    BY EndsClear
  <2>2. at = t \/ (at \in DOMAIN tree /\ at = Kernel(tree, d))
    <3> DEFINE new == WrittenTo(settings, TRUE)
    <3>1. new.kind = "file" /\ g = Put(t, new, tree) /\ t \in Location /\ t # Root /\ d \in Path
      BY <1>1, <1>7, <1>8
    <3> HIDE DEF new
    <3>2. LeadsAside(tree, g, d, t)
      BY <2>1, <3>1, OneFileMore, Zenon
    <3> QED BY <3>2 DEF LeadsAside
  <2>3. CASE at = t
    BY <1>1, <1>8, <2>3
  <2>4. CASE at # t
    <3>1. tree[at].safe
      BY <1>4, <2>2, <2>4 DEF ParentRefused
    <3> QED BY <1>1, <2>2, <2>4, <3>1
  <2> QED BY <2>3, <2>4
<1>10. ~PathRefused(g, path)
  <2>1. t # Nowhere
    OBVIOUS
  <2> QED BY <1>2, <1>5, <1>9, <2>1 DEF PathRefused, TargetRefused
<1>11. IsA(g, Parent(t), "dir")
  BY <1>1 DEF Open, SameLinks
<1> QED BY <1>1, <1>2, <1>10, <1>11 DEF Open, Stays

LEMMA WrittenIsRead ==
    ASSUME NEW tree, IsTree(tree), NEW path \in Path, NEW t, t = LookupTarget(tree, path), t # Nowhere,
           ~IsA(tree, t, "dir"), Open(tree, path, t), NEW settings, NEW g, g = Put(t, WrittenTo(settings, TRUE), tree)
    PROVE  TakenIn(g, path, t, settings)
<1>1. /\ IsTree(g) /\ SameLinks(tree, g) /\ t \in Location /\ t # Root /\ t \in DOMAIN g
      /\ g[t] = WrittenTo(settings, TRUE) /\ \A l \in DOMAIN tree : l # t => l \in DOMAIN g /\ g[l] = tree[l]
  <2>1. IsA(tree, Parent(t), "dir")
    BY DEF Open
  <2>2. IsPut(tree, g, path, t, settings)
    BY <2>1, PutIs, Zenon
  <2> QED BY <2>2 DEF IsPut
<1>0. LookupTarget(g, path) = t /\ Open(g, path, t)
  <2>1. Stays(g, path, t)
    BY StaysOpen, Zenon
  <2> QED BY <2>1 DEF Stays
<1>2. ~PathRefused(g, path)
  BY <1>0 DEF Open
<1>3. Reaches(tree, g, t)
  <2>1. \A l \in Ancestors(t) : IsA(g, l, "dir")
    BY <1>1, TreePrefix DEF Ancestors
  <2>2. \A l \in Ancestors(t) : l # Root => l \in DOMAIN g
    BY <2>1 DEF IsA
  <2>3. \A l \in DOMAIN tree : l \in DOMAIN g
    BY <1>1
  <2> QED BY <1>1, <2>1, <2>2, <2>3 DEF Reaches, SameLinks
<1>4. Kernel(g, path) = t
  BY <1>3, LeadsOnTo DEF Open
<1>5. /\ WrittenTo(settings, TRUE).kind = "file" /\ WrittenTo(settings, TRUE).safe = TRUE
      /\ WrittenTo(settings, TRUE).data = [whole |-> TRUE, settings |-> settings]
  BY DEF WrittenTo, Directory
<1>6. t # Nowhere /\ IsA(g, t, "file") /\ g[t].safe
  BY <1>1, <1>5 DEF IsA
<1>7. ReadTrustedConfig(g, path) = [outcome |-> "read", data |-> g[t].data]
  BY <1>2, <1>4, <1>6 DEF ReadTrustedConfig, ReadAt
<1>8. ReadTrustedConfig(g, path) = [outcome |-> "read", data |-> [whole |-> TRUE, settings |-> settings]]
  BY <1>1, <1>5, <1>7
<1> DEFINE read == ReadTrustedConfig(g, path)
           data == [whole |-> TRUE, settings |-> settings]
<1>9. read.outcome = "read" /\ read.data.whole /\ read.data.settings = settings
  <2>1. data.whole = TRUE /\ data.settings = settings
    OBVIOUS
  <2>2. read.outcome = "read" /\ read.data = data
    <3>1. read = [outcome |-> "read", data |-> data]
      BY <1>8
    <3> HIDE DEF data, read
    <3> QED BY <3>1
  <2> QED BY <2>1, <2>2
<1> HIDE DEF read
<1>10. Settings(read) = settings
  BY <1>9 DEF Settings
<1> QED BY <1>10, <1>0 DEF read, TakenIn


-----------------------------------------------------------------------------
(* An edit that stands is in the file. *)

Fields == {"at", "slugs", "path", "target", "shadowed", "read", "settings", "saw"}
Done == {"unchanged", "changed"}
Holding == {"vet", "mkdir", "ensure", "revet", "temp", "recheck", "replace"}
Going == Aiming \union {"aim"} \union Done

\* Where every process looks for the file, and what it reads there.
Place(env, dot) == ResolveConfigPath(Below(env, dot))
NowIn(tree, env, dot) == Settings(ReadTrustedConfig(tree, Place(env, dot)))

HasEdit(settings, slugs, adding) == \A s \in slugs : SlugKey(s) \in Keys(Current(settings)) <=> adding

\* What a writer was told holds of every file.
Told(r, env, dot) ==
    /\ DOMAIN r = Fields
    /\ r.at \in Going => /\ r.path = Place(env, dot) /\ r.path # Nowhere
                         /\ r.shadowed <=> ~IsBlank(Value(Below(env, dot), ExtraRepos))
                         /\ Named(r.slugs) /\ \A s \in r.slugs : ~IsDefault(s)

\* What it is about to write is its edit of what it read.
Plans(r, adding) ==
    /\ r.at \in Holding => Listed(r.read) /\ Listed(r.settings) /\ Editable(r.settings)
    /\ r.at \in {"recheck", "replace"} => Current(r.settings) = Compute(Current(r.read), adding, r.slugs)

\* What it read had the edits it saw.
Sees(r, all, told) ==
    r.at \in Holding => \A v \in r.saw : v \in Writer /\ all[v].at \in Done /\ HasEdit(r.read, all[v].slugs, told[v].adding)

Stands(v, all, told, now) ==
    v \in Writer /\ all[v].at \in Done /\ Editable(now) /\ HasEdit(now, all[v].slugs, told[v].adding)

OnTarget(r, tree, path) ==
    /\ r.at \in Aiming => LookupTarget(tree, path) = r.target
    /\ r.at = "replace" => Open(tree, path, r.target)

Lists(tree) == \A l \in DOMAIN tree : Whole(tree[l]) => Listed(tree[l].data.settings)
EditsTyped == \A w \in Writer : Named(edit[w].slugs) /\ edit[w].adding \in BOOLEAN
Informed == \A w \in Writer : Told(writer[w], real, dotenv) /\ Plans(writer[w], edit[w].adding) /\ Sees(writer[w], writer, edit)
Standing == \A v \in standing : Stands(v, writer, edit, NowIn(fs, real, dotenv))
Surely == \A w \in sure : w \in Writer /\ OnTarget(writer[w], fs, Place(real, dotenv))

EffectInv == Lists(fs) /\ EditsTyped /\ Informed /\ Standing /\ Surely

\* Nothing that ended is forgotten when another writer goes on.
LEMMA SeenStays ==
    ASSUME NEW r, NEW all, NEW told, NEW w, NEW s, DOMAIN all = Writer, all[w].at \notin Done, Sees(r, all, told)
    PROVE  Sees(r, [all EXCEPT ![w] = s], told)
<1> SUFFICES ASSUME r.at \in Holding, NEW v \in r.saw
             PROVE  LET b == [all EXCEPT ![w] = s]
                    IN  v \in Writer /\ b[v].at \in Done /\ HasEdit(r.read, b[v].slugs, told[v].adding)
  BY DEF Sees
<1>1. v \in Writer /\ all[v].at \in Done /\ HasEdit(r.read, all[v].slugs, told[v].adding)
  BY DEF Sees
<1>2. [all EXCEPT ![w] = s][v] = all[v]
  BY <1>1
<1> QED BY <1>1, <1>2

LEMMA StandsStays ==
    ASSUME NEW v, NEW all, NEW told, NEW w, NEW s, DOMAIN all = Writer, all[w].at \notin Done, NEW now, Stands(v, all, told, now)
    PROVE  Stands(v, [all EXCEPT ![w] = s], told, now)
<1>1. v \in Writer /\ all[v].at \in Done
  BY DEF Stands
<1>2. [all EXCEPT ![w] = s][v] = all[v]
  BY <1>1
<1> QED BY <1>2 DEF Stands

\* A writer that goes on knows what it has to.
LEMMA Informs ==
    ASSUME TreeInv, EffectInv, NEW w \in Writer, NEW s, writer[w].at \notin Done, writer' = [writer EXCEPT ![w] = s],
           UNCHANGED inputs, Told(s, real, dotenv), Plans(s, edit[w].adding), Sees(s, writer, edit)
    PROVE  EditsTyped' /\ Informed'
<1>1. DOMAIN writer = Writer
  BY DEF TreeInv
<1>2. real' = real /\ dotenv' = dotenv /\ edit' = edit
  BY DEF inputs
<1>3. EditsTyped'
  BY <1>2 DEF EffectInv, EditsTyped
<1>4. ASSUME NEW x \in Writer
      PROVE  Told(writer'[x], real, dotenv) /\ Plans(writer'[x], edit[x].adding) /\ Sees(writer'[x], writer', edit)
  <2>1. Told(writer[x], real, dotenv) /\ Plans(writer[x], edit[x].adding) /\ Sees(writer[x], writer, edit)
    BY DEF EffectInv, Informed
  <2>2. Sees(s, [writer EXCEPT ![w] = s], edit) /\ Sees(writer[x], [writer EXCEPT ![w] = s], edit)
    BY <1>1, <2>1, SeenStays
  <2>3. writer'[x] = IF x = w THEN s ELSE writer[x]
    BY <1>1
  <2> QED BY <2>1, <2>2, <2>3
<1> QED BY <1>2, <1>3, <1>4 DEF Informed

\* A step of a writer in which no file changes.
LEMMA StepKeeps ==
    ASSUME TreeInv, EffectInv, NEW w \in Writer, NEW s, writer[w].at \notin Done, writer' = [writer EXCEPT ![w] = s],
           UNCHANGED <<fs, inputs>>, Told(s, real, dotenv), Plans(s, edit[w].adding), Sees(s, writer, edit),
           standing' \subseteq standing \union {w}, sure' \subseteq sure \union {w},
           w \in standing' => s.at \in Done /\ Editable(NowIn(fs, real, dotenv))
                              /\ HasEdit(NowIn(fs, real, dotenv), s.slugs, edit[w].adding),
           w \in sure' => OnTarget(s, fs, Place(real, dotenv))
    PROVE  EffectInv'
<1>1. DOMAIN writer = Writer
  BY DEF TreeInv
<1>2. real' = real /\ dotenv' = dotenv /\ edit' = edit /\ fs' = fs
  BY DEF inputs
<1>3. EditsTyped' /\ Informed'
  BY Informs
<1>4. writer'[w] = s /\ \A x \in Writer : x # w => writer'[x] = writer[x]
  BY <1>1
<1>5. ASSUME NEW v \in standing' PROVE Stands(v, writer', edit, NowIn(fs, real, dotenv))
  <2>1. CASE v = w
    BY <1>4, <2>1, <1>5 DEF Stands
  <2>2. CASE v # w
    <3>1. Stands(v, writer, edit, NowIn(fs, real, dotenv))
      BY <2>2, <1>5 DEF EffectInv, Standing
    <3>2. Stands(v, [writer EXCEPT ![w] = s], edit, NowIn(fs, real, dotenv))
      BY <1>1, <3>1, StandsStays
    <3> QED BY <3>2
  <2> QED BY <2>1, <2>2
<1>6. ASSUME NEW x \in sure' PROVE x \in Writer /\ OnTarget(writer'[x], fs, Place(real, dotenv))
  <2>1. CASE x = w
    BY <1>4, <1>6, <2>1
  <2>2. CASE x # w
    BY <1>4, <1>6, <2>2 DEF EffectInv, Surely
  <2> QED BY <2>1, <2>2
<1>7. Lists(fs)
  BY DEF EffectInv
<1> QED BY <1>2, <1>3, <1>5, <1>6, <1>7 DEF EffectInv, Standing, Surely

\* A step that only takes a writer on.
LEMMA GoesOn ==
    ASSUME TreeInv, EffectInv, NEW w \in Writer, NEW to, NEW s, s = [writer[w] EXCEPT !.at = to],
           to \in Going => writer[w].at \in Going, to \in Holding => writer[w].at \in Holding,
           to \in {"recheck", "replace"} =>
              \/ writer[w].at \in {"recheck", "replace"}
              \/ Current(writer[w].settings) = Compute(Current(writer[w].read), edit[w].adding, writer[w].slugs)
    PROVE  /\ Told(s, real, dotenv) /\ Plans(s, edit[w].adding) /\ Sees(s, writer, edit) /\ s.at = to
           /\ s.path = writer[w].path /\ s.target = writer[w].target /\ s.slugs = writer[w].slugs
<1> DEFINE r == writer[w]
<1>1. Told(r, real, dotenv) /\ Plans(r, edit[w].adding) /\ Sees(r, writer, edit)
  BY DEF EffectInv, Informed
<1> HIDE DEF r
<1>2. DOMAIN r = Fields
  BY <1>1 DEF Told
<1>3. /\ s.at = to /\ DOMAIN s = Fields /\ s.path = r.path /\ s.target = r.target /\ s.slugs = r.slugs
      /\ s.shadowed = r.shadowed /\ s.read = r.read /\ s.settings = r.settings /\ s.saw = r.saw
  BY <1>2 DEF Fields, r
<1>4. Told(s, real, dotenv)
  BY <1>1, <1>3 DEF Told, r
<1>5. Plans(s, edit[w].adding)
  BY <1>1, <1>3 DEF Plans, r
<1>6. Sees(s, writer, edit)
  BY <1>1, <1>3 DEF Sees, r
<1> QED BY <1>3, <1>4, <1>5, <1>6 DEF r

\* What a process reads is a list.
LEMMA NowListed ==
    ASSUME TreeInv, EffectInv, NEW path \in Path, NEW read, read = ReadTrustedConfig(fs, path)
    PROVE  Listed(Settings(read)) /\ Editable(<<>>) /\ (read.outcome # "read" => Settings(read) = <<>>)
<1>1. DOMAIN <<>> = {}
  OBVIOUS
<1>2. Listed(<<>>) /\ Editable(<<>>)
  BY <1>1 DEF Listed, Editable
<1>3. CASE read.outcome = "read" /\ read.data.whole
  <2> DEFINE t == LookupTarget(fs, path)
  <2>1. t \in DOMAIN fs /\ fs[t].kind = "file" /\ read.data = fs[t].data
    BY <1>3, ReadIs DEF TreeInv
  <2> HIDE DEF t
  <2>2. Listed(fs[t].data.settings)
    BY <1>3, <2>1 DEF EffectInv, Lists, Whole
  <2> QED BY <1>2, <1>3, <2>1, <2>2 DEF Settings
<1>4. CASE ~(read.outcome = "read" /\ read.data.whole)
  BY <1>2, <1>4 DEF Settings
<1> QED BY <1>2, <1>3, <1>4 DEF Settings

\* The place is known to whoever goes on.
LEMMA PlaceIs ==
    ASSUME TreeInv, EffectInv, NEW w \in Writer, writer[w].at \in Aiming \union {"aim"}
    PROVE  /\ writer[w].path = Place(real, dotenv) /\ Place(real, dotenv) # Nowhere /\ Place(real, dotenv) \in Path
           /\ Named(writer[w].slugs) /\ \A s \in writer[w].slugs : ~IsDefault(s)
<1>1. Told(writer[w], real, dotenv) /\ WriterSound(writer[w])
  BY DEF EffectInv, Informed, TreeInv
<1>2. /\ writer[w].path = Place(real, dotenv) /\ writer[w].path # Nowhere
      /\ Named(writer[w].slugs) /\ \A s \in writer[w].slugs : ~IsDefault(s)
  BY <1>1 DEF Told, Going
<1>3. writer[w].path \in Path
  BY <1>1, <1>2 DEF WriterSound
<1> QED BY <1>2, <1>3

LEMMA StartInforms ==
    ASSUME TreeInv, EffectInv, NEW w \in Writer, Start(w)
    PROVE  EffectInv'
<1> DEFINE s == Command(w, Loaded)
           path == ResolveConfigPath(Loaded.environ)
           slugs == Actionable(w, Loaded.environ)
           shadowed == ShadowingLayer(Loaded)
           aim == [Idle EXCEPT !.at = "aim", !.path = path, !.shadowed = shadowed, !.slugs = slugs]
           refused == [Idle EXCEPT !.at = "refused"]
<1>1. writer[w].at = "idle" /\ writer' = [writer EXCEPT ![w] = s] /\ UNCHANGED <<fs, inputs, history>>
  BY DEF Start
<1>2. path = Place(real, dotenv)
  BY SamePlace DEF Loaded, Place
<1>3. shadowed <=> ~IsBlank(Value(Below(real, dotenv), ExtraRepos))
  BY ShadowedIs DEF Loaded
<1>4. Named(slugs)
  <2>1. slugs \subseteq edit[w].slugs
    BY DEF Actionable
  <2>2. Named(edit[w].slugs)
    BY DEF EffectInv, EditsTyped
  <2> HIDE DEF slugs
  <2> QED BY <2>1, <2>2, FS_Subset DEF Named
<1>5. s = refused \/ (s = aim /\ path # Nowhere /\ \A x \in slugs : ~IsDefault(x))
  BY DEF Command
<1> HIDE DEF s, path, slugs, shadowed
<1>6. refused.at = "refused" /\ DOMAIN refused = Fields
  BY DEF Idle, Fields
<1>7. aim.at = "aim" /\ aim.path = path /\ aim.shadowed = shadowed /\ aim.slugs = slugs /\ DOMAIN aim = Fields
  BY DEF Idle, Fields
<1> HIDE DEF refused, aim
<1>8. Told(s, real, dotenv)
  <2>1. CASE s = refused
    BY <1>6, <2>1 DEF Told, Going, Aiming, Done
  <2>2. CASE s # refused
    BY <1>2, <1>3, <1>4, <1>5, <1>7, <2>2 DEF Told
  <2> QED BY <2>1, <2>2
<1>9. s.at \in {"refused", "aim"}
  BY <1>5, <1>6, <1>7
<1>10. Plans(s, edit[w].adding) /\ Sees(s, writer, edit) /\ OnTarget(s, fs, Place(real, dotenv))
  BY <1>9 DEF Plans, Sees, OnTarget, Holding, Aiming
<1>11. standing' = standing /\ sure' = sure /\ writer[w].at \notin Done
  BY <1>1 DEF history, Done
<1>12. w \notin standing
  BY <1>11 DEF EffectInv, Standing, Stands
<1> QED BY <1>1, <1>8, <1>10, <1>11, <1>12, StepKeeps

LEMMA AimInforms ==
    ASSUME TreeInv, EffectInv, NEW w \in Writer, Aim(w)
    PROVE  EffectInv'
<1> DEFINE r == writer[w]
           target == LookupTarget(fs, r.path)
           to == IF target = Nowhere THEN "refused" ELSE "read"
           s == [r EXCEPT !.target = target, !.at = to]
<1>1. r.at = "aim" /\ writer' = [writer EXCEPT ![w] = s] /\ UNCHANGED <<fs, inputs, standing>> /\ sure' = sure \union {w}
  BY DEF Aim
<1>2. Told(r, real, dotenv)
  BY DEF EffectInv, Informed
<1>3. r.path = Place(real, dotenv)
  BY <1>1, PlaceIs
<1> HIDE DEF r, target, to
<1>4. /\ DOMAIN s = Fields /\ s.at = to /\ s.target = target /\ s.path = r.path /\ s.shadowed = r.shadowed /\ s.slugs = r.slugs
  BY <1>2 DEF Told, Fields
<1> HIDE DEF s
<1>5. Told(s, real, dotenv)
  BY <1>1, <1>2, <1>4 DEF Told, Going
<1>6. to \in {"refused", "read"}
  BY DEF to
<1>7. Plans(s, edit[w].adding) /\ Sees(s, writer, edit)
  BY <1>4, <1>6 DEF Plans, Sees, Holding
<1>8. OnTarget(s, fs, Place(real, dotenv))
  BY <1>3, <1>4, <1>6 DEF OnTarget, target
<1>9. r.at \notin Done
  BY <1>1 DEF Done
<1>10. w \notin standing
  BY <1>9 DEF EffectInv, Standing, Stands, r
<1> QED BY <1>1, <1>5, <1>7, <1>8, <1>9, <1>10, StepKeeps DEF r

\* A writer that goes on without a change.
LEMMA GoesInforms ==
    ASSUME TreeInv, EffectInv, NEW w \in Writer, NEW to, Goes(w, to), writer[w].at \in Aiming, to \notin Done \union {"aim"},
           to \in Holding => writer[w].at \in Holding,
           to \in {"recheck", "replace"} =>
              \/ writer[w].at \in {"recheck", "replace"}
              \/ Current(writer[w].settings) = Compute(Current(writer[w].read), edit[w].adding, writer[w].slugs),
           to = "replace" /\ w \in sure' => LookupTarget(fs, writer[w].path) = writer[w].target /\ Vouched(w),
           UNCHANGED <<fs, inputs, standing>>, sure' \subseteq sure \/ (sure' \subseteq sure \union {w} /\ to = "replace")
    PROVE  EffectInv'
<1> DEFINE r == writer[w]
           s == [r EXCEPT !.at = to]
<1>1. writer' = [writer EXCEPT ![w] = s]
  BY DEF Goes
<1>2. r.at \in Going /\ r.at \notin Done
  BY DEF Going, Aiming, Done
<1>3. /\ Told(s, real, dotenv) /\ Plans(s, edit[w].adding) /\ Sees(s, writer, edit) /\ s.at = to
      /\ s.path = r.path /\ s.target = r.target
  BY <1>2, GoesOn
<1>4. r.path = Place(real, dotenv)
  BY PlaceIs
<1> HIDE DEF s
<1>5. w \in sure' => OnTarget(s, fs, Place(real, dotenv))
  <2>1. CASE to = "replace"
    BY <1>3, <1>4, <2>1 DEF OnTarget, Vouched, Open
  <2>2. CASE to # "replace"
    <3>1. w \in sure' => OnTarget(r, fs, Place(real, dotenv))
      BY <2>2 DEF EffectInv, Surely
    <3> QED BY <1>3, <2>2, <3>1 DEF OnTarget
  <2> QED BY <2>1, <2>2
<1>6. w \notin standing
  BY <1>2 DEF EffectInv, Standing, Stands
<1>7. standing' \subseteq standing \union {w} /\ sure' \subseteq sure \union {w}
  OBVIOUS
<1> QED BY <1>1, <1>2, <1>3, <1>5, <1>6, <1>7, StepKeeps DEF r

\* A writer that stops before its end.
LEMMA StopInforms ==
    ASSUME TreeInv, EffectInv, NEW w \in Writer, NEW to, Goes(w, to), writer[w].at \notin Done, to \in {"killed", "failed"},
           UNCHANGED <<fs, inputs, standing, sure>>
    PROVE  EffectInv'
<1> DEFINE s == [writer[w] EXCEPT !.at = to]
<1>1. writer' = [writer EXCEPT ![w] = s]
  BY DEF Goes
<1>2. to \notin Going \union Holding \union Aiming \union {"recheck", "replace"}
  BY DEF Going, Holding, Aiming, Done
<1>3. Told(s, real, dotenv) /\ Plans(s, edit[w].adding) /\ Sees(s, writer, edit) /\ s.at = to
  BY <1>2, GoesOn
<1> HIDE DEF s
<1>4. OnTarget(s, fs, Place(real, dotenv))
  BY <1>2, <1>3 DEF OnTarget
<1>5. w \notin standing
  BY DEF EffectInv, Standing, Stands
<1> QED BY <1>1, <1>3, <1>4, <1>5, StepKeeps

LEMMA ReadInforms ==
    ASSUME TreeInv, EffectInv, NEW w \in Writer, Read(w)
    PROVE  EffectInv'
<1> DEFINE r == writer[w]
           adding == edit[w].adding
           read == ReadTrustedConfig(fs, r.path)
           settings == Settings(read)
           before == Current(settings)
           after == Compute(before, adding, r.slugs)
           to == IF read.outcome = "missing" THEN "vet" ELSE "ensure"
           put == Put(ExtraRepos, EditInPlace(settings, after, adding, r.slugs), settings)
           s == [r EXCEPT !.at = to, !.read = settings, !.saw = standing, !.settings = put]
           refused == read.outcome = "untrusted" \/ (read.outcome = "read" /\ ~(read.data.whole /\ Editable(settings)))
<1>1. r.at = "read" /\ UNCHANGED <<fs, inputs, sure>>
  BY DEF Read
<1>2. \/ Goes(w, "refused") /\ UNCHANGED standing
      \/ ~refused /\ after = before /\ Goes(w, "unchanged") /\ standing' = standing \union {w}
      \/ ~refused /\ after # before /\ writer' = [writer EXCEPT ![w] = s] /\ UNCHANGED standing
  BY DEF Read, EditOf
<1>3. /\ r.path = Place(real, dotenv) /\ r.path \in Path /\ Named(r.slugs) /\ r.at \in Aiming
  BY <1>1, PlaceIs DEF Aiming
<1>4. settings = NowIn(fs, real, dotenv)
  BY <1>3 DEF NowIn
<1>5. Listed(settings) /\ Editable(<<>>) /\ (read.outcome # "read" => settings = <<>>)
  BY <1>3, NowListed
<1>6. adding \in BOOLEAN
  BY DEF EffectInv, EditsTyped
<1>7. Told(r, real, dotenv)
  BY DEF EffectInv, Informed
<1>8. w \in sure => OnTarget(r, fs, Place(real, dotenv))
  BY DEF EffectInv, Surely
<1>9. w \notin standing /\ r.at \notin Done /\ standing \subseteq Writer
  BY <1>1 DEF EffectInv, Standing, Stands, Done
<1> HIDE DEF read, settings
<1>10. before \in Seq(Range(before)) /\ Blank \notin Range(before)
  BY <1>5, CurrentIs
<1>11. after \in Seq(Range(after)) /\ Edited(before, after, adding, r.slugs)
  <2> HIDE DEF before
  <2> QED BY <1>3, <1>10, ComputeIs
<1>12. ~refused => Editable(settings)
  BY <1>5
<1>13. Listed(put) /\ Editable(put)
  <2> HIDE DEF after
  <2> QED BY <1>5, <1>11, EditInPlaceIs
<1> HIDE DEF after, put, to, refused
<1>14. CASE Goes(w, "refused") /\ UNCHANGED standing
  BY <1>1, <1>3, <1>14, GoesInforms DEF Done, Holding
<1>15. CASE ~refused /\ after = before /\ Goes(w, "unchanged") /\ standing' = standing \union {w}
  <2> DEFINE x == [r EXCEPT !.at = "unchanged"]
  <2>1. writer' = [writer EXCEPT ![w] = x]
    BY <1>15 DEF Goes
  <2>2. "unchanged" \notin Holding \union {"recheck", "replace"} \union Aiming /\ r.at \in Going /\ "unchanged" \in Done
    BY <1>1 DEF Holding, Aiming, Going, Done
  <2>3. Told(x, real, dotenv) /\ Plans(x, edit[w].adding) /\ Sees(x, writer, edit) /\ x.at = "unchanged" /\ x.slugs = r.slugs
    BY <2>2, GoesOn
  <2> HIDE DEF x
  <2>4. HasEdit(settings, x.slugs, adding)
    <3> SUFFICES ASSUME NEW y \in r.slugs PROVE SlugKey(y) \in Keys(before) <=> adding
      BY <2>3 DEF HasEdit
    <3>1. SlugKey(y) \in {SlugKey(d) : d \in r.slugs}
      OBVIOUS
    <3> HIDE DEF before
    <3> QED BY <1>6, <1>11, <1>15, <3>1 DEF Edited
  <2>5. OnTarget(x, fs, Place(real, dotenv))
    BY <2>2, <2>3 DEF OnTarget
  <2> QED BY <1>1, <1>4, <1>9, <1>12, <1>15, <2>1, <2>2, <2>3, <2>4, <2>5, StepKeeps DEF r
<1>16. CASE ~refused /\ after # before /\ writer' = [writer EXCEPT ![w] = s] /\ UNCHANGED standing
  <2>1. /\ DOMAIN s = Fields /\ s.at = to /\ s.read = settings /\ s.saw = standing /\ s.settings = put
        /\ s.target = r.target /\ s.path = r.path /\ s.shadowed = r.shadowed /\ s.slugs = r.slugs
    <3> HIDE DEF r
    <3> QED BY <1>7 DEF Told, Fields
  <2>2. to \in {"vet", "ensure"}
    BY DEF to
  <2> HIDE DEF s, r
  <2>3. Told(s, real, dotenv)
    BY <1>1, <1>7, <2>1 DEF Told, Going, Aiming
  <2>4. Plans(s, adding)
    BY <1>5, <1>13, <2>1, <2>2 DEF Plans
  <2>5. Sees(s, writer, edit)
    <3> SUFFICES ASSUME NEW v \in standing
                 PROVE  v \in Writer /\ writer[v].at \in Done /\ HasEdit(settings, writer[v].slugs, edit[v].adding)
      BY <2>1 DEF Sees
    <3> QED BY <1>4 DEF EffectInv, Standing, Stands
  <2>6. w \in sure => OnTarget(s, fs, Place(real, dotenv))
    BY <1>3, <1>8, <2>1, <2>2 DEF OnTarget
  <2> QED BY <1>1, <1>9, <1>16, <2>3, <2>4, <2>5, <2>6, StepKeeps DEF r
<1> QED BY <1>2, <1>14, <1>15, <1>16

LEMMA OthersInform ==
    ASSUME TreeInv, EffectInv, NEW w \in Writer, Vet(w) \/ VetAgain(w) \/ WriteTemp(w) \/ Recheck(w) \/ Killed(w)
    PROVE  EffectInv'
<1>1. CASE Vet(w)
  <2>1. writer[w].at = "vet" /\ UNCHANGED <<fs, inputs, history>> /\ \E to \in {"refused", "mkdir"} : Goes(w, to)
    BY <1>1 DEF Vet
  <2> QED BY <2>1, GoesInforms DEF Aiming, Done, Holding, history
<1>2. CASE VetAgain(w)
  <2>1. writer[w].at = "revet" /\ UNCHANGED <<fs, inputs, history>> /\ \E to \in {"refused", "temp"} : Goes(w, to)
    BY <1>2 DEF VetAgain
  <2> QED BY <2>1, GoesInforms DEF Aiming, Done, Holding, history
<1>3. CASE WriteTemp(w)
  <2> DEFINE after == Compute(Current(writer[w].read), edit[w].adding, writer[w].slugs)
  <2>1. writer[w].at = "temp" /\ UNCHANGED <<fs, inputs, history>>
    BY <1>3 DEF WriteTemp
  <2>2. Goes(w, "refused") \/ Goes(w, "failed") \/ (Goes(w, "recheck") /\ Current(writer[w].settings) = after)
    BY <1>3 DEF WriteTemp
  <2> HIDE DEF after
  <2>3. CASE Goes(w, "refused") \/ Goes(w, "failed")
    BY <2>1, <2>3, GoesInforms DEF Aiming, Done, Holding, history
  <2>4. CASE Goes(w, "recheck") /\ Current(writer[w].settings) = after
    BY <2>1, <2>4, GoesInforms DEF Aiming, Done, Holding, history, after
  <2> QED BY <2>2, <2>3, <2>4
<1>4. CASE Recheck(w)
  <2>1. writer[w].at = "recheck" /\ UNCHANGED <<fs, inputs, standing>>
    BY <1>4 DEF Recheck
  <2>2. \/ Goes(w, "refused") /\ UNCHANGED sure
        \/ LookupTarget(fs, writer[w].path) = writer[w].target /\ Passes(w)
    BY <1>4 DEF Recheck
  <2>3. CASE Goes(w, "refused") /\ UNCHANGED sure
    BY <2>1, <2>3, GoesInforms DEF Aiming, Done, Holding
  <2>4. CASE LookupTarget(fs, writer[w].path) = writer[w].target /\ Passes(w)
    <3>1. Goes(w, "replace") /\ sure' \subseteq sure \union {w} /\ (w \in sure' => Vouched(w))
      BY <2>4 DEF Passes
    <3> QED BY <2>1, <2>4, <3>1, GoesInforms DEF Aiming, Done, Holding
  <2> QED BY <2>2, <2>3, <2>4
<1>5. CASE Killed(w)
  <2>1. UNCHANGED <<fs, inputs, history>> /\ writer[w].at \notin Ended
    BY <1>5 DEF Killed
  <2>2. PICK to \in {"killed", "failed"} : Goes(w, to)
    BY <1>5 DEF Killed
  <2> QED BY <2>1, <2>2, StopInforms DEF Ended, Done, history
<1> QED BY <1>1, <1>2, <1>3, <1>4, <1>5

LEMMA Unchanged ==
    ASSUME NEW tree, IsTree(tree), NEW ls, ls = {}
    PROVE  WithDirs(tree, ls) = tree
BY DEF WithDirs, Over, IsTree

\* A directory that is there is not made again.
LEMMA NothingNew ==
    ASSUME NEW tree, IsTree(tree), NEW dir \in Location, Clear(tree, dir), Len(dir) <= MaxSteps, IsA(tree, dir, "dir"),
           NEW there, there = {n \in 0..Len(dir) : Kernel(tree, SubSeq(dir, 1, n)) # Nowhere},
           NEW last, last = CHOOSE n \in there : \A m \in there : m <= n
    PROVE  last = Len(dir)
<1>1. IsDir(tree, dir)
  BY Straight
<1>2. Kernel(tree, dir) # Nowhere /\ SubSeq(dir, 1, Len(dir)) = dir /\ Len(dir) \in Nat
  BY <1>1, RootIs DEF IsDir, IsThere
<1>3. Len(dir) \in there
  <2> DEFINE n == Len(dir)
  <2>0. n \in 0..Len(dir)
    <3> HIDE DEF n
    <3>1. n \in Nat /\ n = Len(dir)
      BY <1>2 DEF n
    <3> QED BY <3>1
  <2>1. n \in 0..Len(dir) /\ Kernel(tree, SubSeq(dir, 1, n)) # Nowhere
    BY <1>2, <2>0, Zenon
  <2> HIDE DEF n
  <2>2. n \in there
    BY <2>1
  <2> QED BY <2>2 DEF n
<1>4. \A m \in there : m \in Nat /\ m <= Len(dir)
  BY <1>2
<1>5. \E n \in there : \A m \in there : m <= n
  BY <1>3, <1>4
<1>6. last \in there /\ \A m \in there : m <= last
  BY <1>5
<1>7. last <= Len(dir) /\ Len(dir) <= last /\ last \in Nat
  BY <1>3, <1>4, <1>6
<1> QED BY <1>2, <1>7

\* The directories a writer makes where its path leads change nothing of what is read there.
LEMMA DirsAreRead ==
    ASSUME NEW tree, IsTree(tree), NEW path \in Path, NEW t, t = LookupTarget(tree, path), t # Nowhere,
           NEW new, NEW g, g = WithDirs(tree, new), IsTree(g), IsA(tree, Parent(t), "dir") => new = {}
    PROVE  /\ LookupTarget(g, path) = t
           /\ Settings(ReadTrustedConfig(g, path)) = Settings(ReadTrustedConfig(tree, path))
           /\ Open(tree, path, t) => Open(g, path, t)
<1>1. CASE IsA(tree, Parent(t), "dir")
  BY <1>1, Unchanged
<1>2. CASE ~IsA(tree, Parent(t), "dir")
  <2>1. /\ DOMAIN g = DOMAIN tree \union (new \ DOMAIN tree)
        /\ \A l \in DOMAIN tree : g[l] = tree[l]
        /\ \A l \in new \ DOMAIN tree : g[l] = Directory
    BY DEF WithDirs, Over
  <2>2. t \notin DOMAIN tree
    BY <1>2 DEF IsTree
  <2>3. Directory.kind = "dir"
    BY DEF Directory
  <2>4. ~(t \in DOMAIN g /\ g[t].kind = "file")
    BY <2>1, <2>2, <2>3
  <2>5. SameLinks(tree, g)
    BY <2>1, <2>3 DEF SameLinks, IsA, IsLink
  <2>6. ~Walk(tree, path).problem
    BY EndsClear
  <2>7. Walk(g, path) = Walk(tree, path)
    BY <2>5, <2>6, SameWalk
  <2>8. LookupTarget(g, path) = t
    BY <2>7 DEF LookupTarget
  <2>9. ReadTrustedConfig(tree, path).outcome # "read" /\ ReadTrustedConfig(g, path).outcome # "read"
    BY <2>2, <2>4, <2>8, ReadIs
  <2>10. ~Open(tree, path, t)
    BY <1>2 DEF Open
  <2> QED BY <2>8, <2>9, <2>10 DEF Settings
<1> QED BY <1>1, <1>2

\* Of every writer that may be trusted, after the file has been written or its directory made.
LEMMA SureStays ==
    ASSUME TreeInv, EffectInv, NEW w \in Writer, NEW s, writer' = [writer EXCEPT ![w] = s], UNCHANGED inputs,
           NEW t, t = LookupTarget(fs, Place(real, dotenv)), LookupTarget(fs', Place(real, dotenv)) = t,
           Open(fs, Place(real, dotenv), t) => Open(fs', Place(real, dotenv), t),
           s.at # "replace", s.at \in Aiming => s.target = t, UNCHANGED sure
    PROVE  Surely'
<1>1. DOMAIN writer = Writer /\ real' = real /\ dotenv' = dotenv
  BY DEF TreeInv, inputs
<1>2. ASSUME NEW x \in sure PROVE x \in Writer /\ OnTarget(writer'[x], fs', Place(real, dotenv))
  <2>1. x \in Writer /\ OnTarget(writer[x], fs, Place(real, dotenv))
    BY DEF EffectInv, Surely
  <2>2. CASE x = w
    BY <1>1, <2>1, <2>2 DEF OnTarget
  <2>3. CASE x # w
    <3>1. writer'[x] = writer[x]
      BY <1>1, <2>1, <2>3
    <3>2. "replace" \in Aiming
      BY DEF Aiming
    <3> QED BY <2>1, <3>1, <3>2 DEF OnTarget
  <2> QED BY <2>2, <2>3
<1> QED BY <1>1, <1>2 DEF Surely

\* Where no writer is trusted any more.
LEMMA StartsOver ==
    ASSUME TreeInv, EffectInv, NEW w \in Writer, NEW to, Goes(w, to), writer[w].at \in Aiming, to \notin {"aim", "recheck", "replace"},
           to \in Holding => writer[w].at \in Holding, UNCHANGED inputs, Lists(fs'), standing' = {}, sure' = {}
    PROVE  EffectInv'
<1> DEFINE s == [writer[w] EXCEPT !.at = to]
<1>1. writer' = [writer EXCEPT ![w] = s]
  BY DEF Goes
<1>2. writer[w].at \in Going /\ writer[w].at \notin Done
  BY DEF Going, Aiming, Done
<1>3. Told(s, real, dotenv) /\ Plans(s, edit[w].adding) /\ Sees(s, writer, edit)
  BY <1>2, GoesOn
<1> HIDE DEF s
<1>4. EditsTyped' /\ Informed'
  BY <1>1, <1>2, <1>3, Informs
<1> QED BY <1>4 DEF EffectInv, Standing, Surely

LEMMA EnsureDirInforms ==
    ASSUME TreeInv, EffectInv, NEW w \in Writer, EnsureDir(w)
    PROVE  EffectInv'
<1> DEFINE dir == Parent(writer[w].target)
           there == {n \in 0..Len(dir) : Kernel(fs, SubSeq(dir, 1, n)) # Nowhere}
           last == CHOOSE n \in there : \A m \in there : m <= n
           base == Kernel(fs, SubSeq(dir, 1, last))
           new == {base \o SubSeq(dir, last + 1, n) : n \in last + 1..Len(dir)}
           next == IF writer[w].at = "mkdir" THEN "revet" ELSE "temp"
           path == Place(real, dotenv)
           t == LookupTarget(fs, path)
<1>1. /\ writer[w].at \in {"mkdir", "ensure"} /\ UNCHANGED inputs
      /\ \/ \E to \in {"failed", next} : Goes(w, to) /\ UNCHANGED <<fs, history>>
         \/ /\ fs' = WithDirs(fs, new) /\ Goes(w, next) /\ Changes(w)
            /\ standing' = IF w \in sure THEN standing ELSE {}
  BY DEF EnsureDir
<1>2. writer[w].at \in Aiming /\ writer[w].at \notin Done /\ next \notin Done \union {"aim", "recheck", "replace"} /\ next \in Aiming
  BY <1>1 DEF Aiming, Done
<1>3. IsTree(fs) /\ IsTree(fs') /\ DOMAIN writer = Writer /\ writer[w].target \in Location
  <2>1. IsTree(fs')
    BY EnsureDirKeepsTree
  <2> QED BY <2>1, <1>2 DEF TreeInv, WriterSound
<1>4. path \in Path /\ path # Nowhere
  BY <1>2, PlaceIs
<1>5. CASE Goes(w, "failed") /\ UNCHANGED <<fs, history>>
  BY <1>1, <1>2, <1>5, StopInforms DEF history
<1> HIDE DEF next
<1>7. CASE Goes(w, next) /\ UNCHANGED <<fs, history>>
  BY <1>1, <1>2, <1>7, GoesInforms DEF history, Holding
<1>6. CASE fs' = WithDirs(fs, new) /\ Goes(w, next) /\ Changes(w) /\ standing' = (IF w \in sure THEN standing ELSE {})
  <2>1. Lists(fs')
    <3> HIDE DEF new
    <3>1. DOMAIN fs' = DOMAIN fs \union (new \ DOMAIN fs) /\ (\A l \in DOMAIN fs : fs'[l] = fs[l])
          /\ \A l \in new \ DOMAIN fs : fs'[l] = Directory
      BY <1>6 DEF WithDirs, Over
    <3>2. ~Whole(Directory)
      BY DEF Whole, Directory
    <3>3. Lists(fs)
      BY DEF EffectInv
    <3> QED BY <3>1, <3>2, <3>3 DEF Lists
  <2>2. CASE w \notin sure
    <3>1. standing' = {} /\ sure' = {}
      BY <1>6, <2>2 DEF Changes
    <3> QED BY <1>1, <1>2, <1>6, <2>1, <3>1, StartsOver DEF Holding
  <2>3. CASE w \in sure
    <3>1. standing' = standing /\ sure' = sure
      BY <1>6, <2>3 DEF Changes
    <3>2. writer[w].target = t
      BY <1>2, <2>3 DEF EffectInv, Surely, OnTarget
    <3>3. t # Nowhere
      BY <1>3, <3>2, TokensDiffer
    <3>4. IsA(fs, Parent(t), "dir") => new = {}
      <4> SUFFICES ASSUME IsA(fs, dir, "dir") PROVE new = {}
        BY <3>2
      <4>1. t \in Location /\ Clear(fs, t) /\ Len(t) <= MaxSteps
        BY <1>3, <1>4, <3>3, EndsClear
      <4>2. dir \in Location /\ Clear(fs, dir) /\ Len(dir) <= Len(t) /\ Len(dir) \in Nat /\ Len(t) \in Nat
        <5>1. dir \in Location /\ Clear(fs, dir)
          BY <4>1, <3>2, ClearIs, ParentIs
        <5>2. Len(dir) <= Len(t)
          <6>1. CASE t = Root
            BY <6>1, <3>2, RootIs
          <6>2. CASE t # Root
            BY <6>2, <3>2, <4>1, RootIs, ParentIs
          <6> QED BY <6>1, <6>2
        <5> QED BY <4>1, <5>1, <5>2, RootIs
      <4>3. Len(dir) <= MaxSteps
        BY <4>1, <4>2, TokensDiffer
      <4>4. last = Len(dir)
        <5> HIDE DEF dir, t
        <5> QED BY <1>3, <4>2, <4>3, NothingNew
      <4> HIDE DEF dir, last, base
      <4> QED BY <4>2, <4>4
    <3> HIDE DEF new
    <3>5. /\ LookupTarget(fs', path) = t
          /\ Settings(ReadTrustedConfig(fs', path)) = Settings(ReadTrustedConfig(fs, path))
          /\ Open(fs, path, t) => Open(fs', path, t)
      <4> HIDE DEF path
      <4> QED BY <1>3, <1>4, <1>6, <3>3, <3>4, DirsAreRead
    <3> DEFINE s == [writer[w] EXCEPT !.at = next]
    <3>6. writer' = [writer EXCEPT ![w] = s]
      BY <1>6 DEF Goes
    <3>7. Told(s, real, dotenv) /\ Plans(s, edit[w].adding) /\ Sees(s, writer, edit) /\ s.at = next /\ s.target = writer[w].target
      <4>1. writer[w].at \in Going /\ writer[w].at \in Holding
        BY <1>1, <1>2 DEF Going, Holding
      <4> QED BY <1>2, <4>1, GoesOn
    <3> HIDE DEF s, path, t
    <3>8. EditsTyped' /\ Informed'
      BY <1>1, <1>2, <3>6, <3>7, Informs
    <3>9. Surely'
      BY <1>1, <1>2, <3>1, <3>2, <3>5, <3>6, <3>7, SureStays DEF t, path
    <3>10. Standing'
      <4>1. real' = real /\ dotenv' = dotenv /\ edit' = edit
        BY <1>1 DEF inputs
      <4>2. NowIn(fs', real, dotenv) = NowIn(fs, real, dotenv)
        BY <3>5 DEF NowIn, path
      <4>3. \A v \in standing : Stands(v, writer', edit, NowIn(fs, real, dotenv))
        BY <1>2, <1>3, <3>6, StandsStays DEF EffectInv, Standing
      <4> QED BY <3>1, <4>1, <4>2, <4>3 DEF Standing
    <3> QED BY <2>1, <3>8, <3>9, <3>10 DEF EffectInv
  <2> QED BY <2>2, <2>3
<1> QED BY <1>1, <1>5, <1>6, <1>7

\* An edit that stood still does when another writer, that had seen it, adds its own.
LEMMA EditsKeep ==
    ASSUME NEW read, Listed(read), NEW settings, NEW adding, NEW slugs, Named(slugs),
           Current(settings) = Compute(Current(read), adding, slugs),
           NEW others, NEW other, HasEdit(read, others, other),
           \A s \in others, x \in slugs : SlugKey(s) # SlugKey(x)
    PROVE  HasEdit(settings, others, other)
<1>1. Edited(Current(read), Current(settings), adding, slugs)
  BY CurrentIs, ComputeIs
<1> SUFFICES ASSUME NEW s \in others PROVE SlugKey(s) \in Keys(Current(settings)) <=> other
  BY DEF HasEdit
<1>2. SlugKey(s) \in Keys(Current(read)) <=> other
  BY DEF HasEdit
<1>3. SlugKey(s) \notin {SlugKey(d) : d \in slugs}
  OBVIOUS
<1>4. SlugKey(s) \in Keys(Current(settings)) <=> SlugKey(s) \in Keys(Current(read))
  BY <1>1, <1>3 DEF Edited
<1> QED BY <1>2, <1>4

LEMMA OwnEdit ==
    ASSUME NEW read, Listed(read), NEW settings, NEW adding, adding \in BOOLEAN, NEW slugs, Named(slugs),
           Current(settings) = Compute(Current(read), adding, slugs)
    PROVE  HasEdit(settings, slugs, adding)
<1>1. Edited(Current(read), Current(settings), adding, slugs)
  BY CurrentIs, ComputeIs
<1> SUFFICES ASSUME NEW s \in slugs PROVE SlugKey(s) \in Keys(Current(settings)) <=> adding
  BY DEF HasEdit
<1>2. SlugKey(s) \in {SlugKey(d) : d \in slugs}
  OBVIOUS
<1> QED BY <1>1, <1>2 DEF Edited

LEMMA PutIsTakenIn ==
    ASSUME NEW tree, IsTree(tree), NEW path \in Path, NEW t, t = LookupTarget(tree, path), t # Nowhere,
           ~IsA(tree, t, "dir"), Open(tree, path, t), NEW settings
    PROVE  TakenIn(Put(t, WrittenTo(settings, TRUE), tree), path, t, settings)
<1> PICK g : g = Put(t, WrittenTo(settings, TRUE), tree)
  OBVIOUS
<1>1. TakenIn(g, path, t, settings)
  BY WrittenIsRead, Zenon
<1> QED BY <1>1

LEMMA ReplaceInforms ==
    ASSUME TreeInv, EffectInv, NEW w \in Writer, Replace(w)
    PROVE  EffectInv'
<1> DEFINE r == writer[w]
           t == r.target
           adding == edit[w].adding
           path == Place(real, dotenv)
           kept == {v \in standing : v \in r.saw /\ ~Rewrites(v, w)}
<1>1. /\ r.at = "replace" /\ UNCHANGED inputs
      /\ \/ Goes(w, "failed") /\ UNCHANGED <<fs, history>>
         \/ /\ IsA(fs, Parent(t), "dir") /\ ~IsA(fs, t, "dir") /\ fs' = Put(t, WrittenTo(r.settings, TRUE), fs)
            /\ Goes(w, "changed") /\ Changes(w) /\ standing' = IF w \in sure THEN kept \union {w} ELSE {}
  BY DEF Replace
<1>2. r.at \in Aiming /\ r.at \notin Done /\ r.at \in Holding /\ r.at \in Going
  BY <1>1 DEF Aiming, Done, Holding, Going
<1>3. IsTree(fs) /\ DOMAIN writer = Writer /\ t \in Location
  BY <1>2 DEF TreeInv, WriterSound
<1>4. path \in Path /\ path # Nowhere /\ Named(r.slugs)
  BY <1>2, PlaceIs
<1>5. /\ Listed(r.read) /\ Listed(r.settings) /\ Editable(r.settings)
      /\ Current(r.settings) = Compute(Current(r.read), adding, r.slugs)
      /\ \A v \in r.saw : v \in Writer /\ writer[v].at \in Done /\ HasEdit(r.read, writer[v].slugs, edit[v].adding)
  BY <1>1, <1>2 DEF EffectInv, Informed, Plans, Sees
<1>6. CASE Goes(w, "failed") /\ UNCHANGED <<fs, history>>
  BY <1>1, <1>2, <1>6, StopInforms DEF history
<1>7. CASE /\ IsA(fs, Parent(t), "dir") /\ ~IsA(fs, t, "dir") /\ fs' = Put(t, WrittenTo(r.settings, TRUE), fs)
           /\ Goes(w, "changed") /\ Changes(w) /\ standing' = IF w \in sure THEN kept \union {w} ELSE {}
  <2> DEFINE s == [r EXCEPT !.at = "changed"]
  <2>1. Lists(fs')
    <3> DEFINE new == WrittenTo(r.settings, TRUE)
    <3>1. new.data.settings = r.settings
      BY DEF WrittenTo, Directory
    <3> HIDE DEF new, t
    <3>2. DOMAIN fs' = DOMAIN fs \union {t} /\ fs'[t] = new /\ \A l \in DOMAIN fs : l # t => fs'[l] = fs[l]
      BY <1>7 DEF Put, Over, new
    <3>3. Lists(fs)
      BY DEF EffectInv
    <3> HIDE DEF r
    <3> QED BY <1>5, <3>1, <3>2, <3>3 DEF Lists
  <2>2. writer' = [writer EXCEPT ![w] = s]
    BY <1>7 DEF Goes
  <2>3. "changed" \in Done /\ "changed" \notin Holding \union Aiming \union {"recheck", "replace", "aim"}
    BY DEF Done, Holding, Aiming
  <2>4. /\ Told(s, real, dotenv) /\ Plans(s, edit[w].adding) /\ Sees(s, writer, edit) /\ s.at = "changed"
        /\ s.slugs = r.slugs
    BY <1>2, <2>3, GoesOn
  <2>5. CASE w \notin sure
    <3>1. standing' = {} /\ sure' = {}
      BY <1>7, <2>5 DEF Changes
    <3> QED BY <1>1, <1>2, <1>7, <2>1, <2>3, <3>1, StartsOver
  <2>6. CASE w \in sure
    <3>1. standing' = kept \union {w} /\ sure' = sure
      BY <1>7, <2>6 DEF Changes
    <3>2. t = LookupTarget(fs, path) /\ Open(fs, path, t)
      BY <1>1, <1>2, <2>6 DEF EffectInv, Surely, OnTarget
    <3>3. t # Nowhere
      BY <1>3, TokensDiffer
    <3>4. LookupTarget(fs', path) = t /\ Open(fs', path, t) /\ Settings(ReadTrustedConfig(fs', path)) = r.settings
      <4> HIDE DEF path, t, r
      <4>1. fs' = Put(t, WrittenTo(r.settings, TRUE), fs) /\ ~IsA(fs, t, "dir")
        BY <1>7
      <4>2. TakenIn(Put(t, WrittenTo(r.settings, TRUE), fs), path, t, r.settings)
        BY <1>3, <1>4, <3>2, <3>3, <4>1, PutIsTakenIn, Zenon
      <4> QED BY <4>1, <4>2 DEF TakenIn
    <3> HIDE DEF s
    <3>5. EditsTyped' /\ Informed'
      BY <1>1, <1>2, <2>2, <2>4, Informs
    <3>6. Surely'
      <4> HIDE DEF t
      <4> QED BY <1>1, <2>2, <2>3, <2>4, <3>1, <3>2, <3>4, SureStays
    <3>7. Standing'
      <4>1. real' = real /\ dotenv' = dotenv /\ edit' = edit
        BY <1>1 DEF inputs
      <4>2. NowIn(fs', real, dotenv) = r.settings
        BY <3>4 DEF NowIn
      <4>3. writer'[w] = s /\ \A v \in Writer : v # w => writer'[v] = writer[v]
        BY <1>3, <2>2
      <4>4. adding \in BOOLEAN
        BY DEF EffectInv, EditsTyped
      <4>5. Stands(w, writer', edit, r.settings)
        <5>1. HasEdit(r.settings, r.slugs, adding)
          BY <1>4, <1>5, <4>4, OwnEdit
        <5> QED BY <1>5, <2>3, <2>4, <4>3, <5>1 DEF Stands
      <4>6. ASSUME NEW v \in kept PROVE Stands(v, writer', edit, r.settings)
        <5>1. v \in Writer /\ writer[v].at \in Done /\ HasEdit(r.read, writer[v].slugs, edit[v].adding) /\ v # w
          BY <1>2, <1>5
        <5>2. \A a \in writer[v].slugs, b \in r.slugs : SlugKey(a) # SlugKey(b)
          BY DEF Rewrites
        <5>3. HasEdit(r.settings, writer[v].slugs, edit[v].adding)
          <6> HIDE DEF r
          <6> QED BY <1>4, <1>5, <5>1, <5>2, EditsKeep
        <5> QED BY <1>5, <4>3, <5>1, <5>3 DEF Stands
      <4> HIDE DEF kept, r
      <4>7. \A v \in standing' : Stands(v, writer', edit, r.settings)
        BY <3>1, <4>5, <4>6
      <4> QED BY <4>1, <4>2, <4>7 DEF Standing
    <3> QED BY <2>1, <3>5, <3>6, <3>7 DEF EffectInv
  <2> QED BY <2>5, <2>6
<1> QED BY <1>1, <1>6, <1>7

LEMMA RetargetInforms ==
    ASSUME TreeInv, EffectInv, Retarget
    PROVE  EffectInv'
<1>1. PICK l \in links : fs' = Put(l.at, l.entry, fs)
  BY DEF Retarget
<1>2. l.entry.kind = "link"
  BY DEF TreeInv, LinksTyped
<1>3. DOMAIN fs' = DOMAIN fs \union {l.at} /\ fs'[l.at] = l.entry /\ \A m \in DOMAIN fs : m # l.at => fs'[m] = fs[m]
  BY <1>1 DEF Put, Over
<1>4. Lists(fs')
  BY <1>2, <1>3 DEF EffectInv, Lists, Whole
<1>5. writer' = writer /\ real' = real /\ dotenv' = dotenv /\ edit' = edit /\ standing' = {} /\ sure' = {}
  BY DEF Retarget, inputs
<1>6. EditsTyped' /\ Informed'
  BY <1>5 DEF EffectInv, EditsTyped, Informed
<1> QED BY <1>4, <1>5, <1>6 DEF EffectInv, Standing, Surely

LEMMA EffectInit == Init => EffectInv
<1> SUFFICES ASSUME Init PROVE EffectInv
  OBVIOUS
<1>1. PICK s \in Scenarios : fs = s.fs /\ edit = s.edit
  BY DEF Init
<1>2. Lists(fs) /\ EditsTyped
  BY <1>1, EditAssumption DEF Lists, EditsTyped
<1>3. \A w \in Writer : writer[w] = Idle
  BY DEF Init
<1>4. Idle.at = "idle" /\ DOMAIN Idle = Fields
  BY DEF Idle, Fields
<1>5. Told(Idle, real, dotenv)
  BY <1>4 DEF Told, Going, Aiming, Done
<1>6. \A w \in Writer : Plans(Idle, edit[w].adding) /\ Sees(Idle, writer, edit)
  BY <1>4 DEF Plans, Sees, Holding
<1>7. Informed
  BY <1>3, <1>5, <1>6 DEF Informed
<1>8. standing = {} /\ sure = {}
  BY DEF Init
<1> QED BY <1>2, <1>7, <1>8 DEF EffectInv, Standing, Surely

LEMMA EffectStep == TreeInv /\ EffectInv /\ [Next]_vars => EffectInv'
<1> SUFFICES ASSUME TreeInv, EffectInv, [Next]_vars PROVE EffectInv'
  OBVIOUS
<1>1. CASE UNCHANGED vars
  BY <1>1 DEF vars, inputs, history, EffectInv, EditsTyped, Informed, Standing, Surely
<1>2. CASE Retarget
  BY <1>2, RetargetInforms
<1>3. ASSUME NEW w \in Writer, Start(w) \/ Aim(w) \/ Read(w) \/ EnsureDir(w) \/ Replace(w) PROVE EffectInv'
  BY <1>3, StartInforms, AimInforms, ReadInforms, EnsureDirInforms, ReplaceInforms
<1>4. ASSUME NEW w \in Writer, Vet(w) \/ VetAgain(w) \/ WriteTemp(w) \/ Recheck(w) \/ Killed(w) PROVE EffectInv'
  BY <1>4, OthersInform
<1> QED BY <1>1, <1>2, <1>3, <1>4 DEF Next

\* An edit that stands is what the next process goes by.
LEMMA StandingIsInEffect == TreeInv /\ EffectInv => EditTakesEffect
<1> SUFFICES ASSUME TreeInv, EffectInv, NEW w \in standing, NEW s \in writer[w].slugs
             PROVE  /\ SlugKey(s) \in Keys(ConfiguredRepos) <=> edit[w].adding
                    /\ ~writer[w].shadowed =>
                          (SlugKey(s) \in Keys(EffectiveRepos(Loaded.environ)) <=> edit[w].adding /\ ~Tainted(Loaded.environ, s))
  BY DEF EditTakesEffect
<1> DEFINE now == NowIn(fs, real, dotenv)
           list == Current(now)
           path == Place(real, dotenv)
<1>1. w \in Writer /\ writer[w].at \in Done /\ Editable(now) /\ HasEdit(now, writer[w].slugs, edit[w].adding)
  BY DEF EffectInv, Standing, Stands
<1>2. Told(writer[w], real, dotenv) /\ WriterSound(writer[w])
  BY <1>1 DEF EffectInv, Informed, TreeInv
<1>3. /\ path # Nowhere /\ path \in Path
      /\ writer[w].shadowed <=> ~IsBlank(Value(Below(real, dotenv), ExtraRepos))
      /\ ~IsDefault(s)
  BY <1>1, <1>2 DEF Told, Going, WriterSound
<1>4. ConfiguredRepos = list
  BY SamePlace DEF ConfiguredRepos, Loaded, NowIn, Place
<1>5. Listed(now)
  BY <1>3, NowListed DEF NowIn
<1> HIDE DEF path
<1>6. SlugKey(s) \in Keys(list) <=> edit[w].adding
  BY <1>1 DEF HasEdit
<1>7. ASSUME ~writer[w].shadowed
      PROVE  SlugKey(s) \in Keys(EffectiveRepos(Loaded.environ)) <=> edit[w].adding /\ ~Tainted(Loaded.environ, s)
  <2> DEFINE environ == Loaded.environ
  <2>1. SplitCsv(Value(environ, ExtraRepos)) = list
    BY <1>1, <1>3, <1>7, FileSays DEF Loaded, NowIn, Place, path
  <2> HIDE DEF now, environ
  <2>2. list \in Seq(Range(list))
    BY <1>5, CurrentIs
  <2> HIDE DEF list
  <2>3. SlugKey(s) \in Keys(EffectiveRepos(environ)) <=>
              /\ SlugKey(s) \in Keys(DefaultRepos) \/ SlugKey(s) \in Keys(list)
              /\ SlugKey(s) \notin Keys(SplitCsv(Value(environ, TaintedRepos)))
    BY <2>1, <2>2, EffectiveAre
  <2> QED BY <1>3, <1>6, <2>3 DEF IsDefault, Tainted, environ
<1> QED BY <1>4, <1>6, <1>7

\* An edit that ended well, while nothing the program could not know of came
\* between, is in the file and is what the next process goes by, however the
\* writers are interleaved or killed and whatever the links on the way
\* (update_extra_repos, load_env_layers).
THEOREM EditsTakeEffect == Spec => []EditTakesEffect
<1>1. Init => TreeInv /\ EffectInv
  BY TreeInit, EffectInit
<1>2. TreeInv /\ EffectInv /\ [Next]_vars => (TreeInv /\ EffectInv)'
  BY TreeStep, EffectStep
<1>3. TreeInv /\ EffectInv => EditTakesEffect
  BY StandingIsInEffect
<1> QED BY <1>1, <1>2, <1>3, PTL DEF Spec

=============================================================================
