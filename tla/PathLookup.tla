----------------------------- MODULE PathLookup -----------------------------
(***************************************************************************)
(* Where a path leads (shared/paths.py), who may be trusted on the way     *)
(* (shared/env_loading.py), and what a reset of the data directory deletes *)
(* (cli.py), over a small file tree.                                       *)
(*                                                                         *)
(* A location is the sequence of names from the root, a path a sequence of *)
(* names and Up's from the root.  A tree maps the locations that exist to  *)
(* entries [kind, to, absolute, slash, safe, data]: "dir", "file" or       *)
(* "link"; to, absolute and slash are a link's target and whether it ends  *)
(* in a separator; safe says that its owner and mode pass the tests.       *)
(***************************************************************************)
EXTENDS Naturals, Sequences, SequencesExt, FiniteSets

CONSTANTS
    Up,             \* ".."
    MustBeDir,      \* queued after a link target that ends in a separator
    MaxHops,        \* _MAX_SYMLINK_HOPS
    KernelHops,     \* the operating system's own bound, below it
    MaxSteps,       \* bound on the parts a walk takes, above every walk of the trees
    Home,           \* the home directory
    Nowhere         \* no location

Location == Seq(STRING)
Path == Seq(STRING \union {Up})

ASSUME PathAssumption ==
    /\ MaxHops \in Nat /\ KernelHops \in 0..MaxHops /\ MaxSteps \in Nat
    /\ Home \in Location /\ Nowhere \notin Path
    /\ Up # MustBeDir /\ \A part \in {Up, MustBeDir} : part \notin STRING

\* One tree, or one layer of settings, laid over another.
Over(top, below) ==
    [x \in DOMAIN top \union DOMAIN below |-> IF x \in DOMAIN top THEN top[x] ELSE below[x]]
Put(at, entry, below) == Over([x \in {at} |-> entry], below)

Root == <<>>
Parent(l) == IF l = Root THEN Root ELSE Front(l)
Ancestors(l) == {SubSeq(l, 1, n) : n \in 0..(Len(l) - 1)}
IsA(fs, l, kind) == IF l = Root THEN kind = "dir" ELSE l \in DOMAIN fs /\ fs[l].kind = kind
IsLink(fs, l) == IsA(fs, l, "link")

\* What is somewhere is in a directory.
IsTree(fs) ==
    /\ fs = [l \in DOMAIN fs |-> fs[l]]
    /\ \A l \in DOMAIN fs :
        /\ l \in Location \ {Root} /\ IsA(fs, Parent(l), "dir")
        /\ fs[l].kind \in {"dir", "file", "link"} /\ fs[l].to \in Path
        /\ {fs[l].absolute, fs[l].slash} \subseteq BOOLEAN

Parts(e) == e.to \o (IF e.slash THEN <<MustBeDir>> ELSE <<>>)

\* What the operating system does with a path: every component is looked up in
\* a directory that exists, a link is replaced by its target.
KernelStep(fs, k) ==
    LET name == Head(k.pending)
        rest == Tail(k.pending)
        here == Append(k.at, name)
        gone(missing) == [k EXCEPT !.at = Nowhere, !.pending = <<>>, !.missing = missing]
    IN  IF ~IsA(fs, k.at, "dir") THEN gone(FALSE)
        ELSE IF name = MustBeDir THEN [k EXCEPT !.pending = rest]
        ELSE IF name = Up THEN [k EXCEPT !.at = Parent(@), !.pending = rest]
        ELSE IF ~IsLink(fs, here) THEN IF here \in DOMAIN fs THEN [k EXCEPT !.at = here, !.pending = rest] ELSE gone(TRUE)
        ELSE IF k.hops = KernelHops THEN gone(FALSE)
        ELSE [k EXCEPT !.at = IF fs[here].absolute THEN Root ELSE @, !.pending = Parts(fs[here]) \o rest, !.hops = @ + 1]

KernelRun(fs, path) ==
    LET run[n \in 0..MaxSteps] ==
            IF n = 0 THEN [at |-> Root, pending |-> path, hops |-> 0, missing |-> FALSE]
            ELSE LET k == run[n - 1] IN IF k.pending = <<>> THEN k ELSE KernelStep(fs, k)
    IN  run[MaxSteps]

Arrived(k) == IF k.pending = <<>> THEN k.at ELSE Nowhere
Kernel(fs, path) == Arrived(KernelRun(fs, path))
Missing(fs, path) == KernelRun(fs, path).missing

IsThere(fs, l, kind) == l # Nowhere /\ IsA(fs, l, kind)
IsDir(fs, path) == IsThere(fs, Kernel(fs, path), "dir")
IsFile(fs, path) == IsThere(fs, Kernel(fs, path), "file")

-----------------------------------------------------------------------------
\* The program's own walk: it goes on where a component is missing, and notes
\* the first step at which the operating system would not.
NeedsDir(fs, w, name) ==
    \/ name = Up
    \/ name = MustBeDir /\ \A i \in 2..Len(w.pending) : w.pending[i] = MustBeDir

Follow(fs, w, link, rest) ==
    IF w.hops = MaxHops THEN [w EXCEPT !.resolved = Nowhere, !.pending = <<>>, !.problem = TRUE]
    ELSE [w EXCEPT !.hops = @ + 1, !.pending = Parts(fs[link]) \o rest,
                   !.resolved = IF fs[link].absolute THEN Root ELSE @]

WalkStep_Lexical(fs, w) ==   \* mutant: pops ".." whatever is there, as os.path.realpath does
    LET name == Head(w.pending)
        current == Append(w.resolved, name)
        rest == Tail(w.pending)
    IN  CASE name = MustBeDir -> [w EXCEPT !.pending = rest]
          [] name = Up -> [w EXCEPT !.pending = rest, !.resolved = Parent(@)]
          [] IsLink(fs, current) -> Follow(fs, [w EXCEPT !.visited = @ \union {current}], current, rest)
          [] OTHER -> [w EXCEPT !.visited = @ \union {current}, !.resolved = current, !.pending = rest]

WalkStep(fs, w) ==
    LET name == Head(w.pending)
        rest == Tail(w.pending)
        current == Append(w.resolved, name)
        seen == [w EXCEPT !.visited = @ \union {current}]
        checked == [w EXCEPT !.problem = @ \/ (NeedsDir(fs, w, name) /\ ~IsDir(fs, w.resolved)), !.pending = rest]
    IN  IF name = MustBeDir THEN checked
        ELSE IF name = Up THEN [checked EXCEPT !.resolved = Parent(@)]
        ELSE IF IsLink(fs, current) THEN Follow(fs, seen, current, rest)
        ELSE [seen EXCEPT !.resolved = current, !.pending = rest]

Walk(fs, path) ==
    LET run[n \in 0..MaxSteps] ==
            IF n = 0 THEN [resolved |-> Root, pending |-> path, visited |-> {}, hops |-> 0, problem |-> FALSE]
            ELSE LET w == run[n - 1] IN IF w.pending = <<>> THEN w ELSE WalkStep(fs, w)
    IN  run[MaxSteps]

ResolutionChain(fs, path) == Walk(fs, path).visited

Proven(w) == IF w.problem \/ w.pending # <<>> THEN Nowhere ELSE w.resolved
LookupTarget(fs, path) == Proven(Walk(fs, path))

\* Path.resolve(strict=False), os.path.abspath.
Resolve(fs, path) == Walk(fs, path).resolved
Lexical(path) ==
    LET at[n \in 0..Len(path)] ==
            IF n = 0 THEN Root ELSE IF path[n] = Up THEN Parent(at[n - 1]) ELSE Append(at[n - 1], path[n])
    IN  at[Len(path)]

-----------------------------------------------------------------------------
\* Trust: of every link on the way, and of every directory that holds a
\* location on the way.
LinkRefused(fs, path) ==
    \E l \in ResolutionChain(fs, path) \union {path} : IsLink(fs, l) /\ ~fs[l].safe

HoldingDirs(fs, path, resolved) ==
    (UNION {Ancestors(l) : l \in ResolutionChain(fs, path) \union {resolved}}) \union {Parent(Lexical(path))}

ParentRefused(fs, path, resolved) ==
    \E d \in HoldingDirs(fs, path, resolved) :
        LET at == Kernel(fs, d) IN at \notin {Nowhere, Root} /\ ~fs[at].safe

TargetRefused(fs, path, t) == t = Nowhere \/ LinkRefused(fs, path) \/ ParentRefused(fs, path, t)
PathRefused(fs, path) == TargetRefused(fs, path, LookupTarget(fs, path))

-----------------------------------------------------------------------------
\* What would go with a directory: same_dir compares what two paths lead to.
IsInside(fs, l, dir) ==
    \/ IsPrefix(dir, l)
    \/ IsDir(fs, dir) /\ \E p \in Ancestors(l) \union {l} : Kernel(fs, p) = dir

ConfigSourceCollides_Endpoints(fs, source, dir) ==   \* mutant: only the two ends of the lookup are looked at
    /\ IsFile(fs, source)
    /\ \E l \in {Lexical(source), Resolve(fs, source)} : IsInside(fs, l, dir)

ConfigSourceCollides(fs, source, dir) ==
    /\ IsFile(fs, source)
    /\ \E l \in ResolutionChain(fs, source) \union {Resolve(fs, source)} : IsInside(fs, l, dir)

Collides(fs, source, dir) == source # Nowhere /\ ConfigSourceCollides(fs, source, dir)

Unsafe(dir) == dir \in {Root, Home} \union Ancestors(Home)

\* refresh --reset-index on a data directory, with the config files in use.
ResetRefused(fs, dataDir, config, dotenv) ==
    LET dir == Resolve(fs, dataDir)
    IN  dir = Nowhere \/ Unsafe(dir) \/ Collides(fs, config, dir) \/ Collides(fs, dotenv, dir)

Directory == [kind |-> "dir", to |-> <<>>, absolute |-> FALSE, slash |-> FALSE, safe |-> TRUE, data |-> Nowhere]
WithDirs(fs, ls) == Over([l \in ls \ DOMAIN fs |-> Directory], fs)

DeleteIndexStorage(fs, dataDir) ==
    LET dir == Resolve(fs, dataDir)
        left == IF IsA(fs, dir, "dir") THEN {l \in DOMAIN fs : ~IsPrefix(dir, l)} ELSE DOMAIN fs
        kept == [l \in left |-> fs[l]]
    IN  IF IsLink(fs, dataDir) THEN WithDirs(kept, (Ancestors(dir) \ {Root}) \union {dir}) ELSE kept
=============================================================================
