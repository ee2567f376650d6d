--------------------------- MODULE DeprecationMap ---------------------------
(***************************************************************************)
(* The deprecation map (services/ingest/deprecation_map.py): built from    *)
(* the framework's registry of deprecations, merged with its registry of   *)
(* removals, and asked about symbols by check_deprecation.                 *)
(*                                                                         *)
(* A dotted name is a sequence of parts.  A record is [subject, module,    *)
(* kind, since, until, fit]: versions are numbers, 0 where there is none   *)
(* or it cannot be parsed, and `fit` tells whether the record has a        *)
(* subject and only fields that can be saved and loaded back.  A map is a  *)
(* dict: a sequence of [key, entry] in the order of insertion, which is    *)
(* the order in which `check` tries its keys.                              *)
(***************************************************************************)
EXTENDS Integers, Sequences, SequencesExt

Record == [subject : Seq(STRING), module : Seq(STRING), kind : STRING, since : Nat, until : Nat, fit : BOOLEAN]

NotGiven == 0      \* no version was asked for, or none is indexed
Malformed == -1    \* one that cannot be parsed
NoEntry == [status |-> "none"]

\* symbol.startswith(key + ".")
IsNestedIn(q, key) == IsStrictPrefix(key, q)

KeysOf(map) == {map[i].key : i \in 1..Len(map)}
EntryAt(map, key) == (CHOOSE pair \in {map[i] : i \in 1..Len(map)} : pair.key = key).entry

\* An overwritten key stays where it was.
Put(map, key, entry) ==
    IF key \in KeysOf(map)
    THEN [i \in 1..Len(map) |-> IF map[i].key = key THEN [key |-> key, entry |-> entry] ELSE map[i]]
    ELSE Append(map, [key |-> key, entry |-> entry])

SetDefault(map, key, entry) == IF key \in KeysOf(map) THEN map ELSE Put(map, key, entry)

EntryOf(r, status) == [status |-> status, since |-> r.since, until |-> r.until, fit |-> r.fit]
Publishable(r) == r.fit

\* Modules are named in full already, and so are subjects under their module.
HasAlias(r) == r.module # <<>> /\ r.kind # "module" /\ ~IsNestedIn(r.subject, r.module)
FullPath(r) == r.module \o r.subject

\* One record of deprecations.json: of two for a bare name the later one is found.
WithDeprecation(map, r) == Put(map, r.subject, EntryOf(r, "deprecated"))

WithRemoval_Shadowing(map, r) == Put(map, r.subject, EntryOf(r, "removed"))   \* mutant: in any case

\* One of removals.json, which never takes the bare name of an active deprecation.
WithRemoval(map, r) ==
    IF r.subject \notin KeysOf(map) \/ EntryAt(map, r.subject).status = "removed"
    THEN Put(map, r.subject, EntryOf(r, "removed")) ELSE map

\* Its qualified name is kept aside, and yields to every bare one in the end.
WithAlias(aliases, r, status) ==
    IF HasAlias(r) THEN Put(aliases, FullPath(r), EntryOf(r, status)) ELSE aliases

Check_Ancestors(map, q) ==   \* mutant: what contains a deprecated name is deprecated too
    LET matches == SelectInSeq(map, LAMBDA pair : IsNestedIn(q, pair.key) \/ IsNestedIn(pair.key, q))
    IN  IF q \in KeysOf(map) THEN EntryAt(map, q)
        ELSE IF matches = 0 THEN NoEntry ELSE map[matches].entry

\* DeprecationMap.check: the name itself, or the first key it is nested
\* under, which need not be the nearest.
Check(map, q) ==
    LET nestedIn == SelectInSeq(map, LAMBDA pair : IsNestedIn(q, pair.key))
    IN  IF q \in KeysOf(map) THEN EntryAt(map, q)
        ELSE IF nestedIn = 0 THEN NoEntry ELSE map[nestedIn].entry

\* status_for, at a version: what is only announced is not removed.
StatusFor(entry, v) ==
    IF v \in {NotGiven, Malformed} THEN entry.status
    ELSE IF entry.status = "removed" /\ entry.until # 0 /\ v >= entry.until THEN "removed"
    ELSE IF entry.since # 0 /\ v < entry.since THEN "current" ELSE "deprecated"

\* handle_check_deprecation: the version asked about, else the indexed one.
HandleCheckDeprecation(map, q, version, indexed) ==
    LET entry == Check(map, q)
    IN  IF entry = NoEntry THEN "current"
        ELSE StatusFor(entry, IF version # NotGiven THEN version ELSE indexed)

\* _validate_serialized_entry, which `save` runs on every entry before it
\* writes, so that what it writes is what `load` accepts.
SaveAccepts(map) == \A i \in 1..Len(map) : map[i].entry.fit
=============================================================================
