---------------------------- MODULE DurableIndex ----------------------------
(***************************************************************************)
(* What the local index promises whoever writes it and reads it, without   *)
(* Chroma, SQLite, collections or compaction.                              *)
(*                                                                         *)
(* The index is two sets of records: the keyword rows and the vectors that *)
(* the next open would load.  A write operation names the records it may   *)
(* touch and nothing else changes; a vector never exists without its       *)
(* keyword row; and only a reset, or the loss of a half's files, makes     *)
(* records disappear without an operation naming them.                     *)
(***************************************************************************)
CONSTANT Record

VARIABLES
    rows,      \* records of the keyword half (SQLite FTS)
    vecs,      \* records of the vector half, as the next open would load it
    touching   \* records the operation in progress may add or remove

vars == <<rows, vecs, touching>>

Init ==
    /\ rows = {}
    /\ vecs = {}
    /\ touching = {}

Begin ==
    /\ touching = {}
    /\ vecs \subseteq rows
    /\ touching' \in SUBSET Record
    /\ UNCHANGED <<rows, vecs>>

\* One commit of the operation in progress.
Work ==
    /\ rows' \subseteq rows \union touching
    /\ rows \ touching \subseteq rows'
    /\ vecs' \subseteq vecs \union touching
    /\ vecs \ touching \subseteq vecs'
    /\ vecs' \subseteq rows'
    /\ touching' \in {touching, {}}

\* The operation ends, completed or not: what it did stays.
End ==
    /\ touching' = {}
    /\ UNCHANGED <<rows, vecs>>

\* One half's files are deleted, by a reset or from outside.
Wipe ==
    /\ \/ rows' = {} /\ vecs' = vecs
       \/ vecs' = {} /\ rows' = rows
    /\ UNCHANGED touching

Next == Begin \/ Work \/ End \/ Wipe

Spec == Init /\ [][Next]_vars
=============================================================================
