---- MODULE MCIndexStore ----
(* IndexStore on two records of one repo and one record of another. *)
EXTENDS IndexStore

CONSTANTS a1, a2, b1, repoA, repoB

MCRecord == {a1, a2, b1}
MCOwner == {repoA, repoB}
MCOwnerOf == [r \in MCRecord |-> IF r = b1 THEN repoB ELSE repoA]
====
