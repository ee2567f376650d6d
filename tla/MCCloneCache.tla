---- MODULE MCCloneCache ----
(* CloneCache for two commits, two branches, and the tags v1 and 1, which   *)
(* are aliases, v2, a pre-release, and v3, which `latest` must not pick.    *)
EXTENDS CloneCache, TLC

CONSTANTS c1, c2

MCCommit == {c1, c2}
MCTag == {[v |-> TRUE, n |-> 1], [v |-> FALSE, n |-> 1], [v |-> TRUE, n |-> 2],
          [v |-> TRUE, n |-> 3]}
CommitSymmetry == Permutations(MCCommit)
====
