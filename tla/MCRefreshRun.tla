---- MODULE MCRefreshRun ----
(* RefreshRun on two repos, one of which has two revisions, and the docs   *)
(* site with two; and on one repo and the docs site.                       *)
EXTENDS RefreshRun, TLC

CONSTANTS r1, r2, v1, v2, w1, d1, d2

MCRevision == {v1, v2, w1, d1, d2}

TwoRepos == {r1, r2}
OneRepo == {r1}
MCRevisionOf ==
    [s \in Repo \union {Docs} |->
        CASE s = r1 -> {v1, v2}
          [] s = Docs -> {d1, d2}
          [] OTHER -> {w1}]

\* Revisions of one source differ only in their names.
RevisionSymmetry == {p @@ q : p \in Permutations({v1, v2}), q \in Permutations({d1, d2})}
====
