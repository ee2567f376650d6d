---- MODULE MCReopeningStore ----
(* ReopeningStore with two calls at a time, beside the workers of calls that *)
(* were cancelled.                                                           *)
EXTENDS ReopeningStore

CONSTANTS t1, t2

MCThread == {t1, t2}
====
