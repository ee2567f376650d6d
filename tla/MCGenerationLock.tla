---- MODULE MCGenerationLock ----
(* GenerationLock for two owners of one process, threads or tasks of one *)
(* event loop, and one of another process.                               *)
EXTENDS GenerationLock, TLC

CONSTANTS o1, o2, o3, proc1, proc2

MCOwner == {o1, o2, o3}
MCProcess == {proc1, proc2}
MCProcessOf == (o1 :> proc1) @@ (o2 :> proc1) @@ (o3 :> proc2)
MCLayout == {[o \in MCOwner |-> o], [o \in MCOwner |-> IF o = o2 THEN o1 ELSE o]}
====
