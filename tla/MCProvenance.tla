---- MODULE MCProvenance ----
(* Provenance for the framework alone, with one release and one commit that *)
(* no tag names.                                                            *)
EXTENDS Provenance

CONSTANTS fw, v1, v2

MCRepo == {fw}
MCRevision == {v1, v2}
MCRevisionOf == [s \in {fw, Docs} |-> IF s = fw THEN {v1, v2} ELSE {v1}]
MCRelease == {v1}
====
