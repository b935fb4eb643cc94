----------------------------- MODULE MCPipeline -----------------------------
(***************************************************************************)
(* Small instances of Pipeline for TLC.                                     *)
(***************************************************************************)
EXTENDS Pipeline, TLC

CONSTANTS j1, j2, w1, w2, r1, r2

\* Adapters whose evidence may be attributed to any job.
AnyRef == [j \in Jobs |-> Refs]

\* Adapters that always name the job's own reference.
OwnRef == (j1 :> {r1}) @@ (j2 :> {r2})

\* Adapters that may attribute the first job's reference to the second.
OneConfused == (j1 :> {r1}) @@ (j2 :> {r1, r2})

WorkerSymmetry == Permutations(Workers)
=============================================================================
