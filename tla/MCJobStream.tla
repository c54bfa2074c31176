----------------------------- MODULE MCJobStream -----------------------------
(* Instances of JobStream for TLC. *)
EXTENDS JobStream, TLC

CONSTANTS s1, s2, g1, j1, j2, c1, c2, c3

\* Two SSE streams of two jobs and a gRPC stream; interchangeable connections.
TwoJobs      == (s1 :> j1) @@ (s2 :> j2) @@ (g1 :> j2)
TwoUpdates   == (j1 :> 2) @@ (j2 :> 1)
ConnSymmetry == Permutations({c1, c2})

\* Two SSE streams of one job.
OneJob     == (s1 :> j1) @@ (s2 :> j1)
OneUpdates == (j1 :> 2)
=============================================================================
