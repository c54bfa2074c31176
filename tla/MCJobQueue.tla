----------------------------- MODULE MCJobQueue -----------------------------
(* Instances of JobQueue for TLC. *)
EXTENDS JobQueue, TLC

CONSTANTS g1, g2, h1, h2, j1, j2, j3, d1, d2

\* gRPC: one ordinary job with two attempts and a debug job, two workers.
GrpcSource    == (j1 :> "grpc") @@ (j2 :> "debug")
GrpcRequested == (j1 :> 2) @@ (j2 :> 1)
GrpcOn        == (j1 :> d1) @@ (j2 :> NoDevice)
GrpcServes    == (g1 :> {j1, j2}) @@ (g2 :> {j1, j2})

GrpcFaults    == (j1 :> 1) @@ (j2 :> 0)
GrpcSymmetry  == Permutations({g1, g2})

\* Liveness: one benchmark job and two workers.
BenchSource    == (j1 :> "benchmark")
BenchRequested == (j1 :> 0)
BenchOn        == (j1 :> d1)
BenchServes    == (g1 :> {j1}) @@ (g2 :> {j1})
BenchFaults    == (j1 :> 2)

\* HTTP: two jobs of one device, submitted to /v1/jobs and /v1/llm/request.
HttpSource    == (j1 :> "http") @@ (j2 :> "llm")
HttpRequested == (j1 :> 2) @@ (j2 :> -1)
HttpOn        == (j1 :> d1) @@ (j2 :> d1)
HttpServes    == (h1 :> {j1, j2}) @@ (h2 :> {j1, j2})
HttpFaults    == (j1 :> 1) @@ (j2 :> 0)
NoFaults      == (j1 :> 0) @@ (j2 :> 0)
HttpSymmetry  == Permutations({h1, h2})
=============================================================================
