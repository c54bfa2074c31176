------------------------------ MODULE MCRouter ------------------------------
(* Instances of Router for TLC. *)
EXTENDS Router, TLC

CONSTANTS c1, c2, d1, d2

Smart == NoAsk
Embed == [NoAsk EXCEPT !.kind = "embed"]
Chat  == [NoAsk EXCEPT !.kind = "chat"]
Named(asked) == [NoAsk EXCEPT !.kind = "named", !.asked = asked]

\* c1 routes by quality; c2 names models, also with a limit of latency.
TwoAsks == (c1 :> {Smart})
    @@ (c2 :> {Embed, Chat, Named("auto"), Named("openai"), Named("other"),
               [Named("ollama") EXCEPT !.tooSlow = TRUE],
               [Named("auto") EXCEPT !.local = TRUE]})
\* d1 comes first for c2; c1 takes the one with fewer jobs.
TwoLocal == (c1 :> {d1, d2}) @@ (c2 :> {d1})
TwoRanks == (c1 :> (d1 :> 1 @@ d2 :> 1)) @@ (c2 :> (d1 :> 1 @@ d2 :> 2))
TwoClouds == (c1 :> Providers) @@ (c2 :> {})

\* Two clients of the proxies.
ProxyAsks  == (c1 :> {Embed}) @@ (c2 :> {Chat})
ProxyLocal == (c1 :> {d1}) @@ (c2 :> {d1})
ProxyRanks == (c1 :> (d1 :> 1)) @@ (c2 :> (d1 :> 1))
NoClouds   == (c1 :> {}) @@ (c2 :> {})
=============================================================================
