------------------------------- MODULE Router -------------------------------
(***************************************************************************)
(* How the core picks where a request runs, and what it learns from it.    *)
(*                                                                         *)
(* POST /v1/llm/request: routeSmartLLM (a quality is named) looks for a    *)
(* local model, asks the circuit breaker about its device and falls back   *)
(* to the cloud; RouteLLM (a model is named) chooses a provider and, for   *)
(* ollama, SelectOllamaDevice.  Both end in the INSERT of a job.           *)
(* POST /v1/embeddings and /v1/chat/completions call the selected device   *)
(* themselves, embeddings up to three times.                               *)
(*                                                                         *)
(* Each query is a step of its own: devices come and go, and other         *)
(* requests feed the breaker, between the steps of one request.            *)
(***************************************************************************)
EXTENDS Integers, FiniteSets

CONSTANTS
    Devices,
    NoDevice,
    Clients,       \* each sends one request after another
    Asks,          \* Asks[c]: the requests c may send
    Local,         \* Local[c]: devices with a model that fits c's requests
    Rank,          \* Rank[c][d]: place of d in the ORDER BY, for what is constant
    Clouds,        \* Clouds[c]: providers whose model may be the cloud model that fits
    Keys,          \* providers with an API key
    Strict,        \* STRICT_MODEL_LIMITS
    Threshold,     \* as in CircuitBreaker
    MaxRetries     \* attempts of HandleEmbeddings, and of a job (both 3)

Providers == {"openrouter", "openai"}

Ask == [kind    : {"smart", "named", "embed", "chat"},
        asked   : {"auto", "ollama", "other"} \cup Providers,
        embed   : BOOLEAN,  \* task = "embed"
        cloud   : BOOLEAN,  \* ForceCloud
        local   : BOOLEAN,  \* PreferLocal
        tooSlow : BOOLEAN]  \* a latency limit that MeetsLatency does not meet

ASSUME RouterAssumption ==
    /\ NoDevice \notin Devices
    /\ Asks   \in [Clients -> SUBSET Ask]
    /\ Local  \in [Clients -> SUBSET Devices]
    /\ Rank   \in [Clients -> [Devices -> Nat]]
    /\ Clouds \in [Clients -> SUBSET Providers]
    /\ Keys   \in SUBSET Providers
    /\ Strict \in BOOLEAN
    /\ Threshold \in Nat \ {0}
    /\ MaxRetries \in Nat \ {0}

VARIABLES
    failures, fresh, \* the circuit breaker
    online,     \* devices with status = 'online' and an ollama_addr
    pc,         \* where each client's request is
    ask,        \* the request
    goes,       \* the provider it goes to
    target,     \* the device it goes to, or NoDevice
    tries,      \* attempts that failed
    seen        \* ghost: devices found not degraded since its routing began

breakerVars == <<failures, fresh>>
choiceVars  == <<ask, goes, target, tries>>
vars == <<breakerVars, online, pc, choiceVars, seen>>

Breaker == INSTANCE CircuitBreaker
-----------------------------------------------------------------------------
Over     == {"off", "answered", "refused", "aborted"}
Routing  == {"provider", "local", "checking", "cloud", "select", "insert"}
RouterPC == Over \cup Routing \cup {"proxying", "queued"}

NoAsk == [kind |-> "smart", asked |-> "auto", embed |-> FALSE, cloud |-> FALSE,
          local |-> FALSE, tooSlow |-> FALSE]

TypeOK ==
    /\ Breaker!TypeOK
    /\ online     \in SUBSET Devices
    /\ pc         \in [Clients -> RouterPC]
    /\ ask        \in [Clients -> Ask]
    /\ goes       \in [Clients -> {"none", "ollama", "other"} \cup Providers]
    /\ target     \in [Clients -> Devices \cup {NoDevice}]
    /\ tries      \in [Clients -> 0..(MaxRetries - 1)]
    /\ seen       \in [Clients -> SUBSET Devices]

Init ==
    /\ Breaker!Init
    /\ online     = Devices
    /\ pc         = [c \in Clients |-> "off"]
    /\ ask        = [c \in Clients |-> NoAsk]
    /\ goes       = [c \in Clients |-> "none"]
    /\ target     = [c \in Clients |-> NoDevice]
    /\ tries      = [c \in Clients |-> 0]
    /\ seen       = [c \in Clients |-> {}]

Goto(c, next) == pc' = [pc EXCEPT ![c] = next]
Send(c, where, d) ==
    /\ goes'   = [goes EXCEPT ![c] = where]
    /\ target' = [target EXCEPT ![c] = d]

\* A request that is over keeps nothing but its outcome.
Forget(c) ==
    /\ ask'    = [ask EXCEPT ![c] = NoAsk]
    /\ tries'  = [tries EXCEPT ![c] = 0]
    /\ Send(c, "none", NoDevice)
EndWith(c, outcome) == Goto(c, outcome) /\ Forget(c)

\* The ghost: which devices were, at some time, not degraded while c was routed.
Choosing == {"local", "checking", "insert"}
Watch == seen' = [c \in Clients |->
    IF pc'[c] \notin Choosing \/ ask'[c].kind # "smart" THEN {}
    ELSE seen[c] \cup {d \in Devices : ~Breaker!IsDeviceDegraded(d)'}]

Succeeded(d) == Breaker!RecordDeviceResult(d, TRUE)
Lapsed(d)    == Breaker!RecordDeviceResult(d, FALSE)
-----------------------------------------------------------------------------
(* External: the devices and the time. *)

ComeOrGo(d) ==
    /\ online' = IF d \in online THEN online \ {d} ELSE online \cup {d}
    /\ UNCHANGED <<breakerVars, pc, choiceVars>>
    /\ Watch

FiveMinutesPass(d) ==
    /\ Breaker!FiveMinutesPass(d)
    /\ UNCHANGED <<online, pc, choiceVars>>
    /\ Watch

\* The core restarts: requests in flight are cut off, jobs stay in their table.
Restart ==
    LET cut == {c \in Clients : pc[c] \in Routing \cup {"proxying"}}
    IN  /\ Breaker!Restart
        /\ pc'     = [c \in Clients |-> IF c \in cut THEN "aborted" ELSE pc[c]]
        /\ ask'    = [c \in Clients |-> IF c \in cut THEN NoAsk ELSE ask[c]]
        /\ goes'   = [c \in Clients |-> IF c \in cut THEN "none" ELSE goes[c]]
        /\ target' = [c \in Clients |-> IF c \in cut THEN NoDevice ELSE target[c]]
        /\ tries'  = [c \in Clients |-> IF c \in cut THEN 0 ELSE tries[c]]
        /\ UNCHANGED online
        /\ Watch
-----------------------------------------------------------------------------
(* Routing. *)

Submit(c) ==
    /\ pc[c] \in Over
    /\ \E a \in Asks[c] :
        /\ ask' = [ask EXCEPT ![c] = a]
        /\ Goto(c, CASE a.kind = "smart" -> "local"
                     [] a.kind = "named" -> "provider"
                     [] OTHER -> "select")
    /\ UNCHANGED <<breakerVars, online, goes, target, tries>>
    /\ Watch

\* A query fails, or the client goes away.
Abort(c) ==
    /\ pc[c] \in Routing
    /\ EndWith(c, "aborted")
    /\ UNCHANGED <<breakerVars, online>>
    /\ Watch

\* The jobs of d that count in the ORDER BY of findLocalModel.
Load(d) == Cardinality({c \in Clients : pc[c] = "queued" /\ target[c] = d})

First(c, S)    == {d \in S : \A e \in S : Rank[c][d] <= Rank[c][e]}
LeastLoaded(S) == {d \in S : \A e \in S : Load(d) <= Load(e)}

\* The single row of findLocalModel; no row, or a query that fails, is no model.
PickLocal(c) ==
    /\ pc[c] = "local"
    /\ \/ /\ \E d \in LeastLoaded(First(c, Local[c] \cap online)) : Send(c, "ollama", d)
          /\ Goto(c, "checking")
       \/ Goto(c, "cloud") /\ UNCHANGED <<goes, target>>
    /\ UNCHANGED <<breakerVars, online, ask, tries>>
    /\ Watch

\* Error: the breaker is not asked.
SkipBreaker(c) ==
    /\ pc[c] = "checking"
    /\ Goto(c, "insert")
    /\ UNCHANGED <<breakerVars, online, choiceVars>>
    /\ Watch

CheckBreaker(c) ==
    /\ pc[c] = "checking"
    /\ IF Breaker!IsDeviceDegraded(target[c])
       THEN Goto(c, "cloud") /\ Send(c, "none", NoDevice)
       ELSE Goto(c, "insert") /\ UNCHANGED <<goes, target>>
    /\ UNCHANGED <<breakerVars, online, ask, tries>>
    /\ Watch

ToCloud(c, p) ==
    Goto(c, "insert") /\ Send(c, p, NoDevice) /\ UNCHANGED <<ask, tries>>

\* Error: the provider's key is not looked for.
FindCloudKeyless(c) ==
    /\ pc[c] = "cloud"
    /\ (\E p \in Clouds[c] : ToCloud(c, p)) \/ EndWith(c, "refused")
    /\ UNCHANGED <<breakerVars, online>>
    /\ Watch

\* findCloudModel takes one row, of either provider, and wants its key: no row,
\* a query that fails and a provider without a key refuse the request.
FindCloud(c) ==
    /\ pc[c] = "cloud"
    /\ \/ \E p \in Clouds[c] \cap Keys : ToCloud(c, p)
       \/ EndWith(c, "refused")
    /\ UNCHANGED <<breakerVars, online>>
    /\ Watch

FirstWithKey == CASE "openrouter" \in Keys -> "openrouter"
                  [] "openai" \in Keys     -> "openai"
                  [] OTHER                 -> "ollama"

\* HasLocalOllama, also for devices that do not have the model.
Preferred(a) ==
    CASE a.asked # "auto"              -> a.asked
      [] a.embed                       -> "ollama"
      [] a.cloud                       -> FirstWithKey
      [] a.local /\ online # {}        -> "ollama"
      [] OTHER                         -> FirstWithKey

ChooseProvider(c) ==
    LET p == Preferred(ask[c])
        q == IF p = "ollama" /\ ask[c].tooSlow THEN FirstWithKey ELSE p
    IN  /\ pc[c] = "provider"
        /\ CASE q = "ollama" -> Goto(c, "select") /\ UNCHANGED choiceVars
             [] q = "other"  -> EndWith(c, "refused")
             [] OTHER        -> ToCloud(c, q)
        /\ UNCHANGED <<breakerVars, online>>
        /\ Watch

(***************************************************************************)
(* SelectOllamaDevice.  Without a device, or if the query fails, a job is  *)
(* inserted all the same unless STRICT_MODEL_LIMITS is set; a proxied      *)
(* request is refused.  The circuit breaker is not asked.                  *)
(***************************************************************************)
Select(c) ==
    LET named == ask[c].kind = "named"
    IN  /\ pc[c] = "select"
        /\ \/ /\ \E d \in First(c, Local[c] \cap online) : Send(c, "ollama", d)
              /\ Goto(c, IF named THEN "insert" ELSE "proxying")
              /\ UNCHANGED <<ask, tries>>
           \/ /\ named /\ ~Strict
              /\ Goto(c, "insert") /\ Send(c, "ollama", NoDevice)
              /\ UNCHANGED <<ask, tries>>
           \/ /\ ~named \/ Strict
              /\ EndWith(c, "refused")
        /\ UNCHANGED <<breakerVars, online>>
        /\ Watch

Insert(c) ==
    /\ pc[c] = "insert"
    /\ Goto(c, "queued")
    /\ UNCHANGED <<breakerVars, online, choiceVars>>
    /\ Watch
-----------------------------------------------------------------------------
(* What becomes of the jobs, as the handlers of the HTTP workers report it. *)

JobSucceeds(c) ==
    /\ pc[c] = "queued" /\ target[c] # NoDevice
    /\ Succeeded(target[c])
    /\ EndWith(c, "off")
    /\ UNCHANGED online
    /\ Watch

JobFails(c) ==
    /\ pc[c] = "queued" /\ target[c] # NoDevice
    /\ Lapsed(target[c])
    /\ IF tries[c] + 1 < MaxRetries
       THEN tries' = [tries EXCEPT ![c] = @ + 1] /\ UNCHANGED <<pc, ask, goes, target>>
       ELSE EndWith(c, "off")
    /\ UNCHANGED online
    /\ Watch

\* A job of the cloud or of no device, or one of which the breaker is told nothing:
\* a gRPC worker ran it, or its result does not name the device (ollama.embed).
JobEndsUnrecorded(c) ==
    /\ pc[c] = "queued"
    /\ EndWith(c, "off")
    /\ UNCHANGED <<breakerVars, online>>
    /\ Watch
-----------------------------------------------------------------------------
(* The proxies. *)

\* A streamed chat is recorded as a success when the stream begins.
Answer(c) ==
    /\ pc[c] = "proxying"
    /\ Succeeded(target[c])
    /\ EndWith(c, "answered")
    /\ UNCHANGED online
    /\ Watch

\* Error: one attempt too many.
EmbedOnceMore(c) ==
    /\ pc[c] = "proxying" /\ ask[c].kind = "embed"
    /\ Lapsed(target[c])
    /\ IF tries[c] < MaxRetries
       THEN /\ Goto(c, "select")
            /\ tries' = [tries EXCEPT ![c] = @ + 1]
            /\ UNCHANGED <<ask, goes, target>>
       ELSE EndWith(c, "refused")
    /\ UNCHANGED online
    /\ Watch

\* Error: the attempts are not counted.
EmbedTriesForEver(c) ==
    /\ pc[c] = "proxying" /\ ask[c].kind = "embed"
    /\ Lapsed(target[c])
    /\ Goto(c, "select")
    /\ UNCHANGED <<ask, tries, goes, target, online>>
    /\ Watch

\* proxyOllamaEmbed fails: the loop selects again, whatever the breaker says.
EmbedFails(c) ==
    /\ pc[c] = "proxying" /\ ask[c].kind = "embed"
    /\ Lapsed(target[c])
    /\ IF tries[c] + 1 < MaxRetries
       THEN /\ Goto(c, "select")
            /\ tries' = [tries EXCEPT ![c] = @ + 1]
            /\ UNCHANGED <<ask, goes, target>>
       ELSE EndWith(c, "refused")
    /\ UNCHANGED online
    /\ Watch

\* An answer that proxyOllamaChat cannot decode is not recorded.
ChatFails(c) ==
    /\ pc[c] = "proxying" /\ ask[c].kind = "chat"
    /\ Lapsed(target[c]) \/ UNCHANGED breakerVars
    /\ EndWith(c, "refused")
    /\ UNCHANGED online
    /\ Watch

\* The request's context ends the call, which counts as a failure of the device,
\* unless it ends while the answer of a chat is decoded.
ClientLeaves(c) ==
    /\ pc[c] = "proxying"
    /\ \/ Lapsed(target[c])
       \/ ask[c].kind = "chat" /\ UNCHANGED breakerVars
    /\ EndWith(c, "aborted")
    /\ UNCHANGED online
    /\ Watch
-----------------------------------------------------------------------------
RouteStep(c) ==
    \/ PickLocal(c) \/ CheckBreaker(c) \/ FindCloud(c)
    \/ ChooseProvider(c) \/ Select(c) \/ Insert(c)

RunStep(c) ==
    \/ JobSucceeds(c) \/ JobFails(c) \/ JobEndsUnrecorded(c)
    \/ Answer(c) \/ EmbedFails(c) \/ ChatFails(c)

Next ==
    \/ \E d \in Devices : ComeOrGo(d) \/ FiveMinutesPass(d)
    \/ Restart
    \/ \E c \in Clients : \/ Submit(c) \/ RouteStep(c) \/ RunStep(c)
                          \/ Abort(c) \/ ClientLeaves(c)

Spec == Init /\ [][Next]_vars

(***************************************************************************)
(* Handlers run and have timeouts, and jobs end (JobQueue).  A device need *)
(* not recover: each further failure starts its five minutes again.        *)
(***************************************************************************)
Fairness == \A c \in Clients : WF_vars(RouteStep(c) \/ RunStep(c))

LiveSpec == Spec /\ Fairness
-----------------------------------------------------------------------------
(***************************************************************************)
(* A smart request does not go to a device that was degraded all the while *)
(* it was routed, although the row was read before the breaker was asked   *)
(* and results of other requests come in between.                          *)
(***************************************************************************)
DegradedPassedOver ==
    \A c \in Clients :
        pc[c] = "insert" /\ ask[c].kind = "smart" /\ target[c] # NoDevice
            => target[c] \in seen[c]

(***************************************************************************)
(* A request goes to a cloud provider without a key only if the client     *)
(* named that provider.                                                    *)
(***************************************************************************)
CloudHasKey ==
    \A c \in Clients :
        pc[c] \in {"insert", "queued"} /\ goes[c] \in Providers
            => goes[c] \in Keys \/ ask[c].asked = goes[c]

(***************************************************************************)
(* Every request is answered, however devices and breaker change while it  *)
(* is routed and retried.                                                  *)
(***************************************************************************)
RequestsAnswered ==
    \A c \in Clients :
        pc[c] \in Routing \cup {"proxying"} ~> pc[c] \in Over \cup {"queued"}

(***************************************************************************)
(* doc/README.md, "Circuit Breaker": a device is degraded because it did   *)
(* not do its tasks.  So it is never a client that goes away by which a    *)
(* device becomes degraded.                                                *)
(***************************************************************************)
DegradedByFailures ==
    [][\A d \in Devices :
          ~Breaker!IsDeviceDegraded(d) /\ Breaker!IsDeviceDegraded(d)'
              => \A c \in Clients : pc'[c] = "aborted" => pc[c] = "aborted"]_vars
=============================================================================
