---------------------------- MODULE RouterProofs ----------------------------
(***************************************************************************)
(* Theorems about Router, for every set of clients and devices, every      *)
(* catalogue, set of keys and threshold.                                   *)
(***************************************************************************)
EXTENDS Router, TLAPS

USE RouterAssumption
USE DEF Over, Routing, RouterPC, Providers, breakerVars, choiceVars

(***************************************************************************)
(* A result, the passing of time and a restart keep the types of the       *)
(* circuit breaker.                                                        *)
(***************************************************************************)
LEMMA RecordType ==
    ASSUME Breaker!TypeOK, NEW d \in Devices, NEW success \in BOOLEAN,
           Breaker!RecordDeviceResult(d, success)
    PROVE  Breaker!TypeOK'
  BY DEF Breaker!TypeOK, Breaker!RecordDeviceResult, Breaker!Failed

LEMMA TimeType ==
    ASSUME Breaker!TypeOK, NEW d \in Devices, Breaker!FiveMinutesPass(d)
    PROVE  Breaker!TypeOK'
  BY DEF Breaker!TypeOK, Breaker!FiveMinutesPass

LEMMA RestartType ==
    ASSUME Breaker!Restart
    PROVE  Breaker!TypeOK'
  BY DEF Breaker!TypeOK, Breaker!Restart

LEMMA SameBreaker ==
    ASSUME Breaker!TypeOK, UNCHANGED <<failures, fresh>>
    PROVE  Breaker!TypeOK'
  BY DEF Breaker!TypeOK

(***************************************************************************)
(* What the ghost adds at each step.                                       *)
(***************************************************************************)
LEMMA WatchAdds ==
    ASSUME Watch, seen \in [Clients -> SUBSET Devices]
    PROVE  /\ seen' \in [Clients -> SUBSET Devices]
           /\ \A c \in Clients : pc'[c] \in Choosing /\ ask'[c].kind = "smart" =>
                /\ seen[c] \subseteq seen'[c]
                /\ \A d \in Devices : ~Breaker!IsDeviceDegraded(d)' => d \in seen'[c]
<1>1. \A c \in Clients : /\ seen'[c] \in SUBSET Devices
                         /\ pc'[c] \in Choosing /\ ask'[c].kind = "smart" =>
                              seen'[c] = seen[c] \cup {d \in Devices : ~Breaker!IsDeviceDegraded(d)'}
  BY DEF Watch
<1>2. seen' \in [Clients -> SUBSET Devices]
  BY <1>1 DEF Watch
<1>3. QED
  BY <1>1, <1>2
LEMMA NoAskType == NoAsk \in Ask
  BY DEF NoAsk, Ask

(***************************************************************************)
(* Where a request can be depends on its kind, and a call is always made   *)
(* to a device.                                                            *)
(***************************************************************************)
Placed ==
    \A c \in Clients :
        /\ pc[c] \in {"local", "checking", "cloud"} => ask[c].kind = "smart"
        /\ pc[c] = "provider" => ask[c].kind = "named"
        /\ pc[c] = "select"   => ask[c].kind # "smart"
        /\ pc[c] = "checking" => goes[c] = "ollama"
        /\ pc[c] = "proxying" => target[c] \in Devices

RequestType ==
    /\ pc     \in [Clients -> RouterPC]
    /\ ask    \in [Clients -> Ask]
    /\ goes   \in [Clients -> {"none", "ollama", "other"} \cup Providers]
    /\ target \in [Clients -> Devices \cup {NoDevice}]
    /\ tries  \in [Clients -> 0..(MaxRetries - 1)]

RouterInv == TypeOK /\ Placed

(***************************************************************************)
(* A request that ends keeps the types and leaves the others in place.     *)
(***************************************************************************)
LEMMA EndKeeps ==
    ASSUME RequestType, Placed, NEW c \in Clients,
           NEW outcome \in Over, EndWith(c, outcome)
    PROVE  RequestType' /\ Placed'
<1>1. RequestType'
  BY NoAskType DEF RequestType, EndWith, Goto, Forget, Send
<1>2. Placed'
  BY DEF RequestType, Placed, EndWith, Goto, Forget, Send
<1>3. QED
  BY <1>1, <1>2

LEMMA RouteKeeps ==
    ASSUME RequestType, Placed, NEW c \in Clients, RouteStep(c)
    PROVE  RequestType' /\ Placed'
<1>1. CASE PickLocal(c)
  <2>1. \A d \in First(c, Local[c] \cap online) : d \in Devices
    BY DEF First
  <2>2. \A d \in LeastLoaded(First(c, Local[c] \cap online)) : d \in Devices
    BY <2>1 DEF LeastLoaded
  <2>3. ASSUME NEW d \in Devices, Send(c, "ollama", d), Goto(c, "checking"),
               pc[c] = "local", UNCHANGED <<ask, tries>>
        PROVE  RequestType' /\ Placed'
    <3>1. RequestType'
      BY <2>3 DEF RequestType, Goto, Send
    <3>2. Placed'
      BY <2>3 DEF RequestType, Placed, Goto, Send
    <3>3. QED
      BY <3>1, <3>2
  <2>4. ASSUME Goto(c, "cloud"), pc[c] = "local", UNCHANGED <<goes, target, ask, tries>>
        PROVE  RequestType' /\ Placed'
    BY <2>4 DEF RequestType, Placed, Goto
  <2>5. pc[c] = "local" /\ UNCHANGED <<ask, tries>>
    BY <1>1 DEF PickLocal
  <2>6. CASE Goto(c, "cloud") /\ UNCHANGED <<goes, target>>
    BY <2>4, <2>5, <2>6
  <2>7. CASE /\ \E d \in LeastLoaded(First(c, Local[c] \cap online)) : Send(c, "ollama", d)
             /\ Goto(c, "checking")
    <3>1. PICK d \in LeastLoaded(First(c, Local[c] \cap online)) : Send(c, "ollama", d)
      BY <2>7
    <3>2. d \in Devices
      BY <2>2
    <3>3. QED
      BY <2>3, <2>5, <2>7, <3>1, <3>2
  <2>8. QED
    BY <1>1, <2>6, <2>7 DEF PickLocal
<1>2. CASE CheckBreaker(c)
  <2>1. pc[c] = "checking" /\ UNCHANGED <<ask, tries>>
    BY <1>2 DEF CheckBreaker
  <2>2. CASE Goto(c, "cloud") /\ Send(c, "none", NoDevice)
    BY <2>1, <2>2 DEF RequestType, Placed, Goto, Send
  <2>3. CASE Goto(c, "insert") /\ UNCHANGED <<goes, target>>
    BY <2>1, <2>3 DEF RequestType, Placed, Goto
  <2>4. QED
    BY <1>2, <2>2, <2>3 DEF CheckBreaker
<1>3. CASE FindCloud(c)
  <2>1. CASE \E p \in Clouds[c] \cap Keys : ToCloud(c, p)
    BY <1>3, <2>1 DEF RequestType, Placed, ToCloud, Goto, Send
  <2>2. CASE EndWith(c, "refused")
    BY <2>2, EndKeeps
  <2>3. QED
    BY <1>3, <2>1, <2>2 DEF FindCloud
<1>4. CASE ChooseProvider(c)
  <2> DEFINE q == IF Preferred(ask[c]) = "ollama" /\ ask[c].tooSlow
                  THEN FirstWithKey ELSE Preferred(ask[c])
  <2>1. q \in {"ollama", "other"} \cup Providers
    <3>1. ask[c].asked \in {"auto", "ollama", "other"} \cup Providers
      BY DEF RequestType, Ask
    <3>2. QED
      BY <3>1 DEF Preferred, FirstWithKey
  <2>2. CASE q = "ollama"
    BY <1>4, <2>2 DEF RequestType, Placed, ChooseProvider, Goto
  <2>3. CASE q = "other"
    <3>1. EndWith(c, "refused")
      BY <1>4, <2>3 DEF ChooseProvider
    <3>2. QED
      BY <3>1, EndKeeps
  <2>4. CASE q \in Providers
    <3>1. pc[c] = "provider" /\ ToCloud(c, q)
      BY <1>4, <2>4 DEF ChooseProvider
    <3>2. QED
      BY <3>1, <2>4 DEF RequestType, Placed, ToCloud, Goto, Send
  <2>5. QED
    BY <2>1, <2>2, <2>3, <2>4
<1>5. CASE Select(c)
  <2>1. \A d \in First(c, Local[c] \cap online) : d \in Devices
    BY DEF First
  <2>2. CASE EndWith(c, "refused")
    BY <2>2, EndKeeps
  <2>3. ASSUME NEW d \in Devices \cup {NoDevice}, Send(c, "ollama", d), pc[c] = "select",
               UNCHANGED <<ask, tries>>,
               \/ Goto(c, "insert")
               \/ Goto(c, "proxying") /\ d \in Devices
        PROVE  RequestType' /\ Placed'
    BY <2>3 DEF RequestType, Placed, Goto, Send
  <2>4. pc[c] = "select"
    BY <1>5 DEF Select
  <2>5. CASE /\ \E d \in First(c, Local[c] \cap online) : Send(c, "ollama", d)
             /\ Goto(c, IF ask[c].kind = "named" THEN "insert" ELSE "proxying")
             /\ UNCHANGED <<ask, tries>>
    <3>1. PICK d \in First(c, Local[c] \cap online) : Send(c, "ollama", d)
      BY <2>5
    <3>2. d \in Devices /\ (Goto(c, "insert") \/ Goto(c, "proxying"))
      BY <2>1, <2>5
    <3>3. QED
      BY <2>3, <2>4, <2>5, <3>1, <3>2
  <2>6. CASE /\ Goto(c, "insert") /\ Send(c, "ollama", NoDevice)
             /\ UNCHANGED <<ask, tries>>
    BY <2>3, <2>4, <2>6
  <2>7. QED
    BY <1>5, <2>2, <2>5, <2>6 DEF Select
<1>6. CASE Insert(c)
  BY <1>6 DEF RequestType, Placed, Insert, Goto
<1>7. QED
  BY <1>1, <1>2, <1>3, <1>4, <1>5, <1>6 DEF RouteStep
LEMMA RunKeeps ==
    ASSUME RequestType, Placed, NEW c \in Clients, RunStep(c)
    PROVE  RequestType' /\ Placed'
<1>1. ASSUME tries[c] + 1 < MaxRetries, tries' = [tries EXCEPT ![c] = @ + 1],
             UNCHANGED <<ask, goes, target>>,
             \/ UNCHANGED pc
             \/ Goto(c, "select") /\ ask[c].kind = "embed"
      PROVE  RequestType' /\ Placed'
  BY <1>1 DEF RequestType, Placed, Goto
<1>2. ASSUME NEW outcome \in Over, EndWith(c, outcome)
      PROVE  RequestType' /\ Placed'
  BY <1>2, EndKeeps
<1>3. CASE JobFails(c)
  BY <1>1, <1>2, <1>3 DEF JobFails
<1>4. CASE EmbedFails(c)
  BY <1>1, <1>2, <1>4 DEF EmbedFails
<1>5. CASE JobSucceeds(c) \/ JobEndsUnrecorded(c)
  BY <1>2, <1>5 DEF JobSucceeds, JobEndsUnrecorded
<1>6. CASE Answer(c) \/ ChatFails(c)
  BY <1>2, <1>6 DEF Answer, ChatFails
<1>7. QED
  BY <1>3, <1>4, <1>5, <1>6 DEF RunStep

(***************************************************************************)
(* Every step keeps the types of the requests and their places,            *)
(***************************************************************************)
LEMMA RequestsKept ==
    ASSUME RequestType, Placed, [Next]_vars
    PROVE  RequestType' /\ Placed'
<1>1. ASSUME UNCHANGED <<pc, ask, goes, target, tries>>
      PROVE  RequestType' /\ Placed'
  BY <1>1 DEF RequestType, Placed
<1>2. ASSUME NEW d \in Devices, ComeOrGo(d) \/ FiveMinutesPass(d)
      PROVE  RequestType' /\ Placed'
  BY <1>1, <1>2 DEF ComeOrGo, FiveMinutesPass
<1>3. CASE Restart
  <2>1. RequestType'
    BY <1>3, NoAskType DEF Restart, RequestType
  <2>2. Placed'
    BY <1>3 DEF Restart, RequestType, Placed
  <2>3. QED
    BY <2>1, <2>2
<1>4. ASSUME NEW c \in Clients, Submit(c)
      PROVE  RequestType' /\ Placed'
  <2>1. PICK a \in Asks[c] :
            /\ ask' = [ask EXCEPT ![c] = a]
            /\ Goto(c, CASE a.kind = "smart" -> "local"
                         [] a.kind = "named" -> "provider"
                         [] OTHER -> "select")
    BY <1>4 DEF Submit
  <2>2. a \in Ask /\ UNCHANGED <<goes, target, tries>>
    BY <1>4 DEF Submit
  <2>3. QED
    BY <2>1, <2>2 DEF RequestType, Placed, Goto
<1>5. ASSUME NEW c \in Clients, Abort(c) \/ ClientLeaves(c)
      PROVE  RequestType' /\ Placed'
  BY <1>5, EndKeeps DEF Abort, ClientLeaves
<1>6. CASE UNCHANGED vars
  BY <1>1, <1>6 DEF vars
<1>7. QED
  BY <1>2, <1>3, <1>4, <1>5, <1>6, RouteKeeps, RunKeeps DEF Next
(***************************************************************************)
(* and those of the breaker and the ghosts.                                *)
(***************************************************************************)
LEMMA RecordsKept ==
    ASSUME Breaker!TypeOK, NEW d \in Devices, Succeeded(d) \/ Lapsed(d)
    PROVE  Breaker!TypeOK'
  BY RecordType DEF Succeeded, Lapsed

LEMMA BreakerKept ==
    ASSUME TypeOK, Placed, [Next]_vars
    PROVE  /\ Breaker!TypeOK'
           /\ online' \in SUBSET Devices
           /\ seen' \in [Clients -> SUBSET Devices]
<1> DEFINE Kept == /\ Breaker!TypeOK'
                  /\ online' \in SUBSET Devices
                  /\ seen' \in [Clients -> SUBSET Devices]
<1>1. Watch => seen' \in [Clients -> SUBSET Devices]
  BY WatchAdds DEF TypeOK
<1>2. ASSUME UNCHANGED <<failures, fresh, online>>, Watch
      PROVE  Kept
  BY <1>1, <1>2, SameBreaker DEF TypeOK
<1>3. ASSUME NEW d \in Devices, Succeeded(d) \/ Lapsed(d), UNCHANGED online, Watch
      PROVE  Kept
  BY <1>1, <1>3, RecordsKept DEF TypeOK
<1>4. ASSUME NEW d \in Devices, ComeOrGo(d) \/ FiveMinutesPass(d)
      PROVE  Kept
  <2>1. CASE ComeOrGo(d)
    BY <1>1, <2>1, SameBreaker DEF ComeOrGo, TypeOK
  <2>2. CASE FiveMinutesPass(d)
    BY <1>1, <2>2, TimeType DEF FiveMinutesPass, TypeOK
  <2>3. QED
    BY <1>4, <2>1, <2>2
<1>5. CASE Restart
  BY <1>1, <1>5, RestartType DEF Restart, TypeOK
<1>6. ASSUME NEW c \in Clients, Submit(c) \/ Abort(c)
      PROVE  Kept
  BY <1>2, <1>6 DEF Submit, Abort
<1>7. ASSUME NEW c \in Clients, RouteStep(c)
      PROVE  Kept
  BY <1>2, <1>7 DEF RouteStep, PickLocal, CheckBreaker, FindCloud, ChooseProvider, Select, Insert
<1>8. ASSUME NEW c \in Clients, RunStep(c)
      PROVE  Kept
  <2>1. target[c] # NoDevice => target[c] \in Devices
    BY DEF TypeOK
  <2>2. CASE JobSucceeds(c) \/ JobFails(c)
    BY <1>3, <2>1, <2>2 DEF JobSucceeds, JobFails
  <2>3. CASE JobEndsUnrecorded(c)
    BY <1>2, <2>3 DEF JobEndsUnrecorded
  <2>4. CASE Answer(c) \/ EmbedFails(c) \/ ChatFails(c)
    <3>1. target[c] \in Devices
      BY <2>4 DEF Placed, Answer, EmbedFails, ChatFails
    <3>2. QED
      BY <1>2, <1>3, <2>4, <3>1 DEF Answer, EmbedFails, ChatFails
  <2>5. QED
    BY <1>8, <2>2, <2>3, <2>4 DEF RunStep
<1>9. ASSUME NEW c \in Clients, ClientLeaves(c)
      PROVE  Kept
  <2>1. target[c] \in Devices
    BY <1>9 DEF Placed, ClientLeaves
  <2>2. Breaker!TypeOK'
    BY <1>9, <2>1, RecordsKept, SameBreaker DEF ClientLeaves, TypeOK
  <2>3. QED
    BY <1>1, <1>9, <2>2 DEF ClientLeaves, TypeOK
<1>10. CASE UNCHANGED vars
  BY <1>10, SameBreaker DEF vars, TypeOK
<1>11. QED
  BY <1>4, <1>5, <1>6, <1>7, <1>8, <1>9, <1>10 DEF Next

(***************************************************************************)
(* Type correctness of the router, with the places of the requests that a  *)
(* step needs for it.                                                      *)
(***************************************************************************)
THEOREM RouterTypeCorrect == Spec => [](TypeOK /\ Placed)
<1>1. Init => RouterInv
  BY NoAskType DEF Init, RouterInv, TypeOK, Placed, Breaker!Init, Breaker!TypeOK
<1>2. RouterInv /\ [Next]_vars => RouterInv'
  <2> SUFFICES ASSUME TypeOK, Placed, [Next]_vars PROVE TypeOK' /\ Placed'
    BY DEF RouterInv
  <2>1. RequestType' /\ Placed'
    BY RequestsKept DEF TypeOK, RequestType
  <2>2. QED
    BY <2>1, BreakerKept DEF TypeOK, RequestType
<1>3. RouterInv => TypeOK /\ Placed
  BY DEF RouterInv
<1>4. QED
  BY <1>1, <1>2, <1>3, PTL DEF Spec
(***************************************************************************)
(* A step of one client does not touch the request of another one.         *)
(***************************************************************************)
SameRequest(c) == /\ pc'[c] = pc[c] /\ ask'[c] = ask[c]
                  /\ goes'[c] = goes[c] /\ target'[c] = target[c]

LEMMA OthersUntouched ==
    ASSUME RequestType, NEW c \in Clients, NEW e \in Clients, e # c,
           \/ Submit(e) \/ RouteStep(e) \/ RunStep(e)
           \/ Abort(e) \/ ClientLeaves(e)
    PROVE  SameRequest(c)
<1>1. \A next : Goto(e, next) => pc'[c] = pc[c]
  BY DEF RequestType, Goto
<1>2. \A where, d : Send(e, where, d) => goes'[c] = goes[c] /\ target'[c] = target[c]
  BY DEF RequestType, Send
<1>3. \A outcome : EndWith(e, outcome) => SameRequest(c)
  BY <1>1, <1>2 DEF EndWith, Forget, RequestType, SameRequest
<1>4. CASE Submit(e)
  BY <1>1, <1>4 DEF Submit, RequestType, SameRequest
<1>5. CASE RouteStep(e)
  <2>1. \A p : ToCloud(e, p) => SameRequest(c)
    BY <1>1, <1>2 DEF ToCloud, SameRequest
  <2>2. CASE PickLocal(e)
    BY <1>1, <1>2, <2>2 DEF PickLocal, SameRequest
  <2>3. CASE CheckBreaker(e)
    BY <1>1, <1>2, <2>3 DEF CheckBreaker, SameRequest
  <2>4. CASE FindCloud(e)
    BY <1>3, <2>1, <2>4 DEF FindCloud
  <2>5. CASE ChooseProvider(e)
    BY <1>1, <1>3, <2>1, <2>5 DEF ChooseProvider, SameRequest
  <2>6. CASE Select(e)
    BY <1>1, <1>2, <1>3, <2>6 DEF Select, SameRequest
  <2>7. CASE Insert(e)
    BY <1>1, <2>7 DEF Insert, SameRequest
  <2>8. QED
    BY <1>5, <2>2, <2>3, <2>4, <2>5, <2>6, <2>7 DEF RouteStep
<1>6. CASE RunStep(e)
  <2>1. CASE JobFails(e)
    BY <1>3, <2>1 DEF JobFails, SameRequest
  <2>2. CASE EmbedFails(e)
    BY <1>1, <1>3, <2>2 DEF EmbedFails, SameRequest
  <2>3. CASE JobSucceeds(e) \/ JobEndsUnrecorded(e) \/ Answer(e) \/ ChatFails(e)
    BY <1>3, <2>3 DEF JobSucceeds, JobEndsUnrecorded, Answer, ChatFails
  <2>4. QED
    BY <1>6, <2>1, <2>2, <2>3 DEF RunStep
<1>7. CASE Abort(e) \/ ClientLeaves(e)
  BY <1>3, <1>7 DEF Abort, ClientLeaves
<1>8. QED
  BY <1>4, <1>5, <1>6, <1>7

(***************************************************************************)
(* The ways to a decided request: it was one, the breaker let its device   *)
(* pass, a cloud provider was taken, or a device for a named model.        *)
(***************************************************************************)
Let(c)     == /\ pc[c] = "checking" /\ ask'[c] = ask[c]
              /\ goes'[c] = goes[c] /\ target'[c] = target[c]
              /\ ~Breaker!IsDeviceDegraded(target[c])
              /\ UNCHANGED <<failures, fresh>>
Clouded(c) == /\ target'[c] = NoDevice
              /\ goes'[c] \in Keys \/ ask'[c].asked = goes'[c]
Named(c)   == ask'[c].kind = "named" /\ goes'[c] = "ollama"

LEMMA Arrivals ==
    ASSUME RequestType, Placed, [Next]_vars, NEW c \in Clients,
           pc'[c] \in {"insert", "queued"}
    PROVE  \/ /\ SameRequest(c)
           \/ /\ pc[c] = "insert" /\ pc'[c] = "queued" /\ ask'[c] = ask[c]
              /\ goes'[c] = goes[c] /\ target'[c] = target[c]
           \/ pc'[c] = "insert" /\ (Let(c) \/ Clouded(c) \/ Named(c))
<1> DEFINE Arrived ==
      \/ /\ SameRequest(c)
      \/ /\ pc[c] = "insert" /\ pc'[c] = "queued" /\ ask'[c] = ask[c]
         /\ goes'[c] = goes[c] /\ target'[c] = target[c]
      \/ pc'[c] = "insert" /\ (Let(c) \/ Clouded(c) \/ Named(c))
<1>1. \A next : Goto(c, next) => pc'[c] = next
  BY DEF RequestType, Goto
<1>2. \A where, d : Send(c, where, d) => goes'[c] = where /\ target'[c] = d
  BY DEF RequestType, Send
<1>3. \A outcome \in Over : ~EndWith(c, outcome)
  BY <1>1 DEF EndWith
<1>4. CASE PickLocal(c) \/ Abort(c) \/ ClientLeaves(c)
  BY <1>1, <1>3, <1>4 DEF PickLocal, Abort, ClientLeaves
<1>5. CASE Submit(c)
  BY <1>1, <1>5 DEF Submit
<1>6. CASE CheckBreaker(c)
  BY <1>1, <1>6 DEF CheckBreaker, Let
<1>7. CASE FindCloud(c)
  BY <1>1, <1>2, <1>3, <1>7 DEF FindCloud, ToCloud, Clouded
<1>8. CASE ChooseProvider(c)
  <2> DEFINE q == IF Preferred(ask[c]) = "ollama" /\ ask[c].tooSlow
                  THEN FirstWithKey ELSE Preferred(ask[c])
  <2>1. q \in {"ollama", "other"} \cup Keys \/ q = ask[c].asked
    BY DEF Preferred, FirstWithKey
  <2>2. q \notin {"ollama", "other"} /\ ToCloud(c, q)
    BY <1>1, <1>3, <1>8 DEF ChooseProvider
  <2>3. QED
    BY <1>1, <1>2, <2>1, <2>2 DEF ToCloud, Clouded
<1>9. CASE Select(c)
  BY <1>1, <1>2, <1>3, <1>9 DEF Select, Named
<1>10. CASE Insert(c)
  BY <1>1, <1>10 DEF Insert
<1>11. CASE RunStep(c)
  <2>1. CASE JobFails(c)
    BY <1>3, <2>1 DEF JobFails, SameRequest
  <2>2. CASE EmbedFails(c)
    BY <1>1, <1>3, <2>2 DEF EmbedFails
  <2>3. CASE JobSucceeds(c) \/ JobEndsUnrecorded(c) \/ Answer(c) \/ ChatFails(c)
    BY <1>3, <2>3 DEF JobSucceeds, JobEndsUnrecorded, Answer, ChatFails
  <2>4. QED
    BY <1>11, <2>1, <2>2, <2>3 DEF RunStep
<1>12. ASSUME NEW d \in Devices, ComeOrGo(d) \/ FiveMinutesPass(d)
       PROVE  SameRequest(c)
  BY <1>12 DEF ComeOrGo, FiveMinutesPass, SameRequest
<1>13. CASE Restart
  BY <1>13 DEF Restart, RequestType, SameRequest
<1>14. CASE UNCHANGED vars
  BY <1>14 DEF vars, SameRequest
<1>15. ASSUME NEW e \in Clients,
              \/ Submit(e) \/ RouteStep(e) \/ RunStep(e)
              \/ Abort(e) \/ ClientLeaves(e)
       PROVE  Arrived
  <2>1. CASE e # c
    BY <1>15, <2>1, OthersUntouched
  <2>2. CASE e = c
    BY <1>4, <1>5, <1>6, <1>7, <1>8, <1>9, <1>10, <1>11, <1>15, <2>2 DEF RouteStep
  <2>3. QED
    BY <2>1, <2>2
<1>16. QED
  BY <1>12, <1>13, <1>14, <1>15 DEF Next
LEMMA EveryStepWatches ==
    ASSUME [Next]_vars
    PROVE  Watch \/ UNCHANGED vars
<1>1. \A c \in Clients : RouteStep(c) => Watch
  BY DEF RouteStep, PickLocal, CheckBreaker, FindCloud, ChooseProvider, Select, Insert
<1>2. \A c \in Clients : RunStep(c) => Watch
  BY DEF RunStep, JobSucceeds, JobFails, JobEndsUnrecorded, Answer, EmbedFails, ChatFails
<1>3. \A c \in Clients : Submit(c) \/ Abort(c) \/ ClientLeaves(c) => Watch
  BY DEF Submit, Abort, ClientLeaves
<1>4. \A d \in Devices : ComeOrGo(d) \/ FiveMinutesPass(d) => Watch
  BY DEF ComeOrGo, FiveMinutesPass
<1>5. Restart => Watch
  BY DEF Restart
<1>6. QED
  BY <1>1, <1>2, <1>3, <1>4, <1>5 DEF Next

(***************************************************************************)
(* DegradedPassedOver for any number of requests, devices and failures.    *)
(***************************************************************************)
THEOREM DegradedAvoided == Spec => []DegradedPassedOver
<1>1. Init => DegradedPassedOver
  BY DEF Init, DegradedPassedOver
<1>2. TypeOK /\ Placed /\ (TypeOK /\ Placed)' /\ DegradedPassedOver /\ [Next]_vars
        => DegradedPassedOver'
  <2> SUFFICES ASSUME TypeOK, Placed, TypeOK', DegradedPassedOver, [Next]_vars,
                      NEW c \in Clients,
                      pc'[c] = "insert", ask'[c].kind = "smart", target'[c] # NoDevice
               PROVE  target'[c] \in seen'[c]
    BY DEF DegradedPassedOver
  <2>1. target'[c] \in Devices
    BY DEF TypeOK
  <2>2. CASE UNCHANGED vars
    BY <2>2 DEF vars, DegradedPassedOver
  <2>3. CASE Watch
    <3>1. /\ seen[c] \subseteq seen'[c]
          /\ \A d \in Devices : ~Breaker!IsDeviceDegraded(d)' => d \in seen'[c]
      BY <2>3, WatchAdds DEF TypeOK, Choosing
    <3>2. CASE SameRequest(c)
      BY <3>1, <3>2 DEF SameRequest, DegradedPassedOver
    <3>3. CASE Let(c)
      <4>1. PICK d \in Devices : d = target'[c]
        BY <2>1
      <4>2. ~Breaker!IsDeviceDegraded(d)
        BY <3>3, <4>1 DEF Let
      <4>3. ~Breaker!IsDeviceDegraded(d)'
        BY <3>3, <4>2 DEF Let, Breaker!IsDeviceDegraded
      <4>4. QED
        BY <3>1, <4>1, <4>3
    <3>4. SameRequest(c) \/ Let(c) \/ Clouded(c) \/ Named(c)
      BY Arrivals DEF TypeOK, RequestType
    <3>5. QED
      BY <3>2, <3>3, <3>4 DEF Clouded, Named
  <2>4. QED
    BY <2>2, <2>3, EveryStepWatches
<1>3. QED
  BY <1>1, <1>2, RouterTypeCorrect, PTL DEF Spec

(***************************************************************************)
(* CloudHasKey for every catalogue and every set of keys.                  *)
(***************************************************************************)
THEOREM CloudKeysHeld == Spec => []CloudHasKey
<1>1. Init => CloudHasKey
  BY DEF Init, CloudHasKey
<1>2. TypeOK /\ Placed /\ CloudHasKey /\ [Next]_vars => CloudHasKey'
  <2> SUFFICES ASSUME TypeOK, Placed, CloudHasKey, [Next]_vars, NEW c \in Clients,
                      pc'[c] \in {"insert", "queued"}, goes'[c] \in Providers
               PROVE  goes'[c] \in Keys \/ ask'[c].asked = goes'[c]
    BY DEF CloudHasKey
  <2>1. \/ SameRequest(c)
        \/ pc[c] = "insert" /\ ask'[c] = ask[c] /\ goes'[c] = goes[c]
        \/ Let(c) \/ Clouded(c) \/ Named(c)
    BY Arrivals DEF TypeOK, RequestType
  <2>2. CASE SameRequest(c) \/ (pc[c] = "insert" /\ ask'[c] = ask[c] /\ goes'[c] = goes[c])
    BY <2>2 DEF SameRequest, CloudHasKey
  <2>3. CASE Let(c) \/ Clouded(c) \/ Named(c)
    BY <2>3 DEF Let, Clouded, Named, Placed
  <2>4. QED
    BY <2>1, <2>2, <2>3
<1>3. QED
  BY <1>1, <1>2, RouterTypeCorrect, PTL DEF Spec
=============================================================================
