------------------------------ MODULE Discovery ------------------------------
(***************************************************************************)
(* Discovery: passes that read the list of peers, probe the Ollama servers *)
(* of each node and write what they find into devices and device_models;   *)
(* the other writers of devices (workers that register, and workers that   *)
(* report a device offline); the limits (DeviceLimits); and what the       *)
(* router finds in these tables.                                           *)
(*                                                                         *)
(* A statement is one action, but for the two that store a model.  The     *)
(* list of peers is read when a pass begins, and an answer of a server     *)
(* before the statements that store it.                                    *)
(* The ticker's passes follow one another; POST /v1/discovery/run starts   *)
(* one at any time, with a context of 15 s that may cut it anywhere.       *)
(***************************************************************************)
EXTENDS ModelTiers, FiniteSets

CONSTANTS
    Devices,
    Nodes,       \* nodes of the tailnet; their default port is a device of that id
    PortDevices, \* their other ports
    Base,        \* Base[d]: the node of port device d
    Lan,         \* ids of rows found by scans: lan-<address>, and lan-<address>:<port> ...
    LanPorts,    \* ... for ports other than 11434
    Own,         \* those of this node's addresses, with every port
    Extras,      \* extra endpoints
    Workers,     \* ids of workers
    Models, Described, NoName, NoList, NoRow, Strict,  \* as in DeviceLimits
    NoDevice,
    Prompts,     \* lengths of prompts that are asked about, in bytes
    Envs         \* environments the process may be started with

VARIABLES
    env,         \* the environment
    booted,      \* whether the first ApplyDeviceLimits of the process is over
    events,      \* events so far; env.events bounds them
    limit, applying, due, rest,  \* as in DeviceLimits
    listed,      \* nodes the tailnet has among the peers
    up,          \* those it has online
    serves,      \* serves[e]: the models server e has
    down,        \* servers that do not answer
    rows,        \* devices with a row
    tagged,      \* those tagged ollama (with an address, but for workers)
    status,      \* status[d], for the devices with a row
    offers,      \* offers[d]: models with available = TRUE in device_models
    pc,          \* where each pass is
    known,       \* whether it could read the list of peers
    online,      \* the nodes that are online in its list
    todo,        \* nodes, addresses or endpoints it has still to visit
    ports,       \* servers of the node at hand that it has still to probe
    at,          \* the device it probes
    tries,       \* the requests it has still to send for it
    heard,       \* whether one of them was answered
    got, left,   \* the models of the answer, and those it has still to store
    told         \* ghost: the models d has ever answered with

Limits == INSTANCE DeviceLimits

limitVars == <<limit, applying, due, rest>>
coreVars  == <<env, booted>>
worldVars == <<listed, up, serves, down>>
tableVars == <<rows, tagged, status, offers>>
walkVars  == <<known, online, todo, ports>>
probeVars == <<at, tries, heard, got, left>>
passVars  == <<pc, walkVars, probeVars>>
vars == <<coreVars, events, limitVars, worldVars, tableVars, passVars, told>>

(***************************************************************************)
(* standard: 11434 is in OLLAMA_PORTS, or the list is empty; ports: of the *)
(* others; extras: OLLAMA_EXTRA_ENDPOINTS; scan: DISCOVERY_SCAN_SUBNETS;   *)
(* lan: the ids of DISCOVERY_SUBNETS with these ports; routes: those of    *)
(* the subnets that this node routes; requests[n]: those of one probe of   *)
(* n, one for each of its addresses and host headers; every:               *)
(* DEVICE_LIMITS_INTERVAL is set; specs, default: DEVICE_LIMITS_JSON.      *)
(***************************************************************************)
IsEnv(e) ==
    /\ e.standard \in BOOLEAN /\ e.ports \subseteq PortDevices /\ e.extras \subseteq Extras
    /\ e.scan \in BOOLEAN /\ e.lan \subseteq Lan /\ e.routes \subseteq Lan
    /\ ~e.standard => /\ e.lan \cup e.routes \subseteq LanPorts
                      /\ \A n \in Nodes : \E d \in e.ports : Base[d] = n
    /\ e.requests \in [Nodes -> Nat \ {0}]
    /\ e.every \in BOOLEAN /\ e.events \in Nat
    /\ DOMAIN e.specs \subseteq Devices
    /\ \A d \in DOMAIN e.specs : e.specs[d] \in Limits!Spec
    /\ e.default \in {NoRow} \cup Limits!Spec

ASSUME DiscoveryAssumption ==
    /\ Devices = Nodes \cup PortDevices \cup Lan \cup Extras \cup Workers
    /\ Nodes \cap (PortDevices \cup Lan \cup Extras \cup Workers) = {}
    /\ PortDevices \cap (Lan \cup Extras \cup Workers) = {}
    /\ Lan \cap (Extras \cup Workers) = {}
    /\ Extras \cap Workers = {}
    /\ Base \in [PortDevices -> Nodes]
    /\ LanPorts \subseteq Lan /\ Own \subseteq Lan
    /\ NoDevice \notin Devices
    /\ Described \in [Models -> Model]
    /\ NoName \notin Models
    /\ \A list \in SUBSET [id : Models \cup {NoName}, blank : BOOLEAN] : NoList # list
    /\ Strict \in BOOLEAN
    /\ Prompts \subseteq Nat
    /\ \A e \in Envs : IsEnv(e)
-----------------------------------------------------------------------------
Passes == {"ticker", "request"}
PassPC == {"off", "nodes", "ports", "probe", "store", "others", "tag", "scan", "extras"}

TypeOK ==
    /\ Limits!TypeOK
    /\ env    \in Envs
    /\ booted \in BOOLEAN
    /\ events \in 0..env.events
    /\ listed \in SUBSET Nodes
    /\ up     \in SUBSET listed
    /\ serves \in [Devices -> SUBSET Models]
    /\ down   \in SUBSET Devices
    /\ rows   \in SUBSET Devices
    /\ tagged \in SUBSET Devices
    /\ status \in [Devices -> {"online", "offline"}]
    /\ offers \in [Devices -> SUBSET Models]
    /\ pc     \in [Passes -> PassPC]
    /\ known  \in [Passes -> BOOLEAN]
    /\ online \in [Passes -> SUBSET Nodes]
    /\ todo   \in [Passes -> SUBSET Devices]
    /\ ports  \in [Passes -> SUBSET Devices]
    /\ at     \in [Passes -> Devices \cup {NoDevice}]
    /\ tries  \in [Passes -> Nat]
    /\ heard  \in [Passes -> BOOLEAN]
    /\ got    \in [Passes -> SUBSET Models]
    /\ left   \in [Passes -> SUBSET Models]
    /\ told   \in [Devices -> SUBSET Models]

Init ==
    /\ Limits!Init
    /\ env    \in Envs
    /\ booted = FALSE
    /\ events = 0
    /\ listed = Nodes
    /\ up     = Nodes
    /\ serves = [d \in Devices |-> Models]
    /\ down   = {}
    /\ rows   \in {{}, Lan}  \* an earlier process may have scanned
    /\ tagged = rows
    /\ status = [d \in Devices |-> IF d \in Lan THEN "online" ELSE "offline"]
    /\ offers = [d \in Devices |-> {}]
    /\ pc     = [p \in Passes |-> "off"]
    /\ known  = [p \in Passes |-> FALSE]
    /\ online = [p \in Passes |-> {}]
    /\ todo   = [p \in Passes |-> {}]
    /\ ports  = [p \in Passes |-> {}]
    /\ at     = [p \in Passes |-> NoDevice]
    /\ tries  = [p \in Passes |-> 0]
    /\ heard  = [p \in Passes |-> FALSE]
    /\ got    = [p \in Passes |-> {}]
    /\ left   = [p \in Passes |-> {}]
    /\ told   = [d \in Devices |-> {}]

\* What the bound counts: changes outside, requests, failed statements, restarts.
Event == events < env.events /\ events' = events + 1

Goto(p, next)   == pc' = [pc EXCEPT ![p] = next]
Visit(p, where) == todo' = [todo EXCEPT ![p] = where]
Hold(p, answer) ==
    /\ got'  = [got EXCEPT ![p] = answer]
    /\ left' = [left EXCEPT ![p] = answer]
Aim(p, d, requests) ==
    /\ at'    = [at EXCEPT ![p] = d]
    /\ tries' = [tries EXCEPT ![p] = requests]
    /\ heard' = [heard EXCEPT ![p] = FALSE]
    /\ Hold(p, {})

SetStatus(d, value) == status' = [status EXCEPT ![d] = value]

\* Rows that are deleted take their models and limits along.
Delete(gone) ==
    /\ rows'   = rows \ gone
    /\ tagged' = tagged \ gone
    /\ offers' = [d \in Devices |-> IF d \in gone THEN {} ELSE offers[d]]
    /\ Limits!Cascade(gone)
-----------------------------------------------------------------------------
(* External: the tailnet and the servers. *)

\* A node comes online, goes offline, joins or leaves the tailnet.
NodeChanges(n) ==
    /\ Event
    /\ \/ up' = up \ {n} /\ listed' = listed \ {n}
       \/ up' = up \ {n} /\ listed' = listed \cup {n}
       \/ up' = up \cup {n} /\ listed' = listed \cup {n}
    /\ UNCHANGED <<coreVars, limitVars, serves, down, tableVars, passVars, told>>

\* What a scanned server serves is only a tag.
ServerChanges(d) ==
    /\ Event
    /\ \/ down' = (IF d \in down THEN down \ {d} ELSE down \cup {d}) /\ UNCHANGED serves
       \/ /\ d \notin Lan
          /\ \E S \in SUBSET Models : serves' = [serves EXCEPT ![d] = S]
          /\ UNCHANGED down
    /\ UNCHANGED <<coreVars, limitVars, listed, up, tableVars, passVars, told>>

NodeOf(d) == IF d \in PortDevices THEN Base[d] ELSE d

\* All addresses of a node lead to the same servers.
Answers(d) == d \notin down /\ (NodeOf(d) \in Nodes => NodeOf(d) \in up)

RequestsTo(d) == IF NodeOf(d) \in Nodes THEN env.requests[NodeOf(d)] ELSE 1
-----------------------------------------------------------------------------
(* The other writers of devices. *)

UpsertWorker(w) ==
    /\ rows' = rows \cup {w}
    /\ tagged' \in {tagged \cup {w}, tagged \ {w}}  \* the tags are the worker's
    /\ SetStatus(w, "online")
    /\ UNCHANGED offers

WorkerCalls(w) ==
    /\ booted /\ Event
    /\ UpsertWorker(w)
    /\ UNCHANGED <<coreVars, limitVars, worldVars, passVars, told>>

RegisterWorker(w)       == WorkerCalls(w)
HandleWorkerRegister(w) == WorkerCalls(w)
ReportMetrics(w)        == WorkerCalls(w)

\* A worker could not reach the device; nothing is done if it has no row.
HandleDeviceOffline(d) ==
    /\ booted /\ Event
    /\ d \in rows
    /\ SetStatus(d, "offline")
    /\ UNCHANGED <<coreVars, limitVars, worldVars, rows, tagged, offers, passVars, told>>
-----------------------------------------------------------------------------
(* The process: limits are applied before anything else runs. *)

Restart ==
    /\ Event
    /\ booted' = FALSE
    /\ Limits!End /\ UNCHANGED limit
    /\ pc'     = [p \in Passes |-> "off"]
    /\ known'  = [p \in Passes |-> FALSE]
    /\ online' = [p \in Passes |-> {}]
    /\ todo'   = [p \in Passes |-> {}]
    /\ ports'  = [p \in Passes |-> {}]
    /\ at'     = [p \in Passes |-> NoDevice]
    /\ tries'  = [p \in Passes |-> 0]
    /\ heard'  = [p \in Passes |-> FALSE]
    /\ got'    = [p \in Passes |-> {}]
    /\ left'   = [p \in Passes |-> {}]
    /\ UNCHANGED <<env, worldVars, tableVars, told>>

ApplyDeviceLimits ==
    /\ ~applying /\ (booted => env.every)
    /\ Limits!Begin
    /\ UNCHANGED <<coreVars, events, worldVars, tableVars, passVars, told>>

WriteLimit ==
    /\ applying
    /\ (\E d \in due \cup rest : Limits!Write(d)) \/ Limits!Finish
    /\ booted' = (booted \/ ~applying')
    /\ UNCHANGED <<env, events, worldVars, tableVars, passVars, told>>

LimitFails ==
    /\ applying /\ Event
    /\ Limits!End /\ UNCHANGED limit
    /\ booted' = TRUE
    /\ UNCHANGED <<env, worldVars, tableVars, passVars, told>>
-----------------------------------------------------------------------------
(***************************************************************************)
(* A pass.  The list of peers may not be readable; then there are no nodes *)
(* and no addresses of this node.  A node that left the list is not        *)
(* visited, and its row stays as it is.                                    *)
(***************************************************************************)
Run(p) ==
    /\ booted /\ pc[p] = "off"
    /\ Goto(p, "nodes")
    /\ \/ /\ IF p = "request" THEN Event ELSE UNCHANGED events
          /\ known'  = [known EXCEPT ![p] = TRUE]
          /\ online' = [online EXCEPT ![p] = up]
          /\ Visit(p, listed)
       \/ Event /\ UNCHANGED <<known, online, todo>>
    /\ UNCHANGED <<coreVars, limitVars, worldVars, tableVars, ports, probeVars, told>>

ServersOf(n) == {d \in env.ports : Base[d] = n} \cup (IF env.standard THEN {n} ELSE {})

\* Error: the tags are merged.
UpsertMerging(n, value) == rows' = rows \cup {n} /\ SetStatus(n, value) /\ UNCHANGED tagged

\* The status is that of the list, and the tags are overwritten.
UpsertNode(n, value) ==
    rows' = rows \cup {n} /\ SetStatus(n, value) /\ tagged' = tagged \ {n}

UpsertDevice(p) ==
    /\ pc[p] = "nodes"
    /\ \E n \in todo[p] :
        /\ Visit(p, todo[p] \ {n})
        /\ IF n \in online[p]
           THEN /\ UpsertNode(n, "online") /\ Goto(p, "ports")
                /\ ports' = [ports EXCEPT ![p] = ServersOf(n)]
           ELSE UpsertNode(n, "offline") /\ UNCHANGED <<pc, ports>>
    /\ UNCHANGED <<coreVars, events, limitVars, worldVars, offers, known, online, probeVars, told>>

\* Error: nothing is written if the port has a row (DO NOTHING).
CopyOnce(d) ==
    IF Base[d] \in rows /\ d \notin rows
    THEN rows' = rows \cup {d} /\ SetStatus(d, status[Base[d]])
    ELSE UNCHANGED <<rows, status>>

\* A port device takes the status its node has at that moment, if it has a row.
CopyOfNode(d) ==
    IF Base[d] \in rows
    THEN rows' = rows \cup {d} /\ SetStatus(d, status[Base[d]])
    ELSE UNCHANGED <<rows, status>>

EnsurePortDevice(p) ==
    /\ pc[p] = "ports"
    /\ \E d \in ports[p] :
        /\ ports' = [ports EXCEPT ![p] = @ \ {d}]
        /\ IF d \in PortDevices THEN CopyOfNode(d) ELSE UNCHANGED <<rows, status>>
        /\ Aim(p, d, RequestsTo(d))
    /\ Goto(p, "probe")
    /\ UNCHANGED <<coreVars, events, limitVars, worldVars, tagged, offers, known, online, todo, told>>

\* The probe of a server is over: on to the next one.
Leave(p) ==
    /\ Goto(p, IF at[p] \in Extras THEN "extras" ELSE IF ports[p] = {} THEN "nodes" ELSE "ports")
    /\ Aim(p, NoDevice, 0)

(***************************************************************************)
(* probeOllamaPort sends a request to each address and with each host      *)
(* header.  Each answer is stored before the next request; in the end the  *)
(* address of the fastest is written, if there was an answer.              *)
(***************************************************************************)
AfterAnswer(requests) == IF requests = 0 THEN "tag" ELSE "probe"

Answer(p) ==
    /\ pc[p] = "probe" /\ Answers(at[p])
    /\ tries' = [tries EXCEPT ![p] = @ - 1]
    /\ heard' = [heard EXCEPT ![p] = TRUE]
    /\ Hold(p, serves[at[p]])
    /\ Goto(p, IF serves[at[p]] = {} THEN AfterAnswer(tries[p] - 1) ELSE "store")
    /\ told' = [told EXCEPT ![at[p]] = @ \cup serves[at[p]]]
    /\ UNCHANGED <<coreVars, events, limitVars, worldVars, tableVars, walkVars, at>>

\* A request fails.  That all of them do though the server answers is an event.
NoAnswer(p) ==
    LET over == tries[p] = 1 /\ ~heard[p]
    IN  /\ pc[p] = "probe"
        /\ IF over /\ Answers(at[p]) THEN Event ELSE UNCHANGED events
        /\ IF over
           THEN Leave(p)
           ELSE /\ tries' = [tries EXCEPT ![p] = @ - 1]
                /\ Goto(p, AfterAnswer(tries[p] - 1))
                /\ UNCHANGED <<at, heard, got, left>>
        /\ UNCHANGED <<coreVars, limitVars, worldVars, tableVars, walkVars, told>>

\* Error: the models of all ports are those of the node.
OfferAtBase(d, m) == offers' = [offers EXCEPT ![NodeOf(d)] = @ \cup {m}]

\* A row that is gone refuses models.
Offer(d, m) == offers' = [offers EXCEPT ![d] = IF d \in rows THEN @ \cup {m} ELSE @]

\* Error: no model becomes unavailable.
WithdrawNone(d, others) == UNCHANGED offers

Withdraw(d, others) == offers' = [offers EXCEPT ![d] = @ \ others]

\* syncDeviceModels: a model after the other, each available ...
StoreModel(p) ==
    /\ pc[p] = "store"
    /\ \E m \in left[p] :
        /\ left' = [left EXCEPT ![p] = @ \ {m}]
        /\ Offer(at[p], m)
        /\ IF left[p] = {m} THEN Goto(p, "others") ELSE UNCHANGED pc
    /\ UNCHANGED <<coreVars, events, limitVars, worldVars, rows, tagged, status, walkVars,
                   at, tries, heard, got, told>>

\* The answer is stored.
Synced(p) == Goto(p, AfterAnswer(tries[p])) /\ Hold(p, {}) /\ UNCHANGED <<at, tries, heard>>

\* ... and then all others unavailable; an empty list leaves them as they are.
DropOthers(p) ==
    /\ pc[p] = "others"
    /\ Withdraw(at[p], Models \ got[p])
    /\ Synced(p)
    /\ UNCHANGED <<coreVars, events, limitVars, worldVars, rows, tagged, status, walkVars, told>>

\* Error: the address goes to the node, whatever the port.
TagNode(d) == tagged' = tagged \cup ({NodeOf(d)} \cap rows)

Tag(d) == tagged' = tagged \cup ({d} \cap rows)

TagAddress(p) ==
    /\ pc[p] = "tag"
    /\ Tag(at[p])
    /\ Leave(p)
    /\ UNCHANGED <<coreVars, events, limitVars, worldVars, rows, status, offers, walkVars, told>>

\* parseSubnets: what this node routes is in the list of peers.
Scanned(p) == env.lan \cup (IF known[p] THEN env.routes ELSE {})

\* Error: the rows of this node's addresses stay.
UnwantedLan(p) == IF env.scan THEN {} ELSE Lan

\* The rows to delete: what earlier scans found; or, if there is something to scan,
\* those of this node's addresses, but not with another port.
Unwanted(p) ==
    IF ~env.scan THEN Lan
    ELSE IF known[p] /\ Scanned(p) # {} THEN Own \ LanPorts ELSE {}

\* No nodes are left: on to the subnets, if they are scanned.
AfterNodes(p) ==
    /\ pc[p] = "nodes" /\ todo[p] = {}
    /\ IF env.scan
       THEN Goto(p, "scan") /\ Visit(p, Scanned(p) \ (IF known[p] THEN Own ELSE {}))
       ELSE Goto(p, "extras") /\ Visit(p, env.extras)

EndNodes(p) ==
    /\ AfterNodes(p)
    /\ Delete(Unwanted(p))
    /\ UNCHANGED <<coreVars, events, due, rest, applying, worldVars, status, known, online,
                   ports, probeVars, told>>

\* Error: the platform is written in the place of the status.
UpsertSwapped(d) ==
    rows' = rows \cup {d} /\ tagged' = tagged \cup {d} /\ SetStatus(d, "lan")

UpsertLanDevice(d) ==
    rows' = rows \cup {d} /\ tagged' = tagged \cup {d} /\ SetStatus(d, "online")

\* The addresses are probed side by side, each with all ports; the models are only a tag.
ScanAddress(p) ==
    /\ pc[p] = "scan"
    /\ \E d \in todo[p] :
        /\ Visit(p, todo[p] \ {d})
        /\ IF Answers(d) THEN UpsertLanDevice(d) ELSE UNCHANGED <<rows, tagged, status>>
    /\ UNCHANGED <<coreVars, events, limitVars, worldVars, offers, pc, known, online, ports,
                   probeVars, told>>

EndScan(p) ==
    /\ pc[p] = "scan" /\ todo[p] = {}
    /\ Goto(p, "extras") /\ Visit(p, env.extras)
    /\ UNCHANGED <<coreVars, events, limitVars, worldVars, tableVars, known, online, ports,
                   probeVars, told>>

\* An extra endpoint is online before it is probed, whatever the probe finds.
ProbeExtra(p) ==
    /\ pc[p] = "extras"
    /\ \E d \in todo[p] :
        /\ Visit(p, todo[p] \ {d})
        /\ rows' = rows \cup {d}
        /\ SetStatus(d, "online")
        /\ Aim(p, d, RequestsTo(d))
    /\ Goto(p, "probe")
    /\ UNCHANGED <<coreVars, events, limitVars, worldVars, tagged, offers, known, online, ports, told>>

Forget(p) ==
    /\ Goto(p, "off")
    /\ known'  = [known EXCEPT ![p] = FALSE]
    /\ online' = [online EXCEPT ![p] = {}]
    /\ Visit(p, {})
    /\ ports'  = [ports EXCEPT ![p] = {}]
    /\ Aim(p, NoDevice, 0)

\* The leases of jobs on the nodes that are offline in the list are reset (JobQueue).
EndRun(p) ==
    /\ pc[p] = "extras" /\ todo[p] = {}
    /\ Forget(p)
    /\ UNCHANGED <<coreVars, events, limitVars, worldVars, tableVars, told>>

\* The 15 s of HandleDiscoveryRun are over: every statement that is left fails.
Cut ==
    /\ pc["request"] # "off" /\ Event
    /\ Forget("request")
    /\ UNCHANGED <<coreVars, limitVars, worldVars, tableVars, told>>

(***************************************************************************)
(* A statement fails.  A node, port or extra endpoint that could not be    *)
(* written is left out; the errors of all other statements are ignored.    *)
(***************************************************************************)
StatementFails(p) ==
    /\ Event
    /\ \/ /\ pc[p] \in {"nodes", "scan", "extras"}
          /\ \E d \in todo[p] : Visit(p, todo[p] \ {d})
          /\ UNCHANGED <<pc, ports, probeVars>>
       \/ /\ pc[p] = "ports"
          /\ \E d \in ports[p] \cap PortDevices :
                /\ ports' = [ports EXCEPT ![p] = @ \ {d}]
                /\ Goto(p, IF ports[p] = {d} THEN "nodes" ELSE "ports")
          /\ UNCHANGED <<todo, probeVars>>
       \/ /\ pc[p] = "store"
          /\ \E m \in left[p] :
                /\ left' = [left EXCEPT ![p] = @ \ {m}]
                /\ IF left[p] = {m} THEN Goto(p, "others") ELSE UNCHANGED pc
          /\ UNCHANGED <<todo, ports, at, tries, heard, got>>
       \/ pc[p] = "others" /\ Synced(p) /\ UNCHANGED <<todo, ports>>
       \/ pc[p] = "tag" /\ Leave(p) /\ UNCHANGED <<todo, ports>>
       \/ AfterNodes(p) /\ UNCHANGED <<ports, probeVars>>
    /\ UNCHANGED <<coreVars, limitVars, worldVars, tableVars, known, online, told>>
-----------------------------------------------------------------------------
Servers == Nodes \cup PortDevices \cup Extras
Probed  == (IF env.standard THEN Nodes ELSE {}) \cup env.ports \cup env.extras

PassStep(p) ==
    \/ UpsertDevice(p) \/ EnsurePortDevice(p)
    \/ Answer(p) \/ NoAnswer(p) \/ StoreModel(p) \/ DropOthers(p) \/ TagAddress(p)
    \/ EndNodes(p) \/ ScanAddress(p) \/ EndScan(p) \/ ProbeExtra(p) \/ EndRun(p)

Next ==
    \/ \E n \in Nodes : NodeChanges(n)
    \/ \E d \in Probed \cup env.lan \cup env.routes : ServerChanges(d)
    \/ \E d \in Devices \ Workers : HandleDeviceOffline(d)
    \/ \E w \in Workers : RegisterWorker(w) \/ HandleWorkerRegister(w) \/ ReportMetrics(w)
    \/ Restart \/ ApplyDeviceLimits \/ WriteLimit \/ LimitFails \/ Cut
    \/ \E p \in Passes : Run(p) \/ PassStep(p) \/ StatementFails(p)

Spec == Init /\ [][Next]_vars

(***************************************************************************)
(* The tickers tick, and probes end (their clients have timeouts).  That   *)
(* the statements of the ticker's passes end is assumed of PostgreSQL:     *)
(* their context has no deadline.  Nothing outside has to happen, and no   *)
(* request has to come.                                                    *)
(***************************************************************************)
Fairness ==
    /\ WF_vars(Run("ticker"))
    /\ \A p \in Passes : WF_vars(PassStep(p))
    /\ WF_vars(ApplyDeviceLimits) /\ WF_vars(WriteLimit)

LiveSpec == Spec /\ Fairness
-----------------------------------------------------------------------------
(* What the router finds in the tables. *)

\* Devices with an address that offer m, as both queries have it.
Reachable(m) == {d \in rows \cap tagged : status[d] = "online" /\ m \in offers[d]}

\* Candidates of SelectOllamaDevice and of findLocalModel; the ORDER BY is Router's.
SelectOllamaDevice(m) == {d \in Reachable(m) : Limits!SqlAdmits(d, m)}

FindLocalModel(quality, bytes) ==
    {m \in Models : Reachable(m) # {} /\ FitsLocally(Described[m], quality, bytes)}
-----------------------------------------------------------------------------
(* Safety. *)

(***************************************************************************)
(* A device offers only models that its own server has answered with, even *)
(* if two passes store different answers at the same time, if a pass is    *)
(* cut off between two statements, or if the row was deleted meanwhile     *)
(* (syncDeviceModels).                                                     *)
(***************************************************************************)
OffersWereServed == \A d \in Devices : offers[d] \subseteq told[d]

Trimmed(list) == list # NoList => \A e \in list : ~e.blank

(***************************************************************************)
(* The two filters, one in SQL and one in Go, agree.  SelectOllamaDevice   *)
(* never gives a model to a device that would refuse it when it is named   *)
(* (ModelAllowed), unless a denied name is written with blanks.  And it    *)
(* finds every device that would take it, but where the allow list is not  *)
(* stated, has a name with blanks, or has only empty names.                *)
(***************************************************************************)
FiltersAgree ==
    \A m \in Models, d \in Devices :
        LET row == limit[d]
        IN  row # NoRow =>
            /\ Trimmed(row.deny) =>
                  (Limits!SqlAdmits(d, m) => Limits!ModelAllowed(d, m))
            /\ /\ row.allow # NoList /\ Trimmed(row.allow)
               /\ row.allow # {} => Limits!Listed(row.allow) # {}
               => (Limits!ModelAllowed(d, m) => Limits!SqlAdmits(d, m))

(***************************************************************************)
(* What smart routing finds has room for the prompt, up to the rounding of *)
(* minContextK: less than a thousand tokens may be too many.               *)
(***************************************************************************)
ContextFits ==
    \A quality \in Qualities, bytes \in Prompts :
        \A m \in FindLocalModel(quality, bytes) :
            EstimateTokens(bytes) < (ContextK(Described[m]) + 1) * 1000
-----------------------------------------------------------------------------
(***************************************************************************)
(* Liveness: what holds once the world stays as it is.  All of it is about *)
(* the ticker undoing what passes with an older list or an older answer,   *)
(* failed statements, and reports of workers have left behind.             *)
(***************************************************************************)

(***************************************************************************)
(* The status of a node that stays in the list of peers ends as it is      *)
(* there, and the status of its other ports ends online when the node's    *)
(* does.                                                                   *)
(***************************************************************************)
StatusFollowsPeers ==
    \A n \in Nodes :
        /\ <>[](n \in up) =>
              <>[](\A d \in {n} \cup ServersOf(n) : status[d] = "online")
        /\ <>[](n \in listed \ up) => <>[](status[n] = "offline")

(***************************************************************************)
(* The models of a device end as those its server has, if it has any, even *)
(* after two syncs that overlapped made each other's models unavailable.   *)
(***************************************************************************)
ModelsFollow ==
    \A d \in Servers, S \in SUBSET Models \ {{}} :
        <>[](d \in Probed /\ Answers(d) /\ serves[d] = S) => <>[](offers[d] = S)

(***************************************************************************)
(* A server that stays up is selected again and again for a model it has   *)
(* and its limits admit.  A node is not selected always: each pass takes   *)
(* its address away until the probe (upsertDevice).                        *)
(***************************************************************************)
SelectedAgain ==
    \A d \in Servers, m \in Models :
        <>[](d \in Probed /\ Answers(d) /\ m \in serves[d] /\ Limits!SqlAdmits(d, m))
            => []<>(d \in SelectOllamaDevice(m))

(***************************************************************************)
(* A node that stays in the list of peers and whose server stays silent is *)
(* in the end not selected any more.  Its other ports, the extra endpoints *)
(* and nodes that left the list keep their addresses.                      *)
(***************************************************************************)
SilentDropped ==
    \A n \in Nodes, m \in Models :
        <>[](n \in listed /\ ~Answers(n)) => <>[](n \notin Reachable(m))

(***************************************************************************)
(* Without the scan the devices that earlier scans found are gone in the   *)
(* end.  With it and a subnet to scan, those at the standard port of this  *)
(* node's addresses are; at another port a row found once stays for good   *)
(* (clearLanDevices, scanSubnets).                                         *)
(***************************************************************************)
LanCleared ==
    /\ ~env.scan => <>[](rows \cap Lan = {})
    /\ env.scan /\ env.lan \cup env.routes # {} => <>[](rows \cap Own \subseteq LanPorts)

(***************************************************************************)
(* With DEVICE_LIMITS_INTERVAL every device that is named, and with a      *)
(* default every device that keeps its address, has its limits in the end, *)
(* if all devices that are named exist.                                    *)
(***************************************************************************)
LimitsReachAll ==
    \A d \in Servers :
        /\ env.every
        /\ <>[](Limits!Named \subseteq rows)
        /\ d \in Limits!Named \/ (env.default # NoRow /\ <>[](d \in tagged))
        => <>[](limit[d] # NoRow /\ limit[d] = Limits!DeriveDeviceLimits(Limits!SpecOf(d)))
-----------------------------------------------------------------------------
(***************************************************************************)
(* What the documentation says: limits without a list restrict by the      *)
(* numbers alone ("*": {"ram_gb": 16}; a list is optional).                *)
(***************************************************************************)
FittingModelsAdmitted ==
    \A d \in Devices, m \in Models :
        /\ limit[d] # NoRow
        /\ limit[d].allow = NoList /\ limit[d].deny = NoList
        /\ Limits!NumbersHold(limit[d], m)
        => Limits!SqlAdmits(d, m)
=============================================================================
