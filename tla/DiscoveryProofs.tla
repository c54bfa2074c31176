-------------------------- MODULE DiscoveryProofs --------------------------
(***************************************************************************)
(* Theorems about Discovery, for every set of devices, models and          *)
(* environments, and about the functions of ModelTiers and DeviceLimits,   *)
(* for every model, prompt and memory.                                     *)
(***************************************************************************)
EXTENDS Discovery, TLAPS

USE DiscoveryAssumption

(***************************************************************************)
(* The memory of a specification is a number, and what is derived from it  *)
(* is a row.                                                               *)
(***************************************************************************)
LEMMA MemoryType ==
    ASSUME NEW s \in Limits!Spec
    PROVE  Limits!Memory(s) \in Nat
  BY DEF Limits!Spec, Limits!Memory, Limits!Maybe, Limits!Unset

LEMMA DerivedTypes ==
    ASSUME NEW mem \in Nat
    PROVE  /\ Limits!ParamsFor(mem) \in Nat
           /\ Limits!SizeFor(mem) \in Nat
           /\ Limits!ContextFor(mem) \in Nat
  BY DEF Limits!ParamsFor, Limits!SizeFor, Limits!ContextFor

LEMMA DerivedRow ==
    ASSUME NEW s \in Limits!Spec
    PROVE  Limits!DeriveDeviceLimits(s) \in Limits!Row
<1> DEFINE mem == Limits!Memory(s)
<1>1. mem \in Nat
  BY MemoryType
<1>2. /\ Limits!ParamsFor(mem) \in Limits!Maybe
      /\ Limits!SizeFor(mem) \in Limits!Maybe
      /\ Limits!ContextFor(mem) \in Limits!Maybe
  BY <1>1, DerivedTypes DEF Limits!Maybe
<1>3. \A stated, derived \in Limits!Maybe :
          Limits!OrElse(stated, mem, derived) \in Limits!Maybe
  BY DEF Limits!OrElse
<1> HIDE DEF mem
<1>4. /\ s.params \in Limits!Maybe /\ s.size \in Limits!Maybe /\ s.context \in Limits!Maybe
      /\ s.allow \in Limits!Lists /\ s.deny \in Limits!Lists
  BY DEF Limits!Spec
<1>5. Limits!DeriveDeviceLimits(s) =
        [params  |-> Limits!OrElse(s.params, mem, Limits!ParamsFor(mem)),
         size    |-> Limits!OrElse(s.size, mem, Limits!SizeFor(mem)),
         context |-> Limits!OrElse(s.context, mem, Limits!ContextFor(mem)),
         allow   |-> s.allow,
         deny    |-> s.deny]
  BY DEF Limits!DeriveDeviceLimits, mem
<1>6. QED
  BY <1>2, <1>3, <1>4, <1>5 DEF Limits!Row

(***************************************************************************)
(* A device with more memory never gets a smaller limit from it: the three *)
(* ranges of DeriveDeviceLimits and its two roundings join up.             *)
(***************************************************************************)
THEOREM MoreMemoryAdmitsMore ==
    ASSUME NEW less \in Nat, NEW more \in Nat, less <= more
    PROVE  /\ Limits!ParamsFor(less) <= Limits!ParamsFor(more)
           /\ Limits!SizeFor(less) <= Limits!SizeFor(more)
           /\ Limits!ContextFor(less) <= Limits!ContextFor(more)
<1>1. Limits!ParamsFor(less) <= Limits!ParamsFor(more)
  BY DEF Limits!ParamsFor
<1>2. Limits!SizeFor(less) <= Limits!SizeFor(more)
  BY DEF Limits!SizeFor
<1>3. Limits!ContextFor(less) <= Limits!ContextFor(more)
  BY DEF Limits!ContextFor
<1>4. QED
  BY <1>1, <1>2, <1>3

(***************************************************************************)
(* Whatever the prompt, a model that findLocalModel admits lacks less than *)
(* a thousand tokens of it.                                                *)
(***************************************************************************)
LEMMA PromptFits ==
    ASSUME NEW m \in Model, NEW quality, NEW bytes \in Nat, FitsLocally(m, quality, bytes)
    PROVE  EstimateTokens(bytes) < (ContextK(m) + 1) * 1000
<1> DEFINE tokens == EstimateTokens(bytes)
<1>1. tokens \in Nat
  BY DEF EstimateTokens
<1>2. ContextK(m) \in Nat
  BY DEF ContextK
<1>3. ContextK(m) >= MinContextK(tokens)
  BY DEF FitsLocally
<1> HIDE DEF tokens
<1>4. MinContextK(tokens) \in Nat /\ tokens < (MinContextK(tokens) + 1) * 1000
  BY <1>1 DEF MinContextK
<1>5. QED
  BY <1>1, <1>2, <1>3, <1>4 DEF tokens

(***************************************************************************)
(* No limit of the context that is derived from the memory excludes any    *)
(* model: it is written in tokens (ContextFor), and context_k counts       *)
(* thousands.                                                              *)
(***************************************************************************)
THEOREM DerivedContextExcludesNone ==
    ASSUME NEW m \in Model, NEW mem \in Nat
    PROVE  ContextK(m) <= Limits!ContextFor(mem)
<1>1. ContextK(m) \in {2, 4, 8, 16, 32, 128}
  BY DEF ContextK
<1>2. Limits!ContextFor(mem) \in {4096, 8192, 16384}
  BY DEF Limits!ContextFor
<1>3. QED
  BY <1>1, <1>2
-----------------------------------------------------------------------------
(***************************************************************************)
(* The invariant: a pass that has a device in hand has one, and a request  *)
(* to send when it probes; the models it has still to store are in an      *)
(* answer of that device; and limits are due only to devices that have a   *)
(* specification.                                                          *)
(***************************************************************************)
InHand ==
    \A p \in Passes :
        /\ pc[p] \in {"probe", "store", "others", "tag"} => at[p] \in Devices
        /\ pc[p] = "probe" => tries[p] # 0
        /\ pc[p] = "store" => left[p] \subseteq told[at[p]]

Owed ==
    /\ due \subseteq Limits!Named
    /\ rest # {} => env.default # NoRow

LimitInv == Limits!TypeOK /\ Owed /\ env \in Envs

TableType ==
    /\ rows   \in SUBSET Devices
    /\ tagged \in SUBSET Devices
    /\ status \in [Devices -> {"online", "offline"}]

OfferInv ==
    /\ offers \in [Devices -> SUBSET Models]
    /\ told   \in [Devices -> SUBSET Models]
    /\ OffersWereServed

WorldType ==
    /\ booted \in BOOLEAN
    /\ events \in 0..env.events
    /\ listed \in SUBSET Nodes
    /\ up     \in SUBSET listed
    /\ serves \in [Devices -> SUBSET Models]
    /\ down   \in SUBSET Devices

PassType ==
    /\ pc     \in [Passes -> PassPC]
    /\ known  \in [Passes -> BOOLEAN]
    /\ online \in [Passes -> SUBSET Nodes]
    /\ todo   \in [Passes -> SUBSET Devices]
    /\ ports  \in [Passes -> SUBSET Devices]
    /\ at     \in [Passes -> Devices \cup {NoDevice}]
    /\ tries  \in [Passes -> Nat]
    /\ heard  \in [Passes -> BOOLEAN]
    /\ got    \in [Passes -> SUBSET Models]
    /\ left   \in [Passes -> SUBSET Models]

DiscoveryInv == LimitInv /\ TableType /\ OfferInv /\ WorldType /\ PassType /\ InHand

LEMMA InvImplies == DiscoveryInv => TypeOK /\ OffersWereServed
  BY DEF DiscoveryInv, LimitInv, TableType, OfferInv, WorldType, PassType, TypeOK

LEMMA EnvType ==
    ASSUME env \in Envs
    PROVE  /\ env.events \in Nat
           /\ env.ports \subseteq PortDevices /\ env.extras \subseteq Extras
           /\ env.lan \subseteq Lan /\ env.routes \subseteq Lan
           /\ env.requests \in [Nodes -> Nat \ {0}]
           /\ \A d \in Limits!Named : d \in Devices /\ env.specs[d] \in Limits!Spec
           /\ env.default = NoRow \/ env.default \in Limits!Spec
  BY DEF IsEnv, Limits!Named

(***************************************************************************)
(* Every probe sends a request.                                            *)
(***************************************************************************)
LEMMA RequestsType ==
    ASSUME env \in Envs, NEW d \in Devices
    PROVE  RequestsTo(d) \in Nat \ {0}
  BY EnvType DEF RequestsTo

(***************************************************************************)
(* Only devices are probed or scanned.                                     *)
(***************************************************************************)
LEMMA ServersType ==
    ASSUME env \in Envs
    PROVE  /\ \A n \in Nodes : ServersOf(n) \subseteq Devices
           /\ \A p \in Passes : Scanned(p) \subseteq Devices
           /\ Probed \cup env.lan \cup env.routes \subseteq Devices
  BY EnvType DEF ServersOf, Scanned, Probed

LEMMA InitInv == Init => DiscoveryInv
<1> SUFFICES ASSUME Init PROVE DiscoveryInv
  OBVIOUS
<1>1. env.events \in Nat
  BY EnvType DEF Init
<1>2. LimitInv
  BY DEF Init, LimitInv, Limits!Init, Limits!TypeOK, Owed
<1>3. TableType
  BY DEF Init, TableType
<1>4. OfferInv
  BY DEF Init, OfferInv, OffersWereServed
<1>5. WorldType
  <2>1. events \in 0..env.events
    BY <1>1 DEF Init
  <2>2. QED
    BY <2>1 DEF Init, WorldType
<1>6. PassType
  BY DEF Init, PassType, PassPC, Passes
<1>7. InHand
  BY DEF Init, InHand
<1>8. QED
  BY <1>2, <1>3, <1>4, <1>5, <1>6, <1>7 DEF DiscoveryInv

(***************************************************************************)
(* The limits: the writes of ApplyDeviceLimits, and the rows that go with  *)
(* those of devices.                                                       *)
(***************************************************************************)
LEMMA LimitSteps ==
    ASSUME LimitInv, TableType, [Next]_vars
    PROVE  LimitInv'
<1> USE DEF LimitInv, Owed, Limits!TypeOK, Limits!Named
<1>1. CASE Restart
  BY <1>1 DEF Restart, Limits!End
<1>2. CASE ApplyDeviceLimits
  BY <1>2, EnvType DEF ApplyDeviceLimits, Limits!Begin, TableType, coreVars
<1>3. CASE WriteLimit
  <2>1. ASSUME NEW d \in due \cup rest, Limits!Write(d)
        PROVE  LimitInv'
    <3>1. d \in Devices /\ env' = env
      BY <1>3 DEF WriteLimit
    <3>2. Limits!SpecOf(d) \in Limits!Spec
      BY <2>1, EnvType DEF Limits!SpecOf, Limits!Write
    <3>3. Limits!DeriveDeviceLimits(Limits!SpecOf(d)) \in Limits!Row
      BY <3>2, DerivedRow
    <3>4. CASE d \in rows
      <4>1. /\ limit' = [limit EXCEPT ![d] = Limits!DeriveDeviceLimits(Limits!SpecOf(d))]
            /\ due' = due \ {d} /\ rest' = rest \ {d} /\ applying' = applying
        BY <2>1, <3>4 DEF Limits!Write
      <4>2. limit' \in [Devices -> {NoRow} \cup Limits!Row]
        BY <3>1, <3>3, <4>1
      <4>3. applying' \in BOOLEAN
        BY <4>1
      <4>4. QED
        BY <3>1, <4>1, <4>2, <4>3
    <3>5. CASE d \notin rows
      BY <2>1, <3>1, <3>5 DEF Limits!Write, Limits!End
    <3>6. QED
      BY <3>4, <3>5
  <2>2. CASE Limits!Finish
    BY <1>3, <2>2 DEF WriteLimit, Limits!Finish, Limits!End
  <2>3. QED
    BY <1>3, <2>1, <2>2 DEF WriteLimit
<1>4. CASE LimitFails
  BY <1>4 DEF LimitFails, Limits!End
<1>5. ASSUME NEW p \in Passes, EndNodes(p)
      PROVE  LimitInv'
  BY <1>5 DEF EndNodes, Delete, Limits!Cascade, coreVars
<1>6. CASE UNCHANGED <<coreVars, limitVars>>
  BY <1>6 DEF coreVars, limitVars
<1>7. QED
  <2>1. ASSUME NEW p \in Passes, PassStep(p)
        PROVE  LimitInv'
    BY <2>1, <1>5, <1>6 DEF PassStep, UpsertDevice, EnsurePortDevice, Answer, NoAnswer,
       StoreModel, DropOthers, TagAddress, ScanAddress, EndScan, ProbeExtra, EndRun
  <2>2. ASSUME NEW p \in Passes, Run(p) \/ StatementFails(p)
        PROVE  LimitInv'
    BY <2>2, <1>6 DEF Run, StatementFails
  <2>3. ASSUME NEW d \in Devices, NodeChanges(d) \/ ServerChanges(d) \/ HandleDeviceOffline(d) \/ WorkerCalls(d)
        PROVE  LimitInv'
    BY <2>3, <1>6 DEF NodeChanges, ServerChanges, HandleDeviceOffline, WorkerCalls
  <2>4. CASE Cut \/ UNCHANGED vars
    BY <2>4, <1>6 DEF Cut, vars
  <2>5. QED
    BY <1>1, <1>2, <1>3, <1>4, <2>1, <2>2, <2>3, <2>4, ServersType
       DEF Next, RegisterWorker, HandleWorkerRegister, ReportMetrics

(***************************************************************************)
(* The rows of devices.                                                    *)
(***************************************************************************)
LEMMA TableSteps ==
    ASSUME TableType, PassType, InHand, env \in Envs, [Next]_vars
    PROVE  TableType'
<1> USE DEF TableType
<1>1. CASE UNCHANGED <<rows, tagged, status>>
  BY <1>1
<1>2. ASSUME NEW d \in Devices, HandleDeviceOffline(d)
      PROVE  TableType'
  BY <1>2 DEF HandleDeviceOffline, SetStatus
<1>3. ASSUME NEW w \in Workers, WorkerCalls(w)
      PROVE  TableType'
  BY <1>3 DEF WorkerCalls, UpsertWorker, SetStatus
<1>4. ASSUME NEW p \in Passes, PassStep(p)
      PROVE  TableType'
  <2>1. todo[p] \subseteq Devices /\ ports[p] \subseteq Devices
    BY DEF PassType
  <2>2. CASE UpsertDevice(p)
    BY <2>1, <2>2 DEF UpsertDevice, UpsertNode, SetStatus
  <2>3. CASE EnsurePortDevice(p)
    BY <2>1, <2>3 DEF EnsurePortDevice, CopyOfNode, SetStatus
  <2>4. CASE TagAddress(p)
    BY <2>4 DEF TagAddress, Tag
  <2>5. CASE EndNodes(p)
    BY <2>5 DEF EndNodes, Delete
  <2>6. CASE ScanAddress(p)
    BY <2>1, <2>6 DEF ScanAddress, UpsertLanDevice, SetStatus
  <2>7. CASE ProbeExtra(p)
    BY <2>1, <2>7 DEF ProbeExtra, SetStatus
  <2>8. QED
    BY <1>1, <1>4, <2>2, <2>3, <2>4, <2>5, <2>6, <2>7 DEF PassStep, Answer, NoAnswer,
       StoreModel, DropOthers, EndScan, EndRun, tableVars
<1>5. ASSUME NEW p \in Passes, Run(p) \/ StatementFails(p)
      PROVE  TableType'
  BY <1>1, <1>5 DEF Run, StatementFails, tableVars
<1>6. ASSUME NEW d \in Devices, NodeChanges(d) \/ ServerChanges(d)
      PROVE  TableType'
  BY <1>1, <1>6 DEF NodeChanges, ServerChanges, tableVars
<1>7. CASE \/ Restart \/ ApplyDeviceLimits \/ WriteLimit \/ LimitFails \/ Cut
           \/ UNCHANGED vars
  BY <1>1, <1>7 DEF Restart, ApplyDeviceLimits, WriteLimit, LimitFails, Cut, vars, tableVars
<1>8. QED
  BY <1>2, <1>3, <1>4, <1>5, <1>6, <1>7, ServersType
     DEF Next, RegisterWorker, HandleWorkerRegister, ReportMetrics

(***************************************************************************)
(* The models on offer: a model is stored from an answer of the device.    *)
(***************************************************************************)
LEMMA OfferSteps ==
    ASSUME OfferInv, WorldType, PassType, InHand, env \in Envs, [Next]_vars
    PROVE  OfferInv'
<1> USE DEF OfferInv, OffersWereServed
<1>1. CASE UNCHANGED <<offers, told>>
  BY <1>1
<1>2. ASSUME NEW p \in Passes, PassStep(p)
      PROVE  OfferInv'
  <2>1. CASE Answer(p)
    <3>1. at[p] \in Devices
      BY <2>1 DEF Answer, InHand
    <3>2. told' = [told EXCEPT ![at[p]] = @ \cup serves[at[p]]] /\ offers' = offers
      BY <2>1 DEF Answer, tableVars
    <3>3. serves[at[p]] \subseteq Models
      BY <3>1 DEF WorldType
    <3>4. QED
      BY <3>1, <3>2, <3>3
  <2>2. CASE StoreModel(p)
    <3>1. PICK m \in left[p] : Offer(at[p], m)
      BY <2>2 DEF StoreModel
    <3>2. at[p] \in Devices /\ m \in told[at[p]] /\ told' = told
      BY <2>2 DEF StoreModel, InHand
    <3>3. QED
      BY <3>1, <3>2 DEF Offer
  <2>3. CASE DropOthers(p)
    BY <2>3 DEF DropOthers, Withdraw
  <2>4. CASE EndNodes(p)
    BY <2>4 DEF EndNodes, Delete
  <2>5. QED
    BY <1>1, <1>2, <2>1, <2>2, <2>3, <2>4 DEF PassStep, UpsertDevice, EnsurePortDevice,
       NoAnswer, TagAddress, ScanAddress, EndScan, ProbeExtra, EndRun, tableVars
<1>3. ASSUME NEW p \in Passes, Run(p) \/ StatementFails(p)
      PROVE  OfferInv'
  BY <1>1, <1>3 DEF Run, StatementFails, tableVars
<1>4. ASSUME NEW d \in Devices, NodeChanges(d) \/ ServerChanges(d) \/ HandleDeviceOffline(d) \/ WorkerCalls(d)
      PROVE  OfferInv'
  BY <1>1, <1>4 DEF NodeChanges, ServerChanges, HandleDeviceOffline, WorkerCalls, UpsertWorker, tableVars
<1>5. CASE \/ Restart \/ ApplyDeviceLimits \/ WriteLimit \/ LimitFails \/ Cut
           \/ UNCHANGED vars
  BY <1>1, <1>5 DEF Restart, ApplyDeviceLimits, WriteLimit, LimitFails, Cut, vars, tableVars
<1>6. QED
  BY <1>2, <1>3, <1>4, <1>5, ServersType
     DEF Next, RegisterWorker, HandleWorkerRegister, ReportMetrics

(***************************************************************************)
(* The world and the process.                                              *)
(***************************************************************************)
LEMMA WorldSteps ==
    ASSUME WorldType, env \in Envs, [Next]_vars
    PROVE  WorldType'
<1>1. env' = env
  BY DEF Next, NodeChanges, ServerChanges, HandleDeviceOffline, WorkerCalls, RegisterWorker,
     HandleWorkerRegister, ReportMetrics, Restart, ApplyDeviceLimits, WriteLimit, LimitFails,
     Cut, Run, StatementFails, PassStep, UpsertDevice, EnsurePortDevice, Answer, NoAnswer,
     StoreModel, DropOthers, TagAddress, EndNodes, ScanAddress, EndScan, ProbeExtra, EndRun,
     vars, coreVars
<1>2. Event \/ UNCHANGED events
  BY DEF Next, NodeChanges, ServerChanges, HandleDeviceOffline, WorkerCalls, RegisterWorker,
     HandleWorkerRegister, ReportMetrics, Restart, ApplyDeviceLimits, WriteLimit, LimitFails,
     Cut, Run, StatementFails, PassStep, UpsertDevice, EnsurePortDevice, Answer, NoAnswer,
     StoreModel, DropOthers, TagAddress, EndNodes, ScanAddress, EndScan, ProbeExtra, EndRun,
     vars
<1>3. events' \in 0..env'.events
  <2>1. env.events \in Nat /\ events \in 0..env.events
    BY EnvType DEF WorldType
  <2>2. QED
    BY <1>1, <1>2, <2>1 DEF Event
<1>4. booted' \in BOOLEAN
  <2>1. \/ UNCHANGED booted \/ booted' = TRUE \/ booted' = FALSE \/ booted' = (booted \/ ~applying')
    BY DEF Next, NodeChanges, ServerChanges, HandleDeviceOffline, WorkerCalls, RegisterWorker,
     HandleWorkerRegister, ReportMetrics, Restart, ApplyDeviceLimits, WriteLimit, LimitFails,
     Cut, Run, StatementFails, PassStep, UpsertDevice, EnsurePortDevice, Answer, NoAnswer,
     StoreModel, DropOthers, TagAddress, EndNodes, ScanAddress, EndScan, ProbeExtra, EndRun,
     vars, coreVars
  <2>2. QED
    BY <2>1 DEF WorldType
<1> DEFINE Outside == /\ listed \in SUBSET Nodes
                      /\ up     \in SUBSET listed
                      /\ serves \in [Devices -> SUBSET Models]
                      /\ down   \in SUBSET Devices
<1>5. Outside'
  <2>1. CASE UNCHANGED worldVars
    BY <2>1 DEF worldVars, WorldType
  <2>2. ASSUME NEW n \in Nodes, NodeChanges(n)
        PROVE  Outside'
    BY <2>2 DEF NodeChanges, WorldType
  <2>3. ASSUME NEW d \in Devices, ServerChanges(d)
        PROVE  Outside'
    BY <2>3 DEF ServerChanges, WorldType
  <2>4. QED
    BY <2>1, <2>2, <2>3, ServersType DEF Next, HandleDeviceOffline, WorkerCalls, RegisterWorker,
     HandleWorkerRegister, ReportMetrics, Restart, ApplyDeviceLimits, WriteLimit, LimitFails,
     Cut, Run, StatementFails, PassStep, UpsertDevice, EnsurePortDevice, Answer, NoAnswer,
     StoreModel, DropOthers, TagAddress, EndNodes, ScanAddress, EndScan, ProbeExtra, EndRun,
     vars
<1>6. QED
  BY <1>3, <1>4, <1>5 DEF WorldType

(***************************************************************************)
(* The passes.  An action that aims at a device, moves a pass or narrows   *)
(* what it has left keeps their types; what a pass has in hand is about    *)
(* its own place, device and answer, and answers only add to the ghost.    *)
(***************************************************************************)
PlaceType ==
    /\ pc   \in [Passes -> PassPC]
    /\ at   \in [Passes -> Devices \cup {NoDevice}]
    /\ tries \in [Passes -> Nat]
    /\ heard \in [Passes -> BOOLEAN]
    /\ got  \in [Passes -> SUBSET Models]
    /\ left \in [Passes -> SUBSET Models]

WalkType ==
    /\ known  \in [Passes -> BOOLEAN]
    /\ online \in [Passes -> SUBSET Nodes]
    /\ todo   \in [Passes -> SUBSET Devices]
    /\ ports  \in [Passes -> SUBSET Devices]

LEMMA WalkSteps ==
    ASSUME WalkType, WorldType, PlaceType, env \in Envs, [Next]_vars
    PROVE  WalkType'
<1> USE DEF WalkType
<1>0. \A p \in Passes : Scanned(p) \subseteq Devices
  BY ServersType
<1>1. CASE UNCHANGED walkVars
  BY <1>1 DEF walkVars
<1>2. ASSUME NEW p \in Passes, Run(p)
      PROVE  WalkType'
  <2>1. listed \subseteq Devices /\ up \subseteq Nodes
    BY DEF WorldType
  <2>2. QED
    BY <1>2, <2>1 DEF Run, Visit
<1>3. ASSUME NEW p \in Passes, PassStep(p)
      PROVE  WalkType'
  <2>1. CASE UpsertDevice(p)
    <3>1. PICK n \in todo[p] :
             \/ n \in online[p] /\ ports' = [ports EXCEPT ![p] = ServersOf(n)]
             \/ UNCHANGED ports
      BY <2>1 DEF UpsertDevice
    <3>2. n \in online[p] => ServersOf(n) \subseteq Devices
      BY ServersType
    <3>3. QED
      BY <2>1, <3>1, <3>2 DEF UpsertDevice, Visit
  <2>2. CASE EnsurePortDevice(p)
    BY <2>2 DEF EnsurePortDevice
  <2>3. CASE EndNodes(p)
    BY <1>0, <2>3, EnvType DEF EndNodes, AfterNodes, Visit
  <2>4. CASE ScanAddress(p)
    BY <2>4 DEF ScanAddress, Visit
  <2>5. CASE EndScan(p)
    BY <2>5, EnvType DEF EndScan, Visit
  <2>6. CASE ProbeExtra(p)
    BY <2>6 DEF ProbeExtra, Visit
  <2>7. CASE EndRun(p)
    BY <2>7 DEF EndRun, Forget, Visit
  <2>8. QED
    BY <1>1, <1>3, <2>1, <2>2, <2>3, <2>4, <2>5, <2>6, <2>7
       DEF PassStep, Answer, NoAnswer, StoreModel, DropOthers, TagAddress
<1>4. ASSUME NEW p \in Passes, StatementFails(p)
      PROVE  WalkType'
  BY <1>0, <1>4, EnvType DEF StatementFails, AfterNodes, Visit, Synced
<1>5. CASE Restart
  BY <1>5 DEF Restart
<1>6. CASE Cut
  BY <1>6 DEF Cut, Forget, Visit, Passes
<1>7. ASSUME NEW d \in Devices, NodeChanges(d) \/ ServerChanges(d) \/ HandleDeviceOffline(d) \/ WorkerCalls(d)
      PROVE  WalkType'
  BY <1>1, <1>7 DEF NodeChanges, ServerChanges, HandleDeviceOffline, WorkerCalls, passVars
<1>8. CASE ApplyDeviceLimits \/ WriteLimit \/ LimitFails \/ UNCHANGED vars
  BY <1>1, <1>8 DEF ApplyDeviceLimits, WriteLimit, LimitFails, vars, passVars
<1>9. QED
  BY <1>2, <1>3, <1>4, <1>5, <1>6, <1>7, <1>8, ServersType
     DEF Next, RegisterWorker, HandleWorkerRegister, ReportMetrics

LEMMA PlaceSteps ==
    ASSUME PlaceType, WalkType, WorldType, InHand, env \in Envs, [Next]_vars
    PROVE  PlaceType'
<1> USE DEF PlaceType, PassPC, Goto, Hold
<1>1. CASE UNCHANGED <<pc, probeVars>>
  BY <1>1 DEF probeVars
<1>2. ASSUME NEW p \in Passes, Run(p)
      PROVE  PlaceType'
  BY <1>2 DEF Run, probeVars
<1>3. ASSUME NEW p \in Passes, Leave(p)
      PROVE  PlaceType'
  BY <1>3 DEF Leave, Aim
<1>0. ASSUME NEW p \in Passes, Synced(p)
      PROVE  PlaceType'
  BY <1>0 DEF Synced, AfterAnswer
<1>4. ASSUME NEW p \in Passes, PassStep(p)
      PROVE  PlaceType'
  <2>1. CASE UpsertDevice(p)
    BY <2>1 DEF UpsertDevice, probeVars
  <2>2. CASE EnsurePortDevice(p)
    BY <2>2, RequestsType DEF EnsurePortDevice, Aim, WalkType
  <2>3. CASE Answer(p)
    <3>1. at[p] \in Devices /\ tries[p] - 1 \in Nat
      BY <2>3 DEF Answer, InHand
    <3>2. serves[at[p]] \subseteq Models
      BY <3>1 DEF WorldType
    <3>3. QED
      BY <2>3, <3>1, <3>2 DEF Answer, AfterAnswer
  <2>4. CASE NoAnswer(p)
    <3>1. tries[p] - 1 \in Nat
      BY <2>4 DEF NoAnswer, InHand
    <3>2. CASE Leave(p)
      BY <1>3, <3>2
    <3>3. CASE ~Leave(p)
      BY <2>4, <3>1, <3>3 DEF NoAnswer, AfterAnswer
    <3>4. QED
      BY <3>2, <3>3
  <2>12. CASE TagAddress(p)
    BY <1>3, <2>12 DEF TagAddress
  <2>5. CASE StoreModel(p)
    BY <2>5 DEF StoreModel
  <2>6. CASE DropOthers(p)
    BY <1>0, <2>6 DEF DropOthers
  <2>7. CASE EndNodes(p) \/ EndScan(p)
    BY <2>7 DEF EndNodes, AfterNodes, EndScan, probeVars
  <2>8. CASE ScanAddress(p)
    BY <1>1, <2>8 DEF ScanAddress
  <2>9. CASE ProbeExtra(p)
    BY <2>9, RequestsType DEF ProbeExtra, Aim, WalkType
  <2>10. CASE EndRun(p)
    BY <2>10 DEF EndRun, Forget, Aim
  <2>11. QED
    BY <1>4, <2>1, <2>2, <2>3, <2>4, <2>5, <2>6, <2>7, <2>8, <2>9, <2>10, <2>12 DEF PassStep
<1>5. ASSUME NEW p \in Passes, StatementFails(p)
      PROVE  PlaceType'
  BY <1>0, <1>3, <1>5 DEF StatementFails, AfterNodes, probeVars
<1>6. CASE Restart
  BY <1>6 DEF Restart
<1>7. CASE Cut
  BY <1>7 DEF Cut, Forget, Aim, Passes
<1>8. ASSUME NEW d \in Devices, NodeChanges(d) \/ ServerChanges(d) \/ HandleDeviceOffline(d) \/ WorkerCalls(d)
      PROVE  PlaceType'
  BY <1>1, <1>8 DEF NodeChanges, ServerChanges, HandleDeviceOffline, WorkerCalls, passVars
<1>9. CASE ApplyDeviceLimits \/ WriteLimit \/ LimitFails \/ UNCHANGED vars
  BY <1>1, <1>9 DEF ApplyDeviceLimits, WriteLimit, LimitFails, vars, passVars
<1>10. QED
  BY <1>2, <1>4, <1>5, <1>6, <1>7, <1>8, <1>9, ServersType
     DEF Next, RegisterWorker, HandleWorkerRegister, ReportMetrics

(***************************************************************************)
(* What a pass has in hand.                                                *)
(***************************************************************************)
HandOf(p) ==
    /\ pc[p] \in {"probe", "store", "others", "tag"} => at[p] \in Devices
    /\ pc[p] = "probe" => tries[p] # 0
    /\ pc[p] = "store" => left[p] \subseteq told[at[p]]

LEMMA OthersHands ==
    ASSUME OfferInv, InHand, NEW p \in Passes, NEW q \in Passes \ {p},
           pc'[q] = pc[q], at'[q] = at[q], tries'[q] = tries[q], left'[q] = left[q],
           \A d \in Devices : told[d] \subseteq told'[d]
    PROVE  HandOf(q)'
  BY DEF InHand, HandOf

LEMMA HandSteps ==
    ASSUME PlaceType, WalkType, WorldType, OfferInv, InHand, env \in Envs, [Next]_vars
    PROVE  InHand'
<1> USE DEF Goto, Hold
<1>1. CASE UNCHANGED <<pc, probeVars, told>>
  BY <1>1 DEF probeVars, InHand
<1>2. ASSUME NEW p \in Passes, Goto(p, "nodes") \/ Goto(p, "extras") \/ Goto(p, "ports") \/ Goto(p, "scan"),
             at' = at, tries' = tries, left' = left, told' = told
      PROVE  InHand'
  BY <1>2 DEF InHand, PlaceType
<1>3. ASSUME NEW p \in Passes, Leave(p), told' = told
      PROVE  InHand'
  BY <1>3 DEF Leave, Aim, InHand, PlaceType
<1>4. ASSUME NEW p \in Passes, Forget(p), told' = told
      PROVE  InHand'
  BY <1>4 DEF Forget, Aim, InHand, PlaceType
<1>5. ASSUME NEW p \in Passes, NEW d \in Devices, Aim(p, d, RequestsTo(d)), Goto(p, "probe"), told' = told
      PROVE  InHand'
  BY <1>5, RequestsType DEF Aim, InHand, PlaceType
<1>6. ASSUME NEW p \in Passes, pc[p] = "store", NEW m \in left[p],
             left' = [left EXCEPT ![p] = @ \ {m}],
             Goto(p, "others") \/ UNCHANGED pc, at' = at, tries' = tries, told' = told
      PROVE  InHand'
  BY <1>6 DEF InHand, PlaceType
<1>7. ASSUME NEW p \in Passes, pc[p] = "others", Synced(p), told' = told
      PROVE  InHand'
  BY <1>7 DEF Synced, AfterAnswer, InHand, PlaceType
<1>8. ASSUME NEW p \in Passes, Answer(p)
      PROVE  InHand'
  <2>1. at[p] \in Devices /\ tries[p] # 0
    BY <1>8 DEF Answer, InHand
  <2>2. told' = [told EXCEPT ![at[p]] = @ \cup serves[at[p]]]
    BY <1>8 DEF Answer
  <2>3. \A d \in Devices : told[d] \subseteq told'[d]
    BY <2>2 DEF OfferInv
  <2>4. HandOf(p)'
    <3>1. /\ at' = at /\ left' = [left EXCEPT ![p] = serves[at[p]]]
          /\ tries' = [tries EXCEPT ![p] = @ - 1]
          /\ pc' = [pc EXCEPT ![p] = IF serves[at[p]] = {} THEN AfterAnswer(tries[p] - 1) ELSE "store"]
      BY <1>8 DEF Answer
    <3>2. at'[p] = at[p] /\ left'[p] = serves[at[p]] /\ tries'[p] = tries[p] - 1
      BY <3>1 DEF PlaceType
    <3>3. pc'[p] = "probe" => tries'[p] # 0
      BY <3>1, <3>2 DEF AfterAnswer, PlaceType
    <3>4. left'[p] \subseteq told'[at'[p]]
      BY <2>1, <2>2, <3>2 DEF OfferInv
    <3>5. QED
      BY <2>1, <3>2, <3>3, <3>4 DEF HandOf
  <2>5. ASSUME NEW q \in Passes \ {p}
        PROVE  HandOf(q)'
    <3>1. pc'[q] = pc[q] /\ at'[q] = at[q] /\ tries'[q] = tries[q] /\ left'[q] = left[q]
      BY <1>8 DEF Answer, PlaceType
    <3>2. QED
      BY <2>3, <3>1, OthersHands
  <2>6. QED
    BY <2>4, <2>5 DEF HandOf, InHand
<1>17. ASSUME NEW p \in Passes, NoAnswer(p)
      PROVE  InHand'
  <2>1. CASE Leave(p)
    BY <1>3, <1>17, <2>1 DEF NoAnswer
  <2>2. CASE ~Leave(p)
    <3>1. /\ at' = at /\ left' = left /\ told' = told
          /\ tries' = [tries EXCEPT ![p] = @ - 1]
          /\ pc' = [pc EXCEPT ![p] = AfterAnswer(tries[p] - 1)]
          /\ at[p] \in Devices
      BY <1>17, <2>2 DEF NoAnswer, InHand
    <3>2. QED
      BY <3>1 DEF AfterAnswer, InHand, PlaceType
  <2>3. QED
    BY <2>1, <2>2
<1>9. ASSUME NEW p \in Passes, PassStep(p)
      PROVE  InHand'
  <2>1. todo[p] \subseteq Devices /\ ports[p] \subseteq Devices
    BY DEF WalkType
  <2>2. CASE UpsertDevice(p)
    BY <1>1, <1>2, <2>2 DEF UpsertDevice, probeVars
  <2>3. CASE EnsurePortDevice(p)
    BY <1>5, <2>1, <2>3 DEF EnsurePortDevice
  <2>4. CASE TagAddress(p)
    BY <1>3, <2>4 DEF TagAddress
  <2>5. CASE StoreModel(p)
    BY <1>6, <2>5 DEF StoreModel
  <2>6. CASE DropOthers(p)
    BY <1>7, <2>6 DEF DropOthers
  <2>7. CASE EndNodes(p) \/ EndScan(p)
    BY <1>2, <2>7 DEF EndNodes, AfterNodes, EndScan, probeVars
  <2>8. CASE ScanAddress(p)
    BY <1>1, <2>8 DEF ScanAddress
  <2>9. CASE ProbeExtra(p)
    BY <1>5, <2>1, <2>9 DEF ProbeExtra
  <2>10. CASE EndRun(p)
    BY <1>4, <2>10 DEF EndRun
  <2>11. QED
    BY <1>8, <1>9, <1>17, <2>2, <2>3, <2>4, <2>5, <2>6, <2>7, <2>8, <2>9, <2>10 DEF PassStep
<1>10. ASSUME NEW p \in Passes, Run(p)
      PROVE  InHand'
  BY <1>2, <1>10 DEF Run, probeVars
<1>11. ASSUME NEW p \in Passes, StatementFails(p)
      PROVE  InHand'
  <2>1. told' = told
    BY <1>11 DEF StatementFails
  <2>2. CASE UNCHANGED <<pc, probeVars>>
    BY <1>1, <2>1, <2>2
  <2>3. CASE probeVars' = probeVars /\ (Goto(p, "nodes") \/ Goto(p, "ports") \/ Goto(p, "scan") \/ Goto(p, "extras"))
    BY <1>2, <2>1, <2>3 DEF probeVars
  <2>4. CASE pc[p] = "store" /\ \E m \in left[p] :
                /\ left' = [left EXCEPT ![p] = @ \ {m}]
                /\ Goto(p, "others") \/ UNCHANGED pc
                /\ at' = at /\ tries' = tries
    BY <1>6, <2>1, <2>4
  <2>5. CASE pc[p] = "others" /\ Synced(p)
    BY <1>7, <2>1, <2>5
  <2>6. CASE Leave(p)
    BY <1>3, <2>1, <2>6
  <2>7. QED
    BY <1>11, <2>2, <2>3, <2>4, <2>5, <2>6 DEF StatementFails, AfterNodes
<1>12. CASE Restart
  BY <1>12 DEF Restart, InHand
<1>13. CASE Cut
  BY <1>4, <1>13 DEF Cut, Passes
<1>14. ASSUME NEW d \in Devices, NodeChanges(d) \/ ServerChanges(d) \/ HandleDeviceOffline(d) \/ WorkerCalls(d)
      PROVE  InHand'
  BY <1>1, <1>14 DEF NodeChanges, ServerChanges, HandleDeviceOffline, WorkerCalls, passVars
<1>15. CASE ApplyDeviceLimits \/ WriteLimit \/ LimitFails \/ UNCHANGED vars
  BY <1>1, <1>15 DEF ApplyDeviceLimits, WriteLimit, LimitFails, vars, passVars
<1>16. QED
  BY <1>8, <1>9, <1>10, <1>11, <1>12, <1>13, <1>14, <1>15, ServersType
     DEF Next, RegisterWorker, HandleWorkerRegister, ReportMetrics

(***************************************************************************)
(* The invariant is inductive.                                             *)
(***************************************************************************)
LEMMA NextInv == DiscoveryInv /\ [Next]_vars => DiscoveryInv'
<1> SUFFICES ASSUME DiscoveryInv, [Next]_vars PROVE DiscoveryInv'
  OBVIOUS
<1>1. LimitInv /\ TableType /\ OfferInv /\ WorldType /\ PassType /\ InHand /\ env \in Envs
  BY DEF DiscoveryInv, LimitInv
<1>2. PassType <=> PlaceType /\ WalkType
  BY DEF PassType, PlaceType, WalkType
<1>3. (PassType <=> PlaceType /\ WalkType)'
  BY DEF PassType, PlaceType, WalkType
<1>4. LimitInv' /\ TableType' /\ OfferInv' /\ WorldType'
  BY <1>1, LimitSteps, TableSteps, OfferSteps, WorldSteps
<1>5. PlaceType' /\ WalkType' /\ InHand'
  BY <1>1, <1>2, PlaceSteps, WalkSteps, HandSteps
<1>6. QED
  BY <1>3, <1>4, <1>5 DEF DiscoveryInv

LEMMA AlwaysInv == Spec => []DiscoveryInv
  BY InitInv, NextInv, PTL DEF Spec
-----------------------------------------------------------------------------
(***************************************************************************)
(* The variables keep their types: no pass ever probes NoDevice, and what  *)
(* is stored is a model.                                                   *)
(***************************************************************************)
THEOREM DiscoveryTypeCorrect == Spec => []TypeOK
  BY AlwaysInv, InvImplies, PTL

(***************************************************************************)
(* A device offers only what its own server has answered with, for any     *)
(* number of ports, nodes and models and any length of either pass.        *)
(***************************************************************************)
THEOREM OffersFromServers == Spec => []OffersWereServed
  BY AlwaysInv, InvImplies, PTL

(***************************************************************************)
(* A name is found in a list by both filters, if its entries are not       *)
(* written with blanks.                                                    *)
(***************************************************************************)
LEMMA ListedNames ==
    ASSUME NEW list \in Limits!Lists, NEW m \in Models
    PROVE  /\ Limits!Contains(list, m) => m \in Limits!Listed(list)
           /\ Trimmed(list) /\ m \in Limits!Listed(list) => Limits!Contains(list, m)
<1>1. CASE list = NoList
  BY <1>1 DEF Limits!Contains, Limits!Listed
<1>2. CASE list # NoList
  <2>1. list \subseteq [id : Models \cup {NoName}, blank : BOOLEAN]
    BY <1>2 DEF Limits!Lists
  <2>2. m # NoName
    OBVIOUS
  <2>3. m \in Limits!Listed(list) <=> \E e \in list : e.id = m
    BY <1>2, <2>2, Zenon DEF Limits!Listed
  <2>4. [id |-> m, blank |-> FALSE].id = m
    OBVIOUS
  <2>5. ASSUME Trimmed(list), NEW e \in list, e.id = m
        PROVE  [id |-> m, blank |-> FALSE] \in list
    <3>1. ~e.blank /\ e \in [id : Models \cup {NoName}, blank : BOOLEAN]
      BY <1>2, <2>1, <2>5 DEF Trimmed
    <3>2. e = [id |-> m, blank |-> FALSE]
      BY <2>5, <3>1
    <3>3. QED
      BY <3>2
  <2>6. QED
    BY <1>2, <2>3, <2>4, <2>5, Zenon DEF Limits!Contains
<1>3. QED
  BY <1>1, <1>2

(***************************************************************************)
(* The two filters of models agree whatever limits are stored.             *)
(***************************************************************************)
LEMMA FiltersOfRow ==
    ASSUME DiscoveryInv, NEW m \in Models, NEW d \in Devices, limit[d] # NoRow
    PROVE  /\ Trimmed(limit[d].deny) =>
                 (Limits!SqlAdmits(d, m) => Limits!ModelAllowed(d, m))
           /\ /\ limit[d].allow # NoList /\ Trimmed(limit[d].allow)
              /\ limit[d].allow # {} => Limits!Listed(limit[d].allow) # {}
              => (Limits!ModelAllowed(d, m) => Limits!SqlAdmits(d, m))
<1> DEFINE row == limit[d]
<1>1. row.allow \in Limits!Lists /\ row.deny \in Limits!Lists
  BY DEF DiscoveryInv, LimitInv, Limits!TypeOK, Limits!Row
<1>2. NoList # {}
  OBVIOUS
<1>3. ~Limits!Contains({}, m)
  BY DEF Limits!Contains
<1>4. row.allow = {} => Limits!Listed(row.allow) = {}
  BY <1>2 DEF Limits!Listed
<1> HIDE DEF row
<1>5. Limits!SqlAdmits(d, m) <=>
         /\ row.allow = {} \/ Limits!Contains(row.allow, m)
         /\ row.deny = {} \/ ~Limits!Contains(row.deny, m)
         /\ Limits!NumbersHold(row, m)
  BY DEF Limits!SqlAdmits, row
<1>6. Limits!ModelAllowed(d, m) <=>
         /\ Limits!Listed(row.allow) # {} => m \in Limits!Listed(row.allow)
         /\ m \notin Limits!Listed(row.deny)
         /\ Limits!NumbersHold(row, m)
  BY DEF Limits!ModelAllowed, row
<1>7. /\ Limits!Contains(row.allow, m) => m \in Limits!Listed(row.allow)
      /\ Trimmed(row.allow) /\ m \in Limits!Listed(row.allow) => Limits!Contains(row.allow, m)
      /\ Limits!Contains(row.deny, m) => m \in Limits!Listed(row.deny)
      /\ Trimmed(row.deny) /\ m \in Limits!Listed(row.deny) => Limits!Contains(row.deny, m)
  BY <1>1, ListedNames
<1>8. row = limit[d]
  BY DEF row
<1>9. QED
  BY <1>3, <1>4, <1>5, <1>6, <1>7, <1>8

THEOREM FiltersAlwaysAgree == Spec => []FiltersAgree
<1>1. DiscoveryInv => FiltersAgree
  BY FiltersOfRow DEF FiltersAgree
<1>2. QED
  BY <1>1, AlwaysInv, PTL

(***************************************************************************)
(* Smart routing never finds a model that lacks a thousand tokens of the   *)
(* prompt, whatever is on offer.                                           *)
(***************************************************************************)
THEOREM ContextAlwaysFits == Spec => []ContextFits
<1>1. ContextFits
  BY PromptFits DEF ContextFits, FindLocalModel
<1>2. QED
  BY <1>1, PTL
=============================================================================
