--------------------------- MODULE JobCountProofs ---------------------------
(***************************************************************************)
(* Theorems about what JobQueue counts, for every set of jobs and workers  *)
(* and every value of the bounds: the attempts, the costs and the rows of  *)
(* a job against the mishaps that have befallen it.                        *)
(***************************************************************************)
EXTENDS JobQueueProofs, FiniteSetTheorems, WellFoundedInduction

USE JobsAssumption, WorkersAssumption, DevicesAssumption, BoundsAssumption
USE DEF jobVars, circuitVars, deviceVars, workerVars

(***************************************************************************)
(* Whatever can still start a run of j or record a cost of it: its row, if *)
(* a claim can take it now or after its lease has run out without a        *)
(* mishap; and the runs and handlers on their way, which may put it back   *)
(* into the queue.  Only a mishap makes one more of these.                 *)
(***************************************************************************)
Busy == {"completeUpdate", "completeRows", "completeCost", "failRead", "failUpdate"}

Live(j) ==
    {h \in Handlers : \/ call[h].job = j /\ call[h].pc \in Busy
                      \/ h[2] = "current" /\ wpc[h[1]] = "working" /\ wjob[h[1]] = j}

Open(j) ==
    \/ status[j] \in {"absent", "queued"}
    \/ status[j] = "running" /\ (lease[j] # "live" \/ \A w \in Workers : ~Holds(w, j))

\* Handlers that have read attempts and will put j back whatever happens meanwhile.
Requeues(j) ==
    {h \in Handlers : /\ call[h].job = j
                      /\ call[h].pc = "failUpdate" /\ call[h].verdict = "queued"}

Chance(j)  == IF Open(j) THEN 1 ELSE 0
Allowed(j) == IF MaxAttempts(j) < 1 THEN 1 ELSE MaxAttempts(j)

Budget(j) ==
    /\ IsFiniteSet(Live(j))
    /\ costs[j] + Chance(j) + Cardinality(Live(j)) <= 1 + faults[j]
    /\ attempts[j] + Chance(j) + Cardinality(Requeues(j)) <= Allowed(j) + faults[j]

BudgetInv == \A j \in Jobs : Budget(j)

(***************************************************************************)
(* Sizes of finite sets that lose, gain or exchange an element.            *)
(***************************************************************************)
LEMMA SubsetSize ==
    ASSUME NEW S, IsFiniteSet(S), NEW T, T \subseteq S
    PROVE  /\ IsFiniteSet(T) /\ Cardinality(T) \in Nat /\ Cardinality(S) \in Nat
           /\ Cardinality(T) <= Cardinality(S)
  BY FS_Subset, FS_CardinalityType

(***************************************************************************)
(* At most one element more adds at most one to the size.                  *)
(***************************************************************************)
LEMMA GrownSize ==
    ASSUME NEW S, IsFiniteSet(S), NEW x, NEW T, T \subseteq S \cup {x}
    PROVE  /\ IsFiniteSet(T) /\ Cardinality(T) \in Nat /\ Cardinality(S) \in Nat
           /\ Cardinality(T) <= Cardinality(S) + 1
<1>1. /\ IsFiniteSet(S \cup {x}) /\ Cardinality(S) \in Nat
      /\ Cardinality(S \cup {x}) = IF x \in S THEN Cardinality(S) ELSE Cardinality(S) + 1
  BY FS_AddElement, FS_CardinalityType
<1>2. IsFiniteSet(T) /\ Cardinality(T) \in Nat /\ Cardinality(T) <= Cardinality(S \cup {x})
  BY <1>1, SubsetSize
<1>3. QED
  BY <1>1, <1>2

(***************************************************************************)
(* Losing an element takes at least one from the size.                     *)
(***************************************************************************)
LEMMA ShrunkSize ==
    ASSUME NEW S, IsFiniteSet(S), NEW x \in S, NEW T, T \subseteq S \ {x}
    PROVE  /\ IsFiniteSet(T) /\ Cardinality(T) \in Nat /\ Cardinality(S) \in Nat
           /\ Cardinality(T) + 1 <= Cardinality(S)
<1>1. /\ IsFiniteSet(S \ {x}) /\ Cardinality(S) \in Nat
      /\ Cardinality(S \ {x}) = Cardinality(S) - 1
  BY FS_RemoveElement, FS_CardinalityType
<1>2. IsFiniteSet(T) /\ Cardinality(T) \in Nat /\ Cardinality(T) <= Cardinality(S \ {x})
  BY <1>1, SubsetSize
<1>3. QED
  BY <1>1, <1>2

(***************************************************************************)
(* Exchanging an element for another does not add to the size.             *)
(***************************************************************************)
LEMMA SwappedSize ==
    ASSUME NEW S, IsFiniteSet(S), NEW x \in S, NEW y, NEW T, T \subseteq (S \ {x}) \cup {y}
    PROVE  /\ IsFiniteSet(T) /\ Cardinality(T) \in Nat /\ Cardinality(S) \in Nat
           /\ Cardinality(T) <= Cardinality(S)
<1>1. IsFiniteSet(S \ {x}) /\ Cardinality(S \ {x}) + 1 <= Cardinality(S)
      /\ Cardinality(S \ {x}) \in Nat /\ Cardinality(S) \in Nat
  BY ShrunkSize
<1>2. /\ IsFiniteSet(T) /\ Cardinality(T) \in Nat
      /\ Cardinality(T) <= Cardinality(S \ {x}) + 1
  BY <1>1, GrownSize
<1>3. QED
  BY <1>1, <1>2

(***************************************************************************)
(* The numbers of a budget are numbers.                                    *)
(***************************************************************************)
LEMMA BudgetNumbers ==
    ASSUME TypeOK, NEW j \in Jobs
    PROVE  /\ costs[j] \in Nat /\ attempts[j] \in Nat /\ faults[j] \in Nat
           /\ Chance(j) \in {0, 1} /\ Allowed(j) \in Int /\ Allowed(j) >= 1
           /\ MaxAttempts(j) \in Int /\ Allowed(j) >= MaxAttempts(j)
<1>1. MaxAttempts(j) \in Int
  BY MaxAttemptsInt
<1>2. Allowed(j) \in Int /\ Allowed(j) >= 1 /\ Allowed(j) >= MaxAttempts(j)
  BY <1>1 DEF Allowed
<1>3. QED
  BY <1>1, <1>2 DEF TypeOK, Chance

(***************************************************************************)
(* A handler that will put j back is one of the live ones.                 *)
(***************************************************************************)
LEMMA RequeuesLive ==
    ASSUME NEW j \in Jobs
    PROVE  Requeues(j) \subseteq Live(j)
  BY DEF Requeues, Live, Busy

(***************************************************************************)
(* The attempts that a job is allowed never change.                        *)
(***************************************************************************)
LEMMA AllowedSame == \A j \in Jobs : Allowed(j)' = Allowed(j)
  BY DEF Allowed, MaxAttempts

(***************************************************************************)
(* A step that gives j nothing new.                                        *)
(***************************************************************************)
Steady(j) ==
    /\ costs'[j] = costs[j] /\ attempts'[j] = attempts[j] /\ faults'[j] >= faults[j]
    /\ Live(j)' \subseteq Live(j) /\ Requeues(j)' \subseteq Requeues(j)
    /\ Open(j)' => Open(j)

(***************************************************************************)
(* Such a step keeps the budget of j.                                      *)
(***************************************************************************)
LEMMA SteadyKeeps ==
    ASSUME TypeOK, TypeOK', NEW j \in Jobs, Budget(j), Steady(j)
    PROVE  Budget(j)'
<1>1. /\ IsFiniteSet(Live(j)') /\ Cardinality(Live(j)') \in Nat /\ Cardinality(Live(j)) \in Nat
      /\ Cardinality(Live(j)') <= Cardinality(Live(j))
  BY SubsetSize DEF Steady, Budget
<1>2. IsFiniteSet(Requeues(j))
  BY RequeuesLive, SubsetSize DEF Budget
<1>3. /\ Cardinality(Requeues(j)') \in Nat /\ Cardinality(Requeues(j)) \in Nat
      /\ Cardinality(Requeues(j)') <= Cardinality(Requeues(j))
  BY <1>2, SubsetSize DEF Steady
<1>4. Chance(j)' <= Chance(j) /\ Chance(j) \in {0, 1} /\ Chance(j)' \in {0, 1}
  BY DEF Steady, Chance
<1>5. /\ costs[j] \in Nat /\ attempts[j] \in Nat /\ faults[j] \in Nat /\ faults'[j] \in Nat
      /\ Allowed(j) \in Int
  BY BudgetNumbers DEF TypeOK
<1>6. /\ costs'[j] = costs[j] /\ attempts'[j] = attempts[j] /\ faults'[j] >= faults[j]
      /\ Allowed(j)' = Allowed(j)
      /\ costs[j] + Chance(j) + Cardinality(Live(j)) <= 1 + faults[j]
      /\ attempts[j] + Chance(j) + Cardinality(Requeues(j)) <= Allowed(j) + faults[j]
  BY AllowedSame DEF Steady, Budget
<1>7. QED
  BY <1>1, <1>3, <1>4, <1>5, <1>6 DEF Budget

(***************************************************************************)
(* A mishap on j pays for one more way to start it.                        *)
(***************************************************************************)
LEMMA MishapPays ==
    ASSUME TypeOK, TypeOK', NEW j \in Jobs, Budget(j),
           costs'[j] = costs[j], attempts'[j] = attempts[j], faults'[j] = faults[j] + 1,
           IsFiniteSet(Live(j)'), IsFiniteSet(Requeues(j)'),
           Cardinality(Requeues(j)') <= Cardinality(Requeues(j)),
           Chance(j)' + Cardinality(Live(j)') <= Chance(j) + Cardinality(Live(j)) + 1
    PROVE  Budget(j)'
<1>1. IsFiniteSet(Requeues(j))
  BY RequeuesLive, SubsetSize DEF Budget
<1>2. /\ Cardinality(Live(j)) \in Nat /\ Cardinality(Live(j)') \in Nat
      /\ Cardinality(Requeues(j)) \in Nat /\ Cardinality(Requeues(j)') \in Nat
  BY <1>1, FS_CardinalityType DEF Budget
<1>3. Chance(j) \in {0, 1} /\ Chance(j)' \in {0, 1}
  BY DEF Chance
<1>4. costs[j] \in Nat /\ attempts[j] \in Nat /\ faults[j] \in Nat /\ Allowed(j) \in Int
  BY BudgetNumbers
<1>5. /\ Allowed(j)' = Allowed(j)
      /\ costs[j] + Chance(j) + Cardinality(Live(j)) <= 1 + faults[j]
      /\ attempts[j] + Chance(j) + Cardinality(Requeues(j)) <= Allowed(j) + faults[j]
  BY AllowedSame DEF Budget
<1>6. QED
  BY <1>2, <1>3, <1>4, <1>5 DEF Budget

(***************************************************************************)
(* Steps that move no worker and no handler.                               *)
(***************************************************************************)
LEMMA SameControl ==
    ASSUME UNCHANGED <<wpc, wjob, call>>, NEW j \in Jobs
    PROVE  /\ Live(j)' = Live(j) /\ Requeues(j)' = Requeues(j)
           /\ \A w \in Workers : Holds(w, j)' = Holds(w, j)
  BY DEF Live, Requeues, Holds

(***************************************************************************)
(* The heartbeat thread of a worker that holds j is alive.                 *)
(***************************************************************************)
LEMMA HolderBeats ==
    ASSUME NEW j \in Jobs, NEW w \in Workers, Holds(w, j)
    PROVE  Heartbeated(j)
  BY DEF Holds, Heartbeated, Executing

(***************************************************************************)
(* A step that moves no worker and no handler keeps the budgets: a lease   *)
(* that runs out under a live heartbeat thread, or is reset, pays for the  *)
(* claim that it makes possible.                                           *)
(***************************************************************************)
LEMMA ElsewhereBudget ==
    ASSUME TypeOK, TypeOK', BudgetInv, Elsewhere, NEW j \in Jobs
    PROVE  Budget(j)'
<1>1. UNCHANGED <<wpc, wjob, call>> /\ faults'[j] >= faults[j]
  BY ElsewhereKeeps
<1>2. /\ Live(j)' = Live(j) /\ Requeues(j)' = Requeues(j)
      /\ \A w \in Workers : Holds(w, j)' = Holds(w, j)
  BY <1>1, SameControl
<1>3. Budget(j)
  BY DEF BudgetInv
<1>4. /\ status \in [Jobs -> {"absent", "queued", "running"} \cup Terminal]
      /\ lease \in [Jobs -> {"none", "live", "expired"}] /\ faults \in [Jobs -> Nat]
  BY DEF TypeOK
<1>5. ASSUME costs' = costs, attempts' = attempts, Open(j)' => Open(j)
      PROVE  Budget(j)'
  BY <1>1, <1>2, <1>3, <1>5, SteadyKeeps DEF Steady
<1>6. ASSUME costs' = costs, attempts' = attempts, faults'[j] = faults[j] + 1
      PROVE  Budget(j)'
  <2>1. IsFiniteSet(Live(j)) /\ IsFiniteSet(Requeues(j))
    BY <1>3, RequeuesLive, SubsetSize DEF Budget
  <2>2. /\ Cardinality(Live(j)) \in Nat /\ Cardinality(Requeues(j)) \in Nat
        /\ Chance(j)' <= Chance(j) + 1 /\ Chance(j) \in {0, 1} /\ Chance(j)' \in {0, 1}
    BY <2>1, FS_CardinalityType DEF Chance
  <2>3. QED
    BY <1>2, <1>3, <1>6, <2>1, <2>2, MishapPays
<1>7. CASE Submission
  <2>1. ASSUME NEW i \in Jobs, Insert(i) \/ DebugUpdate(i) \/ DebugGivesUp(i)
        PROVE  costs' = costs /\ attempts' = attempts /\ (Open(j)' => Open(j))
    BY <1>2, <1>4, <2>1 DEF Insert, DebugUpdate, DebugGivesUp, Open
  <2>2. QED
    BY <1>5, <1>7, <2>1 DEF Submission, SubmitJob, HandleJobs, HandleLLMRequest,
       HandleBenchmarkRun, HandleDebugTest
<1>8. ASSUME NEW w \in Workers, SendHeartbeat(w) \/ Heartbeat(w) \/ HeartbeatLost(w)
      PROVE  Budget(j)'
  <2>1. costs' = costs /\ attempts' = attempts /\ (Open(j)' => Open(j))
    BY <1>2, <1>4, <1>8 DEF SendHeartbeat, Heartbeat, HeartbeatLost, Renewed, Open
  <2>2. QED
    BY <1>5, <2>1
<1>9. ASSUME NEW i \in Jobs, LeaseExpires(i)
      PROVE  Budget(j)'
  <2>1. CASE i = j /\ Heartbeated(j)
    <3>1. faults'[j] = faults[j] + 1
      BY <1>9, <2>1 DEF LeaseExpires, Fault
    <3>2. QED
      BY <1>6, <1>9, <3>1 DEF LeaseExpires
  <2>2. CASE ~(i = j /\ Heartbeated(j))
    <3>1. Open(j)' => Open(j)
      BY <1>2, <1>4, <1>9, <2>2, HolderBeats DEF LeaseExpires, Open
    <3>2. QED
      BY <1>5, <1>9, <3>1 DEF LeaseExpires
  <2>3. QED
    BY <2>1, <2>2
<1>10. ASSUME NEW D \in SUBSET Devices, HandleOfflineDevices(D)
      PROVE  Budget(j)'
  <2> DEFINE reset == {i \in Jobs : \E d \in D : i \in LiveOn(d)}
  <2>1. /\ lease' = [i \in Jobs |-> IF i \in reset THEN "none" ELSE lease[i]]
        /\ faults' = [i \in Jobs |-> IF i \in reset THEN faults[i] + 1 ELSE faults[i]]
        /\ status' = status /\ costs' = costs /\ attempts' = attempts
    BY <1>10 DEF HandleOfflineDevices, Fault
  <2> HIDE DEF reset
  <2>2. CASE j \in reset
    BY <1>6, <2>1, <2>2
  <2>3. CASE j \notin reset
    <3>1. Open(j)' => Open(j)
      BY <1>2, <2>1, <2>3 DEF Open
    <3>2. QED
      BY <1>5, <2>1, <3>1
  <2>4. QED
    BY <2>2, <2>3
<1>11. CASE DeviceStep
  <2>1. Open(j)' => Open(j)
    BY <1>2, <1>11 DEF DeviceStep, DeviceStatusChanges, ProxyRecords, CoreRestarts, Open
  <2>2. QED
    BY <1>5, <1>11, <2>1 DEF DeviceStep, DeviceStatusChanges, ProxyRecords, CoreRestarts
<1>12. CASE UNCHANGED vars
  <2>1. Open(j)' => Open(j)
    BY <1>2, <1>12 DEF vars, Open
  <2>2. QED
    BY <1>5, <1>12, <2>1 DEF vars
<1>13. QED
  BY <1>7, <1>8, <1>9, <1>10, <1>11, <1>12 DEF Elsewhere

(***************************************************************************)
(* The statements of the handlers: a handler that is not live stays so,    *)
(* one that ends is live no more, and only FailRead makes one that will    *)
(* put the job back.                                                       *)
(***************************************************************************)
LEMMA HandlerLive ==
    ASSUME TypeOK, TypeOK', ControlInv, NEW h \in Handlers, HandlerStep(h), NEW j \in Jobs
    PROVE  /\ Live(j)' \subseteq Live(j)
           /\ h \in Live(j)' => call'[h].pc \in Busy
           /\ ~FailRead(h) => Requeues(j)' \subseteq Requeues(j)
           /\ FailRead(h) => Requeues(j)' \subseteq Requeues(j) \cup {h}
           /\ ~CompleteUpdate(h) /\ ~FailUpdate(h) =>
                \A w \in Workers : Holds(w, j)' = Holds(w, j)
<1> USE DEF CompletePC, FailPC, At, Goto, Call, IfHttp
<1>1. /\ \A g \in Handlers : g # h => call'[g] = call[g]
      /\ call'[h].job = call[h].job /\ call[h].pc # "idle"
      /\ UNCHANGED <<wpc, wjob>>
  BY HandlerMoves
<1>2. /\ call'[h].pc \in Busy => call[h].pc \in Busy
      /\ ~FailRead(h) => call'[h].pc # "failUpdate"
      /\ ~CompleteUpdate(h) /\ ~FailUpdate(h) =>
            (call'[h].pc \in {"completeUpdate", "failRead", "failUpdate"}
              <=> call[h].pc \in {"completeUpdate", "failRead", "failUpdate"})
  <2>1. CASE FailRead(h)
    BY <2>1, OneCall DEF FailRead, Busy
  <2>2. CASE ~FailRead(h)
    <3>1. PICK pc \in {"completeRows", "completeCost", "completeCircuit", "failRows",
                      "failCircuit", "reply"} :
            /\ Goto(h, pc)
            /\ pc \in Busy => call[h].pc \in Busy
            /\ ~CompleteUpdate(h) /\ ~FailUpdate(h) =>
                  call[h].pc \notin {"completeUpdate", "failRead", "failUpdate"}
      BY <2>2 DEF HandlerStep, CompleteUpdate, CompleteRows, RecordCost, CompleteCircuit,
         FailUpdate, FailRows, FailCircuit, StatementFails, Busy
    <3>2. call'[h].pc = pc
      BY <3>1 DEF TypeOK
    <3>3. QED
      BY <2>2, <3>1, <3>2
  <2>3. QED
    BY <2>1, <2>2
<1>3. h[2] = "current" => h[1] \in Workers /\ h = <<h[1], "current">>
  BY DEF Handlers
<1>4. h[2] = "current" => wpc[h[1]] # "working"
  BY <1>1, <1>3 DEF ControlInv, WorkerHasJob
<1>5. Live(j)' \subseteq Live(j) /\ (h \in Live(j)' => call'[h].pc \in Busy)
  BY <1>1, <1>2, <1>4 DEF Live
<1>6. /\ ~FailRead(h) => Requeues(j)' \subseteq Requeues(j)
      /\ FailRead(h) => Requeues(j)' \subseteq Requeues(j) \cup {h}
  BY <1>1, <1>2 DEF Requeues
<1>7. ASSUME ~CompleteUpdate(h), ~FailUpdate(h), NEW w \in Workers
      PROVE  Holds(w, j)' = Holds(w, j)
  BY <1>1, <1>2, <1>7, HandlerIds DEF Holds
<1>8. QED
  BY <1>5, <1>6, <1>7

(***************************************************************************)
(* The statements of the handlers keep the budgets: a cost recorded or a   *)
(* job put back uses up the handler that does it.                          *)
(***************************************************************************)
LEMMA HandlerBudget ==
    ASSUME TypeOK, TypeOK', ControlInv, BudgetInv,
           NEW h \in Handlers, HandlerStep(h), NEW j \in Jobs
    PROVE  Budget(j)'
<1> DEFINE L  == Cardinality(Live(j))
           LL == Cardinality(Live(j)')
           R  == Cardinality(Requeues(j))
           RR == Cardinality(Requeues(j)')
<1>1. Budget(j)
  BY DEF BudgetInv
<1>2. /\ Live(j)' \subseteq Live(j)
      /\ h \in Live(j)' => call'[h].pc \in Busy
      /\ ~FailRead(h) => Requeues(j)' \subseteq Requeues(j)
      /\ FailRead(h) => Requeues(j)' \subseteq Requeues(j) \cup {h}
      /\ ~CompleteUpdate(h) /\ ~FailUpdate(h) =>
            \A w \in Workers : Holds(w, j)' = Holds(w, j)
  BY HandlerLive
<1>3. faults'[j] >= faults[j]
  BY HandlerMoves
<1>4. IsFiniteSet(Requeues(j))
  BY <1>1, RequeuesLive, SubsetSize DEF Budget
<1>5. /\ costs[j] \in Nat /\ attempts[j] \in Nat /\ faults[j] \in Nat /\ faults'[j] \in Nat
      /\ Allowed(j) \in Int /\ Allowed(j)' = Allowed(j)
      /\ Chance(j) \in {0, 1} /\ Chance(j)' \in {0, 1}
      /\ MaxAttempts(j) \in Int /\ Allowed(j) >= MaxAttempts(j)
  BY BudgetNumbers, AllowedSame DEF TypeOK, Chance
<1>6. /\ costs[j] + Chance(j) + L <= 1 + faults[j]
      /\ attempts[j] + Chance(j) + R <= Allowed(j) + faults[j]
  BY <1>1 DEF Budget
<1>7. /\ status \in [Jobs -> {"absent", "queued", "running"} \cup Terminal]
      /\ costs \in [Jobs -> Nat] /\ call \in [Handlers -> Calls]
  BY DEF TypeOK
\* All statements but three give nothing and take nothing but the handler.
<1>8. ASSUME costs'[j] = costs[j], attempts'[j] = attempts[j], ~FailRead(h), Open(j)' => Open(j)
      PROVE  Budget(j)'
  BY <1>1, <1>2, <1>3, <1>8, SteadyKeeps DEF Steady
<1>9. ASSUME UNCHANGED <<status, lease>>, ~CompleteUpdate(h), ~FailUpdate(h)
      PROVE  Open(j)' => Open(j)
  BY <1>2, <1>9 DEF Open
<1>10. CASE CompleteUpdate(h)
  <2>1. Open(j)' => Open(j)
    <3>1. CASE call[h].job = j
      BY <1>7, <1>10, <3>1 DEF CompleteUpdate, EndRun, Open
    <3>2. CASE call[h].job # j
      <4>1. /\ \A g \in Handlers : g # h => call'[g] = call[g]
            /\ call'[h].job = call[h].job /\ UNCHANGED <<wpc, wjob>>
        BY HandlerMoves
      <4>2. \A w \in Workers : Holds(w, j) => <<w, "current">> # h
        <5>1. ASSUME NEW w \in Workers, Holds(w, j), <<w, "current">> = h PROVE FALSE
          BY <1>10, <3>2, <5>1 DEF ControlInv, WorkerHasJob, Holds, CompleteUpdate, At
        <5>2. QED
          BY <5>1
      <4>3. \A w \in Workers : Holds(w, j) => Holds(w, j)'
        BY <4>1, <4>2, HandlerIds DEF Holds
      <4>4. status'[j] = status[j] /\ lease'[j] = lease[j]
        BY <3>2, <1>7, <1>10 DEF CompleteUpdate, EndRun, TypeOK
      <4>5. QED
        BY <4>3, <4>4 DEF Open
    <3>3. QED
      BY <3>1, <3>2
  <2>2. ~FailRead(h)
    BY <1>10 DEF CompleteUpdate, FailRead, At
  <2>3. QED
    BY <1>8, <1>10, <2>1, <2>2 DEF CompleteUpdate, EndRun
<1>11. CASE FailUpdate(h)
  <2>1. /\ ~FailRead(h) /\ costs' = costs /\ attempts' = attempts /\ faults' = faults
        /\ status' = [status EXCEPT ![call[h].job] = call[h].verdict]
        /\ lease' = [lease EXCEPT ![call[h].job] = "none"]
    BY <1>11 DEF FailUpdate, EndRun, FailRead, At
  <2>2. call[h].pc = "failUpdate" /\ call'[h].pc = "failRows"
    BY <1>7, <1>11 DEF FailUpdate, At, Goto, Call
  <2>3. CASE call[h].job = j /\ call[h].verdict = "queued"
    <3>1. h \in Live(j) /\ h \in Requeues(j)
      BY <2>2, <2>3 DEF Live, Requeues, Busy
    <3>2. Live(j)' \subseteq Live(j) \ {h}
      BY <1>2, <2>2 DEF Busy
    <3>3. Requeues(j)' \subseteq Requeues(j) \ {h}
      BY <1>2, <2>1, <2>2 DEF Requeues
    <3>4. /\ IsFiniteSet(Live(j)') /\ L \in Nat /\ LL \in Nat /\ LL + 1 <= L
          /\ R \in Nat /\ RR \in Nat /\ RR + 1 <= R
      BY <1>1, <1>4, <3>1, <3>2, <3>3, ShrunkSize DEF Budget
    <3>5. QED
      BY <1>5, <1>6, <2>1, <3>4 DEF Budget
  <2>4. CASE call[h].job = j /\ call[h].verdict # "queued"
    <3>1. call[h].verdict = "error"
      BY <1>7, <2>4 DEF Calls
    <3>2. ~Open(j)'
      BY <1>7, <2>1, <2>4, <3>1 DEF Open
    <3>3. QED
      BY <1>8, <2>1, <3>2
  <2>5. CASE call[h].job # j
    <3>1. /\ \A g \in Handlers : g # h => call'[g] = call[g]
          /\ call'[h].job = call[h].job /\ UNCHANGED <<wpc, wjob>>
      BY HandlerMoves
    <3>2. \A w \in Workers : Holds(w, j) => <<w, "current">> # h
      <4>1. ASSUME NEW w \in Workers, Holds(w, j), <<w, "current">> = h PROVE FALSE
        BY <2>2, <2>5, <4>1 DEF ControlInv, WorkerHasJob, Holds
      <4>2. QED
        BY <4>1
    <3>3. \A w \in Workers : Holds(w, j) => Holds(w, j)'
      BY <3>1, <3>2, HandlerIds DEF Holds
    <3>4. status'[j] = status[j] /\ lease'[j] = lease[j]
      BY <2>1, <2>5 DEF TypeOK
    <3>5. Open(j)' => Open(j)
      BY <3>3, <3>4 DEF Open
    <3>6. QED
      BY <1>8, <2>1, <3>5
  <2>6. QED
    BY <2>3, <2>4, <2>5
<1>12. CASE RecordCost(h)
  <2>1. /\ ~FailRead(h) /\ ~CompleteUpdate(h) /\ ~FailUpdate(h)
        /\ UNCHANGED <<status, lease, attempts, faults>>
        /\ costs' \in {costs, [costs EXCEPT ![call[h].job] = costs[call[h].job] + 1]}
        /\ call[h].pc = "completeCost"
    BY <1>12 DEF RecordCost, FailRead, CompleteUpdate, FailUpdate, At
  <2>2. Open(j)' => Open(j)
    BY <1>9, <2>1
  <2>3. CASE costs'[j] = costs[j]
    BY <1>8, <2>1, <2>2, <2>3
  <2>4. CASE costs'[j] # costs[j]
    <3>1. call[h].job = j /\ costs'[j] = costs[j] + 1
      BY <1>7, <2>1, <2>4
    <3>2. h \in Live(j)
      BY <2>1, <3>1 DEF Live, Busy
    <3>3. call'[h].pc = "completeCircuit"
      BY <1>7, <1>12 DEF RecordCost, Goto, Call
    <3>4. Live(j)' \subseteq Live(j) \ {h}
      BY <1>2, <3>3 DEF Busy
    <3>5. /\ IsFiniteSet(Live(j)') /\ L \in Nat /\ LL \in Nat /\ LL + 1 <= L
          /\ R \in Nat /\ RR \in Nat /\ RR <= R
      BY <1>1, <1>2, <1>4, <2>1, <3>2, <3>4, ShrunkSize, SubsetSize DEF Budget
    <3>6. Chance(j)' <= Chance(j)
      BY <2>2 DEF Chance
    <3>7. QED
      BY <1>5, <1>6, <2>1, <3>1, <3>5, <3>6 DEF Budget
  <2>5. QED
    BY <2>3, <2>4
<1>13. CASE FailRead(h)
  <2>1. UNCHANGED <<status, lease, attempts, costs, faults>> /\ ~CompleteUpdate(h) /\ ~FailUpdate(h)
    BY <1>13 DEF FailRead, CompleteUpdate, FailUpdate, At
  <2>2. Chance(j)' <= Chance(j)
    BY <1>9, <2>1 DEF Chance
  <2>3. /\ IsFiniteSet(Live(j)') /\ L \in Nat /\ LL \in Nat /\ LL <= L
        /\ R \in Nat /\ RR \in Nat
    BY <1>1, <1>2, <1>4, <1>13, SubsetSize, GrownSize DEF Budget
  <2>4. CASE h \in Requeues(j)'
    <3>1. call[h].job = j /\ attempts[j] < MaxAttempts(j)
      <4>1. call'[h].job = call[h].job /\ call'[h].verdict = Verdict(call[h].job)
        BY <1>7, <1>13 DEF FailRead, Call
      <4>2. call[h].job = j /\ Verdict(j) = "queued"
        BY <2>4, <4>1 DEF Requeues
      <4>3. ~(attempts[j] >= MaxAttempts(j))
        BY <4>2 DEF Verdict
      <4>4. QED
        BY <1>5, <4>2, <4>3
    <3>2. RR <= LL
      <4>1. Requeues(j)' \subseteq Live(j)'
        BY DEF Requeues, Live, Busy
      <4>2. QED
        BY <2>3, <4>1, SubsetSize
    <3>3. QED
      BY <1>5, <1>6, <2>1, <2>2, <2>3, <3>1, <3>2 DEF Budget
  <2>5. CASE h \notin Requeues(j)'
    <3>1. RR <= R
      BY <1>2, <1>4, <1>13, <2>5, SubsetSize
    <3>2. QED
      BY <1>5, <1>6, <2>1, <2>2, <2>3, <3>1 DEF Budget
  <2>6. QED
    BY <2>4, <2>5
<1>14. CASE \/ CompleteRows(h) \/ CompleteCircuit(h) \/ FailRows(h) \/ FailCircuit(h)
            \/ StatementFails(h)
  <2>1. /\ ~FailRead(h) /\ ~CompleteUpdate(h) /\ ~FailUpdate(h)
        /\ UNCHANGED <<status, lease, attempts, costs>>
    BY <1>14 DEF CompleteRows, CompleteCircuit, FailRows, FailCircuit, StatementFails, FailRead,
       CompleteUpdate, FailUpdate, At
  <2>2. QED
    BY <1>8, <1>9, <2>1
<1>15. QED
  BY <1>10, <1>11, <1>12, <1>13, <1>14 DEF HandlerStep

(***************************************************************************)
(* A worker's step leaves the other workers and their calls alone.         *)
(***************************************************************************)
OnlyWorker(w) ==
    /\ \A v \in Workers : v # w =>
        /\ wpc'[v] = wpc[v] /\ wjob'[v] = wjob[v]
        /\ call'[<<v, "current">>] = call[<<v, "current">>]
        /\ call'[<<v, "detached">>] = call[<<v, "detached">>]

(***************************************************************************)
(* What the other workers and their handlers have in hand stays theirs.    *)
(***************************************************************************)
LEMMA OtherHandlers ==
    ASSUME NEW w \in Workers, OnlyWorker(w), NEW j \in Jobs
    PROVE  /\ \A h \in Live(j)' : h[1] # w => h \in Live(j)
           /\ \A h \in Requeues(j)' : h[1] # w => h \in Requeues(j)
           /\ \A v \in Workers : v # w => Holds(v, j)' = Holds(v, j)
<1>1. ASSUME NEW h \in Handlers, h[1] # w
      PROVE  /\ h \in Live(j)' => h \in Live(j)
             /\ h \in Requeues(j)' => h \in Requeues(j)
  <2>1. PICK v \in Workers : h = <<v, "current">> \/ h = <<v, "detached">>
    BY HandlerCases
  <2>2. v # w /\ h[1] = v
    BY <1>1, <2>1
  <2>3. call'[h] = call[h] /\ wpc'[v] = wpc[v] /\ wjob'[v] = wjob[v]
    BY <2>1, <2>2 DEF OnlyWorker
  <2>4. QED
    BY <2>2, <2>3 DEF Live, Requeues
<1>2. Live(j)' \subseteq Handlers /\ Requeues(j)' \subseteq Handlers
  BY DEF Live, Requeues
<1>3. \A v \in Workers : v # w => Holds(v, j)' = Holds(v, j)
  BY DEF OnlyWorker, Holds
<1>4. QED
  BY <1>1, <1>2, <1>3

(***************************************************************************)
(* Membership of a worker's two handlers.                                  *)
(***************************************************************************)
LEMMA OwnHandlers ==
    ASSUME NEW w \in Workers, NEW j \in Jobs
    PROVE  /\ <<w, "current">> \in Live(j) <=>
                \/ call[<<w, "current">>].job = j /\ call[<<w, "current">>].pc \in Busy
                \/ wpc[w] = "working" /\ wjob[w] = j
           /\ <<w, "detached">> \in Live(j) <=>
                call[<<w, "detached">>].job = j /\ call[<<w, "detached">>].pc \in Busy
           /\ <<w, "current">> \in Requeues(j) <=>
                /\ call[<<w, "current">>].job = j
                /\ call[<<w, "current">>].pc = "failUpdate"
                /\ call[<<w, "current">>].verdict = "queued"
           /\ <<w, "detached">> \in Requeues(j) <=>
                /\ call[<<w, "detached">>].job = j
                /\ call[<<w, "detached">>].pc = "failUpdate"
                /\ call[<<w, "detached">>].verdict = "queued"
  BY HandlerIds DEF Live, Requeues

(***************************************************************************)
(* A worker has two handlers.                                              *)
(***************************************************************************)
LEMMA OwnCases ==
    ASSUME NEW w \in Workers, NEW h \in Handlers, h[1] = w
    PROVE  h = <<w, "current">> \/ h = <<w, "detached">>
  BY DEF Handlers, Slots

(***************************************************************************)
(* Claims, and what a worker does with its calls, mishaps aside.           *)
(***************************************************************************)
LEMMA WorkerBudget ==
    ASSUME TypeOK, TypeOK', ControlInv, RowInv, BudgetInv, NEW w \in Workers,
           \/ RegisterWorker(w) \/ (\E i \in Jobs : ClaimSelect(w, i))
           \/ ClaimCommit(w) \/ ClaimReplyLost(w) \/ ClaimRollback(w)
           \/ WorkReturns(w) \/ WorkRaises(w)
           \/ CompleteReturns(w) \/ FailReturns(w) \/ DetachedEnds(w),
           NEW j \in Jobs
    PROVE  Budget(j)'
<1> DEFINE cur == <<w, "current">>
           det == <<w, "detached">>
           L  == Cardinality(Live(j))
           LL == Cardinality(Live(j)')
           R  == Cardinality(Requeues(j))
           RR == Cardinality(Requeues(j)')
<1>1. Budget(j) /\ IsFiniteSet(Requeues(j)) /\ IsFiniteSet(Live(j))
  BY RequeuesLive, SubsetSize DEF BudgetInv, Budget
<1>2. /\ wpc \in [Workers -> WorkerPC] /\ wjob \in [Workers -> Jobs \cup {NoJob}]
      /\ call \in [Handlers -> Calls] /\ faults \in [Jobs -> Nat]
      /\ status \in [Jobs -> {"absent", "queued", "running"} \cup Terminal]
      /\ attempts \in [Jobs -> Nat] /\ lease \in [Jobs -> {"none", "live", "expired"}]
  BY DEF TypeOK
<1>3. WorkerHasJob(w)
  BY DEF ControlInv
<1>4. cur \in Handlers /\ det \in Handlers /\ cur # det
  BY HandlerIds
\* Steps that leave the row alone and give the worker no more than it had.
<1>5. ASSUME OnlyWorker(w), UNCHANGED <<status, lease, attempts, costs>>, faults'[j] >= faults[j],
             cur \in Live(j)' => cur \in Live(j), det \in Live(j)' => det \in Live(j),
             cur \in Requeues(j)' => cur \in Requeues(j),
             det \in Requeues(j)' => det \in Requeues(j),
             Holds(w, j) => Holds(w, j)'
      PROVE  Budget(j)'
  <2>1. Live(j)' \subseteq Live(j) /\ Requeues(j)' \subseteq Requeues(j)
    <3>1. Live(j)' \subseteq Handlers /\ Requeues(j)' \subseteq Handlers
      BY DEF Live, Requeues
    <3>2. QED
      BY <1>5, <3>1, OtherHandlers, OwnCases
  <2>2. Open(j)' => Open(j)
    BY <1>5, OtherHandlers DEF Open
  <2>3. QED
    BY <1>1, <1>5, <2>1, <2>2, SteadyKeeps DEF Steady
<1>6. CASE RegisterWorker(w) \/ (\E i \in Jobs : ClaimSelect(w, i)) \/ ClaimRollback(w)
  <2>1. /\ OnlyWorker(w) /\ UNCHANGED <<status, lease, attempts, costs, call>>
        /\ wpc[w] # "working" /\ wpc'[w] # "working" /\ ~Holds(w, j)
    BY <1>2, <1>6 DEF RegisterWorker, ClaimSelect, ClaimRollback, OnlyWorker, Holds
  <2>2. faults'[j] >= faults[j]
    BY <1>2, <1>6, FaultCounts DEF RegisterWorker, ClaimSelect, ClaimRollback
  <2>3. QED
    BY <1>5, <2>1, <2>2 DEF Live, Requeues
<1>7. CASE ClaimCommit(w) \/ ClaimReplyLost(w)
  <2>1. /\ wpc[w] = "claiming" /\ wjob[w] \in Jobs /\ call' = call /\ costs' = costs
        /\ status' = [status EXCEPT ![wjob[w]] = "running"]
        /\ attempts' = [attempts EXCEPT ![wjob[w]] = attempts[wjob[w]] + 1]
        /\ lease' = [lease EXCEPT ![wjob[w]] = "live"]
        /\ OnlyWorker(w) /\ ~Holds(w, j)
    BY <1>2, <1>3, <1>7 DEF ClaimCommit, ClaimReplyLost, Commit, WorkerHasJob, OnlyWorker, Holds
  <2>2. CASE wjob[w] # j
    <3>1. cur \in Live(j)' => cur \in Live(j)
      BY <1>2, <1>7, <2>1, <2>2 DEF Live, ClaimCommit, ClaimReplyLost
    <3>2. /\ det \in Live(j)' => det \in Live(j)
          /\ Requeues(j)' = Requeues(j)
      BY <1>4, <2>1 DEF Live, Requeues
    <3>3. Live(j)' \subseteq Live(j)
      <4>1. Live(j)' \subseteq Handlers
        BY DEF Live
      <4>2. QED
        BY <2>1, <3>1, <3>2, <4>1, OtherHandlers, OwnCases
    <3>4. /\ status'[j] = status[j] /\ lease'[j] = lease[j] /\ attempts'[j] = attempts[j]
          /\ Open(j)' => Open(j)
      BY <1>2, <2>1, <2>2, OtherHandlers DEF Open
    <3>5. faults'[j] >= faults[j]
      BY <1>2, <1>7, FaultCounts DEF ClaimCommit, ClaimReplyLost
    <3>6. QED
      BY <1>1, <2>1, <3>2, <3>3, <3>4, <3>5, SteadyKeeps DEF Steady
  <2>3. CASE wjob[w] = j
    <3>1. Open(j) /\ Chance(j) = 1
      BY <2>1, <2>3 DEF RowInv, ClaimStillValid, Open, Chance
    <3>2. /\ Requeues(j)' = Requeues(j) /\ costs'[j] = costs[j]
          /\ attempts'[j] = attempts[j] + 1
      BY <1>2, <2>1, <2>3 DEF Requeues
    <3>3. /\ costs[j] \in Nat /\ attempts[j] \in Nat /\ faults[j] \in Nat
          /\ Allowed(j) \in Int /\ Allowed(j)' = Allowed(j) /\ Chance(j)' \in {0, 1}
      BY BudgetNumbers, AllowedSame DEF Chance
    <3>4. /\ costs[j] + Chance(j) + L <= 1 + faults[j]
          /\ attempts[j] + Chance(j) + R <= Allowed(j) + faults[j]
          /\ L \in Nat /\ R \in Nat
      BY <1>1, FS_CardinalityType DEF Budget
    <3>5. CASE ClaimCommit(w)
      <4>1. faults' = faults /\ wpc'[w] = "working" /\ wjob' = wjob
        BY <1>2, <3>5 DEF ClaimCommit
      <4>2. Holds(w, j)' /\ ~Open(j)'
        BY <1>2, <2>1, <2>3, <4>1 DEF Holds, Open
      <4>3. Live(j)' \subseteq Live(j) \cup {cur}
        <5>1. Live(j)' \subseteq Handlers /\ (det \in Live(j)' => det \in Live(j))
          BY <1>4, <2>1 DEF Live
        <5>2. QED
          BY <2>1, <5>1, OtherHandlers, OwnCases
      <4>4. IsFiniteSet(Live(j)') /\ LL \in Nat /\ LL <= L + 1
        BY <1>1, <4>3, GrownSize
      <4>5. Chance(j)' = 0
        BY <4>2 DEF Chance
      <4>6. QED
        BY <3>1, <3>2, <3>3, <3>4, <4>1, <4>4, <4>5 DEF Budget
    <3>6. CASE ClaimReplyLost(w)
      <4>1. faults'[j] = faults[j] + 1 /\ wpc'[w] = "idle"
        BY <1>2, <2>3, <3>6 DEF ClaimReplyLost, Fault
      <4>2. Live(j)' \subseteq Live(j)
        <5>1. /\ Live(j)' \subseteq Handlers
              /\ det \in Live(j)' => det \in Live(j)
              /\ cur \in Live(j)' => cur \in Live(j)
          BY <1>4, <2>1, <4>1 DEF Live
        <5>2. QED
          BY <2>1, <5>1, OtherHandlers, OwnCases
      <4>3. IsFiniteSet(Live(j)') /\ LL \in Nat /\ LL <= L
        BY <1>1, <4>2, SubsetSize
      <4>4. QED
        BY <3>1, <3>2, <3>3, <3>4, <4>1, <4>3 DEF Budget
    <3>7. QED
      BY <1>7, <3>5, <3>6
  <2>4. QED
    BY <2>2, <2>3
<1>8. CASE WorkReturns(w) \/ WorkRaises(w)
  <2>1. PICK pc \in {"completeUpdate", "failRead"} :
            /\ call' = [call EXCEPT ![cur] = Request(pc, wjob[w])]
            /\ wpc[w] = "working"
            /\ wpc' = [wpc EXCEPT ![w] = IF pc = "failRead" THEN "failing" ELSE "completing"]
            /\ UNCHANGED <<wjob, status, lease, attempts, costs, faults>>
    BY <1>8 DEF WorkReturns, WorkRaises
  <2>2. /\ call'[cur].pc = pc /\ call'[cur].job = wjob[w] /\ call'[det] = call[det]
        /\ wpc'[w] = IF pc = "failRead" THEN "failing" ELSE "completing"
    BY <1>2, <1>4, <2>1 DEF Request, Call
  <2>3. OnlyWorker(w)
    BY <1>2, <2>1, OneCall, HandlerIds DEF OnlyWorker
  <2>4. /\ cur \in Live(j)' => cur \in Live(j)
        /\ det \in Live(j)' => det \in Live(j)
        /\ cur \notin Requeues(j)'
        /\ det \in Requeues(j)' => det \in Requeues(j)
    BY <1>4, <2>1, <2>2 DEF Live, Requeues
  <2>5. Holds(w, j) => Holds(w, j)'
    BY <2>1, <2>2 DEF Holds
  <2>6. QED
    BY <1>2, <1>5, <2>1, <2>3, <2>4, <2>5
<1>9. CASE CompleteReturns(w) \/ FailReturns(w)
  <2>1. /\ call[cur].pc = "reply" /\ call' = [call EXCEPT ![cur] = IdleCall]
        /\ wpc[w] \in {"completing", "failing"} /\ wpc' = [wpc EXCEPT ![w] = "idle"]
        /\ wjob' = [wjob EXCEPT ![w] = NoJob]
        /\ UNCHANGED <<status, lease, attempts, costs, faults>>
    BY <1>9 DEF CompleteReturns, FailReturns
  <2>2. /\ call'[cur].pc = "idle" /\ call'[det] = call[det] /\ wpc'[w] = "idle"
        /\ OnlyWorker(w) /\ ~Holds(w, j)
    BY <1>2, <1>4, <2>1, OneCall, HandlerIds DEF IdleCall, Call, OnlyWorker, Holds
  <2>3. /\ cur \notin Live(j)' /\ cur \notin Requeues(j)'
        /\ det \in Live(j)' => det \in Live(j)
        /\ det \in Requeues(j)' => det \in Requeues(j)
    BY <1>4, <2>2 DEF Live, Requeues, Busy
  <2>4. QED
    BY <1>2, <1>5, <2>1, <2>2, <2>3
<1>10. CASE DetachedEnds(w)
  <2>1. /\ call' = [call EXCEPT ![det] = IdleCall]
        /\ UNCHANGED <<wpc, wjob, status, lease, attempts, costs, faults>>
    BY <1>10 DEF DetachedEnds
  <2>2. /\ call'[det].pc = "idle" /\ call'[cur] = call[cur] /\ OnlyWorker(w)
    BY <1>2, <1>4, <2>1, OneCall, HandlerIds DEF IdleCall, Call, OnlyWorker
  <2>3. /\ det \notin Live(j)' /\ det \notin Requeues(j)'
        /\ cur \in Live(j)' => cur \in Live(j)
        /\ cur \in Requeues(j)' => cur \in Requeues(j)
        /\ Holds(w, j) => Holds(w, j)'
    BY <1>4, <2>1, <2>2 DEF Live, Requeues, Busy, Holds
  <2>4. QED
    BY <1>2, <1>5, <2>1, <2>2, <2>3
<1>11. QED
  BY <1>6, <1>7, <1>8, <1>9, <1>10

(***************************************************************************)
(* The mishaps in which a worker stops waiting: its call may go on without *)
(* it, its run may be given up, and it may call FailJob next; of these at  *)
(* most one is new.                                                        *)
(***************************************************************************)
LEMMA MishapBudget ==
    ASSUME TypeOK, TypeOK', ControlInv, BudgetInv, NEW w \in Workers,
           CompleteRaises(w) \/ FailRaises(w) \/ Crash(w), NEW j \in Jobs
    PROVE  Budget(j)'
<1> DEFINE cur == <<w, "current">>
           det == <<w, "detached">>
           L  == Cardinality(Live(j))
           LL == Cardinality(Live(j)')
           R  == Cardinality(Requeues(j))
           RR == Cardinality(Requeues(j)')
<1>1. Budget(j) /\ IsFiniteSet(Requeues(j)) /\ IsFiniteSet(Live(j))
  BY RequeuesLive, SubsetSize DEF BudgetInv, Budget
<1>2. /\ wpc \in [Workers -> WorkerPC] /\ wjob \in [Workers -> Jobs \cup {NoJob}]
      /\ call \in [Handlers -> Calls] /\ faults \in [Jobs -> Nat]
  BY DEF TypeOK
<1>3. WorkerHasJob(w)
  BY DEF ControlInv
<1>4. cur \in Handlers /\ det \in Handlers /\ cur # det
  BY HandlerIds
<1>5. /\ wpc[w] \in Executing /\ wjob[w] \in Jobs /\ Fault({wjob[w]})
      /\ UNCHANGED <<status, lease, attempts, costs>>
  BY <1>2, <1>3 DEF CompleteRaises, FailRaises, Crash, Executing, WorkerHasJob
<1>6. PICK next :
        /\ Abandon(w, next)
        /\ \/ /\ next.pc = "failRead" /\ next.job = wjob[w]
              /\ wpc[w] = "completing" /\ wpc' = [wpc EXCEPT ![w] = "failing"]
              /\ UNCHANGED wjob
           \/ /\ next.pc = "idle" /\ wjob' = [wjob EXCEPT ![w] = NoJob]
              /\ \E pc \in {"idle", "down"} : wpc' = [wpc EXCEPT ![w] = pc]
  BY DEF CompleteRaises, FailRaises, Crash, Request, IdleCall, Call
<1>7. OnlyWorker(w)
  BY <1>2, <1>6, AbandonCalls DEF OnlyWorker
<1>8. /\ call'[cur] = next
      /\ \/ call'[det] = call[det]
         \/ /\ call'[det] = call[cur] /\ call[cur].pc \notin {"idle", "reply"}
            /\ call[det].pc = "idle"
  BY <1>2, <1>4, <1>6 DEF Abandon
<1>9. Live(j)' \subseteq Handlers /\ Requeues(j)' \subseteq Handlers
  BY DEF Live, Requeues
<1>10. /\ \A h \in Live(j)' : h[1] # w => h \in Live(j)
       /\ \A h \in Requeues(j)' : h[1] # w => h \in Requeues(j)
       /\ \A v \in Workers : v # w => Holds(v, j)' = Holds(v, j)
  BY <1>7, OtherHandlers
<1>11. CASE wjob[w] # j
  <2>1. call[cur].pc # "idle" => call[cur].job # j
    BY <1>3, <1>11 DEF WorkerHasJob
  <2>2. /\ cur \notin Live(j)' /\ cur \notin Requeues(j)'
        /\ det \in Live(j)' => det \in Live(j)
        /\ det \in Requeues(j)' => det \in Requeues(j)
    BY <1>2, <1>4, <1>6, <1>8, <1>11, <2>1 DEF Live, Requeues, Busy
  <2>3. Live(j)' \subseteq Live(j) /\ Requeues(j)' \subseteq Requeues(j)
    BY <1>9, <1>10, <2>2, OwnCases
  <2>4. ~Holds(w, j)
    BY <1>11 DEF Holds
  <2>5. Open(j)' => Open(j)
    BY <1>5, <1>10, <2>4 DEF Open
  <2>6. faults'[j] >= faults[j]
    BY <1>5, FaultCounts
  <2>7. QED
    BY <1>1, <1>5, <2>3, <2>5, <2>6, SteadyKeeps DEF Steady
<1>12. CASE wjob[w] = j
  <2>1. faults'[j] = faults[j] + 1
    BY <1>2, <1>5, <1>12 DEF Fault
  <2>2. RR <= R /\ IsFiniteSet(Requeues(j)')
    <3>1. cur \notin Requeues(j)'
      BY <1>6, <1>8 DEF Requeues
    <3>2. CASE det \in Requeues(j)' => det \in Requeues(j)
      <4>1. Requeues(j)' \subseteq Requeues(j)
        BY <1>9, <1>10, <3>1, <3>2, OwnCases
      <4>2. QED
        BY <1>1, <4>1, SubsetSize
    <3>3. CASE det \in Requeues(j)' /\ det \notin Requeues(j)
      <4>1. cur \in Requeues(j)
        BY <1>4, <1>8, <3>3 DEF Requeues
      <4>2. Requeues(j)' \subseteq (Requeues(j) \ {cur}) \cup {det}
        BY <1>9, <1>10, <3>1, OwnCases
      <4>3. QED
        BY <1>1, <4>1, <4>2, SwappedSize
    <3>4. QED
      BY <3>2, <3>3
  <2>3. Chance(j) \in {0, 1} /\ Chance(j)' \in {0, 1} /\ L \in Nat
    BY <1>1, FS_CardinalityType DEF Chance
  <2>4. /\ IsFiniteSet(Live(j)')
        /\ Chance(j)' + LL <= Chance(j) + L + 1
    <3>1. CASE next.pc = "failRead"
      <4>1. Open(j)' => Open(j)
        <5>1. Holds(w, j)'
          BY <1>2, <1>6, <1>8, <1>12, <3>1 DEF Holds
        <5>2. QED
          BY <1>5, <1>10, <5>1 DEF Open
      <4>2. Chance(j)' <= Chance(j)
        BY <4>1 DEF Chance
      <4>3. CASE cur \in Live(j)
        <5>1. Live(j)' \subseteq Live(j) \cup {det}
          BY <1>9, <1>10, <4>3, OwnCases
        <5>2. IsFiniteSet(Live(j)') /\ LL \in Nat /\ LL <= L + 1
          BY <1>1, <5>1, GrownSize
        <5>3. QED
          BY <2>3, <4>2, <5>2
      <4>4. CASE cur \notin Live(j)
        <5>1. det \in Live(j)' => det \in Live(j)
          BY <1>4, <1>8, <4>4 DEF Live
        <5>2. Live(j)' \subseteq Live(j) \cup {cur}
          BY <1>9, <1>10, <5>1, OwnCases
        <5>3. IsFiniteSet(Live(j)') /\ LL \in Nat /\ LL <= L + 1
          BY <1>1, <5>2, GrownSize
        <5>4. QED
          BY <2>3, <4>2, <5>3
      <4>5. QED
        BY <4>3, <4>4
    <3>2. CASE next.pc = "idle"
      <4>1. cur \notin Live(j)'
        BY <1>2, <1>6, <1>8, <3>2 DEF Live, Busy
      <4>2. CASE cur \in Live(j)
        <5>1. Live(j)' \subseteq (Live(j) \ {cur}) \cup {det}
          BY <1>9, <1>10, <4>1, OwnCases
        <5>2. IsFiniteSet(Live(j)') /\ LL \in Nat /\ LL <= L
          BY <1>1, <4>2, <5>1, SwappedSize
        <5>3. QED
          BY <2>3, <5>2
      <4>3. CASE cur \notin Live(j)
        <5>1. det \in Live(j)' => det \in Live(j)
          BY <1>4, <1>8, <4>3 DEF Live
        <5>2. Live(j)' \subseteq Live(j)
          BY <1>9, <1>10, <4>1, <5>1, OwnCases
        <5>3. IsFiniteSet(Live(j)') /\ LL \in Nat /\ LL <= L
          BY <1>1, <5>2, SubsetSize
        <5>4. QED
          BY <2>3, <5>3
      <4>4. QED
        BY <4>2, <4>3
    <3>3. QED
      BY <1>6, <3>1, <3>2
  <2>5. QED
    BY <1>1, <1>5, <2>1, <2>2, <2>4, MishapPays
<1>13. QED
  BY <1>11, <1>12

(***************************************************************************)
(* The budgets hold in every reachable state, disturbed jobs included.     *)
(***************************************************************************)
THEOREM BudgetsKept == Spec => []BudgetInv
<1>1. Init => BudgetInv
  <2> SUFFICES ASSUME Init, NEW j \in Jobs PROVE Budget(j)
    BY DEF BudgetInv
  <2>1. Live(j) = {} /\ Requeues(j) = {}
    BY DEF Init, Live, Requeues, Busy, IdleCall, Call, Handlers
  <2>2. Allowed(j) \in Int /\ Allowed(j) >= 1
    BY MaxAttemptsInt DEF Allowed
  <2>3. costs[j] = 0 /\ attempts[j] = 0 /\ faults[j] = 0 /\ Chance(j) \in {0, 1}
    BY DEF Init, Chance
  <2>4. QED
    BY <2>1, <2>2, <2>3, FS_EmptySet DEF Budget
<1>2. TypeOK /\ TypeOK' /\ ControlInv /\ RowInv /\ BudgetInv /\ [Next]_vars => BudgetInv'
  <2> SUFFICES ASSUME TypeOK, TypeOK', ControlInv, RowInv, BudgetInv, [Next]_vars,
                      NEW j \in Jobs
               PROVE  Budget(j)'
    BY DEF BudgetInv
  <2>1. CASE Elsewhere
    BY <2>1, ElsewhereBudget
  <2>2. ASSUME NEW h \in Handlers, HandlerStep(h) PROVE Budget(j)'
    BY <2>2, HandlerBudget
  <2>3. ASSUME NEW w \in Workers, CompleteRaises(w) \/ FailRaises(w) \/ Crash(w)
        PROVE  Budget(j)'
    BY <2>3, MishapBudget
  <2>4. ASSUME NEW w \in Workers,
               \/ RegisterWorker(w) \/ (\E i \in Jobs : ClaimSelect(w, i))
               \/ ClaimCommit(w) \/ ClaimReplyLost(w) \/ ClaimRollback(w)
               \/ WorkReturns(w) \/ WorkRaises(w)
               \/ CompleteReturns(w) \/ FailReturns(w) \/ DetachedEnds(w)
        PROVE  Budget(j)'
    BY <2>4, WorkerBudget
  <2>5. QED
    BY <2>1, <2>2, <2>3, <2>4, StepCases
<1>3. QED
  BY <1>1, <1>2, TypeCorrect, Control, RowsSafe, PTL DEF Spec

(***************************************************************************)
(* However often calls break, replies are lost and handlers overlap, a job *)
(* is started at most max_attempts times and once for every mishap, though *)
(* the claim does not look at max_attempts and FailJob's count is stale.   *)
(***************************************************************************)
THEOREM AttemptsBounded == Spec => []AttemptsWithinBudget
<1>1. TypeOK /\ BudgetInv => AttemptsWithinBudget
  <2> SUFFICES ASSUME TypeOK, BudgetInv, NEW j \in Jobs
               PROVE  attempts[j] <= Allowed(j) + faults[j]
    BY DEF AttemptsWithinBudget, Allowed
  <2>1. Budget(j) /\ IsFiniteSet(Requeues(j))
    BY RequeuesLive, SubsetSize DEF BudgetInv, Budget
  <2>2. Cardinality(Requeues(j)) \in Nat
    BY <2>1, FS_CardinalityType
  <2>3. QED
    BY <2>1, <2>2, BudgetNumbers DEF Budget
<1>2. QED
  BY <1>1, TypeCorrect, BudgetsKept, PTL

(***************************************************************************)
(* Every worker that holds j is one of the handlers that can still record  *)
(* a cost of it.                                                           *)
(***************************************************************************)
LEMMA HoldersLive ==
    ASSUME TypeOK, ControlInv, NEW j \in Jobs, IsFiniteSet(Live(j))
    PROVE  /\ Cardinality({w \in Workers : Holds(w, j)}) \in Nat
           /\ Cardinality({w \in Workers : Holds(w, j)}) <= Cardinality(Live(j))
<1> DEFINE holders == {w \in Workers : Holds(w, j)}
           f == [w \in holders |-> <<w, "current">>]
<1>1. ASSUME NEW w \in holders PROVE <<w, "current">> \in Live(j)
  <2>1. w \in Workers /\ Holds(w, j) /\ WorkerHasJob(w)
    BY <1>1 DEF ControlInv
  <2>2. \/ call[<<w, "current">>].job = j /\ call[<<w, "current">>].pc \in Busy
        \/ wpc[w] = "working" /\ wjob[w] = j
    BY <2>1 DEF Holds, Busy, WorkerHasJob
  <2>3. QED
    BY <2>1, <2>2, OwnHandlers
<1>2. f \in [holders -> Live(j)]
  BY <1>1
<1>3. \A v, w \in holders : f[v] = f[w] => v = w
  OBVIOUS
<1> HIDE DEF f, holders
<1>4. f \in Injection(holders, Live(j))
  BY <1>2, <1>3 DEF Injection, IsInjective
<1>5. IsFiniteSet(holders) /\ Cardinality(holders) <= Cardinality(Live(j))
  BY <1>4, FS_Injection
<1>6. QED
  BY <1>5, FS_CardinalityType DEF holders

(***************************************************************************)
(* The recorded runs of a job and those going on are one, and at most one  *)
(* more for every mishap, whatever the number of attempts and workers.     *)
(***************************************************************************)
THEOREM RunsBounded == Spec => []RunsWithinMishaps
<1>1. TypeOK /\ ControlInv /\ BudgetInv => RunsWithinMishaps
  <2> SUFFICES ASSUME TypeOK, ControlInv, BudgetInv, NEW j \in Jobs
               PROVE  costs[j] + Cardinality({w \in Workers : Holds(w, j)}) <= 1 + faults[j]
    BY DEF RunsWithinMishaps
  <2>1. Budget(j) /\ Cardinality(Live(j)) \in Nat
    BY FS_CardinalityType DEF BudgetInv, Budget
  <2>2. /\ Cardinality({w \in Workers : Holds(w, j)}) \in Nat
        /\ Cardinality({w \in Workers : Holds(w, j)}) <= Cardinality(Live(j))
    BY <2>1, HoldersLive DEF Budget
  <2>3. QED
    BY <2>1, <2>2, BudgetNumbers DEF Budget
<1>2. QED
  BY <1>1, TypeCorrect, Control, BudgetsKept, PTL

-----------------------------------------------------------------------------
(* The rows of job_attempts.                                               *)

Running(j) == {i \in 1..Len(rows[j]) : rows[j][i] = "running"}
Owing(j)   == {w \in Workers : OwesRow(w, j)}

Accounted(j) ==
    /\ Len(rows[j]) = attempts[j]
    /\ Undisturbed(j) => /\ IsFiniteSet(Owing(j))
                         /\ Cardinality(Running(j)) = Cardinality(Owing(j))

AccountInv == \A j \in Jobs : Accounted(j)

(***************************************************************************)
(* A bounded nonempty set of numbers has a greatest element.               *)
(***************************************************************************)
LEMMA MaxExists ==
    ASSUME NEW n \in Nat, NEW S, S \subseteq 1..n, S # {}
    PROVE  Max(S) \in S
<1> DEFINE T == {n - i : i \in S}
           R == {p \in Nat \X Nat : p[1] < p[2]}
<1>1. T \subseteq Nat /\ T # {}
  <2>1. \A i \in S : n - i \in Nat
    OBVIOUS
  <2>2. PICK i \in S : TRUE
    OBVIOUS
  <2>3. n - i \in T
    OBVIOUS
  <2>4. T \subseteq Nat
    BY <2>1
  <2>5. QED
    BY <2>3, <2>4
<1>2. IsWellFoundedOn(R, Nat)
  BY NatLessThanWellFounded DEF OpToRel
<1>3. PICK m \in T : \A k \in T : ~(k < m)
  <2>1. PICK m \in T : \A k \in T : <<k, m>> \notin R
    <3> HIDE DEF T, R
    <3>1. QED
      BY <1>1, <1>2, WFMin
  <2>2. \A k \in T : ~(k < m)
    <3> HIDE DEF T
    <3>1. QED
      BY <1>1, <2>1
  <2>3. QED
    BY <2>2
<1>4. PICK i \in S : m = n - i
  OBVIOUS
<1>5. \A k \in S : i >= k
  BY <1>3, <1>4
<1>6. QED
  BY <1>5 DEF Max

(***************************************************************************)
(* The rows of a job are a sequence; those in running are finitely many.   *)
(***************************************************************************)
LEMMA RowFacts ==
    ASSUME TypeOK, NEW j \in Jobs
    PROVE  /\ rows[j] \in Seq(RowStatus) /\ Len(rows[j]) \in Nat
           /\ IsFiniteSet(Running(j)) /\ Cardinality(Running(j)) \in Nat
<1>1. rows[j] \in Seq(RowStatus)
  BY DEF TypeOK
<1>2. Len(rows[j]) \in Nat
  BY <1>1
<1>3. IsFiniteSet(1..Len(rows[j]))
  BY <1>2, FS_Interval
<1>4. Running(j) \subseteq 1..Len(rows[j])
  BY DEF Running
<1>5. QED
  BY <1>1, <1>2, <1>3, <1>4, SubsetSize

(***************************************************************************)
(* What a step can do to the rows of j.                                    *)
(***************************************************************************)
RowsKept(j)  == rows'[j] = rows[j] /\ attempts'[j] = attempts[j]
RowOpened(j) == rows'[j] = Append(rows[j], "running") /\ attempts'[j] = attempts[j] + 1
RowClosed(j) == /\ attempts'[j] = attempts[j]
                /\ \E final \in {"done", "error"} : CloseNewestRow(j, final)

(***************************************************************************)
(* A claim adds a row in running.                                          *)
(***************************************************************************)
LEMMA OpenedRunning ==
    ASSUME TypeOK, NEW j \in Jobs, RowOpened(j)
    PROVE  /\ Len(rows'[j]) = Len(rows[j]) + 1
           /\ Cardinality(Running(j)') = Cardinality(Running(j)) + 1
<1> DEFINE n == Len(rows[j])
<1>1. rows[j] \in Seq(RowStatus) /\ n \in Nat /\ IsFiniteSet(Running(j))
  BY RowFacts
<1>2. /\ Len(rows'[j]) = n + 1 /\ rows'[j][n + 1] = "running"
      /\ \A i \in 1..n : rows'[j][i] = rows[j][i]
  BY <1>1 DEF RowOpened
<1>3. Running(j)' = {i \in 1..(n + 1) : rows'[j][i] = "running"}
  BY <1>2 DEF Running
<1>4. Running(j)' = Running(j) \cup {n + 1} /\ n + 1 \notin Running(j)
  <2>1. \A i : i \in 1..(n + 1) <=> i \in 1..n \/ i = n + 1
    BY <1>1
  <2>2. n + 1 \notin 1..n
    BY <1>1
  <2> HIDE DEF n
  <2>3. Running(j) = {i \in 1..n : rows[j][i] = "running"}
    BY DEF Running, n
  <2>4. QED
    BY <1>2, <1>3, <2>1, <2>2, <2>3
<1>5. QED
  BY <1>1, <1>2, <1>4, FS_AddElement

(***************************************************************************)
(* A handler that closes a row takes exactly one out of running, if any is *)
(* there, and adds none.                                                   *)
(***************************************************************************)
LEMMA ClosedRunning ==
    ASSUME TypeOK, NEW j \in Jobs, RowClosed(j)
    PROVE  /\ Len(rows'[j]) = Len(rows[j])
           /\ Cardinality(Running(j)) > 0 =>
                Cardinality(Running(j)') = Cardinality(Running(j)) - 1
<1> DEFINE n == Len(rows[j])
<1>1. /\ rows \in [Jobs -> Seq(RowStatus)] /\ n \in Nat
      /\ IsFiniteSet(Running(j)) /\ Cardinality(Running(j)) \in Nat
  BY RowFacts DEF TypeOK
<1>2. CASE Running(j) = {}
  <2>1. rows' = rows
    BY <1>2 DEF RowClosed, CloseNewestRow, Running
  <2>2. QED
    BY <1>2, <2>1, FS_EmptySet
<1>3. CASE Running(j) # {}
  <2>1. PICK final \in {"done", "error"} : rows' = Close(j, Max(Running(j)), final)
    BY <1>3 DEF RowClosed, CloseNewestRow, Running
  <2> DEFINE m == Max(Running(j))
  <2>2. m \in Running(j)
    BY <1>1, <1>3, MaxExists DEF Running
  <2> HIDE DEF m
  <2>3. rows'[j] = [k \in 1..n |-> IF k = m THEN final ELSE rows[j][k]]
    BY <1>1, <2>1 DEF Close, m
  <2>4. Len(rows'[j]) = n
    BY <1>1, <2>3
  <2>5. Running(j)' = Running(j) \ {m}
    BY <2>1, <2>3, <2>4 DEF Running
  <2>6. QED
    BY <1>1, <2>2, <2>4, <2>5, FS_RemoveElement
<1>4. QED
  BY <1>2, <1>3

(***************************************************************************)
(* What a step can do to the rows of j and to the workers that owe one.    *)
(***************************************************************************)
RowStep(j) ==
    \/ RowsKept(j)   /\ (Undisturbed(j)' => Owing(j)' = Owing(j))
    \/ RowOpened(j)  /\ (Undisturbed(j)' =>
            \E w \in Workers \ Owing(j) : Owing(j)' = Owing(j) \cup {w})
    \/ RowClosed(j)  /\ (Undisturbed(j)' =>
            \E w \in Owing(j) : Owing(j)' = Owing(j) \ {w})

(***************************************************************************)
(* Such a step keeps the rows of j accounted for.                          *)
(***************************************************************************)
LEMMA RowStepAccounts ==
    ASSUME TypeOK, TypeOK', NEW j \in Jobs, Accounted(j), RowStep(j),
           Undisturbed(j)' => Undisturbed(j)
    PROVE  Accounted(j)'
<1>1. /\ attempts[j] \in Nat /\ Len(rows[j]) = attempts[j]
      /\ IsFiniteSet(Running(j)) /\ Cardinality(Running(j)) \in Nat
  BY RowFacts DEF Accounted, TypeOK
<1>2. Undisturbed(j)' => /\ IsFiniteSet(Owing(j)) /\ Cardinality(Owing(j)) \in Nat
                         /\ Cardinality(Running(j)) = Cardinality(Owing(j))
  BY FS_CardinalityType DEF Accounted
<1>3. CASE RowsKept(j) /\ (Undisturbed(j)' => Owing(j)' = Owing(j))
  <2>1. Running(j)' = Running(j)
    BY <1>3 DEF RowsKept, Running
  <2>2. QED
    BY <1>1, <1>2, <1>3, <2>1 DEF RowsKept, Accounted
<1>4. CASE RowOpened(j) /\ (Undisturbed(j)' =>
            \E w \in Workers \ Owing(j) : Owing(j)' = Owing(j) \cup {w})
  <2>1. /\ Len(rows'[j]) = attempts'[j]
        /\ Cardinality(Running(j)') = Cardinality(Running(j)) + 1
    BY <1>1, <1>4, OpenedRunning DEF RowOpened
  <2>2. ASSUME Undisturbed(j)'
        PROVE  IsFiniteSet(Owing(j)') /\ Cardinality(Owing(j)') = Cardinality(Owing(j)) + 1
    BY <1>2, <1>4, <2>2, FS_AddElement
  <2>3. QED
    BY <1>2, <2>1, <2>2 DEF Accounted
<1>5. CASE RowClosed(j) /\ (Undisturbed(j)' =>
            \E w \in Owing(j) : Owing(j)' = Owing(j) \ {w})
  <2>1. /\ Len(rows'[j]) = attempts'[j]
        /\ Cardinality(Running(j)) > 0 =>
                Cardinality(Running(j)') = Cardinality(Running(j)) - 1
    BY <1>1, <1>5, ClosedRunning DEF RowClosed
  <2>2. ASSUME Undisturbed(j)'
        PROVE  /\ IsFiniteSet(Owing(j)') /\ Cardinality(Owing(j)) > 0
               /\ Cardinality(Owing(j)') = Cardinality(Owing(j)) - 1
    <3>1. PICK w \in Owing(j) : Owing(j)' = Owing(j) \ {w}
      BY <1>5, <2>2
    <3>2. IsFiniteSet(Owing(j)) /\ Cardinality(Owing(j)) \in Nat /\ Owing(j) # {}
      BY <1>2, <2>2, <3>1
    <3>3. Cardinality(Owing(j)) # 0
      BY <3>2, FS_EmptySet
    <3>4. QED
      BY <3>1, <3>2, <3>3, FS_RemoveElement
  <2>3. QED
    BY <1>2, <2>1, <2>2 DEF Accounted
<1>6. QED
  BY <1>3, <1>4, <1>5 DEF RowStep

(***************************************************************************)
(* The statements of the handlers: only those of CompleteJob and FailJob   *)
(* that update job_attempts close a row, and for an undisturbed job it is  *)
(* the row that the worker waiting for the call owes.                      *)
(***************************************************************************)
LEMMA HandlerRows ==
    ASSUME TypeOK, TypeOK', ControlInv, NEW h \in Handlers, HandlerStep(h), NEW j \in Jobs,
           Undisturbed(j)' => Undisturbed(j)
    PROVE  RowStep(j)
<1> USE DEF CompletePC, FailPC, At, Goto, Call, IfHttp
<1> DEFINE closed == {"completeCost", "completeCircuit", "failCircuit", "reply"}
<1>1. /\ \A g \in Handlers : g # h => call'[g] = call[g]
      /\ call'[h].job = call[h].job /\ call[h].pc # "idle"
      /\ UNCHANGED <<wpc, wjob>>
  BY HandlerMoves
<1>2. /\ call \in [Handlers -> Calls] /\ rows \in [Jobs -> Seq(RowStatus)]
      /\ attempts' = attempts /\ wpc \in [Workers -> WorkerPC]
  BY DEF TypeOK, HandlerStep, CompleteUpdate, CompleteRows, RecordCost, CompleteCircuit,
     FailRead, FailUpdate, FailRows, FailCircuit, StatementFails, EndRun
<1>3. ASSUME NEW w \in Workers, <<w, "current">> # h
      PROVE  OwesRow(w, j)' = OwesRow(w, j)
  BY <1>1, <1>3, HandlerIds DEF OwesRow
<1>4. ASSUME NEW w \in Workers, <<w, "current">> = h, call[h].job # j
      PROVE  ~OwesRow(w, j) /\ ~OwesRow(w, j)'
  BY <1>1, <1>4 DEF ControlInv, WorkerHasJob, OwesRow
\* Statements that close no row do not end a debt either.
<1>5. ASSUME rows' = rows, call[h].job # j \/ (call'[h].pc \in closed <=> call[h].pc \in closed)
      PROVE  RowStep(j)
  <2>1. ASSUME NEW w \in Workers PROVE OwesRow(w, j)' = OwesRow(w, j)
    BY <1>1, <1>3, <1>4, <1>5 DEF OwesRow
  <2>2. QED
    BY <1>2, <1>5, <2>1 DEF RowStep, RowsKept, Owing
<1>6. CASE CompleteRows(h) \/ FailRows(h)
  <2>1. PICK final \in {"done", "error"} : CloseNewestRow(call[h].job, final)
    BY <1>6 DEF CompleteRows, FailRows
  <2>2. CASE call[h].job # j
    <3>1. rows'[j] = rows[j]
      BY <1>2, <2>1, <2>2 DEF CloseNewestRow, Close
    <3>2. ASSUME NEW w \in Workers PROVE OwesRow(w, j)' = OwesRow(w, j)
      BY <1>3, <1>4, <2>2 DEF OwesRow
    <3>3. QED
      BY <1>2, <3>1, <3>2 DEF RowStep, RowsKept, Owing
  <2>3. CASE call[h].job = j
    <3>1. RowClosed(j)
      BY <1>2, <2>1, <2>3 DEF RowClosed
    <3>2. ASSUME Undisturbed(j)'
          PROVE  \E w \in Owing(j) : Owing(j)' = Owing(j) \ {w}
      <4>1. PICK w \in Workers : h = <<w, "current">>
        <5>1. Undisturbed(j)
          BY <3>2
        <5>2. QED
          BY <1>1, <2>3, <5>1, HandlerCases DEF ControlInv, DetachedDisturbed, Undisturbed
      <4>2. OwesRow(w, j)
        BY <1>1, <1>6, <2>3, <4>1
           DEF ControlInv, WorkerHasJob, OwesRow, Executing, CompleteRows, FailRows
      <4>3. call'[h].pc \in closed
        BY <1>2, <1>6 DEF CompleteRows, FailRows
      <4>4. ~OwesRow(w, j)'
        BY <4>1, <4>3 DEF OwesRow
      <4>5. \A v \in Workers : v # w => OwesRow(v, j)' = OwesRow(v, j)
        BY <1>3, <4>1
      <4>6. QED
        BY <4>2, <4>4, <4>5 DEF Owing
    <3>3. QED
      BY <3>1, <3>2 DEF RowStep
  <2>4. QED
    BY <2>2, <2>3
<1>7. CASE StatementFails(h)
  <2>1. CASE call[h].job # j
    BY <1>5, <1>7, <2>1 DEF StatementFails
  <2>2. CASE call[h].job = j
    <3>1. faults'[j] > 0
      BY <1>7, <2>2, FaultCounts DEF StatementFails
    <3>2. rows' = rows /\ ~Undisturbed(j)'
      BY <1>7, <3>1 DEF StatementFails, Undisturbed
    <3>3. QED
      BY <1>2, <3>2 DEF RowStep, RowsKept
  <2>3. QED
    BY <2>1, <2>2
<1>8. CASE RecordCost(h) \/ CompleteCircuit(h) \/ FailCircuit(h)
  <2>1. rows' = rows /\ call[h].pc \in closed /\ call'[h].pc \in closed
    BY <1>2, <1>8 DEF RecordCost, CompleteCircuit, FailCircuit
  <2>2. QED
    BY <1>5, <2>1
<1>9. CASE CompleteUpdate(h) \/ FailRead(h) \/ FailUpdate(h)
  <2>1. rows' = rows /\ call[h].pc \notin closed /\ call'[h].pc \notin closed
    BY <1>2, <1>9 DEF CompleteUpdate, FailRead, FailUpdate
  <2>2. QED
    BY <1>5, <2>1
<1>10. QED
  BY <1>6, <1>7, <1>8, <1>9 DEF HandlerStep

(***************************************************************************)
(* Steps that move no worker and no handler open and close no row.         *)
(***************************************************************************)
LEMMA ElsewhereRows ==
    ASSUME TypeOK, Elsewhere, NEW j \in Jobs
    PROVE  RowStep(j)
<1>1. UNCHANGED <<wpc, wjob, call>>
  BY ElsewhereKeeps
<1>2. Owing(j)' = Owing(j)
  BY <1>1 DEF Owing, OwesRow
<1>3. rows' = rows /\ attempts' = attempts
  <2>1. CASE Submission
    BY <2>1 DEF Submission, SubmitJob, HandleJobs, HandleLLMRequest, HandleBenchmarkRun,
       HandleDebugTest, DebugUpdate, DebugGivesUp, Insert
  <2>2. CASE ~Submission
    BY <2>2 DEF Elsewhere, SendHeartbeat, Heartbeat, HeartbeatLost, LeaseExpires,
       HandleOfflineDevices, DeviceStep,
     DeviceStatusChanges, ProxyRecords, CoreRestarts, vars
  <2>3. QED
    BY <2>1, <2>2
<1>4. QED
  BY <1>2, <1>3 DEF RowStep, RowsKept

(***************************************************************************)
(* The steps of the workers: only the commit of a claim opens a row, and   *)
(* the worker that learns of it owes that row.  One that gives up a job    *)
(* with a row open disturbs it.                                            *)
(***************************************************************************)
LEMMA WorkerRows ==
    ASSUME TypeOK, TypeOK', ControlInv, ControlInv', RowInv, NEW w \in Workers,
           \/ RegisterWorker(w) \/ (\E i \in Jobs : ClaimSelect(w, i))
           \/ ClaimCommit(w) \/ ClaimReplyLost(w) \/ ClaimRollback(w)
           \/ WorkReturns(w) \/ WorkRaises(w)
           \/ CompleteReturns(w) \/ FailReturns(w)
           \/ CompleteRaises(w) \/ FailRaises(w) \/ Crash(w) \/ DetachedEnds(w),
           NEW j \in Jobs
    PROVE  RowStep(j)
<1>1. /\ wpc \in [Workers -> WorkerPC] /\ wjob \in [Workers -> Jobs \cup {NoJob}]
      /\ call \in [Handlers -> Calls] /\ rows \in [Jobs -> Seq(RowStatus)]
      /\ attempts \in [Jobs -> Nat]
  BY DEF TypeOK
<1>2. WorkerHasJob(w) /\ WorkerHasJob(w)'
  BY DEF ControlInv
<1>3. ASSUME NEW v \in Workers, v # w
      PROVE  OwesRow(v, j)' = OwesRow(v, j)
  <2>1. wpc'[v] = wpc[v] /\ wjob'[v] = wjob[v]
    BY <1>1, <1>3 DEF RegisterWorker, ClaimSelect, ClaimCommit, ClaimReplyLost, ClaimRollback,
       WorkReturns, WorkRaises, CompleteReturns, FailReturns, CompleteRaises, FailRaises, Crash,
       DetachedEnds
  <2>2. call'[<<v, "current">>] = call[<<v, "current">>]
    <3>1. ASSUME NEW next, Abandon(w, next)
          PROVE  call'[<<v, "current">>] = call[<<v, "current">>]
      BY <1>3, <3>1, AbandonCalls
    <3>2. CASE CompleteRaises(w) \/ FailRaises(w) \/ Crash(w)
      BY <3>1, <3>2 DEF CompleteRaises, FailRaises, Crash
    <3>3. CASE ~(CompleteRaises(w) \/ FailRaises(w) \/ Crash(w))
      BY <1>1, <1>3, <3>3, HandlerIds DEF RegisterWorker, ClaimSelect, ClaimCommit, Commit,
         ClaimReplyLost, ClaimRollback, WorkReturns, WorkRaises, CompleteReturns, FailReturns,
         DetachedEnds
    <3>4. QED
      BY <3>2, <3>3
  <2>3. QED
    BY <2>1, <2>2 DEF OwesRow
<1>4. ASSUME OwesRow(w, j)' <=> OwesRow(w, j)
      PROVE  Owing(j)' = Owing(j)
  BY <1>3, <1>4 DEF Owing
\* A step that keeps the rows of j and what w owes, or disturbs j.
<1>5. ASSUME rows'[j] = rows[j], attempts'[j] = attempts[j],
             Undisturbed(j)' => (OwesRow(w, j)' <=> OwesRow(w, j))
      PROVE  RowStep(j)
  BY <1>4, <1>5 DEF RowStep, RowsKept
<1>6. CASE RegisterWorker(w) \/ (\E i \in Jobs : ClaimSelect(w, i))
  <2>1. ~OwesRow(w, j) /\ ~OwesRow(w, j)'
    BY <1>1, <1>6 DEF RegisterWorker, ClaimSelect, OwesRow, Executing
  <2>2. QED
    BY <1>5, <1>6, <2>1 DEF RegisterWorker, ClaimSelect
<1>7. CASE ClaimCommit(w)
  <2>1. ~OwesRow(w, j)
    BY <1>7 DEF ClaimCommit, OwesRow, Executing
  <2>2. CASE wjob[w] = j
    <3>1. RowOpened(j)
      BY <1>1, <1>7, <2>2 DEF ClaimCommit, Commit, RowOpened
    <3>2. OwesRow(w, j)'
      BY <1>1, <1>2, <1>7, <2>2 DEF ClaimCommit, Commit, OwesRow, Executing, WorkerHasJob
    <3>3. Owing(j)' = Owing(j) \cup {w} /\ w \in Workers \ Owing(j)
      BY <1>3, <2>1, <3>2 DEF Owing
    <3>4. QED
      BY <3>1, <3>3 DEF RowStep
  <2>3. CASE wjob[w] # j
    <3>1. ~OwesRow(w, j)' /\ rows'[j] = rows[j] /\ attempts'[j] = attempts[j]
      BY <1>1, <1>7, <2>3 DEF ClaimCommit, Commit, OwesRow
    <3>2. QED
      BY <1>5, <2>1, <3>1
  <2>4. QED
    BY <2>2, <2>3
<1>8. CASE ClaimReplyLost(w)
  <2>1. CASE wjob[w] = j
    <3>1. RowOpened(j)
      BY <1>1, <1>8, <2>1 DEF ClaimReplyLost, Commit, RowOpened
    <3>2. faults'[j] > 0
      BY <1>8, <2>1, FaultCounts DEF ClaimReplyLost
    <3>3. QED
      BY <3>1, <3>2 DEF RowStep, Undisturbed
  <2>2. CASE wjob[w] # j
    <3>1. ~OwesRow(w, j) /\ ~OwesRow(w, j)' /\ rows'[j] = rows[j] /\ attempts'[j] = attempts[j]
      BY <1>1, <1>8, <2>2 DEF ClaimReplyLost, Commit, OwesRow
    <3>2. QED
      BY <1>5, <3>1
  <2>3. QED
    BY <2>1, <2>2
<1>9. CASE ClaimRollback(w)
  <2>1. ~OwesRow(w, j) /\ ~OwesRow(w, j)'
    BY <1>1, <1>9 DEF ClaimRollback, OwesRow, Executing
  <2>2. QED
    BY <1>5, <1>9, <2>1 DEF ClaimRollback
<1>10. CASE WorkReturns(w) \/ WorkRaises(w)
  <2>1. call[<<w, "current">>].pc = "idle" /\ wpc[w] = "working"
    BY <1>2, <1>10 DEF WorkReturns, WorkRaises, WorkerHasJob
  <2>2. /\ call'[<<w, "current">>].pc \in {"completeUpdate", "failRead"}
        /\ wpc'[w] \in {"completing", "failing"} /\ wjob' = wjob
    <3>1. PICK pc \in {"completeUpdate", "failRead"} :
            call' = [call EXCEPT ![<<w, "current">>] = Request(pc, wjob[w])]
      BY <1>10 DEF WorkReturns, WorkRaises
    <3>2. call'[<<w, "current">>] = Request(pc, wjob[w])
      BY <3>1, OneCall, HandlerIds
    <3>3. QED
      BY <1>1, <1>10, <3>2 DEF WorkReturns, WorkRaises, Request, Call
  <2>3. OwesRow(w, j)' <=> OwesRow(w, j)
    BY <2>1, <2>2 DEF OwesRow, Executing
  <2>4. QED
    BY <1>5, <1>10, <2>3 DEF WorkReturns, WorkRaises
<1>11. CASE CompleteReturns(w) \/ FailReturns(w)
  <2>1. ~OwesRow(w, j)
    BY <1>11 DEF CompleteReturns, FailReturns, OwesRow
  <2>2. ~OwesRow(w, j)'
    BY <1>1, <1>11 DEF CompleteReturns, FailReturns, OwesRow
  <2>3. QED
    BY <1>5, <1>11, <2>1, <2>2 DEF CompleteReturns, FailReturns
<1>12. CASE CompleteRaises(w) \/ FailRaises(w) \/ Crash(w)
  <2>1. Fault({wjob[w]}) /\ rows' = rows /\ attempts' = attempts
    BY <1>12 DEF CompleteRaises, FailRaises, Crash
  <2>2. CASE wjob[w] = j
    <3>1. faults'[j] > 0
      BY <2>1, <2>2, FaultCounts
    <3>2. QED
      BY <1>5, <2>1, <3>1 DEF Undisturbed
  <2>3. CASE wjob[w] # j
    <3>1. wjob'[w] # j
      BY <1>1, <1>12, <2>3 DEF CompleteRaises, FailRaises, Crash
    <3>2. QED
      BY <1>5, <2>1, <2>3, <3>1 DEF OwesRow
  <2>4. QED
    BY <2>2, <2>3
<1>13. CASE DetachedEnds(w)
  <2>1. call'[<<w, "current">>] = call[<<w, "current">>]
    BY <1>1, <1>13, HandlerIds DEF DetachedEnds
  <2>2. QED
    BY <1>5, <1>13, <2>1 DEF DetachedEnds, OwesRow
<1>14. QED
  BY <1>6, <1>7, <1>8, <1>9, <1>10, <1>11, <1>12, <1>13

(***************************************************************************)
(* What any step of the queue can do to the rows of a job.                 *)
(***************************************************************************)
LEMMA RowSteps ==
    ASSUME TypeOK, TypeOK', ControlInv, ControlInv', RowInv, [Next]_vars, NEW j \in Jobs
    PROVE  RowStep(j)
<1>1. Undisturbed(j)' => Undisturbed(j)
  BY StillUndisturbed
<1>2. CASE Elsewhere
  BY <1>2, ElsewhereRows
<1>3. ASSUME NEW h \in Handlers, HandlerStep(h) PROVE RowStep(j)
  BY <1>1, <1>3, HandlerRows
<1>4. ASSUME NEW w \in Workers,
             \/ RegisterWorker(w) \/ (\E i \in Jobs : ClaimSelect(w, i))
             \/ ClaimCommit(w) \/ ClaimReplyLost(w) \/ ClaimRollback(w)
             \/ WorkReturns(w) \/ WorkRaises(w)
             \/ CompleteReturns(w) \/ FailReturns(w)
             \/ CompleteRaises(w) \/ FailRaises(w) \/ Crash(w) \/ DetachedEnds(w)
      PROVE  RowStep(j)
  BY <1>4, WorkerRows
<1>5. QED
  BY <1>2, <1>3, <1>4, StepCases

(***************************************************************************)
(* Every attempt has its row and every open row of an undisturbed job its  *)
(* debtor, of whom there are finitely many: the form that is inductive.    *)
(***************************************************************************)
THEOREM DebtsTallied == Spec => []AccountInv
<1>1. Init => AccountInv
  <2> SUFFICES ASSUME Init, NEW j \in Jobs PROVE Accounted(j)
    BY DEF AccountInv
  <2>1. rows[j] = <<>> /\ attempts[j] = 0
    BY DEF Init
  <2>2. Running(j) = {} /\ Owing(j) = {}
    BY <2>1 DEF Init, Running, Owing, OwesRow, Executing
  <2>3. QED
    BY <2>1, <2>2, FS_EmptySet DEF Accounted
<1>2. /\ TypeOK /\ TypeOK' /\ ControlInv /\ ControlInv' /\ RowInv /\ AccountInv /\ [Next]_vars
      => AccountInv'
  <2> SUFFICES ASSUME TypeOK, TypeOK', ControlInv, ControlInv', RowInv, AccountInv, [Next]_vars,
                      NEW j \in Jobs
               PROVE  Accounted(j)'
    BY DEF AccountInv
  <2>1. Accounted(j) /\ (Undisturbed(j)' => Undisturbed(j))
    BY StillUndisturbed DEF AccountInv
  <2>2. QED
    BY <2>1, RowSteps, RowStepAccounts
<1>3. QED
  BY <1>1, <1>2, TypeCorrect, Control, RowsSafe, PTL DEF Spec

(***************************************************************************)
(* Every attempt has its row, and every open row of an undisturbed job its *)
(* debtor, in every reachable state.                                       *)
(***************************************************************************)
THEOREM RowsAreAccounted == Spec => []RowsAccounted
<1>1. AccountInv => RowsAccounted
  BY DEF AccountInv, Accounted, RowsAccounted, Running, Owing
<1>2. QED
  BY <1>1, DebtsTallied, PTL
=============================================================================
