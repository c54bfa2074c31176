--------------------------- MODULE JobQueueProofs ---------------------------
(***************************************************************************)
(* Theorems about JobQueue, for every set of jobs, workers and devices and *)
(* every value of the bounds.                                              *)
(***************************************************************************)
EXTENDS JobQueue, TLAPS

USE JobsAssumption, WorkersAssumption, DevicesAssumption, BoundsAssumption

(***************************************************************************)
(* Updating a function at a point, in its domain or not, keeps its type.   *)
(***************************************************************************)
LEMMA Updated ==
    ASSUME NEW S, NEW T, NEW f \in [S -> T], NEW x, NEW v, x \in S => v \in T
    PROVE  [f EXCEPT ![x] = v] \in [S -> T]
OBVIOUS

(***************************************************************************)
(* Closing a row leaves a sequence of row statuses.                        *)
(***************************************************************************)
LEMMA CloseType ==
    ASSUME rows \in [Jobs -> Seq(RowStatus)],
           NEW j \in Jobs, NEW i, NEW final \in RowStatus
    PROVE  Close(j, i, final) \in [Jobs -> Seq(RowStatus)]
<1> DEFINE closed == [k \in 1..Len(rows[j]) |-> IF k = i THEN final ELSE rows[j][k]]
<1>1. rows[j] \in Seq(RowStatus)
  OBVIOUS
<1>2. Len(rows[j]) \in Nat /\ \A k \in 1..Len(rows[j]) : rows[j][k] \in RowStatus
  BY <1>1
<1>3. closed \in [1..Len(rows[j]) -> RowStatus]
  BY <1>2
<1>4. closed \in Seq(RowStatus)
  BY <1>2, <1>3
<1>5. QED
  BY <1>4 DEF Close

(***************************************************************************)
(* The same for closing the newest row in running, if there is one.        *)
(***************************************************************************)
LEMMA CloseNewestRowType ==
    ASSUME TypeOK, NEW j \in Jobs \cup {NoJob}, NEW final \in RowStatus,
           CloseNewestRow(j, final)
    PROVE  rows' \in [Jobs -> Seq(RowStatus)]
<1> DEFINE running == {i \in 1..Len(rows[j]) : rows[j][i] = "running"}
<1>1. CASE j \in Jobs
  BY <1>1, CloseType DEF CloseNewestRow, TypeOK
<1>2. CASE j = NoJob
  BY <1>2 DEF CloseNewestRow, Close, TypeOK
<1>3. QED
  BY <1>1, <1>2

(***************************************************************************)
(* The counters of mishaps stay numbers.                                   *)
(***************************************************************************)
LEMMA FaultType ==
    ASSUME TypeOK, NEW S, Fault(S)
    PROVE  faults' \in [Jobs -> Nat]
BY DEF Fault, TypeOK

(***************************************************************************)
(* A worker that stops waiting leaves well-typed calls.                    *)
(***************************************************************************)
LEMMA AbandonType ==
    ASSUME TypeOK, NEW w \in Workers, NEW next \in Calls, Abandon(w, next)
    PROVE  call' \in [Handlers -> Calls]
BY DEF Abandon, TypeOK, Handlers, Slots

USE DEF jobVars, circuitVars, deviceVars, workerVars

(***************************************************************************)
(* Type correctness.                                                       *)
(***************************************************************************)
THEOREM TypeCorrect == Spec => []TypeOK
<1>1. Init => TypeOK
  BY DEF Init, TypeOK, Handlers, Slots, Calls, Call, IdleCall, HandlerPC, WorkerPC
<1>2. TypeOK /\ [Next]_vars => TypeOK'
  <2> SUFFICES ASSUME TypeOK, [Next]_vars PROVE TypeOK'
    OBVIOUS
  <2> USE DEF Terminal, RowStatus
  <2> DEFINE CallTypes == call' \in [Handlers -> Calls]
  <2>1. ASSUME NEW j \in Jobs, Insert(j), debugging' \in SUBSET Jobs PROVE TypeOK'
    BY <2>1 DEF TypeOK, Insert
  <2>2. ASSUME NEW j \in Jobs, DebugUpdate(j) PROVE TypeOK'
    BY <2>2 DEF TypeOK, DebugUpdate
  <2>3. ASSUME NEW j \in Jobs, DebugGivesUp(j) PROVE TypeOK'
    BY <2>3 DEF TypeOK, DebugGivesUp
  <2>4. ASSUME NEW w \in Workers, RegisterWorker(w) PROVE TypeOK'
    BY <2>4 DEF TypeOK, RegisterWorker, WorkerPC
  <2>5. ASSUME NEW w \in Workers, NEW j \in Jobs, ClaimSelect(w, j) PROVE TypeOK'
    BY <2>5 DEF TypeOK, ClaimSelect, WorkerPC
  <2>6. ASSUME NEW j \in Jobs \cup {NoJob}, Commit(j)
        PROVE  /\ status' \in [Jobs -> {"absent", "queued", "running"} \cup Terminal]
               /\ attempts' \in [Jobs -> Nat]
               /\ lease' \in [Jobs -> {"none", "live", "expired"}]
               /\ rows' \in [Jobs -> Seq(RowStatus)]
    <3>1. ASSUME j \in Jobs PROVE Append(rows[j], "running") \in Seq(RowStatus)
      BY <3>1 DEF TypeOK
    <3>2. rows' \in [Jobs -> Seq(RowStatus)]
      BY <2>6, <3>1 DEF TypeOK, Commit
    <3>3. QED
      BY <2>6, <3>2 DEF TypeOK, Commit
  <2>7. ASSUME NEW w \in Workers, ClaimCommit(w) PROVE TypeOK'
    <3>1. wjob[w] \in Jobs \cup {NoJob} /\ Commit(wjob[w])
      BY <2>7 DEF TypeOK, ClaimCommit
    <3>2. QED
      BY <2>6, <2>7, <3>1 DEF TypeOK, ClaimCommit, Commit, WorkerPC
  <2>8. ASSUME NEW w \in Workers, ClaimReplyLost(w) PROVE TypeOK'
    <3>1. wjob[w] \in Jobs \cup {NoJob} /\ Commit(wjob[w]) /\ faults' \in [Jobs -> Nat]
      BY <2>8, FaultType DEF TypeOK, ClaimReplyLost
    <3>2. QED
      BY <2>6, <2>8, <3>1 DEF TypeOK, ClaimReplyLost, Commit, WorkerPC
  <2>9. ASSUME NEW w \in Workers, ClaimRollback(w) PROVE TypeOK'
    <3>1. faults' \in [Jobs -> Nat]
      BY <2>9, FaultType DEF ClaimRollback
    <3>2. QED
      BY <2>9, <3>1 DEF TypeOK, ClaimRollback, WorkerPC
  <2>10. ASSUME NEW j \in Jobs, LeaseExpires(j) PROVE TypeOK'
    <3>1. faults' \in [Jobs -> Nat]
      BY <2>10, FaultType DEF LeaseExpires, TypeOK
    <3>2. QED
      BY <2>10, <3>1 DEF TypeOK, LeaseExpires
  <2>11. ASSUME NEW w \in Workers, SendHeartbeat(w) PROVE TypeOK'
    BY <2>11 DEF TypeOK, SendHeartbeat
  <2>12. ASSUME NEW w \in Workers, Heartbeat(w) PROVE TypeOK'
    BY <2>12 DEF TypeOK, Heartbeat, Renewed
  <2>13. ASSUME NEW w \in Workers, HeartbeatLost(w) PROVE TypeOK'
    BY <2>13 DEF TypeOK, HeartbeatLost
  <2>14. ASSUME NEW D \in SUBSET Devices, HandleOfflineDevices(D) PROVE TypeOK'
    <3>1. faults' \in [Jobs -> Nat]
      BY <2>14, FaultType DEF HandleOfflineDevices
    <3>2. QED
      BY <2>14, <3>1 DEF TypeOK, HandleOfflineDevices
  <2>15. CASE DeviceStep
    <3>1. ASSUME NEW d \in Devices PROVE Failed(d) \in 0..CircuitThreshold
      BY BoundsAssumption DEF Failed, TypeOK
    <3>2. ASSUME NEW d \in Devices, DeviceStatusChanges(d) PROVE TypeOK'
      BY <3>2 DEF TypeOK, DeviceStatusChanges
    <3>3. ASSUME NEW d \in Devices, ProxyRecords(d) PROVE TypeOK'
      <4>1. /\ failures' \in [Devices -> 0..CircuitThreshold]
            /\ proxied' \in [Devices -> Nat] /\ emptied' \in SUBSET Devices
        <5>1. /\ failures \in [Devices -> 0..CircuitThreshold]
              /\ proxied \in [Devices -> Nat] /\ emptied \in SUBSET Devices
              /\ 0 \in 0..CircuitThreshold
          BY BoundsAssumption DEF TypeOK
        <5>2. CASE emptied' = emptied \cup {d} /\ failures' = [failures EXCEPT ![d] = 0]
          BY <3>3, <5>1, <5>2 DEF ProxyRecords
        <5>3. CASE failures' = [failures EXCEPT ![d] = Failed(d)]
          BY <3>1, <3>3, <5>1, <5>3 DEF ProxyRecords
        <5>4. QED
          BY <3>3, <5>2, <5>3 DEF ProxyRecords
      <4>2. QED
        BY <3>3, <4>1 DEF TypeOK, ProxyRecords
    <3>4. CASE CoreRestarts
      BY <3>4, BoundsAssumption DEF TypeOK, CoreRestarts
    <3>5. QED
      BY <2>15, <3>2, <3>3, <3>4 DEF DeviceStep
  <2>16. ASSUME NEW w \in Workers, WorkReturns(w) \/ WorkRaises(w) PROVE TypeOK'
    <3>1. wjob[w] \in Jobs \cup {NoJob}
      BY DEF TypeOK
    <3>2. /\ Request("completeUpdate", wjob[w]) \in Calls
          /\ Request("failRead", wjob[w]) \in Calls
      BY <3>1 DEF Request, Call, Calls, HandlerPC, CompletePC, FailPC
    <3>3. CallTypes
      BY <2>16, <3>2, Updated DEF TypeOK, WorkReturns, WorkRaises
    <3>4. wpc' \in [Workers -> WorkerPC]
      BY <2>16 DEF TypeOK, WorkReturns, WorkRaises, WorkerPC
    <3>5. QED
      BY <2>16, <3>3, <3>4 DEF TypeOK, WorkReturns, WorkRaises
  <2>17. \A j : MayMarkOffline(j) => online' \in SUBSET Devices /\ flips' \in 0..MaxFlips
    BY DEF TypeOK, MayMarkOffline
  <2>18. IdleCall \in Calls /\ \A j \in Jobs \cup {NoJob} : Request("failRead", j) \in Calls
    BY DEF IdleCall, Request, Call, Calls, HandlerPC, CompletePC, FailPC
  <2>19. ASSUME NEW w \in Workers, CompleteReturns(w) PROVE TypeOK'
    BY <2>18, <2>19 DEF TypeOK, CompleteReturns, WorkerPC
  <2>20. ASSUME NEW w \in Workers, FailReturns(w) PROVE TypeOK'
    BY <2>17, <2>18, <2>20 DEF TypeOK, FailReturns, WorkerPC
  <2>21. ASSUME NEW w \in Workers, CompleteRaises(w) PROVE TypeOK'
    <3>1. faults' \in [Jobs -> Nat] /\ CallTypes
      BY <2>18, <2>21, FaultType, AbandonType DEF CompleteRaises, TypeOK
    <3>2. QED
      BY <2>21, <3>1 DEF TypeOK, CompleteRaises, WorkerPC
  <2>22. ASSUME NEW w \in Workers, FailRaises(w) PROVE TypeOK'
    <3>1. faults' \in [Jobs -> Nat] /\ CallTypes
      BY <2>18, <2>22, FaultType, AbandonType DEF FailRaises, TypeOK
    <3>2. QED
      BY <2>17, <2>22, <3>1 DEF TypeOK, FailRaises, WorkerPC
  <2>23. ASSUME NEW w \in Workers, Crash(w) PROVE TypeOK'
    <3>1. faults' \in [Jobs -> Nat] /\ CallTypes
      BY <2>18, <2>23, FaultType, AbandonType DEF Crash, TypeOK
    <3>2. QED
      BY <2>23, <3>1 DEF TypeOK, Crash, WorkerPC
  <2>24. ASSUME NEW w \in Workers, DetachedEnds(w) PROVE TypeOK'
    BY <2>18, <2>24 DEF TypeOK, DetachedEnds
  <2>25. ASSUME NEW h \in Handlers, NEW pc \in HandlerPC, Goto(h, pc) PROVE CallTypes
    BY <2>25 DEF TypeOK, Goto, Call, Calls
  <2>26. ASSUME NEW h \in Handlers PROVE call[h] \in Calls /\ call[h].job \in Jobs \cup {NoJob}
    BY <2>26 DEF TypeOK, Calls
  <2> USE DEF HandlerPC, CompletePC, FailPC
  <2>27. ASSUME NEW h \in Handlers, CompleteUpdate(h) PROVE TypeOK'
    <3>1. CallTypes
      BY <2>25, <2>27 DEF CompleteUpdate
    <3>2. QED
      BY <2>26, <2>27, <3>1 DEF TypeOK, CompleteUpdate, EndRun
  <2>28. ASSUME NEW h \in Handlers, FailUpdate(h) PROVE TypeOK'
    <3>1. CallTypes
      BY <2>25, <2>28 DEF FailUpdate
    <3>2. call[h].verdict \in {"queued", "error"}
      BY <2>26 DEF Calls
    <3>3. QED
      BY <2>26, <2>28, <3>1, <3>2 DEF TypeOK, FailUpdate, EndRun
  <2>29. ASSUME NEW h \in Handlers, CompleteRows(h) \/ FailRows(h) PROVE TypeOK'
    <3>1. CallTypes
      BY <2>25, <2>29 DEF CompleteRows, FailRows, IfHttp
    <3>2. rows' \in [Jobs -> Seq(RowStatus)]
      BY <2>26, <2>29, CloseNewestRowType DEF CompleteRows, FailRows
    <3>3. QED
      BY <2>29, <3>1, <3>2 DEF TypeOK, CompleteRows, FailRows
  <2>30. ASSUME NEW h \in Handlers, RecordCost(h) PROVE TypeOK'
    <3>1. CallTypes
      BY <2>25, <2>30 DEF RecordCost
    <3>2. costs' \in [Jobs -> Nat]
      <4> DEFINE j == call[h].job
      <4>1. costs \in [Jobs -> Nat] /\ (j \in Jobs => costs[j] + 1 \in Nat)
        BY DEF TypeOK
      <4>2. costs' \in {costs, [costs EXCEPT ![j] = costs[j] + 1]}
        BY <2>30 DEF RecordCost
      <4> HIDE DEF j
      <4>3. QED
        BY <4>1, <4>2, Updated
    <3>3. QED
      BY <2>30, <3>1, <3>2 DEF TypeOK, RecordCost
  <2>31. ASSUME NEW h \in Handlers, CompleteCircuit(h) \/ FailCircuit(h) PROVE TypeOK'
    <3>1. CallTypes
      BY <2>25, <2>31 DEF CompleteCircuit, FailCircuit
    <3>2. failures' \in [Devices -> 0..CircuitThreshold]
      <4>1. CASE CompleteCircuit(h)
        <5> DEFINE d == On[call[h].job]
        <5>1. failures' \in {failures, [failures EXCEPT ![d] = 0]}
          BY <4>1 DEF CompleteCircuit
        <5>2. failures \in [Devices -> 0..CircuitThreshold] /\ 0 \in 0..CircuitThreshold
          BY DEF TypeOK
        <5> HIDE DEF d
        <5>3. QED
          BY <5>1, <5>2, Updated
      <4>2. CASE FailCircuit(h)
        <5> DEFINE d == On[call[h].job]
        <5>1. d \in Devices => Failed(d) \in 0..CircuitThreshold
          BY BoundsAssumption DEF Failed, TypeOK
        <5>2. \/ UNCHANGED failures
              \/ d \in Devices /\ failures' = [failures EXCEPT ![d] = Failed(d)]
          BY <4>2 DEF FailCircuit
        <5> HIDE DEF d
        <5>3. QED
          BY <5>1, <5>2 DEF TypeOK
      <4>3. QED
        BY <2>31, <4>1, <4>2
    <3>3. QED
      BY <2>31, <3>1, <3>2 DEF TypeOK, CompleteCircuit, FailCircuit
  <2>32. ASSUME NEW h \in Handlers, FailRead(h) PROVE TypeOK'
    BY <2>32 DEF TypeOK, FailRead, Verdict, Call, Calls
  <2>33. ASSUME NEW h \in Handlers, StatementFails(h) PROVE TypeOK'
    <3>1. CallTypes
      BY <2>25, <2>33 DEF StatementFails, IfHttp
    <3>2. faults' \in [Jobs -> Nat]
      BY <2>33, FaultType DEF StatementFails
    <3>3. QED
      BY <2>33, <3>1, <3>2 DEF TypeOK, StatementFails
  <2>34. ASSUME UNCHANGED vars PROVE TypeOK'
    BY <2>34 DEF TypeOK, vars
  <2>35. ASSUME Submission PROVE TypeOK'
    BY <2>1, <2>2, <2>3, <2>35 DEF Submission, SubmitJob, HandleJobs, HandleLLMRequest,
       HandleBenchmarkRun, HandleDebugTest, TypeOK
  <2>36. ASSUME NEW w \in Workers, WorkerStep(w) \/ Mishap(w) PROVE TypeOK'
    BY <2>4, <2>5, <2>7, <2>8, <2>9, <2>11, <2>16, <2>19, <2>20, <2>21, <2>22, <2>23, <2>36
       DEF WorkerStep, Mishap
  <2>37. ASSUME NEW h \in Handlers, HandlerStep(h) PROVE TypeOK'
    BY <2>27, <2>28, <2>29, <2>30, <2>31, <2>32, <2>37, <2>33 DEF HandlerStep
  <2>38. QED
    BY <2>10, <2>12, <2>13, <2>14, <2>15, <2>24, <2>34, <2>35, <2>36, <2>37 DEF Next
<1>3. QED
  BY <1>1, <1>2, PTL DEF Spec
-----------------------------------------------------------------------------
(* Control: who works on which job.                                        *)

\* A worker has a job from claim to reply, and its call is about that job.
WorkerHasJob(w) ==
    LET c == call[<<w, "current">>]
    IN  /\ wpc[w] \in {"down", "idle"} <=> wjob[w] = NoJob
        /\ c.pc # "idle" <=> wpc[w] \in {"completing", "failing"}
        /\ wpc[w] = "completing" => c.pc \in CompletePC \cup {"reply"}
        /\ wpc[w] = "failing" => c.pc \in FailPC \cup {"reply"}
        /\ c.pc # "idle" => c.job = wjob[w]

\* Only a disturbed job has a handler that no worker waits for.
DetachedDisturbed(w) ==
    LET c == call[<<w, "detached">>]
    IN  c.pc # "idle" => c.job \in Jobs /\ faults[c.job] > 0

ControlInv ==
    /\ \A w \in Workers : WorkerHasJob(w) /\ DetachedDisturbed(w)
    /\ \A j \in debugging : Source[j] = "debug"

(***************************************************************************)
(* The two handlers of every worker differ from each other and from those  *)
(* of other workers.                                                       *)
(***************************************************************************)
LEMMA HandlerIds ==
    ASSUME NEW w \in Workers, NEW v \in Workers
    PROVE  /\ <<w, "current">> \in Handlers /\ <<w, "detached">> \in Handlers
           /\ <<w, "current">> # <<v, "detached">>
           /\ <<w, "current">> = <<v, "current">> => w = v
           /\ <<w, "detached">> = <<v, "detached">> => w = v
BY DEF Handlers, Slots

(***************************************************************************)
(* A handler is the current or the detached one of some worker.            *)
(***************************************************************************)
LEMMA HandlerCases ==
    ASSUME NEW h \in Handlers
    PROVE  \E w \in Workers : h = <<w, "current">> \/ h = <<w, "detached">>
BY DEF Handlers, Slots

(***************************************************************************)
(* Changing one call changes no other.                                     *)
(***************************************************************************)
LEMMA OneCall ==
    ASSUME TypeOK, NEW h \in Handlers, NEW c, call' = [call EXCEPT ![h] = c]
    PROVE  /\ call'[h] = c
           /\ \A g \in Handlers : g # h => call'[g] = call[g]
BY DEF TypeOK

(***************************************************************************)
(* What a worker that stops waiting does to its two calls.                 *)
(***************************************************************************)
LEMMA AbandonCalls ==
    ASSUME TypeOK, NEW w \in Workers, NEW next, Abandon(w, next)
    PROVE  /\ call'[<<w, "current">>] = next
           /\ \A v \in Workers : v # w =>
                /\ call'[<<v, "current">>] = call[<<v, "current">>]
                /\ call'[<<v, "detached">>] = call[<<v, "detached">>]
           /\ \/ call'[<<w, "detached">>] = call[<<w, "detached">>]
              \/ /\ call'[<<w, "detached">>] = call[<<w, "current">>]
                 /\ call[<<w, "current">>].pc \notin {"idle", "reply"}
<1>1. call \in [Handlers -> Calls]
  BY DEF TypeOK
<1>2. QED
  BY <1>1, HandlerIds DEF Abandon

(***************************************************************************)
(* A mishap on the jobs of S is counted for them and for no other job.     *)
(***************************************************************************)
LEMMA FaultCounts ==
    ASSUME TypeOK, NEW S, Fault(S)
    PROVE  /\ \A j \in Jobs : faults'[j] >= faults[j]
           /\ \A j \in S \cap Jobs : faults'[j] > 0
           /\ \A j \in Jobs \ S : faults'[j] = faults[j]
BY DEF Fault, TypeOK

(***************************************************************************)
(* A handler's statement moves its own call on, and no worker.             *)
(***************************************************************************)
LEMMA HandlerMoves ==
    ASSUME TypeOK, NEW h \in Handlers, HandlerStep(h)
    PROVE  /\ \A g \in Handlers : g # h => call'[g] = call[g]
           /\ call'[h].job = call[h].job
           /\ \/ call[h].pc \in CompletePC /\ call'[h].pc \in CompletePC \cup {"reply"}
              \/ call[h].pc \in FailPC /\ call'[h].pc \in FailPC \cup {"reply"}
           /\ UNCHANGED <<wpc, wjob, debugging>>
           /\ \A j \in Jobs : faults'[j] >= faults[j]
<1> USE DEF CompletePC, FailPC, At, Goto, Call, IfHttp
<1>1. call \in [Handlers -> Calls] /\ faults \in [Jobs -> Nat]
  BY DEF TypeOK
<1>2. CASE CompleteUpdate(h)
  BY <1>1, <1>2, OneCall DEF CompleteUpdate
<1>3. CASE CompleteRows(h)
  BY <1>1, <1>3, OneCall DEF CompleteRows
<1>4. CASE RecordCost(h)
  BY <1>1, <1>4, OneCall DEF RecordCost
<1>5. CASE CompleteCircuit(h)
  BY <1>1, <1>5, OneCall DEF CompleteCircuit
<1>6. CASE FailRead(h)
  BY <1>1, <1>6, OneCall DEF FailRead
<1>7. CASE FailUpdate(h)
  BY <1>1, <1>7, OneCall DEF FailUpdate
<1>8. CASE FailRows(h)
  BY <1>1, <1>8, OneCall DEF FailRows
<1>9. CASE FailCircuit(h)
  BY <1>1, <1>9, OneCall DEF FailCircuit
<1>10. CASE StatementFails(h)
  <2>1. \A j \in Jobs : faults'[j] >= faults[j]
    BY <1>10, FaultCounts DEF StatementFails
  <2>2. QED
    BY <1>1, <1>10, <2>1, OneCall DEF StatementFails
<1>11. QED
  BY <1>2, <1>3, <1>4, <1>5, <1>6, <1>7, <1>8, <1>9, <1>10 DEF HandlerStep

(***************************************************************************)
(* Steps that leave the workers and the handlers where they are.           *)
(***************************************************************************)
Elsewhere ==
    \/ Submission
    \/ \E w \in Workers : SendHeartbeat(w) \/ Heartbeat(w) \/ HeartbeatLost(w)
    \/ \E j \in Jobs : LeaseExpires(j)
    \/ \E D \in SUBSET Devices : HandleOfflineDevices(D)
    \/ DeviceStep
    \/ UNCHANGED vars

(***************************************************************************)
(* Such a step moves no worker and no handler, takes back no mishap and    *)
(* starts no debug job but those of HandleDebugTest.                       *)
(***************************************************************************)
LEMMA ElsewhereKeeps ==
    ASSUME TypeOK, Elsewhere
    PROVE  /\ UNCHANGED <<wpc, wjob, call>>
           /\ \A j \in Jobs : faults'[j] >= faults[j]
           /\ \A j \in debugging' : j \in debugging \/ Source[j] = "debug"
<1>1. CASE Submission
  BY <1>1 DEF Submission, SubmitJob, HandleJobs, HandleLLMRequest, HandleBenchmarkRun,
     HandleDebugTest, DebugUpdate, DebugGivesUp, Insert, TypeOK
<1>2. CASE \E w \in Workers : SendHeartbeat(w) \/ Heartbeat(w) \/ HeartbeatLost(w)
  BY <1>2 DEF SendHeartbeat, Heartbeat, HeartbeatLost, TypeOK
<1>3. ASSUME NEW j \in Jobs, LeaseExpires(j)
      PROVE  /\ UNCHANGED <<wpc, wjob, call, debugging>>
             /\ \A i \in Jobs : faults'[i] >= faults[i]
  <2>1. Fault({j}) \/ UNCHANGED faults
    BY <1>3 DEF LeaseExpires
  <2>2. \A i \in Jobs : faults'[i] >= faults[i]
    <3>1. CASE Fault({j})
      BY <3>1, FaultCounts
    <3>2. CASE UNCHANGED faults
      BY <3>2 DEF TypeOK
    <3>3. QED
      BY <2>1, <3>1, <3>2
  <2>3. QED
    BY <1>3, <2>2 DEF LeaseExpires
<1>4. ASSUME NEW D \in SUBSET Devices, HandleOfflineDevices(D)
      PROVE  /\ UNCHANGED <<wpc, wjob, call, debugging>>
             /\ \A i \in Jobs : faults'[i] >= faults[i]
  BY <1>4, FaultCounts DEF HandleOfflineDevices
<1>5. CASE DeviceStep
  BY <1>5 DEF DeviceStep, DeviceStatusChanges, ProxyRecords, CoreRestarts, TypeOK
<1>6. CASE UNCHANGED vars
  BY <1>6 DEF vars, TypeOK
<1>7. QED
  BY <1>1, <1>2, <1>3, <1>4, <1>5, <1>6 DEF Elsewhere

(***************************************************************************)
(* The steps of the specification, those of the workers one by one.        *)
(***************************************************************************)
LEMMA StepCases ==
    ASSUME [Next]_vars
    PROVE  \/ Elsewhere
           \/ \E h \in Handlers : HandlerStep(h)
           \/ \E w \in Workers :
                \/ RegisterWorker(w) \/ (\E j \in Jobs : ClaimSelect(w, j))
                \/ ClaimCommit(w) \/ ClaimReplyLost(w) \/ ClaimRollback(w)
                \/ WorkReturns(w) \/ WorkRaises(w)
                \/ CompleteReturns(w) \/ FailReturns(w)
                \/ CompleteRaises(w) \/ FailRaises(w) \/ Crash(w) \/ DetachedEnds(w)
BY DEF Next, Elsewhere, WorkerStep, Mishap

(***************************************************************************)
(* Worker, job and call belong together, in every reachable state.         *)
(***************************************************************************)
THEOREM Control == Spec => []ControlInv
<1>1. Init => ControlInv
  BY HandlerIds DEF Init, ControlInv, WorkerHasJob, DetachedDisturbed, IdleCall, Call, Handlers,
     Slots
<1>2. TypeOK /\ TypeOK' /\ ControlInv /\ [Next]_vars => ControlInv'
  <2> SUFFICES ASSUME TypeOK, TypeOK', ControlInv, [Next]_vars PROVE ControlInv'
    OBVIOUS
  <2> USE DEF CompletePC, FailPC
  <2>1. /\ wpc \in [Workers -> WorkerPC] /\ wjob \in [Workers -> Jobs \cup {NoJob}]
        /\ call \in [Handlers -> Calls] /\ faults \in [Jobs -> Nat]
        /\ faults' \in [Jobs -> Nat]
    BY DEF TypeOK
  <2>2. CASE Elsewhere
    BY <2>1, <2>2, ElsewhereKeeps DEF ControlInv, WorkerHasJob, DetachedDisturbed
  <2>3. ASSUME NEW h \in Handlers, HandlerStep(h) PROVE ControlInv'
    <3>1. PICK w \in Workers : h = <<w, "current">> \/ h = <<w, "detached">>
      BY HandlerCases
    <3>2. /\ \A g \in Handlers : g # h => call'[g] = call[g]
          /\ call'[h].job = call[h].job
          /\ \/ call[h].pc \in CompletePC /\ call'[h].pc \in CompletePC \cup {"reply"}
             \/ call[h].pc \in FailPC /\ call'[h].pc \in FailPC \cup {"reply"}
          /\ UNCHANGED <<wpc, wjob, debugging>> /\ \A j \in Jobs : faults'[j] >= faults[j]
      BY <2>3, HandlerMoves
    <3>3. ASSUME NEW v \in Workers PROVE WorkerHasJob(v)'
      <4>1. WorkerHasJob(v)
        BY DEF ControlInv
      <4>2. CASE <<v, "current">> = h
        BY <3>2, <4>1, <4>2 DEF WorkerHasJob
      <4>3. CASE <<v, "current">> # h
        BY <3>2, <4>1, <4>3, HandlerIds DEF WorkerHasJob
      <4>4. QED
        BY <4>2, <4>3
    <3>4. ASSUME NEW v \in Workers PROVE DetachedDisturbed(v)'
      <4>1. DetachedDisturbed(v)
        BY DEF ControlInv
      <4>2. CASE <<v, "detached">> = h
        <5>1. call[h].pc # "idle" /\ call[h].job \in Jobs /\ faults[call[h].job] > 0
          BY <3>2, <4>1, <4>2 DEF DetachedDisturbed
        <5>2. faults'[call[h].job] > 0
          BY <2>1, <3>2, <5>1
        <5>3. QED
          BY <3>2, <4>2, <5>1, <5>2 DEF DetachedDisturbed
      <4>3. CASE <<v, "detached">> # h
        <5> DEFINE g == <<v, "detached">>
        <5>1. call'[g] = call[g]
          BY <3>2, <4>3, HandlerIds
        <5>2. call[g].pc # "idle" => call[g].job \in Jobs /\ faults[call[g].job] > 0
          BY <4>1 DEF DetachedDisturbed
        <5>3. call[g].pc # "idle" => faults'[call[g].job] > 0
          BY <2>1, <3>2, <5>2
        <5>4. QED
          BY <5>1, <5>2, <5>3 DEF DetachedDisturbed
      <4>4. QED
        BY <4>2, <4>3
    <3>5. QED
      BY <3>2, <3>3, <3>4 DEF ControlInv
  \* The steps of worker w leave the other workers alone.
  <2>4. ASSUME NEW w \in Workers, UNCHANGED debugging,
               \A v \in Workers : v # w =>
                    /\ wpc'[v] = wpc[v] /\ wjob'[v] = wjob[v]
                    /\ call'[<<v, "current">>] = call[<<v, "current">>]
                    /\ call'[<<v, "detached">>] = call[<<v, "detached">>],
               \A j \in Jobs : faults'[j] >= faults[j],
               WorkerHasJob(w)', DetachedDisturbed(w)'
        PROVE  ControlInv'
    <3>1. ASSUME NEW v \in Workers, v # w PROVE WorkerHasJob(v)' /\ DetachedDisturbed(v)'
      BY <2>1, <2>4, <3>1 DEF ControlInv, WorkerHasJob, DetachedDisturbed
    <3>2. QED
      BY <2>4, <3>1 DEF ControlInv
  <2>5. ASSUME NEW w \in Workers,
               \/ RegisterWorker(w) \/ (\E j \in Jobs : ClaimSelect(w, j))
               \/ ClaimCommit(w)
        PROVE  ControlInv'
    <3>1. WorkerHasJob(w)' /\ DetachedDisturbed(w)'
      BY <2>1, <2>5, JobsAssumption DEF ControlInv, WorkerHasJob, DetachedDisturbed,
         RegisterWorker, ClaimSelect, ClaimCommit, Commit
    <3>2. /\ UNCHANGED <<call, faults, debugging>>
          /\ \A v \in Workers : v # w => wpc'[v] = wpc[v] /\ wjob'[v] = wjob[v]
      BY <2>1, <2>5 DEF RegisterWorker, ClaimSelect, ClaimCommit, Commit
    <3>3. QED
      BY <2>1, <2>4, <3>1, <3>2
  <2>6. ASSUME NEW w \in Workers, ClaimReplyLost(w) \/ ClaimRollback(w) PROVE ControlInv'
    <3>1. Fault({wjob[w]})
      BY <2>6 DEF ClaimReplyLost, ClaimRollback
    <3>2. WorkerHasJob(w)' /\ DetachedDisturbed(w)'
      BY <2>1, <2>6, <3>1, FaultCounts DEF ControlInv, WorkerHasJob, DetachedDisturbed,
         ClaimReplyLost, ClaimRollback, Commit
    <3>3. QED
      BY <2>1, <2>4, <2>6, <3>1, <3>2, FaultCounts DEF ClaimReplyLost, ClaimRollback, Commit
  <2>7. ASSUME NEW w \in Workers, WorkReturns(w) \/ WorkRaises(w) PROVE ControlInv'
    <3>1. PICK c : /\ call' = [call EXCEPT ![<<w, "current">>] = c]
                   /\ c.job = wjob[w]
                   /\ \/ c.pc = "completeUpdate" /\ wpc' = [wpc EXCEPT ![w] = "completing"]
                      \/ c.pc = "failRead" /\ wpc' = [wpc EXCEPT ![w] = "failing"]
                   /\ wpc[w] = "working"
                   /\ UNCHANGED <<wjob, faults, debugging>>
      BY <2>7 DEF WorkReturns, WorkRaises, Request, Call
    <3>2. WorkerHasJob(w)' /\ DetachedDisturbed(w)'
      BY <2>1, <3>1, OneCall, HandlerIds DEF ControlInv, WorkerHasJob, DetachedDisturbed
    <3>3. QED
      BY <2>1, <2>4, <3>1, <3>2, OneCall, HandlerIds
  <2>8. ASSUME NEW w \in Workers, CompleteReturns(w) \/ FailReturns(w) PROVE ControlInv'
    <3>1. /\ call' = [call EXCEPT ![<<w, "current">>] = IdleCall]
          /\ wpc' = [wpc EXCEPT ![w] = "idle"] /\ wjob' = [wjob EXCEPT ![w] = NoJob]
          /\ UNCHANGED <<faults, debugging>>
      BY <2>8 DEF CompleteReturns, FailReturns
    <3>2. WorkerHasJob(w)' /\ DetachedDisturbed(w)'
      BY <2>1, <3>1, OneCall, HandlerIds DEF ControlInv, WorkerHasJob, DetachedDisturbed,
         IdleCall, Call
    <3>3. QED
      BY <2>1, <2>4, <3>1, <3>2, OneCall, HandlerIds
  <2>9. ASSUME NEW w \in Workers, CompleteRaises(w) \/ FailRaises(w) \/ Crash(w)
        PROVE  ControlInv'
    <3>1. PICK next :
            /\ Abandon(w, next)
            /\ \/ /\ next.pc = "failRead" /\ next.job = wjob[w]
                  /\ wpc' = [wpc EXCEPT ![w] = "failing"] /\ wpc[w] = "completing"
                  /\ UNCHANGED wjob
               \/ /\ next.pc = "idle" /\ wjob' = [wjob EXCEPT ![w] = NoJob]
                  /\ \E pc \in {"idle", "down"} : wpc' = [wpc EXCEPT ![w] = pc]
            /\ wpc[w] \in Executing /\ Fault({wjob[w]}) /\ UNCHANGED debugging
      BY <2>9 DEF CompleteRaises, FailRaises, Crash, Request, IdleCall, Call, Executing
    <3>2. WorkerHasJob(w)'
      <4>1. call'[<<w, "current">>] = next
        BY <3>1, AbandonCalls
      <4>2. WorkerHasJob(w)
        BY DEF ControlInv
      <4>3. QED
        BY <2>1, <3>1, <4>1, <4>2 DEF WorkerHasJob
    <3>3. wjob[w] \in Jobs /\ faults'[wjob[w]] > 0
      BY <2>1, <3>1, FaultCounts DEF ControlInv, WorkerHasJob, Executing
    <3>4. DetachedDisturbed(w)'
      <4>1. CASE call'[<<w, "detached">>] = call[<<w, "detached">>]
        BY <2>1, <3>1, <4>1, FaultCounts DEF ControlInv, DetachedDisturbed
      <4>2. CASE /\ call'[<<w, "detached">>] = call[<<w, "current">>]
                 /\ call[<<w, "current">>].pc \notin {"idle", "reply"}
        BY <3>3, <4>2 DEF ControlInv, WorkerHasJob, DetachedDisturbed
      <4>3. QED
        BY <3>1, <4>1, <4>2, AbandonCalls
    <3>5. QED
      BY <2>1, <2>4, <3>1, <3>2, <3>4, AbandonCalls, FaultCounts
  <2>10. ASSUME NEW w \in Workers, DetachedEnds(w) PROVE ControlInv'
    <3>1. WorkerHasJob(w)' /\ DetachedDisturbed(w)'
      BY <2>1, <2>10, OneCall, HandlerIds DEF DetachedEnds, ControlInv, WorkerHasJob,
         DetachedDisturbed, IdleCall, Call
    <3>2. QED
      BY <2>1, <2>4, <2>10, <3>1, OneCall, HandlerIds DEF DetachedEnds
  <2>11. QED
    BY <2>2, <2>3, <2>5, <2>6, <2>7, <2>8, <2>9, <2>10, StepCases
<1>3. QED
  BY <1>1, <1>2, TypeCorrect, PTL DEF Spec

-----------------------------------------------------------------------------
(* What one step can do to the row of one job in the table jobs.           *)

Untouched(j) ==
    /\ status'[j] = status[j] /\ attempts'[j] = attempts[j]
    /\ lease'[j] = lease[j] /\ hasResult'[j] = hasResult[j]

Inserted(j) ==
    /\ status[j] = "absent" /\ status'[j] = "queued"
    /\ attempts'[j] = attempts[j] /\ lease'[j] = lease[j] /\ hasResult'[j] = hasResult[j]

EndedByDebug(j) ==
    /\ j \in debugging /\ ~Locked(j)
    /\ status'[j] = "done" /\ hasResult'[j]
    /\ attempts'[j] = attempts[j] /\ lease'[j] = lease[j]

Claimed(w, j) ==
    /\ wpc[w] = "claiming" /\ wjob[w] = j /\ wpc'[w] # "claiming"
    /\ status'[j] = "running" /\ attempts'[j] = attempts[j] + 1 /\ lease'[j] = "live"
    /\ hasResult'[j] = hasResult[j]
    /\ faults'[j] = 0 => wpc'[w] = "working" /\ wjob'[w] = j

\* The lease runs out, is renewed or is reset.
Expired(j) ==
    /\ lease[j] = "live" /\ lease'[j] = "expired" /\ (Heartbeated(j) => faults'[j] > 0)
    /\ status'[j] = status[j] /\ attempts'[j] = attempts[j] /\ hasResult'[j] = hasResult[j]

Prolonged(j) ==
    /\ status[j] = "running" /\ ~Locked(j) /\ lease'[j] = "live"
    /\ status'[j] = status[j] /\ attempts'[j] = attempts[j] /\ hasResult'[j] = hasResult[j]

Reset(j) ==
    /\ ~Locked(j) /\ lease'[j] = "none" /\ faults'[j] > 0
    /\ status'[j] = status[j] /\ attempts'[j] = attempts[j] /\ hasResult'[j] = hasResult[j]

\* Handler h writes the end of a run.
Ended(h, j, final) ==
    /\ call[h].job = j /\ ~Locked(j)
    /\ \/ final = "done" /\ call[h].pc = "completeUpdate" /\ call'[h].pc = "completeRows"
       \/ /\ final = call[h].verdict
          /\ call[h].pc = "failUpdate" /\ call'[h].pc = "failRows"
    /\ \A g \in Handlers : g # h => call'[g] = call[g]
    /\ UNCHANGED <<wpc, wjob, faults>>
    /\ status'[j] = final /\ lease'[j] = "none" /\ attempts'[j] = attempts[j]
    /\ hasResult'[j] = (hasResult[j] \/ final = "done")

Touched(j) ==
    \/ Untouched(j) \/ Inserted(j) \/ EndedByDebug(j)
    \/ \E w \in Workers : Claimed(w, j)
    \/ Expired(j) \/ Prolonged(j) \/ Reset(j)
    \/ \E h \in Handlers, final \in {"done", "queued", "error"} : Ended(h, j, final)

(***************************************************************************)
(* Steps that write no row of jobs.                                        *)
(***************************************************************************)
LEMMA OtherStatements ==
    ASSUME TypeOK, NEW h \in Handlers, HandlerStep(h), ~CompleteUpdate(h), ~FailUpdate(h)
    PROVE  UNCHANGED jobVars
BY DEF HandlerStep, CompleteRows, RecordCost, CompleteCircuit, FailRead, FailRows, FailCircuit,
       StatementFails

(***************************************************************************)
(* Every step does to every row one of the above.                          *)
(***************************************************************************)
LEMMA RowCases ==
    ASSUME TypeOK, TypeOK', ControlInv, [Next]_vars, NEW j \in Jobs
    PROVE  Touched(j)
<1>1. /\ status \in [Jobs -> {"absent", "queued", "running"} \cup Terminal]
      /\ attempts \in [Jobs -> Nat] /\ lease \in [Jobs -> {"none", "live", "expired"}]
      /\ hasResult \in [Jobs -> BOOLEAN] /\ faults \in [Jobs -> Nat]
      /\ wpc \in [Workers -> WorkerPC] /\ wjob \in [Workers -> Jobs \cup {NoJob}]
      /\ call \in [Handlers -> Calls] /\ beat \in [Workers -> Jobs \cup {NoJob}]
  BY DEF TypeOK
<1>2. ASSUME UNCHANGED jobVars PROVE Touched(j)
  BY <1>2 DEF Touched, Untouched
<1>3. CASE Elsewhere
  <2>1. ASSUME NEW i \in Jobs, Insert(i) PROVE Touched(j)
    <3>1. Untouched(j) \/ Inserted(j)
      BY <1>1, <2>1 DEF Insert, Untouched, Inserted
    <3>2. QED
      BY <3>1 DEF Touched
  <2>2. ASSUME NEW i \in Jobs, DebugUpdate(i) PROVE Touched(j)
    <3>1. Untouched(j) \/ EndedByDebug(j)
      BY <1>1, <2>2 DEF DebugUpdate, Untouched, EndedByDebug
    <3>2. QED
      BY <3>1 DEF Touched
  <2>3. CASE Submission
    BY <1>2, <2>1, <2>2, <2>3 DEF Submission, SubmitJob, HandleJobs, HandleLLMRequest,
       HandleBenchmarkRun, HandleDebugTest, DebugGivesUp
  <2>4. ASSUME NEW w \in Workers, Heartbeat(w) PROVE Touched(j)
    <3>1. Untouched(j) \/ Prolonged(j)
      BY <1>1, <2>4 DEF Heartbeat, Renewed, Untouched, Prolonged
    <3>2. QED
      BY <3>1 DEF Touched
  <2>5. ASSUME NEW w \in Workers, SendHeartbeat(w) \/ HeartbeatLost(w) PROVE Touched(j)
    BY <1>2, <2>5 DEF SendHeartbeat, HeartbeatLost
  <2>6. ASSUME NEW i \in Jobs, LeaseExpires(i) PROVE Touched(j)
    <3>1. CASE i = j
      <4>1. Heartbeated(j) => faults'[j] > 0
        BY <2>6, <3>1, FaultCounts DEF LeaseExpires
      <4>2. Expired(j)
        BY <1>1, <2>6, <3>1, <4>1 DEF LeaseExpires, Expired
      <4>3. QED
        BY <4>2 DEF Touched
    <3>2. CASE i # j
      <4>1. Untouched(j)
        BY <1>1, <2>6, <3>2 DEF LeaseExpires, Untouched
      <4>2. QED
        BY <4>1 DEF Touched
    <3>3. QED
      BY <3>1, <3>2
  <2>7. ASSUME NEW D \in SUBSET Devices, HandleOfflineDevices(D) PROVE Touched(j)
    <3> DEFINE reset == {i \in Jobs : \E d \in D : i \in LiveOn(d)}
    <3>1. CASE j \in reset
      <4>1. faults'[j] > 0
        BY <2>7, <3>1, FaultCounts DEF HandleOfflineDevices
      <4>2. Reset(j)
        BY <1>1, <2>7, <3>1, <4>1 DEF HandleOfflineDevices, Reset
      <4>3. QED
        BY <4>2 DEF Touched
    <3>2. CASE j \notin reset
      <4>1. Untouched(j)
        BY <1>1, <2>7, <3>2 DEF HandleOfflineDevices, Untouched
      <4>2. QED
        BY <4>1 DEF Touched
    <3>3. QED
      BY <3>1, <3>2
  <2>8. CASE DeviceStep
    BY <1>2, <2>8 DEF DeviceStep, DeviceStatusChanges, ProxyRecords, CoreRestarts
  <2>9. CASE UNCHANGED vars
    BY <1>2, <2>9 DEF vars
  <2>10. QED
    BY <1>3, <2>3, <2>4, <2>5, <2>6, <2>7, <2>8, <2>9 DEF Elsewhere
<1>4. ASSUME NEW h \in Handlers, HandlerStep(h) PROVE Touched(j)
  <2>1. ASSUME NEW final \in {"done", "queued", "error"},
               EndRun(call[h].job, final), ~Locked(call[h].job), UNCHANGED faults,
               \/ final = "done" /\ At(h, "completeUpdate") /\ call'[h].pc = "completeRows"
               \/ /\ final = call[h].verdict
                  /\ At(h, "failUpdate") /\ call'[h].pc = "failRows"
        PROVE  Touched(j)
    <3>1. CASE call[h].job = j
      <4>1. Ended(h, j, final)
        BY <1>1, <1>4, <2>1, <3>1, HandlerMoves DEF EndRun, Ended, At
      <4>2. QED
        BY <4>1 DEF Touched
    <3>2. CASE call[h].job # j
      <4>1. Untouched(j)
        BY <1>1, <2>1, <3>2 DEF EndRun, Untouched
      <4>2. QED
        BY <4>1 DEF Touched
    <3>3. QED
      BY <3>1, <3>2
  <2>2. CASE CompleteUpdate(h)
    <3>1. call'[h].pc = "completeRows"
      BY <1>1, <2>2, OneCall DEF CompleteUpdate, Goto, Call
    <3>2. QED
      BY <2>1, <2>2, <3>1 DEF CompleteUpdate
  <2>3. CASE FailUpdate(h)
    <3>1. call'[h].pc = "failRows"
      BY <1>1, <2>3, OneCall DEF FailUpdate, Goto, Call
    <3>2. call[h].verdict \in {"queued", "error"}
      BY <1>1 DEF Calls
    <3>3. QED
      BY <2>1, <2>3, <3>1, <3>2 DEF FailUpdate
  <2>4. QED
    BY <1>2, <1>4, <2>2, <2>3, OtherStatements
<1>5. ASSUME NEW w \in Workers, ClaimCommit(w) \/ ClaimReplyLost(w) PROVE Touched(j)
  <2>1. CASE wjob[w] = j
    <3>1. /\ wpc[w] = "claiming" /\ wpc'[w] # "claiming"
          /\ Commit(j)
      BY <1>1, <1>5, <2>1 DEF ClaimCommit, ClaimReplyLost
    <3>2. faults'[j] = 0 => wpc'[w] = "working" /\ wjob'[w] = j
      <4>1. CASE ClaimCommit(w)
        BY <1>1, <2>1, <4>1 DEF ClaimCommit
      <4>2. CASE ClaimReplyLost(w)
        BY <2>1, <4>2, FaultCounts DEF ClaimReplyLost
      <4>3. QED
        BY <1>5, <4>1, <4>2
    <3>3. Claimed(w, j)
      BY <1>1, <2>1, <3>1, <3>2 DEF Commit, Claimed
    <3>4. QED
      BY <3>3 DEF Touched
  <2>2. CASE wjob[w] # j
    <3>1. Untouched(j)
      BY <1>1, <1>5, <2>2 DEF ClaimCommit, ClaimReplyLost, Commit, Untouched
    <3>2. QED
      BY <3>1 DEF Touched
  <2>3. QED
    BY <2>1, <2>2
<1>6. ASSUME NEW w \in Workers,
             \/ RegisterWorker(w) \/ (\E i \in Jobs : ClaimSelect(w, i)) \/ ClaimRollback(w)
             \/ WorkReturns(w) \/ WorkRaises(w) \/ CompleteReturns(w) \/ FailReturns(w)
             \/ CompleteRaises(w) \/ FailRaises(w) \/ Crash(w) \/ DetachedEnds(w)
      PROVE  Touched(j)
  BY <1>2, <1>6 DEF RegisterWorker, ClaimSelect, ClaimRollback, WorkReturns, WorkRaises,
     CompleteReturns, FailReturns, CompleteRaises, FailRaises, Crash, DetachedEnds
<1>7. QED
  BY <1>3, <1>4, <1>5, <1>6, StepCases

(***************************************************************************)
(* A worker is claiming a job because it was, or because it just chose it. *)
(***************************************************************************)
LEMMA ClaimCases ==
    ASSUME TypeOK, TypeOK', ControlInv, [Next]_vars, NEW w \in Workers, wpc'[w] = "claiming"
    PROVE  \/ wpc[w] = "claiming" /\ wjob'[w] = wjob[w]
           \/ wjob'[w] \in Jobs /\ ClaimSelect(w, wjob'[w])
<1>1. wpc \in [Workers -> WorkerPC] /\ wjob \in [Workers -> Jobs \cup {NoJob}]
  BY DEF TypeOK
<1>2. CASE Elsewhere
  BY <1>2, ElsewhereKeeps
<1>3. CASE \E h \in Handlers : HandlerStep(h)
  BY <1>3, HandlerMoves
<1>4. ASSUME NEW v \in Workers, NEW i \in Jobs, ClaimSelect(v, i)
      PROVE  \/ wpc[w] = "claiming" /\ wjob'[w] = wjob[w]
             \/ wjob'[w] \in Jobs /\ ClaimSelect(w, wjob'[w])
  <2>1. CASE v = w
    <3>1. wjob'[w] = i
      BY <1>1, <1>4, <2>1 DEF ClaimSelect
    <3>2. QED
      BY <1>4, <2>1, <3>1
  <2>2. CASE v # w
    BY <1>1, <1>4, <2>2 DEF ClaimSelect
  <2>3. QED
    BY <2>1, <2>2
<1>5. ASSUME NEW v \in Workers,
             \/ RegisterWorker(v) \/ ClaimCommit(v) \/ ClaimReplyLost(v) \/ ClaimRollback(v)
             \/ WorkReturns(v) \/ WorkRaises(v) \/ CompleteReturns(v) \/ FailReturns(v)
             \/ CompleteRaises(v) \/ FailRaises(v) \/ Crash(v) \/ DetachedEnds(v)
      PROVE  wpc[w] = "claiming" /\ wjob'[w] = wjob[w]
  BY <1>1, <1>5 DEF RegisterWorker, ClaimCommit, ClaimReplyLost, ClaimRollback, WorkReturns,
     WorkRaises, CompleteReturns, FailReturns, CompleteRaises, FailRaises, Crash, DetachedEnds
<1>6. QED
  BY <1>2, <1>3, <1>4, <1>5, StepCases

-----------------------------------------------------------------------------
(* The rows and the transactions that claim them.                          *)

\* FailJob writes "error" only to a job whose attempts are, and stay, used up.
VerdictSound(h) ==
    call[h].pc = "failUpdate" /\ call[h].verdict = "error"
        => attempts[call[h].job] >= MaxAttempts(call[h].job)

RowInv ==
    /\ \A h \in Handlers : VerdictSound(h)
    /\ \A j \in Jobs : status[j] = "absent" => attempts[j] = 0
    /\ ClaimStillValid
    /\ LeaseOnlyWhileRunning
    /\ ErrorMeansExhausted

(***************************************************************************)
(* Every inserting handler stores an integer max_attempts.                 *)
(***************************************************************************)
LEMMA MaxAttemptsInt == \A j \in Jobs : MaxAttempts(j) \in Int
BY DEF MaxAttempts, Sources

(***************************************************************************)
(* A verdict is decided by FailRead and otherwise only carried along.      *)
(***************************************************************************)
LEMMA VerdictCases ==
    ASSUME TypeOK, TypeOK', ControlInv, [Next]_vars, NEW h \in Handlers,
           call'[h].pc = "failUpdate"
    PROVE  \/ \E g \in Handlers : call'[h] = call[g]
           \/ FailRead(h) /\ call'[h].job = call[h].job /\ call'[h].verdict = Verdict(call[h].job)
<1>1. call \in [Handlers -> Calls] /\ wjob \in [Workers -> Jobs \cup {NoJob}]
  BY DEF TypeOK
<1>2. CASE Elsewhere
  BY <1>2, ElsewhereKeeps
<1>3. ASSUME NEW g \in Handlers, HandlerStep(g), g # h PROVE call'[h] = call[h]
  BY <1>3, HandlerMoves
<1>4. CASE HandlerStep(h)
  <2>1. CASE FailRead(h)
    BY <1>1, <2>1, OneCall DEF FailRead, Call
  <2>2. CASE ~FailRead(h)
    BY <1>1, <1>4, <2>2, OneCall DEF HandlerStep, CompleteUpdate, CompleteRows, RecordCost,
       CompleteCircuit, FailUpdate, FailRows, FailCircuit, StatementFails, Goto, Call, IfHttp
  <2>3. QED
    BY <2>1, <2>2
<1>5. ASSUME NEW w \in Workers,
             \/ RegisterWorker(w) \/ (\E j \in Jobs : ClaimSelect(w, j))
             \/ ClaimCommit(w) \/ ClaimReplyLost(w) \/ ClaimRollback(w)
      PROVE  call'[h] = call[h]
  BY <1>5 DEF RegisterWorker, ClaimSelect, ClaimCommit, ClaimReplyLost, ClaimRollback, Commit
<1>6. ASSUME NEW w \in Workers,
             \/ WorkReturns(w) \/ WorkRaises(w) \/ CompleteReturns(w) \/ FailReturns(w)
             \/ DetachedEnds(w)
      PROVE  call'[h] = call[h]
  <2>1. \E g \in Handlers : \E c :
           call' = [call EXCEPT ![g] = c] /\ c.pc \in {"completeUpdate", "failRead", "idle"}
    BY <1>6, HandlerIds DEF WorkReturns, WorkRaises, CompleteReturns, FailReturns, DetachedEnds,
       Request, IdleCall, Call
  <2>2. QED
    BY <2>1, OneCall
<1>7. ASSUME NEW w \in Workers, CompleteRaises(w) \/ FailRaises(w) \/ Crash(w)
      PROVE  \E g \in Handlers : call'[h] = call[g]
  <2>1. PICK next : Abandon(w, next) /\ next.pc \in {"failRead", "idle"}
    BY <1>7 DEF CompleteRaises, FailRaises, Crash, Request, IdleCall, Call
  <2>2. PICK v \in Workers : h = <<v, "current">> \/ h = <<v, "detached">>
    BY HandlerCases
  <2>3. CASE v # w
    <3>1. call'[h] = call[h]
      BY <2>1, <2>2, <2>3, AbandonCalls
    <3>2. QED
      BY <3>1
  <2>4. CASE h = <<w, "detached">>
    <3>1. call'[h] = call[h] \/ call'[h] = call[<<w, "current">>]
      BY <2>1, <2>4, AbandonCalls
    <3>2. QED
      BY <3>1, HandlerIds
  <2>5. CASE h = <<w, "current">>
    <3>1. call'[h] = next
      BY <2>1, <2>5, AbandonCalls
    <3>2. QED
      BY <2>1, <3>1
  <2>6. QED
    BY <2>2, <2>3, <2>4, <2>5
<1>8. QED
  BY <1>2, <1>3, <1>4, <1>5, <1>6, <1>7, StepCases

(***************************************************************************)
(* Attempts are never un-counted.                                          *)
(***************************************************************************)
LEMMA AttemptsGrow ==
    ASSUME TypeOK, TypeOK', ControlInv, [Next]_vars, NEW j \in Jobs
    PROVE  attempts[j] \in Nat /\ attempts'[j] >= attempts[j]
<1>1. attempts[j] \in Nat
  BY DEF TypeOK
<1>2. QED
  BY <1>1, RowCases DEF Touched, Untouched, Inserted, EndedByDebug, Claimed, Expired, Prolonged,
     Reset, Ended

(***************************************************************************)
(* The server.go queries keep a claim valid from its SELECT to its COMMIT, *)
(* give only running jobs a lease and fail a job only when its attempts    *)
(* are used up.                                                            *)
(***************************************************************************)
THEOREM RowsSafe == Spec => []RowInv
<1>1. Init => RowInv
  BY HandlerIds DEF Init, RowInv, VerdictSound, ClaimStillValid, LeaseOnlyWhileRunning,
     ErrorMeansExhausted, IdleCall, Call
<1>2. TypeOK /\ TypeOK' /\ ControlInv /\ RowInv /\ [Next]_vars => RowInv'
  <2> SUFFICES ASSUME TypeOK, TypeOK', ControlInv, RowInv, [Next]_vars PROVE RowInv'
    OBVIOUS
  <2> USE DEF Untouched, Inserted, EndedByDebug, Claimed, Expired, Prolonged, Reset, Ended
  <2>1. /\ attempts \in [Jobs -> Nat] /\ attempts' \in [Jobs -> Nat]
        /\ call \in [Handlers -> Calls]
        /\ wjob \in [Workers -> Jobs \cup {NoJob}] /\ wjob' \in [Workers -> Jobs \cup {NoJob}]
    BY DEF TypeOK
  <2>2. ASSUME NEW h \in Handlers PROVE VerdictSound(h)'
    <3>1. SUFFICES ASSUME call'[h].pc = "failUpdate", call'[h].verdict = "error"
                   PROVE  attempts'[call'[h].job] >= MaxAttempts(call'[h].job)
      BY DEF VerdictSound, MaxAttempts
    <3>2. ASSUME NEW g \in Handlers, call[g].pc # "idle" PROVE call[g].job \in Jobs
      <4>1. PICK w \in Workers : g = <<w, "current">> \/ g = <<w, "detached">>
        BY HandlerCases
      <4>2. CASE g = <<w, "current">>
        BY <2>1, <3>2, <4>2 DEF ControlInv, WorkerHasJob
      <4>3. CASE g = <<w, "detached">>
        BY <3>2, <4>3 DEF ControlInv, DetachedDisturbed
      <4>4. QED
        BY <4>1, <4>2, <4>3
    <3>3. CASE \E g \in Handlers : call'[h] = call[g]
      <4>1. PICK g \in Handlers : call'[h] = call[g]
        BY <3>3
      <4>2. call[g].job \in Jobs /\ attempts[call[g].job] >= MaxAttempts(call[g].job)
        BY <3>1, <3>2, <4>1 DEF RowInv, VerdictSound
      <4>3. /\ attempts[call[g].job] \in Nat /\ MaxAttempts(call[g].job) \in Int
            /\ attempts'[call[g].job] >= attempts[call[g].job]
            /\ attempts'[call[g].job] \in Nat
        BY <2>1, <4>2, AttemptsGrow, MaxAttemptsInt
      <4>4. QED
        BY <4>1, <4>2, <4>3
    <3>4. CASE /\ FailRead(h) /\ call'[h].job = call[h].job
               /\ call'[h].verdict = Verdict(call[h].job)
      <4>1. call[h].job \in Jobs
        BY <3>2, <3>4 DEF FailRead, At
      <4>2. attempts[call[h].job] >= MaxAttempts(call[h].job)
        BY <3>1, <3>4 DEF Verdict
      <4>3. /\ attempts[call[h].job] \in Nat /\ MaxAttempts(call[h].job) \in Int
            /\ attempts'[call[h].job] >= attempts[call[h].job]
            /\ attempts'[call[h].job] \in Nat
        BY <2>1, <4>1, AttemptsGrow, MaxAttemptsInt
      <4>4. QED
        BY <3>4, <4>2, <4>3
    <3>5. QED
      BY <3>1, <3>3, <3>4, VerdictCases
  <2>3. ASSUME NEW j \in Jobs PROVE status'[j] = "absent" => attempts'[j] = 0
    BY RowCases DEF Touched, RowInv
  <2>4. ClaimStillValid'
    <3>1. ASSUME NEW w \in Workers, wpc'[w] = "claiming"
          PROVE  status'[wjob'[w]] \in {"queued", "running"} /\ lease'[wjob'[w]] # "live"
      <4>1. CASE wpc[w] = "claiming" /\ wjob'[w] = wjob[w]
        <5>1. PICK j \in Jobs : j = wjob[w]
          BY <2>1, <4>1 DEF ControlInv, WorkerHasJob
        <5>2. status[j] \in {"queued", "running"} /\ lease[j] # "live" /\ Locked(j)
          BY <4>1, <5>1 DEF RowInv, ClaimStillValid, Locked
        <5>3. \A v \in Workers : ~Claimed(v, j)
          BY <3>1, <4>1, <5>1 DEF RowInv, ClaimStillValid
        <5>4. QED
          BY <4>1, <5>1, <5>2, <5>3, RowCases DEF Touched
      <4>2. CASE wjob'[w] \in Jobs /\ ClaimSelect(w, wjob'[w])
        BY <4>2 DEF ClaimSelect, Eligible, HttpEligible, GrpcEligible
      <4>3. QED
        BY <3>1, <4>1, <4>2, ClaimCases
    <3>2. ASSUME NEW v \in Workers, NEW w \in Workers, v # w,
                 wpc'[v] = "claiming", wpc'[w] = "claiming"
          PROVE  wjob'[v] # wjob'[w]
      <4>1. ASSUME NEW x \in Workers, NEW y \in Workers, x # y,
                   wjob'[x] \in Jobs, ClaimSelect(x, wjob'[x]), wpc'[y] = "claiming"
            PROVE  wjob'[x] # wjob'[y]
        <5>1. wpc[y] = "claiming" /\ wjob'[y] = wjob[y]
          BY <4>1 DEF ClaimSelect, TypeOK
        <5>2. ~Locked(wjob'[x])
          BY <4>1 DEF ClaimSelect, Eligible, HttpEligible, GrpcEligible
        <5>3. QED
          BY <5>1, <5>2 DEF Locked
      <4>2. QED
        BY <3>2, <4>1, ClaimCases DEF RowInv, ClaimStillValid
    <3>3. QED
      BY <3>1, <3>2 DEF ClaimStillValid
  <2>5. LeaseOnlyWhileRunning'
    <3>1. ASSUME NEW j \in Jobs, lease'[j] # "none"
          PROVE  status'[j] = "running" \/ (Source[j] = "debug" /\ status'[j] = "done")
      <4>1. /\ lease[j] # "none" =>
                 status[j] = "running" \/ (Source[j] = "debug" /\ status[j] = "done")
            /\ j \in debugging => Source[j] = "debug"
        BY DEF RowInv, ControlInv, LeaseOnlyWhileRunning
      <4>2. QED
        BY <3>1, <4>1, RowCases DEF Touched
    <3>2. QED
      BY <3>1 DEF LeaseOnlyWhileRunning
  <2>6. ErrorMeansExhausted'
    <3>1. ASSUME NEW j \in Jobs, status'[j] = "error" PROVE attempts'[j] >= MaxAttempts(j)
      <4>1. status[j] = "error" => attempts[j] >= MaxAttempts(j)
        BY DEF RowInv, ErrorMeansExhausted
      <4>2. ASSUME NEW h \in Handlers, Ended(h, j, "error") PROVE attempts[j] >= MaxAttempts(j)
        BY <4>2 DEF RowInv, VerdictSound
      <4>3. status[j] = "error" \/ \E h \in Handlers : Ended(h, j, "error")
        BY <3>1, RowCases DEF Touched
      <4>4. /\ attempts[j] \in Nat /\ MaxAttempts(j) \in Int
            /\ attempts'[j] >= attempts[j] /\ attempts'[j] \in Nat
        BY <2>1, AttemptsGrow, MaxAttemptsInt
      <4>5. QED
        BY <4>1, <4>2, <4>3, <4>4
    <3>2. QED
      BY <3>1 DEF ErrorMeansExhausted, MaxAttempts
  <2>7. QED
    BY <2>2, <2>3, <2>4, <2>5, <2>6 DEF RowInv
<1>3. QED
  BY <1>1, <1>2, TypeCorrect, Control, PTL DEF Spec

-----------------------------------------------------------------------------
(* Runs: who holds a job that no mishap has befallen.                      *)

(***************************************************************************)
(* Mishaps are never un-counted.                                           *)
(***************************************************************************)
LEMMA FaultsGrow ==
    ASSUME TypeOK, TypeOK', ControlInv, [Next]_vars, NEW j \in Jobs
    PROVE  faults[j] \in Nat /\ faults'[j] \in Nat /\ faults'[j] >= faults[j]
<1>1. faults[j] \in Nat /\ faults'[j] \in Nat
  BY DEF TypeOK
<1>2. CASE Elsewhere
  BY <1>1, <1>2, ElsewhereKeeps
<1>3. CASE \E h \in Handlers : HandlerStep(h)
  BY <1>1, <1>3, HandlerMoves
<1>4. ASSUME NEW w \in Workers,
             \/ RegisterWorker(w) \/ (\E i \in Jobs : ClaimSelect(w, i)) \/ ClaimCommit(w)
             \/ WorkReturns(w) \/ WorkRaises(w) \/ CompleteReturns(w) \/ FailReturns(w)
             \/ DetachedEnds(w)
      PROVE  faults'[j] >= faults[j]
  <2>1. UNCHANGED faults
    BY <1>4 DEF RegisterWorker, ClaimSelect, ClaimCommit, WorkReturns, WorkRaises,
       CompleteReturns, FailReturns, DetachedEnds
  <2>2. QED
    BY <1>1, <2>1
<1>5. ASSUME NEW w \in Workers,
             \/ ClaimReplyLost(w) \/ ClaimRollback(w)
             \/ CompleteRaises(w) \/ FailRaises(w) \/ Crash(w)
      PROVE  faults'[j] >= faults[j]
  <2>1. Fault({wjob[w]})
    BY <1>5 DEF ClaimReplyLost, ClaimRollback, CompleteRaises, FailRaises, Crash
  <2>2. QED
    BY <2>1, FaultCounts
<1>6. QED
  BY <1>1, <1>2, <1>3, <1>4, <1>5, StepCases

(***************************************************************************)
(* A job that is undisturbed after a step was so before.                   *)
(***************************************************************************)
LEMMA StillUndisturbed ==
    ASSUME TypeOK, TypeOK', ControlInv, [Next]_vars, NEW j \in Jobs, Undisturbed(j)'
    PROVE  Undisturbed(j)
BY FaultsGrow DEF Undisturbed

(***************************************************************************)
(* Only a worker that holds an undisturbed job has a handler about to end  *)
(* its run.                                                                *)
(***************************************************************************)
LEMMA EndedByHolder ==
    ASSUME TypeOK, ControlInv, NEW j \in Jobs, Undisturbed(j),
           NEW h \in Handlers, NEW final, Ended(h, j, final)
    PROVE  \E w \in Workers : h = <<w, "current">> /\ Holds(w, j) /\ ~Holds(w, j)'
<1>1. PICK w \in Workers : h = <<w, "current">> \/ h = <<w, "detached">>
  BY HandlerCases
<1>2. h # <<w, "detached">>
  BY DEF Ended, ControlInv, DetachedDisturbed, Undisturbed
<1>3. wjob[w] = j /\ wpc[w] \in {"completing", "failing"}
  BY <1>1, <1>2 DEF Ended, ControlInv, WorkerHasJob
<1>4. QED
  BY <1>1, <1>2, <1>3 DEF Ended, Holds

(***************************************************************************)
(* A worker comes to hold an undisturbed job only by claiming it.          *)
(***************************************************************************)
LEMMA HoldsCases ==
    ASSUME TypeOK, TypeOK', ControlInv, ControlInv', [Next]_vars,
           NEW j \in Jobs, Undisturbed(j)', NEW w \in Workers
    PROVE  /\ Holds(w, j)' => Holds(w, j) \/ Claimed(w, j)
           /\ Holds(w, j) => Holds(w, j)' \/ \E final : Ended(<<w, "current">>, j, final)
<1> DEFINE Goal == /\ Holds(w, j)' => Holds(w, j) \/ Claimed(w, j)
                   /\ Holds(w, j) => Holds(w, j)' \/ \E final : Ended(<<w, "current">>, j, final)
<1>1. /\ wpc \in [Workers -> WorkerPC] /\ wjob \in [Workers -> Jobs \cup {NoJob}]
      /\ call \in [Handlers -> Calls] /\ faults[j] \in Nat
  BY DEF TypeOK
<1>2. \A v \in Workers : <<v, "current">> \in Handlers /\ <<v, "detached">> \in Handlers
  BY HandlerIds
<1>3. ASSUME wpc'[w] = wpc[w], wjob'[w] = wjob[w],
             call'[<<w, "current">>] = call[<<w, "current">>]
      PROVE  Goal
  BY <1>3 DEF Holds
<1>4. CASE Elsewhere
  BY <1>3, <1>4, ElsewhereKeeps
<1>5. ASSUME NEW h \in Handlers, HandlerStep(h) PROVE Goal
  <2>1. UNCHANGED <<wpc, wjob>>
    BY <1>5, HandlerMoves
  <2>2. CASE h # <<w, "current">>
    BY <1>2, <1>3, <1>5, <2>1, <2>2, HandlerMoves
  <2>3. CASE h = <<w, "current">>
    <3>1. CASE FailRead(h)
      <4>1. call[h].pc = "failRead" /\ call'[h].pc = "failUpdate"
        BY <1>1, <3>1, OneCall DEF FailRead, At, Call
      <4>2. QED
        BY <2>1, <2>3, <4>1 DEF Holds
    <3>2. CASE CompleteUpdate(h) \/ FailUpdate(h)
      <4>1. /\ ~Holds(w, j)'
            /\ call[h].pc \in {"completeUpdate", "failUpdate"}
        <5>1. CASE CompleteUpdate(h)
          BY <1>1, <1>2, <2>1, <2>3, <5>1, OneCall DEF CompleteUpdate, At, Goto, Call, Holds,
             ControlInv, WorkerHasJob, CompletePC, FailPC
        <5>2. CASE FailUpdate(h)
          BY <1>1, <1>2, <2>1, <2>3, <5>2, OneCall DEF FailUpdate, At, Goto, Call, Holds,
             ControlInv, WorkerHasJob, CompletePC, FailPC
        <5>3. QED
          BY <3>2, <5>1, <5>2
      <4>2. ASSUME Holds(w, j) PROVE \E final : Ended(<<w, "current">>, j, final)
        <5>1. call[h].job = j
          BY <2>3, <4>1, <4>2 DEF Holds, ControlInv, WorkerHasJob
        <5>2. ASSUME CompleteUpdate(h) PROVE Ended(h, j, "done")
          <6>1. call'[h].pc = "completeRows"
            BY <1>1, <5>2, OneCall DEF CompleteUpdate, Goto, Call
          <6>2. QED
            BY <1>5, <2>1, <5>1, <5>2, <6>1, HandlerMoves DEF CompleteUpdate, EndRun, At, Ended,
               TypeOK
        <5>3. ASSUME FailUpdate(h) PROVE Ended(h, j, call[h].verdict)
          <6>1. call'[h].pc = "failRows"
            BY <1>1, <5>3, OneCall DEF FailUpdate, Goto, Call
          <6>2. QED
            BY <1>5, <2>1, <5>1, <5>3, <6>1, HandlerMoves DEF FailUpdate, EndRun, At, Ended,
               TypeOK
        <5>4. QED
          BY <2>3, <3>2, <5>2, <5>3
      <4>3. QED
        BY <4>1, <4>2
    <3>3. CASE ~FailRead(h) /\ ~CompleteUpdate(h) /\ ~FailUpdate(h)
      <4>1. /\ call[h].pc \notin {"completeUpdate", "failRead", "failUpdate"}
            /\ call'[h].pc \notin {"completeUpdate", "failRead", "failUpdate"}
        BY <1>1, <1>5, <3>3, OneCall DEF HandlerStep, CompleteRows, RecordCost, CompleteCircuit,
           FailRows, FailCircuit, StatementFails, Goto, Call, IfHttp, At
      <4>2. QED
        BY <2>1, <2>3, <4>1 DEF Holds
    <3>4. QED
      BY <3>1, <3>2, <3>3
  <2>4. QED
    BY <2>2, <2>3
<1>6. ASSUME NEW v \in Workers, v # w,
             \/ RegisterWorker(v) \/ (\E i \in Jobs : ClaimSelect(v, i))
             \/ ClaimCommit(v) \/ ClaimReplyLost(v) \/ ClaimRollback(v)
             \/ WorkReturns(v) \/ WorkRaises(v) \/ CompleteReturns(v) \/ FailReturns(v)
             \/ DetachedEnds(v)
      PROVE  Goal
  BY <1>1, <1>2, <1>3, <1>6, HandlerIds DEF RegisterWorker, ClaimSelect, ClaimCommit,
     ClaimReplyLost, ClaimRollback, Commit, WorkReturns, WorkRaises, CompleteReturns, FailReturns,
     DetachedEnds
<1>7. ASSUME NEW v \in Workers, v # w, CompleteRaises(v) \/ FailRaises(v) \/ Crash(v)
      PROVE  Goal
  <2>1. PICK next : Abandon(v, next)
    BY <1>7 DEF CompleteRaises, FailRaises, Crash
  <2>2. call'[<<w, "current">>] = call[<<w, "current">>]
    BY <1>7, <2>1, AbandonCalls
  <2>3. wpc'[w] = wpc[w] /\ wjob'[w] = wjob[w]
    BY <1>1, <1>7 DEF CompleteRaises, FailRaises, Crash
  <2>4. QED
    BY <1>3, <2>2, <2>3
<1>8. CASE RegisterWorker(w) \/ (\E i \in Jobs : ClaimSelect(w, i))
  BY <1>1, <1>8 DEF RegisterWorker, ClaimSelect, Holds
<1>9. CASE ClaimCommit(w)
  <2>1. ~Holds(w, j)
    BY <1>9 DEF ClaimCommit, Holds
  <2>2. ASSUME wjob[w] = j PROVE Claimed(w, j)
    BY <1>1, <1>9, <2>2 DEF ClaimCommit, Commit, Claimed, TypeOK
  <2>3. Holds(w, j)' => wjob[w] = j
    BY <1>9 DEF ClaimCommit, Holds
  <2>4. QED
    BY <2>1, <2>2, <2>3
<1>10. CASE ClaimReplyLost(w) \/ ClaimRollback(w)
  BY <1>1, <1>10 DEF ClaimReplyLost, ClaimRollback, Holds
<1>11. CASE WorkReturns(w) \/ WorkRaises(w)
  <2>1. PICK c : /\ call' = [call EXCEPT ![<<w, "current">>] = c]
                 /\ \/ c.pc = "completeUpdate" /\ wpc'[w] = "completing"
                    \/ c.pc = "failRead" /\ wpc'[w] = "failing"
                 /\ wpc[w] = "working" /\ UNCHANGED wjob
    BY <1>1, <1>11 DEF WorkReturns, WorkRaises, Request, Call
  <2>2. QED
    BY <1>2, <2>1, OneCall DEF Holds
<1>12. CASE CompleteReturns(w) \/ FailReturns(w)
  BY <1>1, <1>12 DEF CompleteReturns, FailReturns, Holds
<1>13. CASE CompleteRaises(w) \/ FailRaises(w) \/ Crash(w)
  <2>1. Fault({wjob[w]}) /\ wpc[w] \in Executing
    BY <1>13 DEF CompleteRaises, FailRaises, Crash, Executing
  <2>2. wjob[w] # j
    BY <2>1, FaultCounts DEF Undisturbed
  <2>3. wjob'[w] # j
    BY <1>1, <1>13, <2>2, JobsAssumption DEF CompleteRaises, FailRaises, Crash
  <2>4. QED
    BY <2>2, <2>3 DEF Holds
<1>14. CASE DetachedEnds(w)
  BY <1>2, <1>3, <1>14, HandlerIds DEF DetachedEnds
<1>15. QED
  BY <1>4, <1>5, <1>6, <1>7, <1>8, <1>9, <1>10, <1>11, <1>12, <1>13, <1>14, StepCases

\* A run of an undisturbed job keeps its lease.
RunningIsLeased ==
    \A j \in Jobs : Undisturbed(j) /\ status[j] = "running" => lease[j] = "live"

RunInv ==
    /\ ExclusiveUntilDisturbed
    /\ RunningIsLeased
    /\ ResultIffDone

(***************************************************************************)
(* What a step does to the row of an undisturbed job, given RunInv: claims *)
(* start from the queue, and only the holder ends a run.                   *)
(***************************************************************************)
LEMMA UndisturbedCases ==
    ASSUME TypeOK, TypeOK', ControlInv, RowInv, RunInv, [Next]_vars,
           NEW j \in Jobs, Undisturbed(j)'
    PROVE  \/ Untouched(j) \/ Inserted(j) \/ Prolonged(j)
           \/ Expired(j) /\ status[j] # "running"
           \/ \E w \in Workers :
                /\ Claimed(w, j) /\ wpc'[w] = "working" /\ wjob'[w] = j
                /\ status[j] = "queued" /\ \A v \in Workers : ~Holds(v, j)
           \/ \E w \in Workers, final \in {"done", "queued", "error"} :
                /\ Ended(<<w, "current">>, j, final) /\ Holds(w, j) /\ ~Holds(w, j)'
                /\ status[j] = "running" /\ \A v \in Workers : Holds(v, j) => v = w
<1>1. Undisturbed(j)
  BY StillUndisturbed
<1>2. ~EndedByDebug(j) /\ ~Reset(j)
  BY <1>1 DEF EndedByDebug, Reset, ControlInv, Undisturbed
<1>3. /\ status[j] = "running" <=> \E w \in Workers : Holds(w, j)
      /\ \A v, w \in Workers : Holds(v, j) /\ Holds(w, j) => v = w
      /\ status[j] = "running" => lease[j] = "live"
  BY <1>1 DEF RunInv, ExclusiveUntilDisturbed, RunningIsLeased
<1>4. ASSUME NEW w \in Workers, Claimed(w, j)
      PROVE  /\ wpc'[w] = "working" /\ wjob'[w] = j
             /\ status[j] = "queued" /\ \A v \in Workers : ~Holds(v, j)
  <2>1. status[j] \in {"queued", "running"} /\ lease[j] # "live"
    BY <1>4 DEF Claimed, RowInv, ClaimStillValid
  <2>2. QED
    BY <1>3, <1>4, <2>1 DEF Claimed, Undisturbed
<1>5. ASSUME Expired(j) PROVE status[j] # "running"
  <2>1. ~(faults'[j] > 0)
    BY DEF Undisturbed
  <2>2. ~Heartbeated(j)
    BY <1>5, <2>1 DEF Expired
  <2>3. \A w \in Workers : ~Holds(w, j)
    BY <2>2 DEF Holds, Heartbeated, Executing
  <2>4. QED
    BY <1>3, <2>3
<1>6. ASSUME NEW h \in Handlers, NEW final \in {"done", "queued", "error"}, Ended(h, j, final)
      PROVE  \E w \in Workers :
                /\ Ended(<<w, "current">>, j, final) /\ Holds(w, j) /\ ~Holds(w, j)'
                /\ status[j] = "running" /\ \A v \in Workers : Holds(v, j) => v = w
  <2>1. PICK w \in Workers : h = <<w, "current">> /\ Holds(w, j) /\ ~Holds(w, j)'
    BY <1>1, <1>6, EndedByHolder
  <2>2. QED
    BY <1>3, <1>6, <2>1
<1>7. Touched(j)
  BY RowCases
<1>8. CASE \E w \in Workers : Claimed(w, j)
  BY <1>4, <1>8
<1>9. CASE \E h \in Handlers, final \in {"done", "queued", "error"} : Ended(h, j, final)
  BY <1>6, <1>9
<1>10. QED
  BY <1>2, <1>5, <1>7, <1>8, <1>9 DEF Touched

(***************************************************************************)
(* The worker loop of main.py and the handlers give every undisturbed      *)
(* running job exactly one holder with a live lease, and a result exactly  *)
(* when the job is done.                                                   *)
(***************************************************************************)
THEOREM RunsExclusive == Spec => []RunInv
<1>1. Init => RunInv
  BY DEF Init, RunInv, ExclusiveUntilDisturbed, RunningIsLeased, ResultIffDone, Holds
<1>2. /\ TypeOK /\ TypeOK' /\ ControlInv /\ ControlInv' /\ RowInv /\ RowInv' /\ RunInv
      /\ [Next]_vars
      => RunInv'
  <2> SUFFICES ASSUME TypeOK, TypeOK', ControlInv, ControlInv', RowInv, RowInv', RunInv,
                      [Next]_vars,
                      NEW j \in Jobs, Undisturbed(j)'
               PROVE  /\ status'[j] = "running" <=> \E w \in Workers : Holds(w, j)'
                      /\ \A v, w \in Workers : Holds(v, j)' /\ Holds(w, j)' => v = w
                      /\ status'[j] = "running" => lease'[j] = "live"
                      /\ hasResult'[j] <=> status'[j] = "done"
    BY DEF RunInv, ExclusiveUntilDisturbed, RunningIsLeased, ResultIffDone
  <2>1. Undisturbed(j)
    BY StillUndisturbed
  <2>2. /\ status[j] = "running" <=> \E w \in Workers : Holds(w, j)
        /\ \A v, w \in Workers : Holds(v, j) /\ Holds(w, j) => v = w
        /\ status[j] = "running" => lease[j] = "live"
        /\ hasResult[j] <=> status[j] = "done"
    BY <2>1 DEF RunInv, ExclusiveUntilDisturbed, RunningIsLeased, ResultIffDone
  <2>3. ASSUME NEW w \in Workers
        PROVE  /\ Holds(w, j)' => Holds(w, j) \/ Claimed(w, j)
               /\ Holds(w, j) => Holds(w, j)' \/ \E final : Ended(<<w, "current">>, j, final)
    BY HoldsCases
  <2>4. CASE Untouched(j) \/ Inserted(j) \/ Prolonged(j) \/ (Expired(j) /\ status[j] # "running")
    <3>1. ASSUME NEW w \in Workers PROVE ~Claimed(w, j)
      BY <2>4 DEF Untouched, Inserted, Prolonged, Expired, Claimed, TypeOK
    <3>2. ASSUME NEW w \in Workers, NEW final, Holds(w, j), Ended(<<w, "current">>, j, final)
          PROVE  FALSE
      <4>1. status[j] = "running" /\ lease[j] = "live"
        BY <2>2, <3>2
      <4>2. lease'[j] = "none"
        BY <3>2 DEF Ended
      <4>3. QED
        BY <2>4, <4>1, <4>2 DEF Untouched, Inserted, Prolonged, Expired
    <3>3. \A w \in Workers : Holds(w, j)' <=> Holds(w, j)
      BY <2>3, <3>1, <3>2
    <3>4. QED
      BY <2>2, <2>4, <3>3 DEF Untouched, Inserted, Prolonged, Expired
  <2>5. CASE \E w \in Workers :
                /\ Claimed(w, j) /\ wpc'[w] = "working" /\ wjob'[w] = j
                /\ status[j] = "queued" /\ \A v \in Workers : ~Holds(v, j)
    <3>1. PICK w \in Workers :
                /\ Claimed(w, j) /\ wpc'[w] = "working" /\ wjob'[w] = j
                /\ status[j] = "queued" /\ \A v \in Workers : ~Holds(v, j)
      BY <2>5
    <3>2. Holds(w, j)'
      BY <3>1 DEF Holds
    <3>3. ASSUME NEW v \in Workers, Holds(v, j)' PROVE v = w
      <4>1. Claimed(v, j)
        BY <2>3, <3>1, <3>3
      <4>2. wpc[v] = "claiming" /\ wjob[v] = j /\ wpc[w] = "claiming" /\ wjob[w] = j
        BY <3>1, <4>1 DEF Claimed
      <4>3. QED
        BY <4>2 DEF RowInv, ClaimStillValid
    <3>4. QED
      BY <2>2, <3>1, <3>2, <3>3 DEF Claimed
  <2>6. CASE \E w \in Workers, final \in {"done", "queued", "error"} :
                /\ Ended(<<w, "current">>, j, final) /\ Holds(w, j) /\ ~Holds(w, j)'
                /\ status[j] = "running" /\ \A v \in Workers : Holds(v, j) => v = w
    <3>1. PICK w \in Workers, final \in {"done", "queued", "error"} :
                /\ Ended(<<w, "current">>, j, final) /\ Holds(w, j) /\ ~Holds(w, j)'
                /\ status[j] = "running" /\ \A v \in Workers : Holds(v, j) => v = w
      BY <2>6
    <3>2. \A v \in Workers : ~Claimed(v, j)
      BY <3>1 DEF Ended, Claimed
    <3>3. \A v \in Workers : ~Holds(v, j)'
      BY <2>3, <3>1, <3>2
    <3>4. QED
      BY <2>2, <3>1, <3>3 DEF Ended
  <2>7. QED
    BY <2>4, <2>5, <2>6, UndisturbedCases
<1>3. QED
  BY <1>1, <1>2, TypeCorrect, Control, RowsSafe, PTL DEF Spec

(***************************************************************************)
(* No late FailJob or CompleteJob revives an undisturbed job that ended.   *)
(***************************************************************************)
THEOREM EndIsFinal == Spec => TerminalIsFinal
<1>1. TypeOK /\ TypeOK' /\ ControlInv /\ RowInv /\ RunInv /\ [Next]_vars
      => [\A j \in Jobs :
            status[j] \in Terminal /\ faults'[j] = 0 /\ Source[j] # "debug"
                => status'[j] = status[j]]_vars
  <2> SUFFICES ASSUME TypeOK, TypeOK', ControlInv, RowInv, RunInv, [Next]_vars,
                      NEW j \in Jobs,
                      status[j] \in Terminal, faults'[j] = 0, Source[j] # "debug"
               PROVE  status'[j] = status[j]
    OBVIOUS
  <2>1. Undisturbed(j)'
    BY DEF Undisturbed
  <2>2. QED
    BY <2>1, UndisturbedCases DEF Untouched, Inserted, Prolonged, Expired, Terminal
<1>2. QED
  BY <1>1, TypeCorrect, Control, RowsSafe, RunsExclusive, PTL DEF Spec, TerminalIsFinal

-----------------------------------------------------------------------------
(* The queue implements JobLifecycle.                                      *)

\* While a worker holds an undisturbed job, the attempts that FailJob read are current.
VerdictFresh(w) ==
    LET c == call[<<w, "current">>]
    IN  c.pc = "failUpdate" /\ Undisturbed(c.job) /\ c.verdict = "queued"
            => attempts[c.job] < MaxAttempts(c.job)

AttemptInv ==
    /\ \A w \in Workers : VerdictFresh(w)
    /\ \A j \in Jobs : Undisturbed(j) /\ status[j] = "queued"
            => attempts[j] = 0 \/ attempts[j] < MaxAttempts(j)

(***************************************************************************)
(* The attempts of an undisturbed job do not change while it is held.      *)
(***************************************************************************)
LEMMA HeldAttempts ==
    ASSUME TypeOK, TypeOK', ControlInv, RowInv, RunInv, [Next]_vars,
           NEW j \in Jobs, Undisturbed(j)', NEW w \in Workers, Holds(w, j)
    PROVE  attempts'[j] = attempts[j]
BY UndisturbedCases DEF Untouched, Inserted, Prolonged, Expired, Ended

(***************************************************************************)
(* FailJob puts an undisturbed job back in the queue only while it has     *)
(* attempts left, although it read them in an earlier statement.           *)
(***************************************************************************)
THEOREM AttemptsLeft == Spec => []AttemptInv
<1>1. Init => AttemptInv
  <2> SUFFICES ASSUME Init PROVE AttemptInv
    OBVIOUS
  <2>1. ASSUME NEW w \in Workers PROVE VerdictFresh(w)
    <3>1. call[<<w, "current">>].pc = "idle"
      BY HandlerIds DEF Init, IdleCall, Call
    <3>2. QED
      BY <3>1 DEF VerdictFresh
  <2>2. QED
    BY <2>1 DEF Init, AttemptInv
<1>2. /\ TypeOK /\ TypeOK' /\ ControlInv /\ ControlInv' /\ RowInv /\ RowInv' /\ RunInv /\ RunInv'
      /\ AttemptInv /\ [Next]_vars
      => AttemptInv'
  <2> SUFFICES ASSUME TypeOK, TypeOK', ControlInv, ControlInv', RowInv, RunInv, RunInv',
                      AttemptInv, [Next]_vars
               PROVE  AttemptInv'
    OBVIOUS
  <2>1. ASSUME NEW w \in Workers, NEW j \in Jobs, Undisturbed(j)',
               call'[<<w, "current">>].job = j, call'[<<w, "current">>].pc = "failUpdate",
               call'[<<w, "current">>].verdict = "queued"
        PROVE  attempts'[j] < MaxAttempts(j)
    <3> DEFINE h == <<w, "current">>
    <3>1. call'[h].job = j /\ call'[h].pc = "failUpdate" /\ call'[h].verdict = "queued"
      BY <2>1
    <3>2. h \in Handlers
      BY HandlerIds
    <3>4. Undisturbed(j)
      BY <2>1, StillUndisturbed
    <3>5. ASSUME NEW v \in Workers, call[<<v, "current">>].job = j,
                 call[<<v, "current">>].pc \in {"failRead", "failUpdate"}
          PROVE  attempts'[j] = attempts[j]
      <4>1. WorkerHasJob(v)
        BY DEF ControlInv
      <4>2. Holds(v, j)
        BY <3>5, <4>1 DEF WorkerHasJob, Holds, CompletePC
      <4>3. QED
        BY <2>1, <4>2, HeldAttempts
    <3>6. CASE \E g \in Handlers : call'[h] = call[g]
      <4>1. PICK g \in Handlers : call'[h] = call[g]
        BY <3>6
      <4>2. PICK v \in Workers : g = <<v, "current">> \/ g = <<v, "detached">>
        BY HandlerCases
      <4>3. g # <<v, "detached">>
        BY <3>1, <3>4, <4>1 DEF ControlInv, DetachedDisturbed, Undisturbed
      <4>4. attempts[j] < MaxAttempts(j)
        BY <3>1, <3>4, <4>1, <4>2, <4>3 DEF AttemptInv, VerdictFresh
      <4>5. attempts'[j] = attempts[j]
        BY <3>1, <3>5, <4>1, <4>2, <4>3
      <4>6. QED
        BY <4>4, <4>5
    <3>7. CASE FailRead(h) /\ call'[h].job = call[h].job /\ call'[h].verdict = Verdict(call[h].job)
      <4>1. attempts'[j] = attempts[j]
        BY <3>5, <3>7 DEF FailRead, At
      <4>2. attempts[j] < MaxAttempts(j)
        <5>1. ~(attempts[j] >= MaxAttempts(j))
          BY <3>1, <3>7 DEF Verdict
        <5>2. attempts[j] \in Nat /\ MaxAttempts(j) \in Int
          BY MaxAttemptsInt DEF TypeOK
        <5>3. QED
          BY <5>1, <5>2
      <4>3. QED
        BY <4>1, <4>2
    <3>8. QED
      BY <3>1, <3>2, <3>6, <3>7, VerdictCases
  <2>2. ASSUME NEW j \in Jobs, Undisturbed(j)', status'[j] = "queued"
        PROVE  attempts'[j] = 0 \/ attempts'[j] < MaxAttempts(j)
    <3>1. Undisturbed(j)
      BY <2>2, StillUndisturbed
    <3>2. CASE Untouched(j) \/ Prolonged(j) \/ Expired(j)
      BY <2>2, <3>1, <3>2 DEF AttemptInv, Untouched, Prolonged, Expired
    <3>3. CASE Inserted(j)
      BY <3>3 DEF Inserted, RowInv
    <3>4. ASSUME NEW w \in Workers, NEW final, Ended(<<w, "current">>, j, final)
          PROVE  attempts'[j] < MaxAttempts(j)
      BY <2>2, <3>1, <3>4 DEF Ended, AttemptInv, VerdictFresh
    <3>5. ASSUME NEW w \in Workers PROVE ~Claimed(w, j)
      BY <2>2 DEF Claimed
    <3>6. QED
      BY <2>2, <3>2, <3>3, <3>4, <3>5, UndisturbedCases
  <2>3. ASSUME NEW w \in Workers PROVE VerdictFresh(w)'
    <3>1. CASE call'[<<w, "current">>].pc # "failUpdate"
      BY <3>1 DEF VerdictFresh
    <3>2. CASE call'[<<w, "current">>].pc = "failUpdate"
      <4>1. PICK j \in Jobs : j = call'[<<w, "current">>].job
        <5>1. WorkerHasJob(w)' /\ wjob'[w] \in Jobs \cup {NoJob}
          BY DEF ControlInv, TypeOK
        <5>2. QED
          BY <3>2, <5>1 DEF WorkerHasJob
      <4>2. QED
        BY <2>1, <4>1 DEF VerdictFresh, Undisturbed, MaxAttempts
    <3>3. QED
      BY <3>1, <3>2
  <2>4. QED
    BY <2>2, <2>3 DEF AttemptInv, Undisturbed, MaxAttempts
<1>3. QED
  BY <1>1, <1>2, TypeCorrect, Control, RowsSafe, RunsExclusive, PTL DEF Spec

(***************************************************************************)
(* A step that changes the status of a job changes that of no other job,   *)
(* nor another's attempts: every UPDATE names its job.                     *)
(***************************************************************************)
LEMMA OneRow ==
    ASSUME TypeOK, [Next]_vars, NEW j \in Jobs, status'[j] # status[j]
    PROVE  \A i \in Jobs \ {j} : status'[i] = status[i] /\ attempts'[i] = attempts[i]
<1> DEFINE Goal == \A i \in Jobs \ {j} : status'[i] = status[i] /\ attempts'[i] = attempts[i]
<1>1. /\ status \in [Jobs -> {"absent", "queued", "running"} \cup Terminal]
      /\ attempts \in [Jobs -> Nat]
  BY DEF TypeOK
<1>2. ~UNCHANGED status
  OBVIOUS
<1>3. CASE Elsewhere
  <2>1. ASSUME NEW i \in Jobs, Insert(i) \/ DebugUpdate(i) PROVE Goal
    BY <1>1, <2>1 DEF Insert, DebugUpdate
  <2>2. CASE Submission
    BY <1>2, <2>1, <2>2 DEF Submission, SubmitJob, HandleJobs, HandleLLMRequest,
       HandleBenchmarkRun, HandleDebugTest, DebugGivesUp
  <2>3. QED
    BY <1>2, <1>3, <2>2 DEF Elsewhere, SendHeartbeat, Heartbeat, HeartbeatLost, LeaseExpires,
       HandleOfflineDevices, DeviceStep,
     DeviceStatusChanges, ProxyRecords, CoreRestarts, vars
<1>4. ASSUME NEW h \in Handlers, HandlerStep(h) PROVE Goal
  <2>1. CompleteUpdate(h) \/ FailUpdate(h)
    BY <1>2, <1>4, OtherStatements
  <2>2. QED
    BY <1>1, <2>1 DEF CompleteUpdate, FailUpdate, EndRun
<1>5. ASSUME NEW w \in Workers, ClaimCommit(w) \/ ClaimReplyLost(w) PROVE Goal
  BY <1>1, <1>5 DEF ClaimCommit, ClaimReplyLost, Commit
<1>6. ASSUME NEW w \in Workers,
             \/ RegisterWorker(w) \/ (\E i \in Jobs : ClaimSelect(w, i)) \/ ClaimRollback(w)
             \/ WorkReturns(w) \/ WorkRaises(w) \/ CompleteReturns(w) \/ FailReturns(w)
             \/ CompleteRaises(w) \/ FailRaises(w) \/ Crash(w) \/ DetachedEnds(w)
      PROVE  FALSE
  BY <1>2, <1>6 DEF RegisterWorker, ClaimSelect, ClaimRollback, WorkReturns, WorkRaises,
     CompleteReturns, FailReturns, CompleteRaises, FailRaises, Crash, DetachedEnds
<1>7. QED
  BY <1>3, <1>4, <1>5, <1>6, StepCases

(***************************************************************************)
(* A step that changes the status of an undisturbed job is no mishap.      *)
(***************************************************************************)
LEMMA OneMove ==
    ASSUME TypeOK, TypeOK', ControlInv, [Next]_vars,
           NEW j \in Jobs, Undisturbed(j)', status'[j] # status[j]
    PROVE  UNCHANGED faults
<1>1. status \in [Jobs -> {"absent", "queued", "running"} \cup Terminal] /\ ~UNCHANGED status
  BY DEF TypeOK
<1>2. CASE Elsewhere
  BY <1>1, <1>2 DEF Elsewhere, Submission, SubmitJob, HandleJobs, HandleLLMRequest,
     HandleBenchmarkRun, HandleDebugTest, Insert, DebugUpdate, DebugGivesUp, SendHeartbeat,
     Heartbeat, HeartbeatLost, LeaseExpires, HandleOfflineDevices, DeviceStep,
     DeviceStatusChanges, ProxyRecords, CoreRestarts, vars
<1>3. ASSUME NEW h \in Handlers, HandlerStep(h) PROVE UNCHANGED faults
  BY <1>1, <1>3, OtherStatements DEF CompleteUpdate, FailUpdate
<1>4. ASSUME NEW w \in Workers, ClaimReplyLost(w) PROVE FALSE
  <2>1. wjob[w] = j
    BY <1>1, <1>4 DEF ClaimReplyLost, Commit
  <2>2. faults'[j] > 0
    BY <1>4, <2>1, FaultCounts DEF ClaimReplyLost
  <2>3. QED
    BY <2>2 DEF Undisturbed
<1>5. QED
  BY <1>1, <1>2, <1>3, <1>4, StepCases DEF RegisterWorker, ClaimSelect, ClaimCommit,
     ClaimRollback, WorkReturns, WorkRaises, CompleteReturns, FailReturns, CompleteRaises,
     FailRaises, Crash, DetachedEnds

(***************************************************************************)
(* The detailed queue implements the life cycle it promises its clients.   *)
(***************************************************************************)
THEOREM QueueImplementsLifecycle == Spec => ImplementsLifecycle
<1>1. Init => Lifecycle!Init
  BY DEF Init, Lifecycle!Init
<1>2. /\ TypeOK /\ TypeOK' /\ ControlInv /\ RowInv /\ RunInv /\ AttemptInv /\ [Next]_vars
      => [Lifecycle!Next]_Lifecycle!vars
  <2> SUFFICES ASSUME TypeOK, TypeOK', ControlInv, RowInv, RunInv, AttemptInv, [Next]_vars
               PROVE  Lifecycle!Next
    OBVIOUS
  <2> DEFINE disturbed == {j \in Jobs : ~Undisturbed(j)}
             Allowed == [j \in Jobs |-> MaxAttempts(j)]
  <2>1. /\ status \in [Jobs -> {"absent", "queued", "running"} \cup Terminal]
        /\ status' \in [Jobs -> {"absent", "queued", "running"} \cup Terminal]
        /\ attempts \in [Jobs -> Nat] /\ attempts' \in [Jobs -> Nat]
    BY DEF TypeOK
  <2>2. CASE \E j \in Jobs : Undisturbed(j)' /\ status'[j] # status[j]
    <3>1. PICK j \in Jobs : Undisturbed(j)' /\ status'[j] # status[j]
      BY <2>2
    <3>2. Undisturbed(j) /\ j \notin disturbed
      BY <3>1, StillUndisturbed
    <3>3. UNCHANGED faults
      BY <3>1, OneMove
    <3>4. disturbed' = disturbed
      BY <3>3 DEF Undisturbed
    <3>5. /\ status' = [status EXCEPT ![j] = status'[j]]
          /\ attempts'[j] = attempts[j] => attempts' = attempts
          /\ attempts' = [attempts EXCEPT ![j] = attempts'[j]]
      BY <2>1, <3>1, OneRow
    <3>6. ASSUME Inserted(j) PROVE Lifecycle!Submit(j)
      BY <3>2, <3>4, <3>5, <3>6 DEF Inserted, Lifecycle!Submit, Lifecycle!Move
    <3>7. ASSUME NEW w \in Workers, Claimed(w, j), status[j] = "queued"
          PROVE  Lifecycle!Start(j)
      <4>1. attempts[j] = 0 \/ attempts[j] < Allowed[j]
        BY <3>2, <3>7 DEF AttemptInv
      <4>2. Lifecycle!Move(j, "queued", "running")
        BY <3>2, <3>4, <3>5, <3>7 DEF Claimed, Lifecycle!Move
      <4>3. attempts' = [attempts EXCEPT ![j] = attempts[j] + 1]
        BY <3>5, <3>7 DEF Claimed
      <4>4. QED
        BY <4>1, <4>2, <4>3 DEF Lifecycle!Start
    <3>8. ASSUME NEW w \in Workers, NEW final \in {"done", "queued", "error"},
                 Ended(<<w, "current">>, j, final), status[j] = "running"
          PROVE  Lifecycle!Finish(j) \/ Lifecycle!Retry(j) \/ Lifecycle!GiveUp(j)
      <4>1. Lifecycle!Move(j, "running", final) /\ attempts' = attempts
        BY <3>2, <3>4, <3>5, <3>8 DEF Ended, Lifecycle!Move
      <4>2. CASE final = "done"
        BY <4>1, <4>2 DEF Lifecycle!Finish
      <4>3. CASE final = "queued"
        <5>1. attempts[j] < Allowed[j]
          BY <3>2, <3>8, <4>3 DEF Ended, AttemptInv, VerdictFresh
        <5>2. QED
          BY <4>1, <4>3, <5>1 DEF Lifecycle!Retry
      <4>4. CASE final = "error"
        <5>1. attempts[j] >= Allowed[j]
          BY <3>8, <4>4, HandlerIds DEF Ended, RowInv, VerdictSound
        <5>2. QED
          BY <4>1, <4>4, <5>1 DEF Lifecycle!GiveUp
      <4>5. QED
        BY <3>8, <4>2, <4>3, <4>4
    <3>9. \/ Inserted(j) \/ (\E w \in Workers : Claimed(w, j) /\ status[j] = "queued")
          \/ \E w \in Workers, final \in {"done", "queued", "error"} :
                Ended(<<w, "current">>, j, final) /\ status[j] = "running"
      BY <3>1, UndisturbedCases DEF Untouched, Prolonged, Expired
    <3>10. QED
      BY <3>6, <3>7, <3>8, <3>9 DEF Lifecycle!Next
  <2>3. CASE \A j \in Jobs : Undisturbed(j)' => status'[j] = status[j]
    <3>1. disturbed \subseteq disturbed' /\ disturbed' \subseteq Jobs
      BY StillUndisturbed
    <3>2. ASSUME NEW j \in Jobs PROVE attempts'[j] \in {attempts[j], attempts[j] + 1}
      BY RowCases DEF Touched, Untouched, Inserted, EndedByDebug, Claimed, Expired, Prolonged,
         Reset, Ended
    <3>3. ASSUME NEW j \in Jobs, status'[j] = "error"
          PROVE  status[j] = "error" \/ attempts'[j] >= Allowed[j]
      <4>1. CASE \E h \in Handlers : Ended(h, j, "error")
        <5>1. attempts'[j] = attempts[j] /\ attempts[j] >= MaxAttempts(j)
          BY <4>1 DEF Ended, RowInv, VerdictSound
        <5>2. QED
          BY <5>1
      <4>2. CASE status[j] = "error"
        BY <4>2
      <4>3. QED
        BY <3>3, <4>1, <4>2, RowCases DEF Touched, Untouched, Inserted, EndedByDebug, Claimed,
           Expired, Prolonged, Reset, Ended
    <3>4. ASSUME NEW j \in Jobs, j \notin disturbed'
          PROVE  status'[j] = status[j] /\ attempts'[j] = attempts[j]
      <4>1. Undisturbed(j)' /\ status'[j] = status[j]
        BY <2>3, <3>4
      <4>2. QED
        BY <4>1, UndisturbedCases DEF Untouched, Inserted, Prolonged, Expired, Claimed, Ended
    <3>5. QED
      BY <3>1, <3>2, <3>3, <3>4 DEF Lifecycle!Next, Lifecycle!Disturbance
  <2>4. QED
    BY <2>2, <2>3
<1>3. QED
  BY <1>1, <1>2, TypeCorrect, Control, RowsSafe, RunsExclusive, AttemptsLeft, PTL
     DEF Spec, ImplementsLifecycle, Lifecycle!Spec

-----------------------------------------------------------------------------
(* The table jobs, as the streams see it.                                  *)

\* Whoever will write to a job's row, a debug handler or a worker's call, wrote
\* or selected it before.
PresentInv ==
    /\ \A w \in Workers :
        LET c == call[<<w, "detached">>]
        IN  /\ wjob[w] # NoJob => status[wjob[w]] # "absent"
            /\ c.pc # "idle" => status[c.job] # "absent"
    /\ \A j \in debugging : status[j] # "absent"

(***************************************************************************)
(* No statement deletes a row.                                             *)
(***************************************************************************)
LEMMA RowsStay ==
    ASSUME TypeOK, TypeOK', ControlInv, [Next]_vars, NEW j \in Jobs, status[j] # "absent"
    PROVE  status'[j] # "absent"
BY RowCases DEF Touched, Untouched, Inserted, EndedByDebug, Claimed, Expired, Prolonged, Reset,
   Ended

(***************************************************************************)
(* A worker has the job it had or one that its claim has just selected.    *)
(***************************************************************************)
LEMMA JobCases ==
    ASSUME TypeOK, ControlInv, [Next]_vars, NEW w \in Workers, wjob'[w] # NoJob
    PROVE  \/ wjob'[w] = wjob[w]
           \/ wjob'[w] \in Jobs /\ ClaimSelect(w, wjob'[w])
<1>1. wpc \in [Workers -> WorkerPC] /\ wjob \in [Workers -> Jobs \cup {NoJob}]
  BY DEF TypeOK
<1>2. CASE Elsewhere
  BY <1>2, ElsewhereKeeps
<1>3. CASE \E h \in Handlers : HandlerStep(h)
  BY <1>3, HandlerMoves
<1>4. ASSUME NEW v \in Workers, NEW i \in Jobs, ClaimSelect(v, i)
      PROVE  \/ wjob'[w] = wjob[w]
             \/ wjob'[w] \in Jobs /\ ClaimSelect(w, wjob'[w])
  <2>1. CASE v = w
    <3>1. wjob'[w] = i
      BY <1>1, <1>4, <2>1 DEF ClaimSelect
    <3>2. QED
      BY <1>4, <2>1, <3>1
  <2>2. CASE v # w
    BY <1>1, <1>4, <2>2 DEF ClaimSelect
  <2>3. QED
    BY <2>1, <2>2
<1>5. ASSUME NEW v \in Workers,
             \/ RegisterWorker(v) \/ ClaimCommit(v) \/ ClaimReplyLost(v) \/ ClaimRollback(v)
             \/ WorkReturns(v) \/ WorkRaises(v) \/ CompleteReturns(v) \/ FailReturns(v)
             \/ CompleteRaises(v) \/ FailRaises(v) \/ Crash(v) \/ DetachedEnds(v)
      PROVE  wjob'[w] = wjob[w]
  BY <1>1, <1>5 DEF RegisterWorker, ClaimCommit, ClaimReplyLost, ClaimRollback, WorkReturns,
     WorkRaises, CompleteReturns, FailReturns, CompleteRaises, FailRaises, Crash, DetachedEnds
<1>6. QED
  BY <1>2, <1>3, <1>4, <1>5, StepCases

(***************************************************************************)
(* A handler nobody waits for was running already, for the same job.       *)
(***************************************************************************)
LEMMA DetachedCases ==
    ASSUME TypeOK, ControlInv, [Next]_vars, NEW w \in Workers,
           call'[<<w, "detached">>].pc # "idle"
    PROVE  \E slot \in Slots : /\ call[<<w, slot>>].pc # "idle"
                               /\ call'[<<w, "detached">>].job = call[<<w, slot>>].job
<1> DEFINE old == call[<<w, "detached">>]
           new == call'[<<w, "detached">>]
           Goal == \E slot \in Slots : /\ call[<<w, slot>>].pc # "idle"
                                       /\ new.job = call[<<w, slot>>].job
<1>1. call \in [Handlers -> Calls] /\ "current" \in Slots /\ "detached" \in Slots
  BY DEF TypeOK, Slots
<1>2. SUFFICES \/ new = old
               \/ old.pc # "idle" /\ new.job = old.job
               \/ call[<<w, "current">>].pc # "idle" /\ new = call[<<w, "current">>]
  BY <1>1
<1>3. CASE Elsewhere
  BY <1>3, ElsewhereKeeps
<1>4. ASSUME NEW h \in Handlers, HandlerStep(h)
      PROVE  new = old \/ (old.pc # "idle" /\ new.job = old.job)
  BY <1>4, HandlerIds, HandlerMoves DEF CompletePC, FailPC
<1>5. ASSUME NEW v \in Workers,
             \/ RegisterWorker(v) \/ (\E j \in Jobs : ClaimSelect(v, j))
             \/ ClaimCommit(v) \/ ClaimReplyLost(v) \/ ClaimRollback(v)
             \/ WorkReturns(v) \/ WorkRaises(v) \/ CompleteReturns(v) \/ FailReturns(v)
      PROVE  new = old
  BY <1>1, <1>5, HandlerIds DEF RegisterWorker, ClaimSelect, ClaimCommit, ClaimReplyLost,
     ClaimRollback, Commit, WorkReturns, WorkRaises, CompleteReturns, FailReturns
<1>6. ASSUME NEW v \in Workers, DetachedEnds(v)
      PROVE  new = old
  <2>1. call' = [call EXCEPT ![<<v, "detached">>] = IdleCall] /\ IdleCall.pc = "idle"
    BY <1>6 DEF DetachedEnds, IdleCall, Call
  <2>2. QED
    BY <1>1, <2>1, HandlerIds
<1>7. ASSUME NEW v \in Workers, CompleteRaises(v) \/ FailRaises(v) \/ Crash(v)
      PROVE  new = old \/ (call[<<w, "current">>].pc # "idle" /\ new = call[<<w, "current">>])
  <2>1. PICK next : Abandon(v, next)
    BY <1>7 DEF CompleteRaises, FailRaises, Crash
  <2>2. QED
    BY <2>1, AbandonCalls
<1>8. QED
  BY <1>3, <1>4, <1>5, <1>6, <1>7, StepCases

(***************************************************************************)
(* The debug handlers under way: one starts with its INSERT.               *)
(***************************************************************************)
LEMMA DebugCases ==
    ASSUME TypeOK, ControlInv, [Next]_vars, NEW j \in debugging'
    PROVE  j \in debugging \/ (j \in Jobs /\ status'[j] = "queued")
<1>1. status \in [Jobs -> {"absent", "queued", "running"} \cup Terminal]
  BY DEF TypeOK
<1>2. CASE Submission
  BY <1>1, <1>2 DEF Submission, SubmitJob, HandleJobs, HandleLLMRequest, HandleBenchmarkRun,
     HandleDebugTest, DebugUpdate, DebugGivesUp, Insert
<1>3. CASE Elsewhere
  BY <1>2, <1>3 DEF Elsewhere, SendHeartbeat, Heartbeat, HeartbeatLost, LeaseExpires,
     HandleOfflineDevices, DeviceStep,
     DeviceStatusChanges, ProxyRecords, CoreRestarts, vars
<1>4. CASE \E h \in Handlers : HandlerStep(h)
  BY <1>4, HandlerMoves
<1>5. CASE ~Elsewhere /\ ~\E h \in Handlers : HandlerStep(h)
  BY <1>5, StepCases DEF RegisterWorker, ClaimSelect, ClaimCommit, ClaimReplyLost, ClaimRollback,
     Commit, WorkReturns, WorkRaises, CompleteReturns, FailReturns, CompleteRaises, FailRaises,
     Crash, DetachedEnds
<1>6. QED
  BY <1>3, <1>4, <1>5

(***************************************************************************)
(* Nobody works on, or will write to, a job that has not been inserted,    *)
(* whatever befalls the job.                                               *)
(***************************************************************************)
THEOREM WorkIsOnRows == Spec => []PresentInv
<1>1. Init => PresentInv
  <2> SUFFICES ASSUME Init PROVE PresentInv
    OBVIOUS
  <2>1. ASSUME NEW w \in Workers PROVE wjob[w] = NoJob /\ call[<<w, "detached">>].pc = "idle"
    BY <2>1, HandlerIds DEF Init, IdleCall, Call
  <2>2. QED
    BY <2>1 DEF Init, PresentInv
<1>2. TypeOK /\ TypeOK' /\ ControlInv /\ PresentInv /\ [Next]_vars => PresentInv'
  <2> SUFFICES ASSUME TypeOK, TypeOK', ControlInv, PresentInv, [Next]_vars PROVE PresentInv'
    OBVIOUS
  <2>1. wjob \in [Workers -> Jobs \cup {NoJob}] /\ debugging \in SUBSET Jobs
    BY DEF TypeOK
  <2>2. ASSUME NEW w \in Workers, wjob'[w] # NoJob PROVE status'[wjob'[w]] # "absent"
    <3>1. CASE wjob'[w] = wjob[w]
      <4>1. wjob[w] \in Jobs /\ status[wjob[w]] # "absent"
        BY <2>1, <2>2, <3>1 DEF PresentInv
      <4>2. QED
        BY <3>1, <4>1, RowsStay
    <3>2. CASE wjob'[w] \in Jobs /\ ClaimSelect(w, wjob'[w])
      BY <3>2 DEF ClaimSelect, Eligible, HttpEligible, GrpcEligible
    <3>3. QED
      BY <2>2, <3>1, <3>2, JobCases
  <2>3. ASSUME NEW w \in Workers, call'[<<w, "detached">>].pc # "idle"
        PROVE  status'[call'[<<w, "detached">>].job] # "absent"
    <3>1. PICK slot \in Slots : /\ call[<<w, slot>>].pc # "idle"
                                /\ call'[<<w, "detached">>].job = call[<<w, slot>>].job
      BY <2>3, DetachedCases
    <3>2. CASE slot = "current"
      <4>1. /\ call[<<w, slot>>].job = wjob[w] /\ wjob[w] \in Jobs
            /\ status[wjob[w]] # "absent"
        BY <2>1, <3>1, <3>2 DEF ControlInv, WorkerHasJob, PresentInv
      <4>2. QED
        BY <3>1, <4>1, RowsStay
    <3>3. CASE slot = "detached"
      <4>1. call[<<w, slot>>].job \in Jobs /\ status[call[<<w, slot>>].job] # "absent"
        BY <3>1, <3>3 DEF ControlInv, DetachedDisturbed, PresentInv
      <4>2. QED
        BY <3>1, <4>1, RowsStay
    <3>4. QED
      BY <3>1, <3>2, <3>3 DEF Slots
  <2>4. ASSUME NEW j \in debugging' PROVE status'[j] # "absent"
    BY <2>1, DebugCases, RowsStay DEF PresentInv
  <2>5. QED
    BY <2>2, <2>3, <2>4 DEF PresentInv
<1>3. QED
  BY <1>1, <1>2, TypeCorrect, Control, PTL DEF Spec

(***************************************************************************)
(* What a step can make of the status of a job.                            *)
(***************************************************************************)
LEMMA StatusCases ==
    ASSUME TypeOK, TypeOK', ControlInv, PresentInv, [Next]_vars,
           NEW j \in Jobs, status'[j] # status[j]
    PROVE  \/ status[j] = "absent" /\ status'[j] = "queued"
           \/ status[j] # "absent" /\ status'[j] \in Table!Statuses
<1>1. wjob \in [Workers -> Jobs \cup {NoJob}] /\ NoJob # j
  BY DEF TypeOK
<1>2. ASSUME NEW w \in Workers, Claimed(w, j) PROVE status[j] # "absent"
  BY <1>1, <1>2 DEF Claimed, PresentInv
<1>3. ASSUME EndedByDebug(j) PROVE status[j] # "absent"
  BY <1>3 DEF EndedByDebug, PresentInv
<1>4. ASSUME NEW h \in Handlers, NEW final, Ended(h, j, final) PROVE status[j] # "absent"
  <2>1. PICK w \in Workers : h = <<w, "current">> \/ h = <<w, "detached">>
    BY HandlerCases
  <2>2. call[h].pc # "idle" /\ call[h].job = j
    BY <1>4 DEF Ended
  <2>3. CASE h = <<w, "current">>
    <3>1. wjob[w] = j
      BY <2>2, <2>3 DEF ControlInv, WorkerHasJob
    <3>2. QED
      BY <1>1, <3>1 DEF PresentInv
  <2>4. CASE h = <<w, "detached">>
    BY <2>2, <2>4 DEF PresentInv
  <2>5. QED
    BY <2>1, <2>3, <2>4
<1>5. QED
  BY <1>2, <1>3, <1>4, RowCases DEF Touched, Untouched, Inserted, EndedByDebug, Claimed, Expired,
     Prolonged, Reset, Ended, Table!Statuses, Table!Terminal

(***************************************************************************)
(* The queue keeps to the interface of the table jobs: the streams that    *)
(* JobStream composes with any such table run correctly beside this one.   *)
(***************************************************************************)
THEOREM QueueImplementsTable == Spec => ImplementsTable
<1>1. Init => Table!Init
  BY DEF Init, Table!Init
<1>2. TypeOK /\ TypeOK' /\ ControlInv /\ PresentInv /\ [Next]_vars => [Table!Next]_status
  <2> SUFFICES ASSUME TypeOK, TypeOK', ControlInv, PresentInv, [Next]_vars, status' # status
               PROVE  Table!Next
    OBVIOUS
  <2>1. /\ status \in [Jobs -> {"absent", "queued", "running"} \cup Terminal]
        /\ status' \in [Jobs -> {"absent", "queued", "running"} \cup Terminal]
    BY DEF TypeOK
  <2>2. PICK j \in Jobs : status'[j] # status[j]
    BY <2>1
  <2>3. status' = [status EXCEPT ![j] = status'[j]]
    BY <2>1, <2>2, OneRow
  <2>4. CASE status[j] = "absent" /\ status'[j] = "queued"
    BY <2>3, <2>4 DEF Table!Next, Table!Insert
  <2>5. CASE status[j] # "absent" /\ status'[j] \in Table!Statuses
    <3>1. Table!Update(j, status'[j])
      BY <2>2, <2>3, <2>5 DEF Table!Update
    <3>2. QED
      BY <2>5, <3>1 DEF Table!Next
  <2>6. QED
    BY <2>2, <2>4, <2>5, StatusCases
<1>3. QED
  BY <1>1, <1>2, TypeCorrect, Control, WorkIsOnRows, PTL DEF Spec, ImplementsTable, Table!Spec

-----------------------------------------------------------------------------
(* The invariants of the runs, one by one.                                 *)

(***************************************************************************)
(* ClaimJob and HandleWorkerClaim: no other statement makes a selected row *)
(* unclaimable before the commit, and no job is claimed twice at a time.   *)
(***************************************************************************)
THEOREM ClaimsStayValid == Spec => []ClaimStillValid
BY RowsSafe, PTL DEF RowInv

(***************************************************************************)
(* Heartbeat renews no lease of a job that has ended.                      *)
(***************************************************************************)
THEOREM LeasesEnd == Spec => []LeaseOnlyWhileRunning
BY RowsSafe, PTL DEF RowInv

(***************************************************************************)
(* FailJob, for all its stale reads, ends no job that has attempts left.   *)
(***************************************************************************)
THEOREM ErrorsAreExhausted == Spec => []ErrorMeansExhausted
BY RowsSafe, PTL DEF RowInv

(***************************************************************************)
(* An undisturbed job runs exactly when one worker holds it.               *)
(***************************************************************************)
THEOREM RunsAreExclusive == Spec => []ExclusiveUntilDisturbed
BY RunsExclusive, PTL DEF RunInv

(***************************************************************************)
(* An undisturbed job has a result exactly when it is done.                *)
(***************************************************************************)
THEOREM ResultsMatch == Spec => []ResultIffDone
BY RunsExclusive, PTL DEF RunInv
=============================================================================
