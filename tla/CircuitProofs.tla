---------------------------- MODULE CircuitProofs ----------------------------
(***************************************************************************)
(* The circuit breaker against the history in job_attempts, for every set  *)
(* of jobs, workers and devices: theorems about JobQueue.                  *)
(***************************************************************************)
EXTENDS JobCountProofs

USE DEF jobVars, circuitVars, deviceVars, workerVars

(***************************************************************************)
(* Nothing has gone wrong on d; nothing has succeeded there or emptied its *)
(* circuit.                                                                *)
(***************************************************************************)
Quiet(d) == \A j \in Jobs : On[j] = d => Undisturbed(j)

Fresh(d) == Ran(d, "done") = {} /\ d \notin emptied

(***************************************************************************)
(* A failed run gets its row before the breaker hears of it: FailJob of    *)
(* these workers is between the two.                                       *)
(***************************************************************************)
Pending(d) ==
    {w \in Workers : /\ call[<<w, "current">>].pc = "failCircuit"
                     /\ On[call[<<w, "current">>].job] = d}

Capped(n) == IF n < CircuitThreshold THEN n ELSE CircuitThreshold

\* What the breaker can have heard of: failed runs that were reported, and proxies.
Told(d) == Cardinality(Ran(d, "error")) - Cardinality(Pending(d)) + proxied[d]

Counted(d) == Quiet(d) =>
    /\ IsFiniteSet(Ran(d, "error")) /\ IsFiniteSet(Pending(d))
    /\ Cardinality(Pending(d)) <= Cardinality(Ran(d, "error"))
    /\ failures[d] <= Told(d)
    /\ Fresh(d) => failures[d] = Capped(Told(d))

HasDone(j) == \E i \in 1..Len(rows[j]) : rows[j][i] = "done"

\* CompleteJob records a success with the breaker only after it closed a row in done.
Succeeded(w) ==
    LET c == call[<<w, "current">>]
    IN  c.pc \in {"completeCost", "completeCircuit"} /\ Undisturbed(c.job) => HasDone(c.job)

HistoryInv ==
    /\ \A w \in Workers : Succeeded(w)
    /\ HttpWorkers = Workers => \A d \in Devices : Counted(d)
-----------------------------------------------------------------------------
(* The rows of a device. *)

(***************************************************************************)
(* What Ran holds, before and after a step: the rows, with a given status, *)
(* of the jobs of d.                                                       *)
(***************************************************************************)
LEMMA RanRows ==
    ASSUME NEW d, NEW final, NEW x
    PROVE  /\ x \in Ran(d, final) <=>
                \E j \in Jobs : \E i \in 1..Len(rows[j]) :
                    On[j] = d /\ rows[j][i] = final /\ x = <<j, i>>
           /\ x \in Ran(d, final)' <=>
                \E j \in Jobs : \E i \in 1..Len(rows'[j]) :
                    On[j] = d /\ rows'[j][i] = final /\ x = <<j, i>>
<1> DEFINE of(r, j) == {j} \X {i \in 1..Len(r[j]) : r[j][i] = final}
<1>1. /\ x \in Ran(d, final) <=> \E j \in Jobs : On[j] = d /\ x \in of(rows, j)
      /\ x \in Ran(d, final)' <=> \E j \in Jobs : On[j] = d /\ x \in of(rows', j)
  BY DEF Ran
<1>2. \A r : \A j \in Jobs : x \in of(r, j) <=>
        \E i \in 1..Len(r[j]) : r[j][i] = final /\ x = <<j, i>>
  OBVIOUS
<1> HIDE DEF of
<1>3. QED
  BY <1>1, <1>2

(***************************************************************************)
(* A step that leaves the rows of the jobs of d alone.                     *)
(***************************************************************************)
LEMMA KeptRan ==
    ASSUME NEW d, NEW final, \A j \in Jobs : On[j] = d => rows'[j] = rows[j]
    PROVE  Ran(d, final)' = Ran(d, final)
<1>1. \A x : x \in Ran(d, final)' <=> x \in Ran(d, final)
  BY RanRows
<1>2. QED
  BY <1>1

(***************************************************************************)
(* A claim adds a row, but none in done or error.                          *)
(***************************************************************************)
LEMMA OpenedRan ==
    ASSUME TypeOK, NEW k \in Jobs, rows' = [rows EXCEPT ![k] = Append(@, "running")],
           NEW d, NEW final \in {"done", "error"}
    PROVE  Ran(d, final)' = Ran(d, final)
<1>1. /\ rows \in [Jobs -> Seq(RowStatus)] /\ rows[k] \in Seq(RowStatus)
      /\ Len(rows[k]) \in Nat
  BY DEF TypeOK
<1>2. /\ \A j \in Jobs \ {k} : rows'[j] = rows[j]
      /\ rows'[k] = Append(rows[k], "running")
  BY <1>1
<1>3. ASSUME NEW i
      PROVE  /\ i \in 1..Len(rows'[k]) /\ rows'[k][i] = final
             <=> i \in 1..Len(rows[k]) /\ rows[k][i] = final
  <2>1. /\ Len(rows'[k]) = Len(rows[k]) + 1 /\ rows'[k][Len(rows[k]) + 1] = "running"
        /\ \A n \in 1..Len(rows[k]) : rows'[k][n] = rows[k][n]
    BY <1>1, <1>2
  <2>2. i \in 1..(Len(rows[k]) + 1) <=> i \in 1..Len(rows[k]) \/ i = Len(rows[k]) + 1
    BY <1>1
  <2>3. QED
    BY <2>1, <2>2
<1>4. \A x : x \in Ran(d, final)' <=> x \in Ran(d, final)
  BY <1>2, <1>3, RanRows
<1>5. QED
  BY <1>4

(***************************************************************************)
(* Closing a row of k that is in running adds one row with the final       *)
(* status to those of k's device, and takes away none.                     *)
(***************************************************************************)
LEMMA ClosedRan ==
    ASSUME TypeOK, NEW k \in Jobs, NEW final \in {"done", "error"},
           CloseNewestRow(k, final), Running(k) # {}
    PROVE  \E x : /\ x \notin Ran(On[k], final)
                  /\ \A other \in {"done", "error"} : Ran(On[k], other)' =
                        IF other = final THEN Ran(On[k], other) \cup {x}
                                         ELSE Ran(On[k], other)
<1> DEFINE n == Len(rows[k])
           m == Max(Running(k))
<1>1. /\ rows \in [Jobs -> Seq(RowStatus)] /\ n \in Nat
  BY RowFacts DEF TypeOK
<1>2. m \in Running(k)
  BY <1>1, MaxExists DEF Running
<1> HIDE DEF m
<1>3. m \in 1..n /\ rows[k][m] = "running"
  BY <1>2 DEF Running
<1>4. rows' = Close(k, m, final)
  BY DEF CloseNewestRow, Running, m
<1>5. /\ \A j \in Jobs \ {k} : rows'[j] = rows[j]
      /\ rows'[k] = [i \in 1..n |-> IF i = m THEN final ELSE rows[k][i]]
  BY <1>1, <1>4 DEF Close
<1>6. Len(rows'[k]) = n
  BY <1>1, <1>5
<1> HIDE DEF n
<1>7. <<k, m>> \notin Ran(On[k], final)
  <2>1. \A j \in Jobs : \A i : <<k, m>> = <<j, i>> => rows[j][i] = "running"
    BY <1>3
  <2>2. QED
    BY <2>1, RanRows
<1>8. ASSUME NEW other \in {"done", "error"}, NEW x
      PROVE  x \in Ran(On[k], other)' <=>
                x \in Ran(On[k], other) \/ (other = final /\ x = <<k, m>>)
  <2>1. \A i : /\ i \in 1..Len(rows'[k]) /\ rows'[k][i] = other
              <=> \/ i \in 1..Len(rows[k]) /\ rows[k][i] = other
                  \/ other = final /\ i = m
    BY <1>3, <1>5, <1>6 DEF n
  <2>2. x \in Ran(On[k], other)' <=>
          \E j \in Jobs : \E i : /\ i \in 1..Len(rows'[j]) /\ rows'[j][i] = other
                                /\ On[j] = On[k] /\ x = <<j, i>>
    BY RanRows
  <2>3. x \in Ran(On[k], other) <=>
          \E j \in Jobs : \E i : /\ i \in 1..Len(rows[j]) /\ rows[j][i] = other
                                /\ On[j] = On[k] /\ x = <<j, i>>
    BY RanRows
  <2>4. \A j \in Jobs : j # k => \A i :
          /\ i \in 1..Len(rows'[j]) /\ rows'[j][i] = other
          <=> i \in 1..Len(rows[j]) /\ rows[j][i] = other
    BY <1>5
  <2>5. QED
    BY <2>1, <2>2, <2>3, <2>4
<1>9. \A other \in {"done", "error"} : Ran(On[k], other)' =
        IF other = final THEN Ran(On[k], other) \cup {<<k, m>>} ELSE Ran(On[k], other)
  <2> SUFFICES ASSUME NEW other \in {"done", "error"}
               PROVE  Ran(On[k], other)' = IF other = final
                        THEN Ran(On[k], other) \cup {<<k, m>>} ELSE Ran(On[k], other)
    OBVIOUS
  <2>1. CASE other = final
    BY <1>8, <2>1
  <2>2. CASE other # final
    BY <1>8, <2>2
  <2>3. QED
    BY <2>1, <2>2
<1>10. QED
  BY <1>7, <1>9

(***************************************************************************)
(* A row that is closed in done is there.                                  *)
(***************************************************************************)
LEMMA ClosedHere ==
    ASSUME TypeOK, NEW k \in Jobs, CloseNewestRow(k, "done"), Running(k) # {}
    PROVE  HasDone(k)'
<1> DEFINE m == Max(Running(k))
<1>1. rows \in [Jobs -> Seq(RowStatus)] /\ Len(rows[k]) \in Nat
  BY RowFacts DEF TypeOK
<1>2. m \in 1..Len(rows[k])
  BY <1>1, MaxExists DEF Running
<1>3. rows' = Close(k, m, "done")
  BY DEF CloseNewestRow, Running
<1> HIDE DEF m
<1>4. rows'[k] = [i \in 1..Len(rows[k]) |-> IF i = m THEN "done" ELSE rows[k][i]]
  BY <1>1, <1>3 DEF Close
<1>5. Len(rows'[k]) = Len(rows[k]) /\ rows'[k][m] = "done"
  BY <1>1, <1>2, <1>4
<1>6. QED
  BY <1>2, <1>5 DEF HasDone

(***************************************************************************)
(* A row in done stays in done.                                            *)
(***************************************************************************)
LEMMA DoneStays ==
    ASSUME TypeOK, NEW j \in Jobs, RowStep(j), HasDone(j)
    PROVE  HasDone(j)'
<1>1. /\ rows \in [Jobs -> Seq(RowStatus)] /\ rows[j] \in Seq(RowStatus)
      /\ Len(rows[j]) \in Nat
  BY DEF TypeOK
<1>2. PICK i \in 1..Len(rows[j]) : rows[j][i] = "done"
  BY DEF HasDone
<1>3. CASE RowsKept(j)
  BY <1>2, <1>3 DEF RowsKept, HasDone
<1>4. CASE RowOpened(j)
  <2>1. Len(rows'[j]) = Len(rows[j]) + 1 /\ rows'[j][i] = rows[j][i]
    BY <1>1, <1>2, <1>4 DEF RowOpened
  <2>2. i \in 1..Len(rows'[j])
    BY <1>1, <1>2, <2>1
  <2>3. QED
    BY <1>2, <2>1, <2>2 DEF HasDone
<1>5. CASE RowClosed(j)
  <2>1. PICK final \in {"done", "error"} : CloseNewestRow(j, final)
    BY <1>5 DEF RowClosed
  <2>2. CASE Running(j) = {}
    BY <1>2, <2>1, <2>2 DEF CloseNewestRow, Running, HasDone
  <2>3. CASE Running(j) # {}
    <3>1. rows' = Close(j, Max(Running(j)), final)
      BY <2>1, <2>3 DEF CloseNewestRow, Running
    <3>2. Max(Running(j)) \in Running(j)
      BY <1>1, <2>3, MaxExists DEF Running
    <3> DEFINE m == Max(Running(j))
    <3> HIDE DEF m
    <3>3. rows[j][m] = "running"
      BY <3>2 DEF Running, m
    <3>4. rows'[j] = [k \in 1..Len(rows[j]) |-> IF k = m THEN final ELSE rows[j][k]]
      BY <1>1, <3>1 DEF Close, m
    <3>5. Len(rows'[j]) = Len(rows[j])
      BY <1>1, <3>4
    <3>6. QED
      BY <1>2, <3>3, <3>4, <3>5 DEF HasDone
  <2>4. QED
    BY <2>2, <2>3
<1>6. QED
  BY <1>3, <1>4, <1>5 DEF RowStep

(***************************************************************************)
(* That a circuit has been emptied is not forgotten.                       *)
(***************************************************************************)
LEMMA EmptiedGrows ==
    ASSUME TypeOK, [Next]_vars
    PROVE  emptied \subseteq emptied'
<1>1. CASE Submission
  BY <1>1 DEF Submission, SubmitJob, HandleJobs, HandleLLMRequest, HandleBenchmarkRun,
     HandleDebugTest, DebugUpdate, DebugGivesUp, Insert
<1>2. CASE Elsewhere /\ ~Submission
  <2>1. emptied \subseteq Devices
    BY DEF TypeOK
  <2>2. QED
    BY <1>2, <2>1 DEF Elsewhere, SendHeartbeat, Heartbeat, HeartbeatLost, LeaseExpires,
       HandleOfflineDevices, DeviceStep, DeviceStatusChanges, ProxyRecords, CoreRestarts, vars
<1>3. CASE \E h \in Handlers : HandlerStep(h)
  BY <1>3 DEF HandlerStep, CompleteUpdate, CompleteRows, RecordCost, CompleteCircuit, FailRead,
     FailUpdate, FailRows, FailCircuit, StatementFails
<1>4. CASE ~Elsewhere /\ ~\E h \in Handlers : HandlerStep(h)
  BY <1>4, StepCases DEF RegisterWorker, ClaimSelect, ClaimCommit, ClaimReplyLost, ClaimRollback,
     Commit, WorkReturns, WorkRaises, CompleteReturns, FailReturns, CompleteRaises, FailRaises,
     Crash, DetachedEnds
<1>5. QED
  BY <1>1, <1>2, <1>3, <1>4

(***************************************************************************)
(* A device that is quiet, or fresh, after a step was so before it.        *)
(***************************************************************************)
LEMMA WasFresh ==
    ASSUME TypeOK, TypeOK', ControlInv, [Next]_vars, \A j \in Jobs : RowStep(j), NEW d
    PROVE  /\ Quiet(d)' => Quiet(d)
           /\ Fresh(d)' => Fresh(d)
<1>1. Quiet(d)' => Quiet(d)
  BY StillUndisturbed DEF Quiet
<1>2. ASSUME Ran(d, "done")' = {}, NEW x \in Ran(d, "done") PROVE FALSE
  <2>1. PICK j \in Jobs : On[j] = d /\ HasDone(j)
    BY <1>2, RanRows DEF HasDone
  <2>2. HasDone(j)'
    BY <2>1, DoneStays
  <2>3. PICK i \in 1..Len(rows'[j]) : rows'[j][i] = "done"
    BY <2>2 DEF HasDone
  <2>4. <<j, i>> \in Ran(d, "done")'
    BY <2>1, <2>3, RanRows
  <2>5. QED
    BY <1>2, <2>4
<1>3. emptied \subseteq emptied'
  BY EmptiedGrows
<1>4. QED
  BY <1>1, <1>2, <1>3 DEF Fresh
-----------------------------------------------------------------------------
(* The steps. *)

(***************************************************************************)
(* Nothing that Counted speaks of changes, or d is quiet no more.          *)
(***************************************************************************)
LEMMA SameCount ==
    ASSUME NEW d \in Devices, Counted(d), Quiet(d)' => Quiet(d), Fresh(d)' => Fresh(d),
           Quiet(d)' => /\ Ran(d, "error")' = Ran(d, "error")
                        /\ Pending(d)' = Pending(d)
                        /\ failures'[d] = failures[d] /\ proxied'[d] = proxied[d]
    PROVE  Counted(d)'
BY DEF Counted, Capped, Told

(***************************************************************************)
(* A handler that runs has a job.                                          *)
(***************************************************************************)
LEMMA ActiveJob ==
    ASSUME TypeOK, ControlInv, NEW h \in Handlers, HandlerStep(h)
    PROVE  call[h].job \in Jobs
<1>1. call[h].pc # "idle"
  BY HandlerMoves DEF CompletePC, FailPC
<1>2. PICK w \in Workers : h = <<w, "current">> \/ h = <<w, "detached">>
  BY HandlerCases
<1>3. WorkerHasJob(w) /\ DetachedDisturbed(w)
  BY DEF ControlInv
<1>4. CASE h = <<w, "current">>
  <2>1. wpc[w] \notin {"down", "idle"} /\ call[h].job = wjob[w]
    BY <1>1, <1>3, <1>4 DEF WorkerHasJob
  <2>2. wjob[w] # NoJob /\ wjob[w] \in Jobs \cup {NoJob}
    BY <1>3, <2>1 DEF WorkerHasJob, TypeOK
  <2>3. QED
    BY <2>1, <2>2
<1>5. CASE h = <<w, "detached">>
  BY <1>1, <1>3, <1>5 DEF DetachedDisturbed
<1>6. QED
  BY <1>2, <1>4, <1>5

(***************************************************************************)
(* A proxy's failure is counted on both sides; a proxy's success and a     *)
(* restart leave nothing that could be too much.                           *)
(***************************************************************************)
LEMMA DeviceCounts ==
    ASSUME TypeOK, TypeOK', DeviceStep, NEW d \in Devices, Counted(d),
           Quiet(d)' => Quiet(d), Fresh(d)' => Fresh(d),
           Ran(d, "error")' = Ran(d, "error"), Pending(d)' = Pending(d)
    PROVE  Counted(d)'
<1> SUFFICES ASSUME Quiet(d)' PROVE Counted(d)'
  BY DEF Counted
<1> DEFINE told == Cardinality(Ran(d, "error")) - Cardinality(Pending(d))
<1>1. /\ IsFiniteSet(Ran(d, "error")) /\ IsFiniteSet(Pending(d))
      /\ Cardinality(Pending(d)) <= Cardinality(Ran(d, "error"))
      /\ told \in Nat
      /\ failures[d] <= told + proxied[d]
      /\ Fresh(d) => failures[d] = Capped(told + proxied[d])
  <2>1. IsFiniteSet(Ran(d, "error")) /\ IsFiniteSet(Pending(d))
    BY DEF Counted
  <2>2. Cardinality(Ran(d, "error")) \in Nat /\ Cardinality(Pending(d)) \in Nat
    BY <2>1, FS_CardinalityType
  <2>3. QED
    BY <2>1, <2>2 DEF Counted, Told
<1>2. /\ failures[d] \in 0..CircuitThreshold /\ proxied[d] \in Nat /\ proxied'[d] \in Nat
      /\ CircuitThreshold \in Nat
      /\ failures \in [Devices -> 0..CircuitThreshold] /\ proxied \in [Devices -> Nat]
  BY BoundsAssumption DEF TypeOK
<1> DEFINE same == failures'[d] = failures[d] /\ proxied'[d] = proxied[d]
           empty == failures'[d] = 0 /\ ~Fresh(d)'
           one == failures'[d] = Failed(d) /\ proxied'[d] = proxied[d] + 1
<1>3. same \/ empty \/ one
  <2>1. ASSUME NEW e \in Devices, DeviceStatusChanges(e) PROVE same
    BY <2>1 DEF DeviceStatusChanges
  <2>2. ASSUME NEW e \in Devices, ProxyRecords(e) PROVE same \/ empty \/ one
    <3>1. CASE e = d
      BY <1>2, <2>2, <3>1 DEF ProxyRecords, Fresh
    <3>2. CASE e # d
      BY <1>2, <2>2, <3>2 DEF ProxyRecords
    <3>3. QED
      BY <3>1, <3>2
  <2>3. CASE CoreRestarts
    BY <1>2, <2>3 DEF CoreRestarts, Fresh
  <2>4. QED
    BY <2>1, <2>2, <2>3 DEF DeviceStep
<1>4. /\ failures'[d] <= told + proxied'[d]
      /\ Fresh(d)' => failures'[d] = Capped(told + proxied'[d])
  <2> HIDE DEF told
  <2>1. CASE same
    BY <1>1, <2>1
  <2>2. CASE empty
    BY <1>1, <1>2, <2>2
  <2>3. CASE one
    BY <1>1, <1>2, <2>3 DEF Failed, Capped
  <2>4. QED
    BY <1>3, <2>1, <2>2, <2>3
<1>5. Told(d)' = told + proxied'[d]
  BY DEF Told
<1>6. QED
  BY <1>1, <1>4, <1>5 DEF Counted, Capped

(***************************************************************************)
(* Steps that move no worker and no handler.                               *)
(***************************************************************************)
LEMMA ElsewhereCounts ==
    ASSUME TypeOK, TypeOK', Elsewhere, NEW d \in Devices, Counted(d),
           Quiet(d)' => Quiet(d), Fresh(d)' => Fresh(d)
    PROVE  Counted(d)'
<1>1. UNCHANGED call
  BY ElsewhereKeeps
<1>2. rows' = rows
  <2>1. CASE Submission
    BY <2>1 DEF Submission, SubmitJob, HandleJobs, HandleLLMRequest, HandleBenchmarkRun,
       HandleDebugTest, DebugUpdate, DebugGivesUp, Insert
  <2>2. CASE ~Submission
    BY <2>2 DEF Elsewhere, SendHeartbeat, Heartbeat, HeartbeatLost, LeaseExpires,
       HandleOfflineDevices, DeviceStep, DeviceStatusChanges, ProxyRecords, CoreRestarts, vars
  <2>3. QED
    BY <2>1, <2>2
<1>3. Ran(d, "error")' = Ran(d, "error") /\ Pending(d)' = Pending(d)
  BY <1>1, <1>2, KeptRan DEF Pending
<1>4. CASE failures'[d] = failures[d] /\ proxied'[d] = proxied[d]
  BY <1>3, <1>4, SameCount
<1>5. CASE DeviceStep
  BY <1>3, <1>5, DeviceCounts
<1>6. CASE ~DeviceStep
  <2>1. CASE Submission
    BY <1>4, <2>1 DEF Submission, SubmitJob, HandleJobs, HandleLLMRequest, HandleBenchmarkRun,
       HandleDebugTest, DebugUpdate, DebugGivesUp, Insert
  <2>2. CASE ~Submission
    BY <1>4, <1>6, <2>2 DEF Elsewhere, SendHeartbeat, Heartbeat, HeartbeatLost, LeaseExpires,
       HandleOfflineDevices, vars
  <2>3. QED
    BY <2>1, <2>2
<1>7. QED
  BY <1>5, <1>6

(***************************************************************************)
(* The worker's own steps report nothing to the breaker; one that gives up *)
(* while FailJob is about to report disturbs the job.                      *)
(***************************************************************************)
LEMMA WorkerCounts ==
    ASSUME TypeOK, TypeOK', ControlInv, RowInv, NEW w \in Workers,
           \/ RegisterWorker(w) \/ (\E i \in Jobs : ClaimSelect(w, i))
           \/ ClaimCommit(w) \/ ClaimReplyLost(w) \/ ClaimRollback(w)
           \/ WorkReturns(w) \/ WorkRaises(w)
           \/ CompleteReturns(w) \/ FailReturns(w)
           \/ CompleteRaises(w) \/ FailRaises(w) \/ Crash(w) \/ DetachedEnds(w),
           NEW d \in Devices, Counted(d),
           Quiet(d)' => Quiet(d), Fresh(d)' => Fresh(d)
    PROVE  Counted(d)'
<1> DEFINE waits(v) == /\ call[<<v, "current">>].pc = "failCircuit"
                       /\ On[call[<<v, "current">>].job] = d
<1>1. /\ wpc \in [Workers -> WorkerPC] /\ wjob \in [Workers -> Jobs \cup {NoJob}]
      /\ call \in [Handlers -> Calls] /\ WorkerHasJob(w)
  BY DEF TypeOK, ControlInv
<1>2. failures' = failures /\ proxied' = proxied
  BY DEF RegisterWorker, ClaimSelect, ClaimCommit, Commit, ClaimReplyLost, ClaimRollback,
     WorkReturns, WorkRaises, CompleteReturns, FailReturns, CompleteRaises, FailRaises, Crash,
     DetachedEnds
<1>3. Ran(d, "error")' = Ran(d, "error")
  <2>1. CASE ClaimCommit(w) \/ ClaimReplyLost(w)
    <3>1. /\ rows' = [rows EXCEPT ![wjob[w]] = Append(@, "running")]
          /\ wpc[w] = "claiming"
      BY <2>1 DEF ClaimCommit, ClaimReplyLost, Commit
    <3>2. wjob[w] \in Jobs
      BY <1>1, <3>1 DEF WorkerHasJob
    <3>3. QED
      BY <3>1, <3>2, OpenedRan
  <2>2. CASE ~(ClaimCommit(w) \/ ClaimReplyLost(w))
    <3>1. rows' = rows
      BY <2>2 DEF RegisterWorker, ClaimSelect, ClaimRollback, WorkReturns, WorkRaises,
         CompleteReturns, FailReturns, CompleteRaises, FailRaises, Crash, DetachedEnds
    <3>2. QED
      BY <3>1, KeptRan
  <2>3. QED
    BY <2>1, <2>2
<1>4. CASE CompleteRaises(w) \/ FailRaises(w) \/ Crash(w)
  <2>1. PICK next \in {IdleCall, Request("failRead", wjob[w])} : Abandon(w, next)
    BY <1>4 DEF CompleteRaises, FailRaises, Crash
  <2>2. /\ call'[<<w, "current">>].pc # "failCircuit"
        /\ \A v \in Workers : v # w => call'[<<v, "current">>] = call[<<v, "current">>]
    <3>1. next.pc # "failCircuit"
      BY DEF IdleCall, Request, Call
    <3>2. QED
      BY <2>1, <3>1, AbandonCalls
  <2>3. Fault({wjob[w]}) /\ wpc[w] \in Executing
    BY <1>4 DEF CompleteRaises, FailRaises, Crash, Executing
  <2>4. PICK j \in Jobs : j = wjob[w]
    BY <1>1, <2>3, JobsAssumption DEF WorkerHasJob, Executing
  <2>5. ~Undisturbed(j)'
    <3>1. faults'[j] > 0
      BY <2>3, <2>4, FaultCounts
    <3>2. QED
      BY <3>1 DEF Undisturbed
  <2>6. waits(w) => ~Quiet(d)'
    <3>1. waits(w) => On[j] = d
      BY <1>1, <2>4 DEF WorkerHasJob
    <3>2. QED
      BY <2>4, <2>5, <3>1 DEF Quiet
  <2>7. ~waits(w) => Pending(d)' = Pending(d)
    BY <2>2 DEF Pending
  <2>8. QED
    BY <1>2, <1>3, <2>6, <2>7, SameCount
<1>5. CASE ~(CompleteRaises(w) \/ FailRaises(w) \/ Crash(w))
  <2>1. CASE \E next \in Calls : /\ next.pc # "failCircuit"
                                /\ call' = [call EXCEPT ![<<w, "current">>] = next]
                                /\ call[<<w, "current">>].pc # "failCircuit"
    <3>1. PICK next \in Calls : /\ next.pc # "failCircuit"
                                /\ call' = [call EXCEPT ![<<w, "current">>] = next]
                                /\ call[<<w, "current">>].pc # "failCircuit"
      BY <2>1
    <3>2. /\ call'[<<w, "current">>] = next
          /\ \A v \in Workers : v # w => call'[<<v, "current">>] = call[<<v, "current">>]
      BY <3>1, OneCall, HandlerIds
    <3>3. Pending(d)' = Pending(d)
      BY <3>1, <3>2 DEF Pending
    <3>4. QED
      BY <1>2, <1>3, <3>3, SameCount
  <2>2. CASE \A v \in Workers : call'[<<v, "current">>] = call[<<v, "current">>]
    <3>1. Pending(d)' = Pending(d)
      BY <2>2 DEF Pending
    <3>2. QED
      BY <1>2, <1>3, <3>1, SameCount
  <2>3. CASE WorkReturns(w) \/ WorkRaises(w)
    <3>1. PICK pc \in {"completeUpdate", "failRead"} :
            call' = [call EXCEPT ![<<w, "current">>] = Request(pc, wjob[w])]
      BY <2>3 DEF WorkReturns, WorkRaises
    <3>2. call[<<w, "current">>].pc = "idle"
      BY <1>1, <2>3 DEF WorkReturns, WorkRaises, WorkerHasJob
    <3>3. Request(pc, wjob[w]) \in Calls /\ Request(pc, wjob[w]).pc = pc
      BY <1>1 DEF Request, Call, Calls, HandlerPC, CompletePC, FailPC
    <3>4. QED
      BY <2>1, <3>1, <3>2, <3>3
  <2>4. CASE CompleteReturns(w) \/ FailReturns(w)
    <3>1. IdleCall \in Calls /\ IdleCall.pc = "idle"
      BY DEF IdleCall, Call, Calls, HandlerPC
    <3>2. /\ call' = [call EXCEPT ![<<w, "current">>] = IdleCall]
          /\ call[<<w, "current">>].pc = "reply"
      BY <2>4 DEF CompleteReturns, FailReturns
    <3>3. QED
      BY <2>1, <3>1, <3>2
  <2>5. CASE DetachedEnds(w)
    <3>1. call' = [call EXCEPT ![<<w, "detached">>] = IdleCall]
      BY <2>5 DEF DetachedEnds
    <3>2. QED
      BY <2>2, <3>1, OneCall, HandlerIds
  <2>6. CASE \/ RegisterWorker(w) \/ (\E i \in Jobs : ClaimSelect(w, i))
             \/ ClaimCommit(w) \/ ClaimReplyLost(w) \/ ClaimRollback(w)
    BY <2>2, <2>6 DEF RegisterWorker, ClaimSelect, ClaimCommit, Commit, ClaimReplyLost,
       ClaimRollback
  <2>7. QED
    BY <1>5, <2>3, <2>4, <2>5, <2>6
<1>6. QED
  BY <1>4, <1>5
(***************************************************************************)
(* A worker's handler that is to close a row of an undisturbed job finds   *)
(* one in running: the worker owes it.                                     *)
(***************************************************************************)
LEMMA RowToClose ==
    ASSUME ControlInv, AccountInv, NEW w \in Workers, NEW j \in Jobs, Undisturbed(j),
           call[<<w, "current">>].job = j,
           call[<<w, "current">>].pc \in {"completeRows", "failRows"}
    PROVE  Running(j) # {}
<1>1. OwesRow(w, j)
  BY DEF ControlInv, WorkerHasJob, OwesRow, Executing
<1>2. Accounted(j) /\ w \in Owing(j)
  BY <1>1 DEF AccountInv, Owing
<1>3. IsFiniteSet(Owing(j)) /\ Cardinality(Running(j)) = Cardinality(Owing(j))
  BY <1>2 DEF Accounted
<1>4. Cardinality(Owing(j)) # 0
  BY <1>2, <1>3, FS_EmptySet
<1>5. QED
  BY <1>3, <1>4, FS_EmptySet

(***************************************************************************)
(* The statements of the handlers: a failed run gets its row, then the     *)
(* breaker counts it; after a successful one the device is not fresh.      *)
(***************************************************************************)
LEMMA HandlerCounts ==
    ASSUME TypeOK, TypeOK', ControlInv, AccountInv, HttpWorkers = Workers,
           NEW h \in Handlers, HandlerStep(h), \A w \in Workers : Succeeded(w),
           NEW d \in Devices, Counted(d),
           Quiet(d)' => Quiet(d), Fresh(d)' => Fresh(d)
    PROVE  Counted(d)'
<1> USE DEF At, Goto, Call
<1>1. /\ call \in [Handlers -> Calls] /\ rows \in [Jobs -> Seq(RowStatus)]
      /\ failures \in [Devices -> 0..CircuitThreshold]
  BY DEF TypeOK
<1>2. /\ \A g \in Handlers : g # h => call'[g] = call[g]
      /\ call'[h].job = call[h].job /\ call[h].pc # "idle"
  BY HandlerMoves DEF CompletePC, FailPC
<1>3. PICK j \in Jobs : j = call[h].job
  BY ActiveJob
\* A handler of another device.
<1>4. CASE On[j] # d
  <2>1. \A k \in Jobs : On[k] = d => rows'[k] = rows[k]
    BY <1>1, <1>3, <1>4 DEF HandlerStep, CompleteUpdate, CompleteRows, RecordCost,
       CompleteCircuit, FailRead, FailUpdate, FailRows, FailCircuit, StatementFails,
       CloseNewestRow, Close
  <2>2. failures'[d] = failures[d] /\ proxied'[d] = proxied[d]
    BY <1>1, <1>3, <1>4 DEF HandlerStep, CompleteUpdate, CompleteRows, RecordCost,
       CompleteCircuit, FailRead, FailUpdate, FailRows, FailCircuit, StatementFails
  <2>3. Pending(d)' = Pending(d)
    <3>1. ASSUME NEW w \in Workers PROVE w \in Pending(d)' <=> w \in Pending(d)
      BY <1>2, <1>3, <1>4, HandlerIds DEF Pending
    <3>2. QED
      BY <3>1 DEF Pending
  <2>4. Ran(d, "error")' = Ran(d, "error")
    BY <2>1, KeptRan
  <2>5. QED
    BY <2>2, <2>3, <2>4, SameCount
\* On a quiet device it is the current handler of a worker.
<1>5. CASE On[j] = d /\ Quiet(d)'
  <2>1. Quiet(d) /\ Undisturbed(j) /\ Undisturbed(j)'
    BY <1>5 DEF Quiet
  <2>2. PICK w \in Workers : h = <<w, "current">>
    BY <1>2, <1>3, <2>1, HandlerCases DEF ControlInv, DetachedDisturbed, Undisturbed
  <2>3. \A v \in Workers : v # w => call'[<<v, "current">>] = call[<<v, "current">>]
    BY <1>2, <2>2, HandlerIds
  <2> DEFINE E == Ran(d, "error")
             P == Pending(d)
  <2>4. /\ IsFiniteSet(E) /\ IsFiniteSet(P) /\ Cardinality(P) <= Cardinality(E)
        /\ failures[d] <= Cardinality(E) - Cardinality(P) + proxied[d]
        /\ Fresh(d) => failures[d] = Capped(Cardinality(E) - Cardinality(P) + proxied[d])
        /\ Cardinality(P) \in Nat /\ Cardinality(E) \in Nat
        /\ proxied[d] \in Nat /\ proxied'[d] = proxied[d]
    <3>1. proxied[d] \in Nat /\ proxied' = proxied
      BY DEF TypeOK, HandlerStep, CompleteUpdate, CompleteRows, RecordCost, CompleteCircuit,
         FailRead, FailUpdate, FailRows, FailCircuit, StatementFails
    <3>2. QED
      BY <2>1, <3>1, FS_CardinalityType DEF Counted, Told
  <2> DEFINE n == Cardinality(E') - Cardinality(P') + proxied[d]
  <2>5. ASSUME IsFiniteSet(E'), IsFiniteSet(P'), Cardinality(P') <= Cardinality(E'),
               failures'[d] <= n, Fresh(d)' => failures'[d] = Capped(n)
        PROVE  Counted(d)'
    BY <2>4, <2>5 DEF Counted, Told, Capped
  <2>6. CASE CompleteUpdate(h) \/ FailRead(h) \/ FailUpdate(h) \/ RecordCost(h)
    <3>1. rows' = rows /\ failures' = failures
      BY <2>6 DEF CompleteUpdate, FailRead, FailUpdate, RecordCost
    <3>2. call[h].pc # "failCircuit" /\ call'[h].pc # "failCircuit"
      BY <1>1, <2>6 DEF CompleteUpdate, FailRead, FailUpdate, RecordCost
    <3>3. P' = P
      BY <2>2, <2>3, <3>2 DEF Pending
    <3>4. QED
      BY <2>4, <3>1, <3>3, KeptRan, SameCount
  \* The worker owes a row, so there is one to close.
  <2>7. CASE CompleteRows(h) \/ FailRows(h)
    <3>1. call[h].pc \in {"completeRows", "failRows"} /\ failures' = failures
      BY <2>7 DEF CompleteRows, FailRows
    <3>2. Running(j) # {}
      BY <1>3, <2>1, <2>2, <3>1, RowToClose
    <3>3. CASE CompleteRows(h)
      <4>1. CloseNewestRow(j, "done")
        BY <1>3, <3>3 DEF CompleteRows
      <4>2. Ran(d, "done")' # {} /\ E' = E
        BY <1>5, <3>2, <4>1, ClosedRan
      <4>3. call[h].pc # "failCircuit" /\ call'[h].pc # "failCircuit"
        BY <1>1, <3>3 DEF CompleteRows, IfHttp
      <4>4. P' = P
        BY <2>2, <2>3, <4>3 DEF Pending
      <4>5. QED
        BY <2>4, <2>5, <3>1, <4>2, <4>4 DEF Fresh
    <3>4. CASE FailRows(h)
      <4>1. CloseNewestRow(j, "error")
        BY <1>3, <3>4 DEF FailRows
      <4>2. PICK x : x \notin E /\ E' = E \cup {x}
        BY <1>5, <3>2, <4>1, ClosedRan
      <4>3. call[h].pc = "failRows" /\ call'[h].pc = "failCircuit"
        BY <1>1, <2>2, <3>4 DEF FailRows, IfHttp
      <4>4. w \notin P /\ P' = P \cup {w}
        BY <1>2, <1>3, <1>5, <2>2, <2>3, <4>3 DEF Pending
      <4>5. /\ IsFiniteSet(E') /\ Cardinality(E') = Cardinality(E) + 1
            /\ IsFiniteSet(P') /\ Cardinality(P') = Cardinality(P) + 1
        <5> HIDE DEF E, P
        <5>1. QED
          BY <2>4, <4>2, <4>4, FS_AddElement
      <4>6. /\ Cardinality(P') <= Cardinality(E')
            /\ n = Cardinality(E) - Cardinality(P) + proxied[d]
        BY <2>4, <4>5
      <4>7. QED
        BY <2>4, <2>5, <3>1, <4>5, <4>6
    <3>5. QED
      BY <2>7, <3>3, <3>4
  \* A row in done is already there, so the device is not fresh.
  <2>8. CASE CompleteCircuit(h)
    <3>1. HasDone(j) /\ rows' = rows
      BY <1>3, <2>1, <2>2, <2>8 DEF Succeeded, CompleteCircuit
    <3>2. ~Fresh(d)
      <4>1. PICK i \in 1..Len(rows[j]) : rows[j][i] = "done"
        BY <3>1 DEF HasDone
      <4>2. <<j, i>> \in Ran(d, "done")
        BY <1>5, <4>1, RanRows
      <4>3. QED
        BY <4>2 DEF Fresh
    <3>3. failures'[d] \in {0, failures[d]}
      BY <1>1, <2>8 DEF CompleteCircuit
    <3>4. call[h].pc # "failCircuit" /\ call'[h].pc # "failCircuit"
      BY <1>1, <2>8 DEF CompleteCircuit
    <3>5. P' = P /\ E' = E
      <4>1. P' = P
        BY <2>2, <2>3, <3>4 DEF Pending
      <4>2. QED
        BY <3>1, <4>1, KeptRan
    <3>6. n \in Nat /\ failures'[d] <= n
      <4> HIDE DEF E, P
      <4>1. QED
        BY <2>4, <3>3, <3>5
    <3>7. QED
      BY <2>4, <2>5, <3>2, <3>5, <3>6
  <2>9. CASE FailCircuit(h)
    <3>1. /\ rows' = rows /\ call[h].pc = "failCircuit" /\ call'[h].pc = "reply"
          /\ failures'[d] = Failed(d)
      BY <1>1, <1>3, <1>5, <2>9 DEF FailCircuit
    <3>2. E' = E
      BY <3>1, KeptRan
    <3>3. w \in P /\ P' = P \ {w}
      BY <1>3, <1>5, <2>2, <2>3, <3>1 DEF Pending
    <3>4. /\ IsFiniteSet(P') /\ Cardinality(P') = Cardinality(P) - 1
      <4> HIDE DEF E, P
      <4>1. QED
        BY <2>4, <3>3, FS_RemoveElement
    <3>5. /\ Cardinality(P') <= Cardinality(E') /\ failures'[d] <= n
          /\ Fresh(d) => failures'[d] = Capped(n)
      <4>1. failures[d] \in 0..CircuitThreshold /\ CircuitThreshold \in Nat
        BY BoundsAssumption DEF TypeOK
      <4> HIDE DEF E, P
      <4>2. QED
        BY <2>4, <3>1, <3>2, <3>4, <4>1 DEF Capped, Failed
    <3>6. QED
      BY <2>4, <2>5, <3>2, <3>4, <3>5
  <2>10. CASE StatementFails(h)
    <3>1. Fault({j})
      BY <1>3, <2>10 DEF StatementFails
    <3>2. faults'[j] > 0
      BY <3>1, FaultCounts
    <3>3. QED
      BY <2>1, <3>2 DEF Undisturbed
  <2>11. QED
    BY <2>6, <2>7, <2>8, <2>9, <2>10 DEF HandlerStep
<1>6. CASE ~Quiet(d)'
  BY <1>6 DEF Counted
<1>7. QED
  BY <1>4, <1>5, <1>6
(***************************************************************************)
(* A handler between the row in done and the reply knows of that row after *)
(* every step.                                                             *)
(***************************************************************************)
LEMMA SuccessRemembered ==
    ASSUME TypeOK, TypeOK', ControlInv, ControlInv', RowInv, AccountInv, [Next]_vars,
           NEW w \in Workers, Succeeded(w)
    PROVE  Succeeded(w)'
<1> USE DEF At, Goto, Call
<1> DEFINE c == call[<<w, "current">>]
           late == {"completeCost", "completeCircuit"}
<1> SUFFICES ASSUME c'.pc \in late, Undisturbed(c.job)'
             PROVE  HasDone(c.job)'
  BY DEF Succeeded
<1>1. PICK j \in Jobs : j = c'.job
  <2>1. wpc'[w] \in {"completing", "failing"} /\ c'.job = wjob'[w]
    BY DEF ControlInv, WorkerHasJob
  <2>2. wjob'[w] # NoJob /\ wjob'[w] \in Jobs \cup {NoJob}
    BY <2>1 DEF ControlInv, WorkerHasJob, TypeOK
  <2>3. QED
    BY <2>1, <2>2
<1>2. Undisturbed(j)' /\ Undisturbed(j) /\ RowStep(j)
  <2>1. Undisturbed(j)'
    BY <1>1 DEF Undisturbed
  <2>2. QED
    BY <2>1, StillUndisturbed, RowSteps
<1>3. HasDone(j)' => HasDone(c.job)'
  BY <1>1 DEF HasDone
<1>4. ASSUME c.job = j, c.pc \in late PROVE HasDone(c.job)'
  <2>1. HasDone(j)
    BY <1>2, <1>4 DEF Succeeded
  <2>2. QED
    BY <1>2, <1>3, <2>1, DoneStays
<1>5. CASE c' = c
  BY <1>1, <1>4, <1>5
<1>6. CASE Elsewhere
  BY <1>5, <1>6, ElsewhereKeeps
<1>7. ASSUME NEW h \in Handlers, HandlerStep(h) PROVE HasDone(c.job)'
  <2>1. /\ \A g \in Handlers : g # h => call'[g] = call[g]
        /\ call'[h].job = call[h].job
    BY <1>7, HandlerMoves
  <2>2. CASE h # <<w, "current">>
    BY <1>5, <2>1, <2>2, HandlerIds
  <2>3. CASE h = <<w, "current">>
    <3>1. c.job = j /\ call \in [Handlers -> Calls]
      BY <1>1, <2>1, <2>3 DEF TypeOK
    <3>2. CASE CompleteRows(h)
      <4>1. CloseNewestRow(j, "done") /\ c.pc = "completeRows"
        BY <2>3, <3>1, <3>2 DEF CompleteRows
      <4>2. Running(j) # {}
        BY <1>2, <3>1, <4>1, RowToClose
      <4>3. HasDone(j)'
        BY <4>1, <4>2, ClosedHere
      <4>4. QED
        BY <1>3, <4>3
    <3>3. CASE StatementFails(h)
      <4>1. Fault({j})
        BY <2>3, <3>1, <3>3 DEF StatementFails
      <4>2. faults'[j] > 0
        BY <4>1, FaultCounts
      <4>3. QED
        BY <1>2, <4>2 DEF Undisturbed
    <3>4. CASE RecordCost(h)
      BY <1>4, <2>3, <3>1, <3>4 DEF RecordCost
    <3>5. CASE ~(CompleteRows(h) \/ StatementFails(h) \/ RecordCost(h))
      <4>1. c'.pc \notin late
        BY <1>7, <2>3, <3>1, <3>5 DEF HandlerStep, CompleteUpdate, CompleteCircuit, FailRead,
           FailUpdate, FailRows, FailCircuit, IfHttp
      <4>2. QED
        BY <4>1
    <3>6. QED
      BY <3>2, <3>3, <3>4, <3>5
  <2>4. QED
    BY <2>2, <2>3
<1>8. ASSUME NEW v \in Workers,
             \/ RegisterWorker(v) \/ (\E i \in Jobs : ClaimSelect(v, i))
             \/ ClaimCommit(v) \/ ClaimReplyLost(v) \/ ClaimRollback(v)
             \/ WorkReturns(v) \/ WorkRaises(v)
             \/ CompleteReturns(v) \/ FailReturns(v)
             \/ CompleteRaises(v) \/ FailRaises(v) \/ Crash(v) \/ DetachedEnds(v)
      PROVE  HasDone(c.job)'
  <2>1. CASE \E next : next.pc \notin late /\ call' = [call EXCEPT ![<<v, "current">>] = next]
    <3>1. PICK next : /\ next.pc \notin late
                      /\ call' = [call EXCEPT ![<<v, "current">>] = next]
      BY <2>1
    <3>2. /\ call'[<<v, "current">>] = next
          /\ w # v => call'[<<w, "current">>] = call[<<w, "current">>]
      BY <3>1, OneCall, HandlerIds
    <3>3. QED
      BY <1>5, <3>1, <3>2
  <2>2. CASE CompleteRaises(v) \/ FailRaises(v) \/ Crash(v)
    <3>1. PICK next \in {IdleCall, Request("failRead", wjob[v])} : Abandon(v, next)
      BY <2>2 DEF CompleteRaises, FailRaises, Crash
    <3>2. next.pc \notin late
      BY DEF IdleCall, Request
    <3>3. /\ call'[<<v, "current">>] = next
          /\ w # v => call'[<<w, "current">>] = call[<<w, "current">>]
      BY <3>1, AbandonCalls
    <3>4. QED
      BY <1>5, <3>2, <3>3
  <2>3. CASE WorkReturns(v) \/ WorkRaises(v)
    <3>1. PICK pc \in {"completeUpdate", "failRead"} :
            call' = [call EXCEPT ![<<v, "current">>] = Request(pc, wjob[v])]
      BY <2>3 DEF WorkReturns, WorkRaises
    <3>2. Request(pc, wjob[v]).pc \notin late
      BY DEF Request
    <3>3. QED
      BY <2>1, <3>1, <3>2
  <2>4. CASE CompleteReturns(v) \/ FailReturns(v)
    <3>1. /\ call' = [call EXCEPT ![<<v, "current">>] = IdleCall]
          /\ IdleCall.pc \notin late
      BY <2>4 DEF CompleteReturns, FailReturns, IdleCall
    <3>2. QED
      BY <2>1, <3>1
  <2>5. CASE DetachedEnds(v)
    <3>1. call' = [call EXCEPT ![<<v, "detached">>] = IdleCall]
      BY <2>5 DEF DetachedEnds
    <3>2. QED
      BY <1>5, <3>1, OneCall, HandlerIds
  <2>6. CASE \/ RegisterWorker(v) \/ (\E i \in Jobs : ClaimSelect(v, i))
             \/ ClaimCommit(v) \/ ClaimReplyLost(v) \/ ClaimRollback(v)
    BY <1>5, <2>6 DEF RegisterWorker, ClaimSelect, ClaimCommit, Commit, ClaimReplyLost,
       ClaimRollback
  <2>7. QED
    BY <1>8, <2>2, <2>3, <2>4, <2>5, <2>6
<1>9. QED
  BY <1>6, <1>7, <1>8, StepCases

(***************************************************************************)
(* On an undisturbed device the breaker has counted at most the rows in    *)
(* error whose handler has reported and the failures of the proxies; and   *)
(* exactly those, up to the threshold, if no run has succeeded and nothing *)
(* has emptied the circuit.  This holds after every step of any            *)
(* interleaving of handlers, proxies and restarts of the core.             *)
(***************************************************************************)
THEOREM HistoryKept == Spec => []HistoryInv
<1>1. Init => HistoryInv
  <2> SUFFICES ASSUME Init PROVE HistoryInv
    OBVIOUS
  <2>1. ASSUME NEW w \in Workers
        PROVE  Succeeded(w) /\ call[<<w, "current">>].pc # "failCircuit"
    BY HandlerIds DEF Init, Succeeded, IdleCall, Call
  <2>2. ASSUME NEW d \in Devices PROVE Counted(d)
    <3>1. Pending(d) = {}
      BY <2>1 DEF Pending
    <3>2. Ran(d, "error") = {}
      <4>1. \A j \in Jobs : rows[j] = <<>>
        BY DEF Init
      <4>2. QED
        BY <4>1, RanRows
    <3>3. failures[d] = 0 /\ proxied[d] = 0
      BY DEF Init
    <3>4. /\ IsFiniteSet(Ran(d, "error")) /\ Cardinality(Ran(d, "error")) = 0
          /\ IsFiniteSet(Pending(d)) /\ Cardinality(Pending(d)) = 0
      BY <3>1, <3>2, FS_EmptySet
    <3>5. Told(d) = 0 /\ Capped(0) = 0
      BY <3>3, <3>4, BoundsAssumption DEF Told, Capped
    <3>6. QED
      BY <3>3, <3>4, <3>5 DEF Counted
  <2>3. QED
    BY <2>1, <2>2 DEF HistoryInv
<1>2. /\ TypeOK /\ TypeOK' /\ ControlInv /\ ControlInv' /\ RowInv /\ AccountInv
      /\ HistoryInv /\ [Next]_vars
      => HistoryInv'
  <2> SUFFICES ASSUME TypeOK, TypeOK', ControlInv, ControlInv', RowInv, AccountInv, HistoryInv,
                      [Next]_vars
               PROVE  HistoryInv'
    OBVIOUS
  <2>1. \A w \in Workers : Succeeded(w) /\ Succeeded(w)'
    BY SuccessRemembered DEF HistoryInv
  <2>2. ASSUME HttpWorkers = Workers, NEW d \in Devices PROVE Counted(d)'
    <3>1. Counted(d)
      BY <2>2 DEF HistoryInv
    <3>2. (Quiet(d)' => Quiet(d)) /\ (Fresh(d)' => Fresh(d))
      BY RowSteps, WasFresh
    <3>3. CASE Elsewhere
      BY <3>1, <3>2, <3>3, ElsewhereCounts
    <3>4. ASSUME NEW h \in Handlers, HandlerStep(h) PROVE Counted(d)'
      BY <2>1, <2>2, <3>1, <3>2, <3>4, HandlerCounts
    <3>5. ASSUME NEW w \in Workers,
                 \/ RegisterWorker(w) \/ (\E i \in Jobs : ClaimSelect(w, i))
                 \/ ClaimCommit(w) \/ ClaimReplyLost(w) \/ ClaimRollback(w)
                 \/ WorkReturns(w) \/ WorkRaises(w)
                 \/ CompleteReturns(w) \/ FailReturns(w)
                 \/ CompleteRaises(w) \/ FailRaises(w) \/ Crash(w) \/ DetachedEnds(w)
          PROVE  Counted(d)'
      BY <3>1, <3>2, <3>5, WorkerCounts
    <3>6. QED
      BY <3>3, <3>4, <3>5, StepCases
  <2>3. QED
    BY <2>1, <2>2 DEF HistoryInv
<1>3. QED
  BY <1>1, <1>2, TypeCorrect, Control, RowsSafe, DebtsTallied, PTL DEF Spec

(***************************************************************************)
(* Once all handlers have returned, the breaker of an undisturbed device   *)
(* has counted no failure twice, and has missed none if no run there has   *)
(* succeeded and no proxy and no restart has emptied its circuit.          *)
(***************************************************************************)
THEOREM CircuitMatches == Spec => []CircuitMatchesHistory
<1>1. TypeOK /\ HistoryInv => CircuitMatchesHistory
  <2> DEFINE n(d) == Cardinality(Ran(d, "error")) + proxied[d]
  <2> SUFFICES ASSUME TypeOK, HistoryInv, HttpWorkers = Workers, NEW d \in Devices,
                      \A h \in Handlers : call[h].pc = "idle",
                      \A j \in Jobs : On[j] = d => Undisturbed(j)
               PROVE  /\ failures[d] <= n(d)
                      /\ Fresh(d) => failures[d] = Min({CircuitThreshold, n(d)})
    BY DEF CircuitMatchesHistory, Fresh
  <2>1. Pending(d) = {}
    BY HandlerIds DEF Pending
  <2>2. n(d) \in Nat /\ Told(d) = n(d)
    <3>1. IsFiniteSet(Ran(d, "error")) /\ proxied[d] \in Nat
      BY DEF HistoryInv, Counted, Quiet, TypeOK
    <3>2. Cardinality(Ran(d, "error")) \in Nat /\ Cardinality(Pending(d)) = 0
      BY <2>1, <3>1, FS_CardinalityType, FS_EmptySet
    <3>3. QED
      BY <3>1, <3>2 DEF Told
  <2> HIDE DEF n
  <2>3. failures[d] <= n(d) /\ (Fresh(d) => failures[d] = Capped(n(d)))
    BY <2>2 DEF HistoryInv, Counted, Quiet
  <2>4. Min({CircuitThreshold, n(d)}) = Capped(n(d))
    <3>1. Capped(n(d)) \in {CircuitThreshold, n(d)}
      BY DEF Capped
    <3>2. \A y \in {CircuitThreshold, n(d)} : Capped(n(d)) <= y
      BY <2>2, BoundsAssumption DEF Capped
    <3>3. \A x \in {CircuitThreshold, n(d)} :
             (\A y \in {CircuitThreshold, n(d)} : x <= y) => x = Capped(n(d))
      BY <2>2, <3>1, <3>2, BoundsAssumption
    <3>4. QED
      BY <3>1, <3>2, <3>3 DEF Min
  <2>5. QED
    BY <2>3, <2>4
<1>2. QED
  BY <1>1, TypeCorrect, HistoryKept, PTL
=============================================================================
