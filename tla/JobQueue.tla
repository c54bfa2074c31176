------------------------------ MODULE JobQueue ------------------------------
(***************************************************************************)
(* The job queue of the core: the tables jobs and job_attempts, the gRPC   *)
(* and HTTP handlers that change them, the worker loop that calls those    *)
(* handlers, and the discovery pass that resets leases.                    *)
(*                                                                         *)
(* An SQL statement is atomic; a handler that runs several statements      *)
(* outside a transaction is several actions, so that two handlers          *)
(* interleave between any two statements.  A claim is the one transaction: *)
(* it locks its row at the SELECT and changes it at the COMMIT.            *)
(*                                                                         *)
(* Time is abstracted to the state of a lease: "live" is lease_until >     *)
(* now(), "expired" is lease_until < now(), "none" is NULL.                *)
(***************************************************************************)
EXTENDS Integers, FiniteSets, Sequences, FiniteSetsExt

CONSTANTS
    Jobs,             \* the jobs that are ever submitted
    Workers,          \* worker processes
    HttpWorkers,      \* the workers that call /v1/worker/*; the others use gRPC
    Devices,          \* device ids a payload can name
    NoJob, NoDevice,  \* null values
    Source,           \* Source[j]: the handler that inserts j
    Requested,        \* Requested[j]: max_attempts in the request (0 if absent)
    On,               \* On[j]: payload->>'device_id', or NoDevice
    Serves,           \* Serves[w]: the jobs whose kind WORKER_KINDS of w admits
    MaxConcurrency,   \* DEVICE_MAX_CONCURRENCY
    CircuitThreshold, \* failures that degrade a device (3 in router.go)
    MaxFaults,        \* bound: MaxFaults[j] mishaps can befall j
    MaxFlips,         \* bound: changes of a device from outside the queue
    MaxBeats          \* bound: heartbeat requests in flight

Sources == {"grpc", "http", "llm", "benchmark", "debug"}

ASSUME JobsAssumption ==
    /\ Source \in [Jobs -> Sources]
    /\ Requested \in [Jobs -> Int]
    /\ NoJob \notin Jobs

ASSUME WorkersAssumption ==
    /\ HttpWorkers \subseteq Workers
    /\ Serves \in [Workers -> SUBSET Jobs]

ASSUME DevicesAssumption ==
    /\ On \in [Jobs -> Devices \cup {NoDevice}]
    /\ NoDevice \notin Devices

ASSUME BoundsAssumption ==
    /\ MaxConcurrency \in Int
    /\ CircuitThreshold \in Nat \ {0}
    /\ MaxFaults \in [Jobs -> Nat]
    /\ MaxFlips \in Nat
    /\ MaxBeats \in Nat

VARIABLES
    status,    \* jobs.status; "absent" before the INSERT
    attempts,  \* jobs.attempts
    lease,     \* jobs.lease_until, as described above
    hasResult, \* jobs.result IS NOT NULL
    rows,      \* rows[j]: status of j's job_attempts rows, by started_at
    costs,     \* costs[j]: number of llm_costs rows of j
    online,    \* devices with status = 'online'
    failures,  \* Router.circuits[d].Failures, counted up to the threshold
    proxied,   \* ghost: failures of d that the proxies of the core recorded
    emptied,   \* ghost: devices whose circuit was emptied by a proxy or a restart
    wpc,       \* where each worker is in its loop
    wjob,      \* the job it is claiming or executing
    call,      \* the server's handlers for it: the current and a detached one
    beat,      \* the job of its heartbeat request in flight
    debugging, \* debug jobs whose HandleDebugTest has not returned
    faults,    \* ghost: mishaps that have befallen each job so far
    flips      \* counts the changes of devices from outside, for the bound

jobVars    == <<status, attempts, lease, hasResult>>
circuitVars == <<failures, proxied, emptied>>
deviceVars == <<online, circuitVars, flips>>
workerVars == <<wpc, wjob>>
vars == <<jobVars, rows, costs, deviceVars, workerVars, call, beat, debugging,
          faults>>
-----------------------------------------------------------------------------
(* The vocabulary of the state. *)

\* The statement a handler executes next; "reply" has none left.
CompletePC == {"completeUpdate", "completeRows", "completeCost", "completeCircuit"}
FailPC     == {"failRead", "failUpdate", "failRows", "failCircuit"}
HandlerPC  == {"idle", "reply"} \cup CompletePC \cup FailPC

WorkerPC  == {"down", "idle", "claiming", "working", "completing", "failing"}
\* Between a claim and stop_event.set() the heartbeat thread runs.
Executing == {"working", "completing", "failing"}
Terminal  == {"done", "error"}
RowStatus == {"running", "done", "error"}

Slots    == {"current", "detached"}
Handlers == Workers \X Slots
Calls    == [pc : HandlerPC, job : Jobs \cup {NoJob}, verdict : {"queued", "error"}]
Call(pc, j, verdict) == [pc |-> pc, job |-> j, verdict |-> verdict]
IdleCall == Call("idle", NoJob, "queued")
Request(pc, j) == Call(pc, j, "queued")

TypeOK ==
    /\ status    \in [Jobs -> {"absent", "queued", "running"} \cup Terminal]
    /\ attempts  \in [Jobs -> Nat]
    /\ lease     \in [Jobs -> {"none", "live", "expired"}]
    /\ hasResult \in [Jobs -> BOOLEAN]
    /\ rows      \in [Jobs -> Seq(RowStatus)]
    /\ costs     \in [Jobs -> Nat]
    /\ online    \in SUBSET Devices
    /\ failures  \in [Devices -> 0..CircuitThreshold]
    /\ proxied   \in [Devices -> Nat]
    /\ emptied   \in SUBSET Devices
    /\ wpc       \in [Workers -> WorkerPC]
    /\ wjob      \in [Workers -> Jobs \cup {NoJob}]
    /\ call      \in [Handlers -> Calls]
    /\ beat      \in [Workers -> Jobs \cup {NoJob}]
    /\ debugging \in SUBSET Jobs
    /\ faults    \in [Jobs -> Nat]
    /\ flips     \in 0..MaxFlips

\* max_attempts as each inserting handler stores it.
MaxAttempts(j) ==
    CASE Source[j] = "benchmark" -> 2
      [] Source[j] = "debug"     -> 1
      [] OTHER -> IF Requested[j] = 0 THEN 3 ELSE Requested[j]

Limit == IF MaxConcurrency < 1 THEN 1 ELSE MaxConcurrency

\* Error: the SELECT of a claim without FOR UPDATE.
LockedNever(j) == FALSE

\* The row locks that open claim transactions hold: other writers of the row wait.
Locked(j) == \E w \in Workers : wpc[w] = "claiming" /\ wjob[w] = j

\* What the CTE running_per_device counts.
LiveOn(d) == {j \in Jobs : On[j] = d /\ status[j] = "running" /\ lease[j] = "live"}

Heartbeated(j) == \E w \in Workers : wpc[w] \in Executing /\ wjob[w] = j

(***************************************************************************)
(* A mishap on j: a crash of its worker, a lost reply, a broken RPC or     *)
(* statement, a lease that runs out under a live heartbeat thread, a reset *)
(* by discovery.  Each job has a budget MaxFaults[j] of them.              *)
(***************************************************************************)
Fault(S) ==
    /\ \A j \in S : faults[j] < MaxFaults[j]
    /\ faults' = [j \in Jobs |-> IF j \in S THEN faults[j] + 1 ELSE faults[j]]

Init ==
    /\ status    = [j \in Jobs |-> "absent"]
    /\ attempts  = [j \in Jobs |-> 0]
    /\ lease     = [j \in Jobs |-> "none"]
    /\ hasResult = [j \in Jobs |-> FALSE]
    /\ rows      = [j \in Jobs |-> <<>>]
    /\ costs     = [j \in Jobs |-> 0]
    /\ online    = Devices
    /\ failures  = [d \in Devices |-> 0]
    /\ proxied   = [d \in Devices |-> 0]
    /\ emptied   = {}
    /\ wpc       = [w \in Workers |-> "down"]
    /\ wjob      = [w \in Workers |-> NoJob]
    /\ call      = [h \in Handlers |-> IdleCall]
    /\ beat      = [w \in Workers |-> NoJob]
    /\ debugging = {}
    /\ faults    = [j \in Jobs |-> 0]
    /\ flips     = 0
-----------------------------------------------------------------------------
(* Submission.  Each handler ends in one INSERT with the column defaults.  *)

Insert(j) ==
    /\ status[j] = "absent"
    /\ status' = [status EXCEPT ![j] = "queued"]
    /\ UNCHANGED <<attempts, lease, hasResult, rows, costs, deviceVars,
                   workerVars, call, beat, faults>>

SubmitJob(j)          == Source[j] = "grpc"      /\ Insert(j) /\ UNCHANGED debugging
HandleJobs(j)         == Source[j] = "http"      /\ Insert(j) /\ UNCHANGED debugging
HandleLLMRequest(j)   == Source[j] = "llm"       /\ Insert(j) /\ UNCHANGED debugging
\* One iteration of its loop over req.Runs.
HandleBenchmarkRun(j) == Source[j] = "benchmark" /\ Insert(j) /\ UNCHANGED debugging

HandleDebugTest(j) ==
    /\ Source[j] = "debug"
    /\ Insert(j)
    /\ debugging' = debugging \cup {j}

\* The UPDATE that follows the INSERT; it leaves lease_until alone.
DebugUpdate(j) ==
    /\ j \in debugging /\ ~Locked(j)
    /\ debugging' = debugging \ {j}
    /\ status'    = [status EXCEPT ![j] = "done"]
    /\ hasResult' = [hasResult EXCEPT ![j] = TRUE]
    /\ UNCHANGED <<attempts, lease, rows, costs, deviceVars, workerVars, call,
                   beat, faults>>

\* The UPDATE's error is ignored (the 10 s context may have run out).
DebugGivesUp(j) ==
    /\ j \in debugging
    /\ debugging' = debugging \ {j}
    /\ UNCHANGED <<jobVars, rows, costs, deviceVars, workerVars, call, beat, faults>>
-----------------------------------------------------------------------------
(* Claiming. *)

\* The worker process starts and registers (retried until it succeeds).
RegisterWorker(w) ==
    /\ wpc[w] = "down"
    /\ wpc' = [wpc EXCEPT ![w] = "idle"]
    /\ UNCHANGED <<jobVars, rows, costs, deviceVars, wjob, call, beat,
                   debugging, faults>>

\* Errors: a claim that ignores leases, ignores the status, or skips expired leases.
EligibleAnyLease(j)  == status[j] \in {"queued", "running"} /\ ~Locked(j)
EligibleAnyStatus(j) == status[j] # "absent" /\ lease[j] \in {"none", "expired"} /\ ~Locked(j)
EligibleUnleased(j)  == status[j] \in {"queued", "running"} /\ lease[j] = "none" /\ ~Locked(j)

(***************************************************************************)
(* WHERE of the claim query.  ORDER BY priority DESC, queued_at orders     *)
(* only the rows that SKIP LOCKED leaves: a concurrent statement may hold  *)
(* the lock of any other row, so any eligible row can be the first one.    *)
(***************************************************************************)
GrpcEligible(j) ==
    /\ status[j] \in {"queued", "running"}
    /\ lease[j] \in {"none", "expired"}
    /\ ~Locked(j)

HttpEligible(j) ==
    /\ GrpcEligible(j)
    /\ On[j] # NoDevice =>
        /\ Cardinality(LiveOn(On[j])) < Limit
        /\ On[j] \in online

Eligible(w, j) == IF w \in HttpWorkers THEN HttpEligible(j) ELSE GrpcEligible(j)

\* SELECT ... FOR UPDATE SKIP LOCKED LIMIT 1.
ClaimSelect(w, j) ==
    /\ wpc[w] = "idle"
    /\ j \in Serves[w] /\ Eligible(w, j)
    /\ wpc'  = [wpc EXCEPT ![w] = "claiming"]
    /\ wjob' = [wjob EXCEPT ![w] = j]
    /\ UNCHANGED <<jobVars, rows, costs, deviceVars, call, beat, debugging, faults>>

\* UPDATE jobs, INSERT INTO job_attempts and COMMIT.
Commit(j) ==
    /\ status'   = [status EXCEPT ![j] = "running"]
    /\ attempts' = [attempts EXCEPT ![j] = @ + 1]
    /\ lease'    = [lease EXCEPT ![j] = "live"]
    /\ rows'     = [rows EXCEPT ![j] = Append(@, "running")]
    /\ UNCHANGED <<hasResult, costs, deviceVars, call, beat, debugging>>

ClaimCommit(w) ==
    /\ wpc[w] = "claiming"
    /\ Commit(wjob[w])
    /\ wpc' = [wpc EXCEPT ![w] = "working"]
    /\ UNCHANGED <<wjob, faults>>

\* The commit succeeds but its reply never reaches the worker.
ClaimReplyLost(w) ==
    /\ wpc[w] = "claiming"
    /\ Commit(wjob[w])
    /\ Fault({wjob[w]})
    /\ wpc'  = [wpc EXCEPT ![w] = "idle"]
    /\ wjob' = [wjob EXCEPT ![w] = NoJob]

\* Any error before the commit: tx.Rollback.
ClaimRollback(w) ==
    /\ wpc[w] = "claiming"
    /\ Fault({wjob[w]})
    /\ wpc'  = [wpc EXCEPT ![w] = "idle"]
    /\ wjob' = [wjob EXCEPT ![w] = NoJob]
    /\ UNCHANGED <<jobVars, rows, costs, deviceVars, call, beat, debugging>>
-----------------------------------------------------------------------------
(* Leases. *)

\* Time passes beyond lease_until; a mishap only if a heartbeat thread is alive.
LeaseExpires(j) ==
    /\ lease[j] = "live"
    /\ lease' = [lease EXCEPT ![j] = "expired"]
    /\ IF Heartbeated(j) THEN Fault({j}) ELSE UNCHANGED faults
    /\ UNCHANGED <<status, attempts, hasResult, rows, costs, deviceVars,
                   workerVars, call, beat, debugging>>

\* _heartbeat_loop sends a request; it waits for the reply before the next.
SendHeartbeat(w) ==
    /\ wpc[w] \in Executing
    /\ beat[w] = NoJob
    /\ Cardinality({v \in Workers : beat[v] # NoJob}) < MaxBeats
    /\ beat' = [beat EXCEPT ![w] = wjob[w]]
    /\ UNCHANGED <<jobVars, rows, costs, deviceVars, workerVars, call,
                   debugging, faults>>

\* Error: the UPDATE without AND status='running'.
RenewedAlways(j) == [lease EXCEPT ![j] = "live"]

Renewed(j) == IF status[j] = "running" THEN [lease EXCEPT ![j] = "live"] ELSE lease

\* The UPDATE of Heartbeat and HandleWorkerHeartbeat, perhaps long after.
Heartbeat(w) ==
    /\ beat[w] # NoJob /\ ~Locked(beat[w])
    /\ beat'  = [beat EXCEPT ![w] = NoJob]
    /\ lease' = Renewed(beat[w])
    /\ UNCHANGED <<status, attempts, hasResult, rows, costs, deviceVars,
                   workerVars, call, debugging, faults>>

HeartbeatLost(w) ==
    /\ beat[w] # NoJob
    /\ beat' = [beat EXCEPT ![w] = NoJob]
    /\ UNCHANGED <<jobVars, rows, costs, deviceVars, workerVars, call,
                   debugging, faults>>

(***************************************************************************)
(* Discovery resets the leases of the jobs of the devices that its list of *)
(* peers, read when the pass began, calls offline.                         *)
(***************************************************************************)
HandleOfflineDevices(D) ==
    LET reset == {j \in Jobs : \E d \in D : j \in LiveOn(d)}
    IN  /\ reset # {}
        /\ \A j \in reset : ~Locked(j)
        /\ lease' = [j \in Jobs |-> IF j \in reset THEN "none" ELSE lease[j]]
        /\ Fault(reset)
        /\ UNCHANGED <<status, attempts, hasResult, rows, costs, deviceVars,
                       workerVars, call, beat, debugging>>

\* External: discovery or a registration changes devices.status.
DeviceStatusChanges(d) ==
    /\ flips < MaxFlips
    /\ flips' = flips + 1
    /\ online' = IF d \in online THEN online \ {d} ELSE online \cup {d}
    /\ UNCHANGED <<jobVars, rows, costs, circuitVars, workerVars, call, beat,
                   debugging, faults>>
-----------------------------------------------------------------------------
(***************************************************************************)
(* The circuit breaker of routing.Router, which is in the core's memory    *)
(* and hears of each device from two sides: the HTTP handlers that end a   *)
(* job, and the proxies of the core (Router), external to the queue.       *)
(***************************************************************************)
Failed(d) == IF failures[d] < CircuitThreshold THEN failures[d] + 1 ELSE CircuitThreshold

\* RecordDeviceResult after a proxied request.
ProxyRecords(d) ==
    /\ flips < MaxFlips
    /\ flips' = flips + 1
    /\ \/ /\ failures' = [failures EXCEPT ![d] = 0]
          /\ emptied'  = emptied \cup {d}
          /\ UNCHANGED proxied
       \/ /\ failures' = [failures EXCEPT ![d] = Failed(d)]
          /\ proxied'  = [proxied EXCEPT ![d] = @ + 1]
          /\ UNCHANGED emptied
    /\ UNCHANGED <<jobVars, rows, costs, online, workerVars, call, beat,
                   debugging, faults>>

(***************************************************************************)
(* The core restarts.  What that cuts off has ended in a step of its own   *)
(* before: a claim in ClaimRollback, a handler between two statements in   *)
(* CompleteRaises, FailRaises or Crash and DetachedEnds, a debug test in   *)
(* DebugGivesUp, a heartbeat in HeartbeatLost.                             *)
(***************************************************************************)
CoreRestarts ==
    /\ flips < MaxFlips
    /\ flips' = flips + 1
    /\ \A w \in Workers : wpc[w] # "claiming"
    /\ \A h \in Handlers : call[h].pc \in {"idle", "reply", "completeUpdate", "failRead"}
    /\ debugging = {}
    /\ failures' = [d \in Devices |-> 0]
    /\ emptied'  = Devices
    /\ UNCHANGED <<jobVars, rows, costs, online, proxied, workerVars, call, beat,
                   debugging, faults>>
-----------------------------------------------------------------------------
(* The worker's side of finishing a job. *)

\* _handle_job returns, or raises: the worker calls CompleteJob or FailJob.
WorkReturns(w) ==
    /\ wpc[w] = "working"
    /\ wpc'  = [wpc EXCEPT ![w] = "completing"]
    /\ call' = [call EXCEPT ![<<w, "current">>] = Request("completeUpdate", wjob[w])]
    /\ UNCHANGED <<jobVars, rows, costs, deviceVars, wjob, beat, debugging, faults>>

WorkRaises(w) ==
    /\ wpc[w] = "working"
    /\ wpc'  = [wpc EXCEPT ![w] = "failing"]
    /\ call' = [call EXCEPT ![<<w, "current">>] = Request("failRead", wjob[w])]
    /\ UNCHANGED <<jobVars, rows, costs, deviceVars, wjob, beat, debugging, faults>>

\* Leaving the except clause, _mark_device_offline may have reported j's device.
MayMarkOffline(j) ==
    \/ UNCHANGED <<online, flips>>
    \/ /\ On[j] \in online /\ flips < MaxFlips
       /\ online' = online \ {On[j]}
       /\ flips'  = flips + 1

\* The reply arrives: the heartbeat thread is stopped and the loop starts over.
CompleteReturns(w) ==
    /\ wpc[w] = "completing" /\ call[<<w, "current">>].pc = "reply"
    /\ wpc'  = [wpc EXCEPT ![w] = "idle"]
    /\ wjob' = [wjob EXCEPT ![w] = NoJob]
    /\ call' = [call EXCEPT ![<<w, "current">>] = IdleCall]
    /\ UNCHANGED <<jobVars, rows, costs, deviceVars, beat, debugging, faults>>

FailReturns(w) ==
    /\ wpc[w] = "failing" /\ call[<<w, "current">>].pc = "reply"
    /\ MayMarkOffline(wjob[w])
    /\ wpc'  = [wpc EXCEPT ![w] = "idle"]
    /\ wjob' = [wjob EXCEPT ![w] = NoJob]
    /\ call' = [call EXCEPT ![<<w, "current">>] = IdleCall]
    /\ UNCHANGED <<jobVars, rows, costs, circuitVars, beat, debugging, faults>>

(***************************************************************************)
(* The worker stops waiting for its call, which the server drops or, out   *)
(* of the worker's sight, still executes.  Bound: one detached handler per *)
(* worker.                                                                 *)
(***************************************************************************)
Abandon(w, next) ==
    LET c == call[<<w, "current">>]
    IN  \/ call' = [call EXCEPT ![<<w, "current">>] = next]
        \/ /\ call[<<w, "detached">>].pc = "idle" /\ c.pc \notin {"idle", "reply"}
           /\ call' = [call EXCEPT ![<<w, "current">>] = next, ![<<w, "detached">>] = c]

\* CompleteJob raises: the except clause calls FailJob for the same job.
CompleteRaises(w) ==
    /\ wpc[w] = "completing"
    /\ Fault({wjob[w]})
    /\ Abandon(w, Request("failRead", wjob[w]))
    /\ wpc' = [wpc EXCEPT ![w] = "failing"]
    /\ UNCHANGED <<jobVars, rows, costs, deviceVars, wjob, beat, debugging>>

\* FailJob raises: the exception is swallowed.
FailRaises(w) ==
    /\ wpc[w] = "failing"
    /\ Fault({wjob[w]})
    /\ Abandon(w, IdleCall)
    /\ MayMarkOffline(wjob[w])
    /\ wpc'  = [wpc EXCEPT ![w] = "idle"]
    /\ wjob' = [wjob EXCEPT ![w] = NoJob]
    /\ UNCHANGED <<jobVars, rows, costs, circuitVars, beat, debugging>>

\* The process dies with a job in hand.
Crash(w) ==
    /\ wpc[w] \in Executing
    /\ Fault({wjob[w]})
    /\ Abandon(w, IdleCall)
    /\ wpc'  = [wpc EXCEPT ![w] = "down"]
    /\ wjob' = [wjob EXCEPT ![w] = NoJob]
    /\ UNCHANGED <<jobVars, rows, costs, deviceVars, beat, debugging>>

\* A detached handler ends: it is through, or its context is cancelled.
DetachedEnds(w) ==
    /\ call[<<w, "detached">>].pc # "idle"
    /\ call' = [call EXCEPT ![<<w, "detached">>] = IdleCall]
    /\ UNCHANGED <<jobVars, rows, costs, deviceVars, workerVars, beat,
                   debugging, faults>>
-----------------------------------------------------------------------------
(* The server's side: one action per statement of a handler. *)

At(h, pc) == call[h].pc = pc
Goto(h, pc) == call' = [call EXCEPT ![h] = Call(pc, @.job, @.verdict)]

\* Error: a failed run stores what it has as the result.
EndRunWithResult(j, final) ==
    /\ status'    = [status EXCEPT ![j] = final]
    /\ hasResult' = [hasResult EXCEPT ![j] = TRUE]
    /\ lease'     = [lease EXCEPT ![j] = "none"]
    /\ UNCHANGED attempts

\* UPDATE jobs SET status, result or error, lease_until=NULL WHERE id.
EndRun(j, final) ==
    /\ status'    = [status EXCEPT ![j] = final]
    /\ hasResult' = [hasResult EXCEPT ![j] = @ \/ final = "done"]
    /\ lease'     = [lease EXCEPT ![j] = "none"]
    /\ UNCHANGED attempts

CompleteUpdate(h) ==
    /\ At(h, "completeUpdate") /\ ~Locked(call[h].job)
    /\ EndRun(call[h].job, "done")
    /\ Goto(h, "completeRows")
    /\ UNCHANGED <<rows, costs, deviceVars, workerVars, beat, debugging, faults>>

Close(j, i, final) == [rows EXCEPT ![j] =
    [k \in 1..Len(rows[j]) |-> IF k = i THEN final ELSE rows[j][k]]]

\* Error: the subquery without AND status='running'.
CloseLastRow(j, final) == rows' = Close(j, Len(rows[j]), final)

\* The newest row of j that is still 'running' gets a final status.
CloseNewestRow(j, final) ==
    LET running == {i \in 1..Len(rows[j]) : rows[j][i] = "running"}
    IN  rows' = IF running = {} THEN rows ELSE Close(j, Max(running), final)

\* Error: the handler forgets what follows the two UPDATEs.
OnlyGrpc(h, pc) == "reply"

\* The HTTP handlers go on where the gRPC handlers return.
IfHttp(h, pc) == IF h[1] \in HttpWorkers THEN pc ELSE "reply"

CompleteRows(h) ==
    /\ At(h, "completeRows")
    /\ CloseNewestRow(call[h].job, "done")
    /\ Goto(h, IfHttp(h, "completeCost"))
    /\ UNCHANGED <<jobVars, costs, deviceVars, workerVars, beat, debugging, faults>>

\* Error: after a successful INSERT, RecordCost tries again.
RecordCostAgain(h) ==
    /\ At(h, "completeCost")
    /\ \/ costs' = [costs EXCEPT ![call[h].job] = @ + 1] /\ UNCHANGED call
       \/ UNCHANGED costs /\ Goto(h, "completeCircuit")
    /\ UNCHANGED <<jobVars, rows, deviceVars, workerVars, beat, debugging, faults>>

\* RecordCost inserts a row unless the metrics name no tokens, model or provider.
RecordCost(h) ==
    /\ At(h, "completeCost")
    /\ \/ costs' = [costs EXCEPT ![call[h].job] = @ + 1]
       \/ UNCHANGED costs
    /\ Goto(h, "completeCircuit")
    /\ UNCHANGED <<jobVars, rows, deviceVars, workerVars, beat, debugging, faults>>

\* RecordDeviceResult(id, true), if the result names the device.
CompleteCircuit(h) ==
    LET d == On[call[h].job]
    IN  /\ At(h, "completeCircuit")
        /\ \/ d \in Devices /\ failures' = [failures EXCEPT ![d] = 0]
           \/ UNCHANGED failures
        /\ Goto(h, "reply")
        /\ UNCHANGED <<jobVars, rows, costs, online, proxied, emptied, flips, workerVars,
                       beat, debugging, faults>>

\* Errors: a status outside the vocabulary; one attempt too few; one too many.
VerdictMisspelt(j) == IF attempts[j] >= MaxAttempts(j) THEN "failed" ELSE "queued"
VerdictEarly(j)    == IF attempts[j] + 1 >= MaxAttempts(j) THEN "error" ELSE "queued"
VerdictLate(j)     == IF attempts[j] > MaxAttempts(j) THEN "error" ELSE "queued"

Verdict(j) == IF attempts[j] >= MaxAttempts(j) THEN "error" ELSE "queued"

\* SELECT attempts, max_attempts: the handler keeps the status it will write.
FailRead(h) ==
    /\ At(h, "failRead")
    /\ call' = [call EXCEPT ![h] = Call("failUpdate", @.job, Verdict(@.job))]
    /\ UNCHANGED <<jobVars, rows, costs, deviceVars, workerVars, beat, debugging, faults>>

FailUpdate(h) ==
    /\ At(h, "failUpdate") /\ ~Locked(call[h].job)
    /\ EndRun(call[h].job, call[h].verdict)
    /\ Goto(h, "failRows")
    /\ UNCHANGED <<rows, costs, deviceVars, workerVars, beat, debugging, faults>>

FailRows(h) ==
    /\ At(h, "failRows")
    /\ CloseNewestRow(call[h].job, "error")
    /\ Goto(h, IfHttp(h, "failCircuit"))
    /\ UNCHANGED <<jobVars, costs, deviceVars, workerVars, beat, debugging, faults>>

\* RecordDeviceResult(id, false) for the device of the payload.
FailCircuit(h) ==
    LET d == On[call[h].job]
    IN  /\ At(h, "failCircuit")
        /\ failures' = IF d \in Devices THEN [failures EXCEPT ![d] = Failed(d)] ELSE failures
        /\ Goto(h, "reply")
        /\ UNCHANGED <<jobVars, rows, costs, online, proxied, emptied, flips, workerVars,
                       beat, debugging, faults>>

\* An ignored error: the job_attempts row stays open, or the device is unknown.
StatementFails(h) ==
    /\ \/ At(h, "completeRows") /\ Goto(h, IfHttp(h, "completeCost"))
       \/ At(h, "failRows")     /\ Goto(h, IfHttp(h, "failCircuit"))
       \/ At(h, "failCircuit")  /\ Goto(h, "reply")
    /\ Fault({call[h].job})
    /\ UNCHANGED <<jobVars, rows, costs, deviceVars, workerVars, beat, debugging>>
-----------------------------------------------------------------------------
Submission == \E j \in Jobs :
    \/ SubmitJob(j) \/ HandleJobs(j) \/ HandleLLMRequest(j) \/ HandleBenchmarkRun(j)
    \/ HandleDebugTest(j) \/ DebugUpdate(j) \/ DebugGivesUp(j)

WorkerStep(w) ==
    \/ RegisterWorker(w)
    \/ \E j \in Jobs : ClaimSelect(w, j)
    \/ ClaimCommit(w)
    \/ SendHeartbeat(w)
    \/ WorkReturns(w) \/ WorkRaises(w) \/ CompleteReturns(w) \/ FailReturns(w)

Mishap(w) ==
    \/ ClaimReplyLost(w) \/ ClaimRollback(w)
    \/ CompleteRaises(w) \/ FailRaises(w) \/ Crash(w)

HandlerStep(h) ==
    \/ CompleteUpdate(h) \/ CompleteRows(h) \/ RecordCost(h) \/ CompleteCircuit(h)
    \/ FailRead(h) \/ FailUpdate(h) \/ FailRows(h) \/ FailCircuit(h)
    \/ StatementFails(h)

DeviceStep ==
    \/ \E d \in Devices : DeviceStatusChanges(d) \/ ProxyRecords(d)
    \/ CoreRestarts

Next ==
    \/ Submission
    \/ \E w \in Workers :
        WorkerStep(w) \/ Mishap(w) \/ Heartbeat(w) \/ HeartbeatLost(w) \/ DetachedEnds(w)
    \/ \E h \in Handlers : HandlerStep(h)
    \/ \E j \in Jobs : LeaseExpires(j)
    \/ \E D \in SUBSET Devices : HandleOfflineDevices(D)
    \/ DeviceStep

Spec == Init /\ [][Next]_vars

(***************************************************************************)
(* The loops that keep running.  A worker and the call it waits for are    *)
(* one thread of control: it polls, its model answers or times out, and a  *)
(* call ends when the server's statements end or the connection breaks     *)
(* (main.py sets no deadline: a peer that hangs for ever is left out).     *)
(* Requests in flight arrive or are lost, and a lease that nobody renews   *)
(* runs out.  Nothing makes a client submit, and no mishap has to happen.  *)
(***************************************************************************)
Progress(w) ==
    \/ RegisterWorker(w) \/ (\E j \in Jobs : ClaimSelect(w, j)) \/ ClaimCommit(w)
    \/ WorkReturns(w) \/ WorkRaises(w) \/ CompleteReturns(w) \/ FailReturns(w)
    \/ HandlerStep(<<w, "current">>)

Fairness ==
    /\ \A w \in Workers :
        /\ WF_vars(Progress(w))
        /\ WF_vars(HandlerStep(<<w, "detached">>) \/ DetachedEnds(w))
        /\ WF_vars(Heartbeat(w) \/ HeartbeatLost(w))
    /\ \A j \in Jobs :
        /\ WF_vars(LeaseExpires(j) /\ ~Heartbeated(j))
        /\ WF_vars(DebugUpdate(j) \/ DebugGivesUp(j))

LiveSpec == Spec /\ Fairness
-----------------------------------------------------------------------------
(* Properties. *)

\* No mishap has befallen j, and no debug handler writes it behind a worker's back.
Undisturbed(j) == faults[j] = 0 /\ Source[j] # "debug"

\* w runs j and has not yet changed its row in jobs to end the run.
Holds(w, j) ==
    /\ wjob[w] = j
    /\ \/ wpc[w] = "working"
       \/ /\ wpc[w] \in {"completing", "failing"}
          /\ call[<<w, "current">>].pc \in {"completeUpdate", "failRead", "failUpdate"}

(***************************************************************************)
(* A claimed row stays claimable until its transaction commits: nothing    *)
(* slips between SELECT ... FOR UPDATE and COMMIT, and no two transactions *)
(* claim one job.                                                          *)
(***************************************************************************)
ClaimStillValid ==
    \A w \in Workers : wpc[w] = "claiming" =>
        /\ status[wjob[w]] \in {"queued", "running"}
        /\ lease[wjob[w]] # "live"
        /\ \A v \in Workers : wpc[v] = "claiming" /\ wjob[v] = wjob[w] => v = w

(***************************************************************************)
(* An undisturbed job is running exactly when one worker, and only one,    *)
(* holds it: late statements of earlier runs never release, requeue or     *)
(* finish the run of another worker.                                       *)
(***************************************************************************)
ExclusiveUntilDisturbed ==
    \A j \in Jobs : Undisturbed(j) =>
        /\ status[j] = "running" <=> \E w \in Workers : Holds(w, j)
        /\ \A v, w \in Workers : Holds(v, j) /\ Holds(w, j) => v = w

(***************************************************************************)
(* Only a running job has a lease (heartbeats race with completion); the   *)
(* one exception is the debug job whose UPDATE leaves the lease behind.    *)
(***************************************************************************)
LeaseOnlyWhileRunning ==
    \A j \in Jobs : lease[j] # "none" =>
        status[j] = "running" \/ (Source[j] = "debug" /\ status[j] = "done")

(***************************************************************************)
(* A job ends in error only with its attempts used up, however stale the   *)
(* counts that FailJob read before another worker claimed the job.         *)
(***************************************************************************)
ErrorMeansExhausted ==
    \A j \in Jobs : status[j] = "error" => attempts[j] >= MaxAttempts(j)

(***************************************************************************)
(* A job is started max_attempts times (once, if that is less than 1) plus *)
(* at most once for every mishap: the claim itself compares nothing with   *)
(* max_attempts.                                                           *)
(***************************************************************************)
AttemptsWithinBudget ==
    \A j \in Jobs :
        attempts[j] <= (IF MaxAttempts(j) < 1 THEN 1 ELSE MaxAttempts(j)) + faults[j]

(***************************************************************************)
(* Every attempt has its row, and an undisturbed job has as many rows in   *)
(* 'running' as runs whose handler has yet to close one: none is left open *)
(* or closed twice when a late FailJob overlaps the next claim.            *)
(***************************************************************************)
OwesRow(w, j) ==
    /\ wjob[w] = j /\ wpc[w] \in Executing
    /\ call[<<w, "current">>].pc \notin
        {"completeCost", "completeCircuit", "failCircuit", "reply"}

RowsAccounted ==
    \A j \in Jobs :
        /\ Len(rows[j]) = attempts[j]
        /\ Undisturbed(j) =>
            Cardinality({i \in 1..Len(rows[j]) : rows[j][i] = "running"})
                = Cardinality({w \in Workers : OwesRow(w, j)})

(***************************************************************************)
(* An undisturbed job has a result exactly when it is done: none appears   *)
(* on a job that is back in the queue or in error.                         *)
(***************************************************************************)
ResultIffDone ==
    \A j \in Jobs : Undisturbed(j) => (hasResult[j] <=> status[j] = "done")

(***************************************************************************)
(* The damage is in proportion: the runs of a job whose cost is recorded   *)
(* and those that workers hold at this moment are, together, one and at    *)
(* most one more for every mishap.                                         *)
(***************************************************************************)
RunsWithinMishaps ==
    \A j \in Jobs : costs[j] + Cardinality({w \in Workers : Holds(w, j)}) <= 1 + faults[j]

(***************************************************************************)
(* When every worker reports over HTTP and no handler is under way, the    *)
(* breaker has counted no failure of an undisturbed device twice: never    *)
(* more than its failed runs and those of the proxies.  If no run has      *)
(* succeeded there, and no proxy and no restart has emptied the circuit,   *)
(* it has missed none either.                                              *)
(***************************************************************************)
Ran(d, final) ==
    UNION {{j} \X {i \in 1..Len(rows[j]) : rows[j][i] = final} :
              j \in {j \in Jobs : On[j] = d}}

CircuitMatchesHistory ==
    HttpWorkers = Workers => \A d \in Devices :
        LET failed == Cardinality(Ran(d, "error")) + proxied[d]
        IN  /\ \A h \in Handlers : call[h].pc = "idle"
            /\ \A j \in Jobs : On[j] = d => Undisturbed(j)
            => /\ failures[d] <= failed
               /\ Ran(d, "done") = {} /\ d \notin emptied =>
                    failures[d] = Min({CircuitThreshold, failed})

(***************************************************************************)
(* The end of an undisturbed job is final: its status no longer changes.   *)
(***************************************************************************)
TerminalIsFinal ==
    [][\A j \in Jobs :
        status[j] \in Terminal /\ faults'[j] = 0 /\ Source[j] # "debug"
            => status'[j] = status[j]]_vars

(***************************************************************************)
(* The queue implements JobLifecycle, mishaps being what disturbs a job.   *)
(***************************************************************************)
Lifecycle == INSTANCE JobLifecycle WITH
    Allowed   <- [j \in Jobs |-> MaxAttempts(j)],
    disturbed <- {j \in Jobs : ~Undisturbed(j)}

ImplementsLifecycle == Lifecycle!Spec

(***************************************************************************)
(* Of all jobs, disturbed ones and debug jobs included, the queue keeps to *)
(* JobTable, which is all that the streams of JobStream assume.            *)
(***************************************************************************)
Table == INSTANCE JobTable

ImplementsTable == Table!Spec

(***************************************************************************)
(* Every submitted job ends, in done or in error, and stays there: after   *)
(* crashes, lost replies and broken calls, any number of them but finitely *)
(* many, some worker takes the job over and a late statement of an earlier *)
(* run revives it only finitely often.  (gRPC workers, whose claim does    *)
(* not depend on the device.)                                              *)
(***************************************************************************)
EventuallySettled ==
    \A j \in Jobs : <>[](status[j] \in {"absent"} \cup Terminal)

(***************************************************************************)
(* doc/README.md, "DEVICE_MAX_CONCURRENCY": a device never has more        *)
(* running tasks than allowed.                                             *)
(***************************************************************************)
DeviceLimitRespected == \A d \in Devices : Cardinality(LiveOn(d)) <= Limit

(***************************************************************************)
(* CHANGELOG_V2.md, "offline devices": once discovery has reset its lease, *)
(* a job is back in the queue and other workers can take it without        *)
(* waiting.                                                                *)
(***************************************************************************)
ResetJobClaimable ==
    \A j \in Jobs : status[j] = "running" /\ lease[j] = "none" /\ ~Locked(j) =>
        \E w \in Workers : j \in Serves[w] /\ Eligible(w, j)
=============================================================================
