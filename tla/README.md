# LLM-MCP: a TLA+ model of the core

TLA+ modules, TLC configurations and TLAPS proofs for LLM-MCP, a Go core with a
PostgreSQL job queue, workers that run jobs on Ollama devices or cloud models,
and the streams that report a job's status. Paths are relative to `src/`.

* `tlasany M.tla` parses, `tlc -workers 2 -config X.cfg MCM.tla` model-checks,
  `tlapm M.tla` checks the proofs of a module.
* `PROJECT.json` maps every definition to the lines it models and lists the
  runs, the mutants that break each property, the findings, the hazards and the
  theorems.

## 1. Inventory

| part | code | state | operations | hard behaviour | what makes it correct |
|---|---|---|---|---|---|
| job queue | `core/internal/grpcserver/server.go`, `core/internal/api/handlers.go` | tables `jobs`, `job_attempts`, `llm_costs` | submit (5 handlers), claim, heartbeat, complete, fail | handlers of several statements without a transaction; leases; late and repeated requests | a job is run by one worker at a time, ends once, within its attempts, and always ends |
| worker | `worker/llm_worker/main.py` | position in its loop, heartbeat thread | claim, run, complete or fail, heartbeat | crash, lost replies, `FailJob` after a `CompleteJob` that raised | it never loses or repeats a job without a mishap |
| job streams | `handlers.go:481-608`, `server.go:65-96`, `db/migrations/03_notify_trigger.sql` | one pooled connection per stream, last status sent | listen, first read, wait, fallback poll | notification between read and wait, pool as a shared resource, connection death | no status change is missed, the stream ends when the job does, connections come back |
| offline handling | `core/internal/discovery/offline_handler.go` | leases | reset | acts on a peer list that is stale by then | a reset job is taken over |
| discovery | `core/internal/discovery/discovery.go` | `devices`, `device_models`, `models` | pass, port probe, subnet scan, LAN clearing, extra endpoints; also written by workers that register, report metrics or report a device offline | overlapping passes of the ticker and of requests, each with a peer list read at its start; statements that fail or are cut off; a row that is deleted or rewritten between a probe and the write of its answer | status, models and addresses follow the tailnet and the servers once these stay as they are; no device offers what its server never had |
| circuit breaker | `core/internal/routing/router.go:21-89` | `circuits` in memory | record, degraded?, status | fed by job handlers and proxies under a mutex; a window that each further failure restarts; restart | three failures in a row degrade, one success restores |
| router | `router.go:126-618`, smart routing in `handlers.go` | none of its own | RouteLLM, SelectOllamaDevice, local and cloud lookup | reads four tables and the breaker at different times | a usable device or the cloud is found if there is one |
| device limits | `core/internal/limits/limits.go` | `device_limits` | ApplyDeviceLimits, DeriveDeviceLimits, ModelAllowed | written row by row and ended by the first error; the same rule stated twice, in Go and in SQL; lists that are not stated | both filters agree, limits reach every device they are meant for |
| telemetry | `telemetry/llm_telemetry/main.py` | last alerts | poll, compare, send | an alert marked before it is sent | each problem is reported once |
| embeddings and chat proxy | `handlers.go` | none | proxy with retries | retries pick the same device | a working device is used |
| catalogue, costs, statistics, dashboard, metrics | `handlers.go`, `scripts/` | their tables | upserts, queries | little | - |
| MCP bridges, configuration, generated code, deployment | `mcp/`, `fastmcp/`, `core/internal/pb`, `k8s/` | none | translation | - | - |

**Interaction.** Clients insert jobs. Workers poll for claims and call back over
gRPC (the worker of this repository) or over `/v1/worker/*`. Every handler
changes the tables with statements of its own; the row locks of PostgreSQL are
all that orders them. The trigger on `jobs` notifies the streams. Discovery
writes `devices` and `device_models`, which the HTTP claim and the router read,
and resets leases. ApplyDeviceLimits reads the tags that discovery writes, and its
rows go when discovery deletes a device. The HTTP handlers feed the circuit breaker, which the router reads.

## 2. Modules

| module | models | state |
|---|---|---|
| `JobQueue` | the tables, all handlers of the worker protocol, the worker loop, the lease reset | columns of a job; its attempt rows as a sequence of statuses; for each worker its place in `main`, its call in progress and one call it no longer waits for (`call[<<w, "detached">>]`), one heartbeat in flight |
| `JobLifecycle` | what the queue promises about one job | `status`, `attempts`, the jobs a mishap has befallen |
| `MCJobQueue` | instances of `JobQueue` | - |
| `JobQueueProofs` | theorems about `JobQueue`, the refinements of `JobLifecycle` and `JobTable` | - |
| `JobTable` | the interface between queue and streams: how the statuses of a table `jobs` may change at all | `status` |
| `JobCountProofs` | theorems about what `JobQueue` counts: attempts, runs and costs, rows | - |
| `CircuitProofs` | theorems about what `JobQueue` tells the circuit breaker | - |
| `JobStream` | SSE and gRPC streams, trigger, LISTEN, the pool | place of each handler, connection held, last status told; for each connection LISTEN and its waiting notifications |
| `MCJobStream` | instances of `JobStream` | - |
| `StatusWatch` | what a stream promises its client: a wait on a condition variable, without connections and notifications | `status`, what each client was told, whether its stream is due, asleep or ended |
| `JobStreamProofs` | theorems about `JobStream` and the refinement of `StatusWatch` | - |
| `StatusWatchProofs` | why sleeping is safe in `StatusWatch` | - |
| `CircuitBreaker` | the map `circuits` and its methods | failures of a device up to the threshold, whether it was degraded less than five minutes ago |
| `Router` | routing of requests, and the jobs and proxied calls that feed the breaker (`Breaker == INSTANCE CircuitBreaker`) | place of each client's request, the device or provider it goes to, failed attempts; devices online |
| `MCRouter` | instances of `Router` | - |
| `RouterProofs` | theorems about `Router` | - |
| `ModelTiers` | what is inferred of a model (tier, context, kind) and of a prompt, and the filter of smart routing: functions | - |
| `DeviceLimits` | the table `device_limits`, its derivation and the two filters that read it (uses `ModelTiers`) | the row of each device, what ApplyDeviceLimits has still to write |
| `Discovery` | passes, the other writers of devices, the limits (`Limits == INSTANCE DeviceLimits`), what the router finds | rows, tags, status and offered models of the devices; tailnet and servers; for each of two passes its place, peer list and what it has left |
| `MCDiscovery` | instances of `Discovery` | - |
| `DiscoveryProofs` | theorems about `Discovery`, `DeviceLimits` and `ModelTiers` | - |

### JobQueue

* **Grain.** One SQL statement is one atomic action. `CompleteJob` is
  `CompleteUpdate`, `CompleteRows` and, over HTTP, `RecordCost` and
  `CompleteCircuit`; `FailJob` is `FailRead` (the SELECT of attempts and
  max_attempts, whose verdict the handler keeps), `FailUpdate`, `FailRows` and,
  over HTTP, `FailCircuit`. Errors the code ignores are `StatementFails`. A
  handler ends early when its worker goes away or its 5 s context runs out
  (`Abandon`, `DetachedEnds`).
* **Claims** are the one transaction: `ClaimSelect` takes the row lock
  (FOR UPDATE SKIP LOCKED), `ClaimCommit` changes the row. Statements that
  write a locked row wait. `ORDER BY priority, queued_at` orders only rows that
  other transactions have not locked at that moment, so the model picks any
  eligible row. PostgreSQL re-checks the WHERE of the locked row on its newest
  version, as the guard does; the count of running tasks and the device's
  status come from the statement's snapshot. The model reads the snapshot and takes
  the lock in one step, the tightest schedule there is: `device_limit` needs
  no wider one.
* **Time** is the state of a lease: `live`, `expired`, `none` (NULL).
  `LeaseExpires` may happen at any moment; while a heartbeat thread is alive it
  counts as a mishap.
* **Mishaps** are counted per job in the ghost variable `faults`: a crash, a
  lost reply, a broken call or statement, a lease that runs out under its
  worker, a reset by discovery. Most safety properties are about jobs with
  `faults[j] = 0`: what happens to *other* jobs is unrestricted. `MaxFaults`
  bounds them.
* **Workers.** gRPC and HTTP workers share one loop, that of `main.py`; the
  repository has no HTTP worker, so an HTTP worker is assumed to call the HTTP
  endpoints in the same order. A worker that gives up on `CompleteJob` calls
  `FailJob` for the same job, as the except clause of `main` does; the abandoned
  handler may still run on the server. Bounds: one abandoned handler and one
  heartbeat in flight per worker, `MaxBeats` heartbeats in all.
* **The breaker's count** of a device (`failures`) is fed by the HTTP handlers and,
  from outside the queue, by the proxies of the core (`ProxyRecords`: HandleEmbeddings
  and the chat proxies), and a restart of the core empties it (`CoreRestarts`). The ghosts `proxied` and
  `emptied` remember the proxies' failures and the devices whose count was emptied by a
  proxied success or a restart. `MaxFlips` bounds what happens to devices from outside:
  changes of their status, results of the proxies and restarts together.
* **Debug jobs** (`HandleDebugTest`) are inserted as queued and marked done by a
  second statement, so a worker can claim one in between. They are left out of
  the properties about undisturbed jobs, and named in the two that admit what
  happens to them.

### JobStream

* A handler's place is the statement before which it stands. `Acquire` and every
  `fetchJob` need a free connection and wait for it without a timeout.
* The trigger appends the job to the inbox of every listening connection. A
  payload of another job is skipped. `Release` keeps LISTEN and the inbox, as
  pgxpool does; a dead connection is replaced.
* `TimesOut` is the 15 s fallback: it needs an empty inbox or a dead connection.
  `CheckFails` is the `continue` after a failed `fetchJob`.
* The statuses of jobs change as `JobTable` allows, also away from `done` (a
  disturbed job can be revived); `JobQueue` implements the same `JobTable`
  (`ImplementsTable`), so the two modules compose through it.
* `StatusWatch` is what remains when connections, LISTEN and notifications are
  hidden. A stream is *asleep* (`Asleep`) when it waits without a payload of its job
  in the inbox, on a live connection and without a read that failed; the trigger's
  notification, a timeout or a dead connection makes it *due*, and only a look at the
  current status puts it to sleep.
* The trigger is a migration (`db/migrations`); `compose.yml` and the k8s
  manifests only run `db/init`. Without it nothing is notified, which the model
  covers for liveness only in so far as `EndIsDelivered` does not rely on the
  notification: the fallback alone delivers the end.

### CircuitBreaker and Router

* Every method of the breaker holds its mutex and is one step. The count is only
  compared with 3, so it is kept up to the threshold. A restart of the core
  empties it. `FiveMinutesPass` needs five minutes without a failure: each one at
  or above the threshold sets DegradedAt to now (`router.go:55-57`). Nothing
  makes that happen, so it has no fairness: a device that keeps failing in named or
  proxied calls stays degraded.
* A request moves from query to query: `PickLocal` (the row of findLocalModel,
  LIMIT 1), `CheckBreaker`, `FindCloud`; or `ChooseProvider` and `Select`; then
  `Insert`. Other requests, results and devices act between two of them. A query
  that fails counts as one without a row, as in the code, or ends the request
  (`Abort`).
* The WHERE clauses are data: `Local[c]` are the devices with a model that fits
  what c asks, `Clouds[c]` the providers whose model may come first. `Rank` is
  the part of ORDER BY that does not change; findLocalModel also prefers the
  device with fewer jobs (`Load`), after the rank; ties are left open. A request
  with a ready payload, or without a model and a quality, makes no such choice
  and is left out, and so are proxied calls to cloud models.
* Whether a device answers is a choice at each call. `JobSucceeds` and `JobFails`
  are what the HTTP handlers record; `JobEndsUnrecorded` are the jobs of the gRPC
  worker, of the cloud, and results that do not name their device.
* The ghost `seen` collects, while a smart request is routed, the devices that
  were not degraded at some moment.

### ModelTiers and DeviceLimits

* Sizes and memory are in tenths of a GB, parameters in thousandths of the unit
  "B", so the comparisons and roundings of the code are exact integers. A value
  that could not be parsed is `Unset`, the NULL of its column.
* A name is reduced to the one part the code looks for in it (`Names`), a list of
  models to entries with or without blanks; the empty name is `NoName`, which
  parseStringList drops (`Listed`) and the SQL does not. A list the specification does not
  state is `NoList`: a nil slice, stored as JSON null, which `= '[]'` does not
  match and in which `?` finds nothing.
* ApplyDeviceLimits is `Begin` (the SELECT of the tagged devices), one `Write` per
  device, those that are named first, in any order (a Go map), and `Finish`. An
  INSERT for a device without a row fails and ends it (`End`).

### Discovery

* **Grain.** A statement of the code is one action, except that the two that store
  one model (models, device_models) are one. A pass reads the peers when it begins
  (`Run`). probeOllamaPort sends one request for each address and host header of the
  node (`env.requests`); each answer (`Answer`) is stored before the next request: its
  models one by one (`StoreModel`), then the others become unavailable
  (`DropOthers`). After the last request the address is written (`TagAddress`) if any
  was answered (`heard`).
* **Two passes**, the ticker's and one of POST /v1/discovery/run, act on the same
  rows. The second may be cut off anywhere by its 15 s (`Cut`). A statement may
  fail (`StatementFails`) with the effect the code gives it: the node, port or
  endpoint is skipped, or the error ignored. `Restart` drops both passes.
* **Nodes** come online, go offline, leave the tailnet and join it
  (`NodeChanges`); a pass visits those in its list, so the row of a node that left
  stays as it is.
* **Devices** are the nodes, their other ports (`PortDevices`), the ids of scanned
  addresses (`Lan`: `lan-<address>`, and `lan-<address>:<port>` for the ports other than
  11434, `LanPorts`), extra endpoints and workers; these ids do not overlap. A
  device has one address, that of its fastest answer. It is assumed that all
  addresses of a node lead to the same servers; hosts, latencies and the
  reconnect of a probe are left out. A server on a node answers only while the
  node is up. The default port is probed if OLLAMA_PORTS is empty or lists it
  (`env.standard`).
* **Subnets** are those that DISCOVERY_SUBNETS names (`env.lan`) and, when the list of
  peers could be read, those this node routes (`env.routes`); each is assumed to hold an
  address (a /31 or /32 holds none). Without the scan every row of an
  earlier one is deleted; with it only `lan-<address>` of this node's own addresses,
  and only if there is a subnet to scan and the list could be read (`Unwanted`).
* **Environment.** A process starts with one record of `Envs`: whether and what it
  scans, which ports and extra endpoints it probes, its limits, and how many
  events may befall it.
* **What the router finds** (`SelectOllamaDevice`, `FindLocalModel`) are the WHERE
  clauses over these tables; the order and the rest of a request are `Router`'s.
* The ghost `told[d]` collects what d's own server has ever answered. A server that no
  probe of the environment reaches does not change.

## 3. Runs

All bounds are constants of the .cfg files or definitions of the MC modules.
Deadlock is not checked where the system may stop because all jobs or streams
have ended; in `Router` the devices and clients go on for ever.

| run | instance | shows |
|---|---|---|
| `queue_grpc` | 2 gRPC workers, a job with two attempts and one mishap, a debug job, 1 heartbeat in flight | types, exclusive claims and runs, leases, verdicts, attempt rows, results, finality, refinement of `JobLifecycle` and of `JobTable` |
| `queue_http` | 2 HTTP workers, two jobs of one device, one mishap, no heartbeats (those are in `queue_grpc`), one event of the device: a change of its status, a result of a proxy or a restart of the core | the longer handlers: exclusive runs, rows, runs and costs within the mishaps, the breaker's count against the history of the runs and the proxies |
| `queue_live` | 2 gRPC workers, a benchmark job, two mishaps, with fairness | the job ends and stays ended; attempts are bounded by the mishaps |
| `device_limit` | two HTTP workers, two jobs, no mishap | **violation**: DEVICE_MAX_CONCURRENCY is exceeded by two concurrent claims |
| `offline_reset` | as `queue_http` | **violation**: a job whose lease was reset because its device is offline cannot be claimed over HTTP |
| `job_stream` | 2 SSE streams, 1 gRPC stream, 2 jobs, 2 connections, 1 failure | no lost wake-up, connections accounted for, refinement of `StatusWatch` |
| `stream_live` | 2 SSE streams of one job, 3 connections, 1 failure, with fairness | the stream of a finished job ends |
| `stream_pool` | 2 SSE streams, 2 connections, no failure, with fairness | **violation**: streams that hold all connections never read again |
| `router` | a client that routes by quality over 2 devices, one that names models or uses the proxies; 3 failures and 3 attempts as in the code; with fairness | degraded devices are passed over, keys respected, requests answered |
| `discovery` | 1 node, 1 other port of it, 3 LAN ids (one of another port, two of this node's addresses), 1 extra endpoint, 1 worker, 2 models; four environments; with fairness | models are a server's own, both filters agree, prompts fit; status, models, addresses, LAN rows and limits end as they should |
| `limits_unlisted` | a default that states only memory | **violation**: it excludes every model in SQL |
| `client_left` | 2 clients of the proxies, 1 device | **violation**: a client that goes away degrades a device |

**Why these bounds.** The hazards of the queue need two workers and one job: a
second claim while a late statement of the first run is on its way. A third
worker adds a second bystander and no new pair of statements. Two attempts
reach the requeue and the final verdict; a mishap on one job leaves the
other one undisturbed next to it, which is what `ExclusiveUntilDisturbed`
compares. One event of the device is enough for the breaker: two failures degrade
there, so a proxy's result or a restart comes before, between and after the handlers that
count them. Two mishaps in `queue_live` reach a job that is finished, revived by
`FailJob` and finished again. For the streams, two connections and three streams
make each connection pass from one holder to the next with LISTEN on and foreign
notifications in its inbox; with three connections two streams always find one
to read with, with two they do not. In `router` the second client feeds the
breaker with every kind of result while the first one is between two queries, and
two devices let the first choice change with the load; restarts, departures and
requests are not bounded. `discovery` starts in one of four environments, so that
each kind of server meets the others without the product of all: `Scans` (a node and two
configured addresses, 2 events: a disturbance and one more in its aftermath, such as a
request with a stale peer list that overlaps the ticker's pass), `Ports` (node, port
and endpoint, two requests per probe of the node and its port, 1 event), `Routes` (no default port, only the other port and an
address that the node routes, 1 event) and `Limited` (lists on the node, one with an empty
name, memory on the endpoint, limits re-applied, 1 event).
Two requests per probe let the answers of one probe differ and a cut or a failure fall
between two syncs. Events are all that disturbs: a change of the tailnet or of a
server, a request, an unreadable peer list, a failed statement, a worker's call, a
restart; the passes and the writes of limits are not bounded. The two models are on
both sides of the derived limits, one of them without a size; the prompts of `ContextFits` sit at the
boundaries of the buckets and of the division by 1000. The theorems lift the
safety properties to all instances.

**Fairness** (`LiveSpec`). A worker and the call it waits for are one thread,
weakly fair: it polls for ever, the model answers or times out, and a call
returns or breaks. `main.py` sets no deadline on its stubs; a server that accepts
a call and hangs for ever is left out. Abandoned handlers end by their context,
heartbeats arrive or are lost, leases that nobody renews run out. No client has to
submit, no mishap has to happen. Streams are strongly fair because
pgxpool serves waiting requests in order of arrival: one that finds a free
connection again and again gets it. Other handlers return their connections (they
have timeouts). No client has to connect or to go away. In `Router` handlers run on and have
timeouts, and jobs end (`EventuallySettled`); no device has to recover. In `Discovery`
the ticker runs passes (DISCOVERY_INTERVAL is set, as in `k8s/configmap.yaml`; its default is 0, and
then only requests run passes). Its probes end, since their clients have timeouts (2 s, and
300 ms in a scan); its statements run on a background context
without a deadline, so that they end is an assumption about PostgreSQL and the network. The limits are
written, and re-applied if DEVICE_LIMITS_INTERVAL is set. Nothing outside has to
happen. The liveness properties have the form "if the world stays so from some
moment on, then in the end ..."; that events run out only makes such moments exist.

**Disagreements with the documents** are the violation runs; `findings`
in PROJECT.json quotes the lines. Others were met while modelling discovery and
need no run; the modules follow the code:

* `doc/README.md:528` gives other bounds for the tiers than `inferTier` (1.2, 2,
  4.5 and 10 billion).
* `doc/README.md:469` lets one task through after the five minutes;
  `IsDeviceDegraded` then lets every task through until the next result.
* `CHANGELOG.md:66` promises a cascade; smart routing takes one row and gives up if its
  device is degraded, and likewise if the provider has no key (`PickLocal`, `FindCloud`).
* `doc/README.md:520` shows a port device for 11434; the default port's server is
  the node's device itself, only the other ports have their own (`ServersOf`).
* `doc/README.md:529` says that a name that contains `qwen3` thinks;
  `inferThinking` asks for the prefix `qwen3:`. (No query that is modelled reads it.)
* Addresses found by the scan keep their models as a tag and get no rows in
  `device_models`: no query routes to them.
* A row `lan-<own address>:<port>`, found while the list of peers could not be read, is
  neither deleted by a later scan nor probed again: it stays online for good
  (`discovery.go:680`, `:725`). `LanCleared` promises the deletion for the standard port only.
* Ports, extra endpoints and nodes that left the list of peers keep status and address
  when they no longer answer; `StatusFollowsPeers` and `SilentDropped` are about
  nodes that stay in the list.
* An empty answer of a server leaves its old models available (`ModelsFollow`
  excludes it).
* Without DEVICE_LIMITS_INTERVAL the default `*` never reaches a device that is
  discovered after the start (`LimitsReachAll` needs `env.every`).
* `findLocalModel` reads no row of `device_limits`.

## 4. Proofs

The theorems hold for every number of jobs, workers, devices, streams,
connections and clients, every max_attempts, threshold and bound, from the
assumptions named in the modules (types of the constants, null values distinct).

`JobQueueProofs` builds one inductive invariant in layers, each proved from
`TypeOK` and the layers below.

1. `TypeCorrect`: `TypeOK`.
2. `Control` (`ControlInv`): a worker, the job in its hand and its handlers
   belong together; a handler nobody waits for belongs to a disturbed job. This is
   why late statements cannot touch an undisturbed job.
3. `RowsSafe` (`RowInv`): facts about single rows. A claimed row stays claimable
   until the commit (`ClaimStillValid`); only running jobs have leases
   (`LeaseOnlyWhileRunning`); a verdict that was read stays sound because
   attempts only grow (`ErrorMeansExhausted`).
4. `RunsExclusive` (`RunInv`): an undisturbed job runs exactly while one worker
   holds it (`ExclusiveUntilDisturbed`), under a live lease, which is what keeps
   it from being claimed again, and has a result iff it is done (`ResultIffDone`).
5. `AttemptsLeft` (`AttemptInv`): an undisturbed queued job has attempts left or
   has never run, and FailJob's verdict is still the one its row calls for when it
   is written. The claim itself does not test max_attempts, so this has to follow
   from the history.
6. `EndIsFinal` (`TerminalIsFinal`) and `QueueImplementsLifecycle`
   (`ImplementsLifecycle`) follow from the four invariants step by step.
7. `QueueImplementsTable` (`ImplementsTable`) is about all jobs, the disturbed and
   the debug ones too. A step changes one status (`OneRow`) to one the streams
   know. That the row is there has to be an invariant, `PresentInv`
   (`WorkIsOnRows`): a worker, a handler that it no longer waits for and a debug
   handler only have jobs that were inserted, however long ago.

The lemmas before them say once what each kind of step can do to a row
(`RowCases`), a claim (`ClaimCases`) and a handler, so that each invariant has a
case per kind of change.

`JobCountProofs` extends it to numbers; its invariants cover disturbed jobs too.

- `BudgetsKept` (`BudgetInv`): what can still start a run of a job or record a cost
  of it is a set of tokens: its open row (a claim can take it now, or once its
  lease has run out without a mishap) and the runs and handlers on their way (`Live`). A
  claim turns the row into a run, a run becomes its handler, an UPDATE gives the
  row back, RecordCost uses a handler up; only a mishap makes one more. So
  costs plus tokens never exceed one plus the mishaps. For attempts only the row and
  the handlers that have read "queued" count (`Requeues`): those put the
  job back whatever happens meanwhile, and a FailRead that joins them has just
  seen an attempt left. `AttemptsBounded` (`AttemptsWithinBudget`) follows, and
  `RunsBounded` (`RunsWithinMishaps`): a worker that holds the job is a token, so
  the runs under way and the costs recorded are together one, and at most one more
  for every mishap. For a disturbed job, to which `ExclusiveUntilDisturbed` says
  nothing, this is the bound on how many workers run it at a time.
- `DebtsTallied` (`AccountInv`): each step keeps the rows of a job, opens one
  or closes one (`RowStep`), and for an undisturbed job the workers that owe a
  row change in the same way. CloseNewestRow picks a greatest element, whose
  existence (`MaxExists`) comes from the library's well-founded minimum.
  `RowsAreAccounted` (`RowsAccounted`) is a corollary.

`CircuitProofs` relates what no step changes together: the row of the
attempt, the handler that has closed it, and the count in memory, which proxies and
restarts change too. `HistoryKept` (`HistoryInv`): for a device all of whose jobs are
undisturbed, the count is at most `Told`, the number of its rows in error less that of
the handlers that have still to report one (`Pending`), plus the failures of the
proxies; so no failure is counted twice. It equals that number, up to the threshold, as long as no run
succeeded there and neither a proxied success nor a restart has emptied the count (`Fresh`); so none is
missed. And a handler that reports a success has a row in done behind it
(`Succeeded`). It rests on `AccountInv`: only where each worker in debt has an open row
of its own does the late UPDATE of `FailRows` find one to close, and add to the
history what it adds to the handlers. `CircuitMatches` (`CircuitMatchesHistory`) is the
case without handlers.

`JobStreamProofs`: `StreamTypeCorrect`; `PoolSafe` and `PoolAccounted` (one
holder per connection); `WakeupsKept`, by an invariant that says that a
stream past LISTEN is subscribed and that, from the first read on, it is told, or
has its job in the inbox, or lost its connection or a read (`WakeSafe`). `Notified` takes the head
of an inbox and `UpdateStatus` appends, so the lemmas are about Append and Tail.
`StreamsImplementWatch` (`ImplementsWatch`) rests on the same invariants: a stream's
phase is a function of its own place, inbox and connection (`PhaseIs`,
`SamePhase`), so a step of the pool or of another stream stutters; the UPDATE of a job
wakes exactly its sleepers, since a sleeper is subscribed; and a stream goes to
sleep only from a read that told the status the job still has. In `StatusWatch`,
`SleepIsSafe` follows from the ways a stream can be asleep after a step
(`WaysToBeAsleep`): it has just looked, or its job did not change, or the job was
inserted, and nobody sleeps on a job without a row. With `QueueImplementsTable` the two refinements
compose: every behaviour of the queue is one of the table that `JobStream` runs
beside, but for the bound `MaxUpdates`, which the theorems leave arbitrary.

`RouterProofs`: `RouterTypeCorrect` with the conjunct `Placed` (where a request
can stand depends on its kind; a call has a device), without which a result could be
recorded for no device. `Arrivals` lists the ways to a decided request; from it follow
`DegradedAvoided` and `CloudKeysHeld`, each in one case per way.

`DiscoveryProofs`: `DiscoveryInv` adds two conjuncts to the types. `InHand`: a pass
between a probe and its last statement has a device, a request to send while it
probes, and the models it has still to
store are among those the device has answered; without it a pass could write for
no device, and `OffersWereServed` is not inductive, since the answer is older than
the statement. `Owed`: limits are due only to devices with a specification. From it
follow `DiscoveryTypeCorrect`, `OffersFromServers` (each step keeps it because
the ghost only grows) and `FiltersAlwaysAgree`, one direction for each list: a stored list is `NoList` or a set of
entries; where the deny list has no blanks SQL admits nothing that Go refuses, and
where the allow list is stated, without blanks and not made of empty names alone, SQL admits all that Go
does. `ContextAlwaysFits`
rests on `PromptFits`, arithmetic about `minContextK`. `MoreMemoryAdmitsMore` and
`DerivedContextExcludesNone` are about the derivation of limits, for every
memory: the first says that its ranges join up, the second that a derived context
limit never excludes a model, being in another unit.

**Only model-checked**: `EventuallySettled`, `EndIsDelivered`,
`RequestsAnswered`, and the six liveness properties of `Discovery`.
Liveness and fairness are out of the prover's reach; every invariant and action property
of a passing run is a theorem.

## 5. Not modelled

Contents of payloads and results, model output, prices, priorities, kinds
beyond which worker admits which job, log lines, metrics, authentication, and
everything `PROJECT.json` lists as `not_modelled`. The core's own crash is
modelled in so far as every handler may stop between two statements for the
job it is working on; `Discovery` restarts as a whole. Of a peer list and an answer
only what the tables' readers tell apart is kept: no hosts, platforms or latencies, and of
addresses how many a probe tries and which ids a scan covers.
`hazards` in PROJECT.json without a property say why none covers them.

## 6. Plan

1. `CircuitBreaker`: a ghost for the tasks a device really failed and one for those
   sent since its five minutes ended, so that `doc/README.md:465-470` becomes
   properties (failures reported over gRPC are not counted, and after five minutes
   more than one task passes).
2. `Router` over the tables of `Discovery` in the place of its constants `Local`
   and `Clouds`.
3. `Discovery` composed with `JobQueue`: the list of offline nodes a pass ends
   with as the argument of HandleOfflineDevices.
4. `WorkerLease`: lease and heartbeat intervals in integers, the extension of
   `JobQueue`'s untimed leases.
5. `Telemetry`: the alert loop.
6. Proofs: what the violation runs leave open (which weaker promise does hold), the
   breaker of `Router` against the history of its results.
