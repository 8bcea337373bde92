# gokit-services in TLA+

gokit-services is a Go toolkit for long-running services: an entrypoint that
starts, cancels and stops a set of services, and the services themselves
(servers, clients, pools, a Kafka consumer and producer, a periodic job). Its
hard part is lifecycle: goroutines, contexts, `sync.Once`, wait groups and
channels whose interleavings no unit test enumerates. This directory models that
part, checks it with TLC and proves its safety properties with TLAPS.

## 1. Inventory

| Component | State | Operations | Hard behaviour | What makes it correct |
|---|---|---|---|---|
| `pkg/core/entrypoint` | hooks, services, `svcErrs`, `svcCtx`, `stopCtx`, wait groups | `Run`, `Shutdown` | a goroutine per Start and Stop, four triggers, aborts on failed hooks, a timeout | drains completely or times out, leaves no service under a live context, reports the real cause, returns |
| `pkg/workerpool` | channel, workers, wait group, drain flag | `Start`, `Stop`, `Submit` | Submits race `close(p.tasks)`, Stop races Start | no accepted task is lost, FIFO, bounded width, Submit and Stop return |
| `pkg/kafka/consumer` | reader, pool, `closeOnce`; the group's offset at the broker | `Start`, fetch loop, `dispatch`, `Stop` | out-of-order completion, failed handlers and commits, process death | at-least-once delivery, Start ends on cancellation |
| `pkg/internal/retry` | attempt, backoff | `Do` | cancellation between attempts, limits | attempts and waits within the configuration |
| `pkg/dbservice`, `pkg/redisservice`, `pkg/grpc/client`, `pkg/kafka/producer` | handle under a mutex, a Once | `Start`, `Stop`, `Probe` | Stop overtakes Start, concurrent Stops, Close that hangs | no attempt leaks a handle, one close, Stop means closed, Stop is bounded |
| `pkg/http/server`, `pkg/grpc/server` | library server, `shutdownOnce`, watcher | `Start`, `Stop` | watcher and Stops share one graceful shutdown, deadlines, forced close | nil from Stop means drained, a late Stop is reported, Stop and Start end |
| `pkg/periodic` | ticker, `busy`, wait group | `Start` | ticks against running calls and the cancellation | no overlap, no call outlives Start, the loop does not wedge |
| `pkg/healthserver` | an HTTP server, probers | `/healthz`, `/readyz` | fan-out to probers that may hang, a client that hangs up | ready only if every prober said so to this request, every request is answered |
| `pkg/http/server` middleware | a `responseWriter` per request, gauge and counters | `middleware`, `WriteHeader`, `Write`, `Flush`, `Hijack`, `WriteProblem` | calls that pass the wrapper by, panics before and after the header, `r.Pattern` rewritten under way | what is recorded is what was sent, a panic is answered once or not at all, the gauge returns to zero |
| `pkg/http/client` | per request | `Do` | a body read while it is written, a server that panics half way, timeouts | no failure is returned as a success |
| `pkg/kafka/kafkanet.go`, `pkg/internal/prom` | none of their own | dial, register | I/O | not modelled |
| `example/orders-service` | order stores, cache, worker, cleanup, publisher | create, get, confirm, cancel stale orders | confirmation against expiry, cache fills against invalidations, crashes between store, cache and event | one final outcome, true events, a cache that settles, no order pending for ever |
| its wiring (`serverkit/backends.go`, `cmd/orders-service`) | `ready` channel, `warmedUp` | `Prepare`, `WaitReady`, the gated cleanup job | the pool is published while it is polled and probed, Prepare fails, shutdown during the warm-up | no sweep before the schema exists, start-up settles, the job ends |

Interaction: the entrypoint calls `Start` of every service in a goroutine of its
own under `svcCtx`; on a trigger it cancels `svcCtx`, runs the pre-stop hooks and
calls every `Stop` in a goroutine of its own under `stopCtx`, then waits for all
of them or for the timeout. Hence every service must live with a `Stop` that
runs while its `Start` is anywhere, also not scheduled yet, and with `svcCtx`
being done by then. That is the contract the service modules take over: they let
`Stop` begin once `ctxDone` holds, which `Entrypoint!StopAfterCancel` proves and
`PoolInEntrypoint` puts to use for one of them.
(`Server` and `KafkaConsumer` allow `Stop` at any time, which is more general: the
tests call `Stop` of the consumer under a live context.) The consumer owns a
worker pool and goes through `retry.Do`, as do dbservice, redisservice and the
producer. In the orders service the post-start hook `Prepare` waits for the pool
that dbservice publishes from its own goroutine and opens the gate of the cleanup
job; `/readyz` reads the pool and the job's flag concurrently with both. An HTTP
request goes from `Do` through net/http and the middleware to a handler, and the
response comes back through the `responseWriter`.

## 2. Modules

| Module | Models | Notes |
|---|---|---|
| `Lifecycle` | – | abstract: what `Run` promises, without hooks, channels or goroutines |
| `Entrypoint` | `core/entrypoint/entrypoint.go`, `core/service/service.go` | `pc` is where `Run` is; `svc[s]`, `stop[s]`, `waiter` are its goroutines; services and hooks are black boxes |
| `MCEntrypoint` | – | hook counts for TLC |
| `FifoExecutor` | – | abstract: a first-in first-out executor of bounded width |
| `WorkerPool` | `workerpool/pool.go` | one Submit per task; the send is two actions, into the buffer and straight to a waiting worker; the recovered panic of a send on the closed channel is `SubmitPanics` |
| `PoolInEntrypoint` | `Entrypoint` and `WorkerPool` together | one service of the entrypoint is a real pool, its `Start` under `svcCtx` and its `Stop` under `stopCtx`; the others stay black boxes |
| `KafkaConsumer` | `kafka/consumer/consumer.go` | one partition; the pool is an instance of `FifoExecutor`; `Restart` keeps only the broker's offset and the handlers' effects |
| `ConsumerOnPool` | `KafkaConsumer` and `WorkerPool` together | the executor is the real pool, with its worker goroutines, its channel and its own `Start` and `Stop`; this is what the runs check |
| `Retry` | `internal/retry/retry.go` | `Do` as a machine over a configuration `cfg`, instantiated by `ManagedResource` |
| `ManagedResource` | `dbservice`, `redisservice`, `grpc/client`, `kafka/producer` | `kind` selects the service; actions differ where the code does (open-then-ping, Close in the background, Once or none, the producer's nil check inside its Once); a ping or probe begins under a live context (`PingBegins`, `dialing`) and may still succeed when the context ends before its answer comes, but never begins under one that is over |
| `Server` | `http/server/server.go` (Start, Stop), `grpc/server/server.go` | `kind` selects the server; net/http and grpc-go are external |
| `Middleware` | `http/server/server.go` (middleware, `responseWriter`, `WriteProblem`) | `rw` is the wrapper, `res` net/http's response behind it (external); the handler is the user's and calls the writer in any order, then returns or panics |
| `HttpClient` | `http/client/client.go` (`Do`, `StatusError`) | extends `Middleware` by the client's end of each request; the transport is external |
| `MCHttpClient` | – | symmetry of requests for TLC |
| `Readiness` | `healthserver/server.go`, `serverkit/backends.go`, `cleanup.go`, `dbservice` (publication, `Probe`), `cmd/orders-service/main.go` | the backends are chosen in `RInit`; its names start with R where others would clash |
| `Periodic` | `periodic/service.go` | both modes and the immediate call, chosen in `Init` |
| `Orders` | `example/orders-service`: handlers, processor, cleanup job, the three layers of the store | an update, its invalidation and its event are separate steps that can each fail; `Restart` keeps rows, cache and events only |
| `*Proofs` | – | theorems about the module they are named after; `HttpProofs` about `Middleware`, `HttpClient` and `Readiness` |

`WorkerPool` implements `FifoExecutor`, on which `KafkaConsumer` is built, and
`ConsumerOnPool` implements `KafkaConsumer`: what is shown of the consumer holds
with the real pool. `PoolInEntrypoint` implements both `Entrypoint` and
`WorkerPool`. `Entrypoint` implements `Lifecycle`. `HttpClient`
implements `Middleware`: a client does no more to a server than to close its
connection, so what is shown of the middleware holds with clients.

Conventions. Contexts are Booleans that become true once. A `sync.Once` is
`"fresh"`, `"busy"` or `"done"`: a second caller waits while it is busy. A
`select` with several ready cases is a disjunction. A definition marked FAULTY
is a variant with a plausible mistake that no specification uses; each is there
to show that a property would catch the mistake. Logging, metrics (but for those
of the HTTP middleware), tracing,
configuration parsing and message contents are left out.

Options set by a constructor (`drainOnStop`, `overlapping`, `immediateStart`,
the retry configuration, the kind of service) are variables that `Init` chooses and no action changes, so
one run covers all of them.

## 3. Runs

Passing runs:

| Run | Bounds | Shows |
|---|---|---|
| `entrypoint` | one service with Stop, one without; one hook per phase, two before the stops | `CleanReturn`, `NoOrphan`, `NoNoise`; `ImplementsLifecycle`; `TriggerLeadsToReturn` although services hang; `NoGoroutineLeft` when they cooperate |
| `worker_pool` | 3 tasks, 2 workers, queue of 2 | `AcceptedAccounted`, `DrainComplete`; `ImplementsFifo`; `SubmitReturns`, `AcceptedRuns`, `ShutdownReturns` |
| `consumer` | `ConsumerOnPool`: 4 messages, 1 worker goroutine of the real pool, the handler of message 2 may fail, 1 restart | `PrefixHandled`, `EveryMessageHandled`, `CancelEndsStart` |
| `managed_resource` | 4 kinds, 2 Stops, 8 retry configurations: 0 or 3 attempts, smallest and largest wait 2 or 4 each | `TypeOK` (attempts and waits within the configuration), `NoAttemptLeak`, `StopMeansClosed`, `ShutdownReturns` |
| `server` | both kinds, 2 connections, 2 Stops | `NilStopMeansDrained`, `CancelDrains`, `StopReturns`, `StopEndsStart` |
| `periodic` | 3 calls in flight, both modes, with and without the immediate call | `OneAtATime`, `KeepsCalling`, `CancelEndsStart` |
| `http` | 2 requests, one pattern or none, codes 0 (invalid), 103 and 204 besides the implied 200 and 500, 2 calls of the writer | `InflightMatches`, `RecordedIsSent`, `PanicAnswered`, `SuccessIsServed` |
| `readiness` | in memory or PostgreSQL, two other backends, one request of `/readyz` | `ReadyMeansUsable`, `NoSweepBeforeSchema`; `StartupSettles`, `CancelEndsCleanup`, `ReadyzAnswers` |
| `orders` | 1 order, 2 concurrent reads, 2 restarts | `EventsTruthful`, `CreatedFirst`, `OutcomeFinal`; `CacheSettles`, `NoLimbo` |

Why the bounds are enough to be interesting: two services suffice for both to
fail while one error is received, and for one to hang while the other drains; a
second pre-stop hook is skipped when the first fails. Three tasks against two
workers and a queue of two fill the queue and reorder completions. Four messages
with one worker fill the consumer's queue of two, so that the loop blocks in
`Submit` with one task running; a restart is one process death, at any moment.
Three attempts have an attempt that is neither first nor last and a backoff that
grows (2, 3) and is capped (4); a limit of 0 is the one that `Do` takes for 1, and a
smallest wait above the largest is among the configurations. Two Stops and the watcher are three contenders
for one Once. Orders meet only in the batch of a sweep, whose updates are
independent, so one order suffices for every race about it: handler, task, sweep
and two reads. Two requests at once drive the shared gauge; two calls of the
writer are enough for every ordered pair of header, write, flush and hijack
before a panic, and for a document sent whole or cut in half; 103 stands for the
informational codes, 204 for a status without body, 0 for a code net/http
refuses. Requests of `/readyz` do not touch one another, so one suffices, asked
at any moment of start-up or shutdown. Named bounds that the code does not have:
`MaxRestarts` (consumer, orders), `LogEnd` (consumer), `Slots` (calls in flight
of the overlapping mode), `MaxCalls` (calls of the writer by one handler). The
safety theorems below hold for every value of them. Requests are permuted
(symmetry) in `http`, whose properties are all invariants.

Deadlock checking is off everywhere: `Run`, `Start` and `Stop` return, and a
program that is over takes no step.

Violation runs, each a statement of the repository that the code does not meet:

| Run | Property | The code |
|---|---|---|
| `consumer_message_skipped` | `NothingSkipped` (consumer.go:39-40) | a failed message is not committed, but the next commit of its partition moves the group past it: the handler of 1 fails, 2 is handled and committed, and the offset is 3 |
| `http_panic_after_flush` | `ProblemIsWholeResponse` (ARCHITECTURE.md:90-91) | `Flush` passes through the wrapper and sends status 200 without setting `wroteHeader`; a panic after it appends the problem document to a response that has started, and records 500 |
| `resource_leak` | `StopClosesResource` (ARCHITECTURE.md:155) | the ping of dbservice begins, `svcCtx` is canceled, the ping still succeeds, and a Stop that runs before the publication sees no pool and returns nil; the pool is published afterwards and `Start` returns without closing it |

Behaviour met while modelling that the models contain and no run singles out:

- without `WithDrainOnStop` the workers go on with the buffered tasks after `Start`
  has returned, for as long as the process lives: they range over the closed channel,
  which hands out what is buffered. The comment at pool.go:35-36 speaks of leaving
  those tasks unprocessed and ARCHITECTURE.md:179 of dropping them. Nothing schedules
  the workers once `Run` has returned, so neither is promised, and `AcceptedRuns` is
  about pools that drain;
- a `Stop` that overtakes `Start` finds the wait group at zero and returns nil with
  tasks queued, although pool.go:34 says of a draining pool that Stop waits for them;
  `StopDrainsOrOvertakes` says that this is the only case: nil from Stop means that no
  worker was launched yet or that every accepted task has run;
- with several workers the commit of a message overtakes the handler of an earlier one
  that still runs, and a crash then loses the earlier one (`LossNeedsRestart` says that
  it takes a restart); the trace of `consumer_message_skipped` is the case of a handler
  that failed;
- `Start` of the consumer returns while workers still run handlers, and `Start`
  of the HTTP server can return while requests are in flight when a `Stop`, not
  the watcher, closed the listener (`CancelDrains` is about the other case);
- the commit uses the context of `Start`, which the shutdown cancels, although
  ARCHITECTURE.md:187-189 names the Kafka commit path among the work that
  outlives the cancellation (`CommitCanceled`); the message is delivered again;
- a task of the orders service drained at shutdown finds its context done and
  leaves its order pending, to be canceled by a later cleanup (`NoLimbo`);
- a Get that was slow stores an order that is no longer pending as pending after
  the invalidation, until the TTL ends (`CacheSettles`);
- the producer's `closeOnce` is spent by a `Stop` that finds no writer, so a
  later `Stop` closes nothing; that is the one exception of `StopMeansClosed`, which
  needs another Stop that was called and saw no writer;
- the first wait of `retry.Do` is `BackoffMin`, also when that exceeds
  `BackoffMax` (`ManagedResource!TypeOK` bounds waits by either);
- grpc/server logs an error of `Serve` and returns nil, http/server returns it;
- `stopCtx` is created before the pre-stop hooks, which spend its timeout, so a
  Stop can be called with it over already, although ARCHITECTURE.md:78-79 says that
  a Stop "gets its full timeout";
- signals and failures of services are looked at only after the post-start hooks;
  `EnsureSchema` runs there under `Run`'s context, without a timeout of its own,
  so a database that hangs in it delays the shutdown; and after a post-start hook
  that failed no `Stop` is called (`DbStops`);
- a probe runs in a goroutine of `wg.Go`, where no middleware recovers a panic;
  that none happens rests on `initMetrics` preceding the publication of the pool
  (`ProbesDoNotPanic`);
- the inflight gauge has an empty `http_handler` always: `r.Pattern` is read
  before the mux has matched the request (`Enter`). It is decremented under the
  label it was incremented under, which is what `InflightMatches` needs;
- a handler that sends 103, or a code net/http refuses, and then panics gives its
  client an empty 200: the wrapper takes the header for sent. A handler that flushes or
  hijacks passes the wrapper by. These are real behaviours of the wrapper, and what
  they leave open is spelled out by `Unseen` in `RecordedIsSent` and `PanicAnswered`;
  the properties are about every other sequence of calls;
- a handler that chose a 2xx status and then panicked looks like a success to
  `Do`, with the zero value or, had it written all of it, its document: the
  recovered panic ends the response regularly. `http.ErrAbortHandler`, which
  exists to prevent that, is recovered like any other panic (`SuccessIsServed`
  requires only that such a handler had begun its response);
- a tick that is pending when the context is canceled can still launch one call
  of the periodic function, which `Start` then waits for.

## 4. Fairness

Weak fairness of the steps of a goroutine's own code is the Go scheduler;
weak fairness of a timer or a deadline is the clock. Beyond that:

- `Entrypoint`: hooks return. Nothing is assumed of `Start` or `Stop`;
  `NoGoroutineLeft` has `CooperativeFairness` (Start returns under a done
  context, Stop returns: what `service.Service` asks) as its hypothesis.
- `WorkerPool`: tasks return. The workers are scheduled until `Start` has returned and
  not beyond, since `Run` and the process may end then. The context of Stop ends some
  time after the one of Start (the shutdown timeout). No caller gives up and no shutdown begins
  by itself. Weak fairness on each Submit is enough for `SubmitReturns` within a
  bounded number of tasks.
- `ConsumerOnPool`: the pool's `Start` and, until the consumer's `Start` has returned,
  its workers are scheduled, handlers return; a process that ended is restarted while
  the bound allows. `EveryMessageHandled` leaves out two ends: a last process that was
  shut down or could not connect, and a `Stop` that closed the reader of a process
  whose context lives on, which ends the fetch loop and not `Start`. Strong fairness of `FetchMessage` (the fetch of an available
  message succeeds in the end although fetches may fail in between) and of the
  cases on a done context, which a `select` that is repeated takes in the end.
- `ManagedResource`: attempts and waits end, a ping whose context is over among them. Whether `Close` returns is not
  assumed, which is what `ShutdownReturns` is about.
- `Server`: the contexts of Stops end and net/http closes idle connections while
  it shuts down. Nothing is assumed of HTTP handlers; a gRPC handler whose
  connection was closed returns, since grpc-go cancels its context and
  `GracefulStop` waits for it.
- `Periodic`: ticks come, `fn` returns; strong fairness of the `select` case of
  a done context.
- `Readiness`: Prepare's polls and timer and the job's ticks come, `EnsureSchema`
  returns, clients hang up on a request that gets no answer, and a probe returns
  once the context of its request is done. A sweep that is repeated succeeds in
  the end, and a `select` takes a case that is ready again and again (strong
  fairness). Nothing is assumed of the connection of dbservice, nor of a backend
  whose request still waits.
- `Middleware`, `HttpClient`: none; only safety is claimed. Handlers may run for
  ever.
- `Orders`: orders age and cache entries expire (the clock); while its context
  lives the cleanup job is called again and again and one of its sweeps succeeds
  (strong fairness); a process that was shut down is started again. Nothing is
  assumed of handlers or tasks.

## 5. Proofs

Each `*Proofs` module proves `Spec => []IInv` for an inductive invariant and
derives the properties from it, for every value of the constants under the named
assumptions of the module (finite sets where a cardinality is taken, `NoTask`
not a task, natural numbers, and the like). Why the properties are not inductive
as they stand, and what was added:

- **Entrypoint.** `CleanReturn` needs to know what `allDone` being closed means:
  `WaiterInv` (the waiter is past a wait group only when all its goroutines are
  done) and `PhaseInv` (what each place of `Run` implies about goroutines and
  cause). `NoNoise` and `SendersNeverBlock` need `ErrsInv` (the channel holds at
  most one error of each service, of finished goroutines) and `NoiseInv`; that
  the channel never fills up is then a counting argument on an injection from
  the channel into the other services. `Refinement` maps `pc` to the phase of
  `Lifecycle`, step by step.
- **PoolInEntrypoint** (in `EntrypointProofs`). `EntrypointRefinement`: every step
  is one of the entrypoint or invisible to it, so `IInv` carries over.
  `PoolRefinement`: every step is one of the pool or invisible to it. A step of the
  entrypoint is seen by the pool only as its context ending; that `stopCtx` ends
  after `svcCtx` is `PhaseInv`, and that Stop finds `svcCtx` canceled, which
  `WorkerPool` takes for granted, is `StopAfterCancel`. `CleanRunDrains` then takes
  `CleanReturn` from the one side, `DrainComplete` from the other (the lemmas of
  `WorkerPoolProofs`, instantiated for this pool) and `LinkInv` in between: a
  goroutine of the entrypoint that is done has seen its Start or Stop return. It
  rests on Start alone, not on Stop, whose nil says nothing when it overtook Start.
  The hypothesis `PoolInstance` says that the pool is one of the services and is
  built as `WorkerPool` assumes.
- **WorkerPool.** `AcceptedAccounted` follows from `PlaceInv` (only accepted
  tasks are inside, each in one place) and `KeptInv` (every accepted task is
  somewhere); `DrainComplete` from these, `LifeInv` and `WorkersStay`, and so does the
  action property `StopDrainsOrOvertakes`: a waiting Stop that finds the wait group at
  zero has either overtaken the launch of the workers or seen all of them leave.
  `Refinement` needs a bound on the number of running tasks (`WidthBound`).
- **KafkaConsumer.** `TipHandled` is inductive with `StageInv`, for every pool
  size and failing set. `PrefixHandled`, for one worker and any set of failing
  handlers, needs the order of messages through loop, queue and worker
  (`OrderInv`) and that everything behind the reader is handled, has failed or is
  still inside (`FetchedInv`). Three results refine the picture. `LossNeedsRestart`,
  for any pool size: until the first restart everything behind the reader is
  handled, has failed or is inside, and the offset follows the reader
  (`FirstRunInv`). `OncePerProcess`, for any pool size: a message that is queued,
  being submitted or ahead of the reader has not been begun, and no message is
  queued twice (`FreshInv`). `OffsetNeverRewinds`, for one
  worker: no message in the process is behind the offset (`AheadInv`); with several
  workers it is false.
- **ConsumerOnPool** (in `KafkaConsumerProofs`). `PoolRefinement` shows that the
  consumer with the real pool implements `KafkaConsumer`, for any number of
  workers: the pool's own invariant, a `View` of it as a `FifoExecutor`, and
  `LinkInv` (which Submit the loop is in, that offsets ahead of the reader are not
  submitted) are kept together by every step, restarts included. Hence
  `PrefixHandledOnPool`, and `AcceptedOnPool` for the pool across restarts.
- **ManagedResource.** `ConnectInv` ties the handle to the attempt that
  succeeded, `OnceInv` says who is inside the Once and what is behind it,
  `CloserInv` what a finished closer has done; attempts and waits are within `cfg`,
  which no step changes (`ConfigStays`). `LeakOnlyWhenOvertaken` says
  exactly how far the finding of `resource_leak` goes: one Stop that saw the handle
  is enough. Its `LeakInv` adds that a failed Start leaves nothing open, and what
  the producer's Once was spent on; `StopMeansClosed` takes that from it too.
- **Server.** `late` records, of every Stop that is called, whether its context was over
  by then, so that `NilStopMeansDrained` fails if the check at the top of Stop is dropped
  as well as if a Stop returns before the Once is done. `OnceInv` (a finished Once means that nothing is open for good),
  `StopInv` and `StartInv` (without any Stop it was the watcher that shut the
  server down). `NobodyWedged`, the safety half of `StopReturns`, needs `ForceInv`:
  a busy Once has a goroutine inside, a server that is down is released or being
  drained, and what a forced close left closed stays closed.
- **Periodic.** The flag `busy` says whether a call runs, and no call runs
  before the loop does.
- **Orders.** `EventsTruthful` needs `OutcomeInv` (who is about to emit knows the
  outcome, which is final), `CreatedFirst` needs `ApiInv` (no task before the
  handler has emitted the creation), `CacheOnlyLags` needs `ReaderInv` (a Get
  holds a status its order has or had). `OutcomeFinal` is an action property of
  the same invariant. `EachEventOnce` needs `UnemittedInv`: an order is enqueued
  once, and whoever is yet to emit has not emitted before. (Repeats by the Kafka
  writer itself are not modelled.)
- **Readiness.** `NoSweepBeforeSchema` needs `GateInv`: what each place of
  Prepare implies about pool and schema, that the gate is open only behind its
  last place, that a sweep is behind the gate, and that the flag `warmedUp` tells
  of a sweep. `ReadyMeansUsable` adds `CheckInv` (the outcome of the job's probe
  says the same, a 200 has only good outcomes), and `ProbesDoNotPanic` needs
  `MetricsInv` (a published pool has its histogram).
- **Middleware.** `RecordedIsSent` and `PanicAnswered` are about the end of a
  request. While the handler runs, `Agree` relates wrapper and response after any
  number of calls: sizes agree, and unless something passed the wrapper by
  (`Hidden`) it has seen a header exactly if one was sent. `Settled` and
  `Answered` say what is left of that after the recovery. `InflightMatches` is
  inductive with the types, by adding an element to a finite set and removing one;
  so is `PanicsCounted`, with a request that is panicking being marked as such.
- **HttpClient.** `ClientImplements` maps every step of a client to `ClientGone`
  or a stutter, so the invariant of Middleware carries over; `SuccessIsServed`
  needs `AnswerInv` besides (an answer is final, and a request that is done does
  not change).

Every module has a type invariant (`TypeOK`, in `Readiness` `RTypeOK`), proved as
`TypeCorrectness`, `MiddlewareTypes` and `ReadinessTypes`. The one of
`ManagedResource` is checked by its run as well, since it holds the limits of the
retry configuration. Proved, and left out of the runs: `SendersNeverBlock` and
`StopAfterCancel` (`Entrypoint`), `StopDrainsOrOvertakes` (`WorkerPool`), `TipHandled`, `LossNeedsRestart`,
`OncePerProcess` and `OffsetNeverRewinds` (`KafkaConsumer`), `ImplementsConsumer`
(`ConsumerOnPool`), `ClosedAtMostOnce` and `LeakOnlyWhenOvertaken`
(`ManagedResource`), one goroutine inside the Once and `NobodyWedged` (`Server`),
`CacheOnlyLags` and `EachEventOnce` (`Orders`), `NothingLeft` (`Periodic`),
`PanicsCounted` (`Middleware`), `ProbesDoNotPanic` (`Readiness`), and all of
`PoolInEntrypoint`, whose two halves are run by themselves: the state space is
their product. TLC agrees with each of them on a small instance; with one service,
two tasks and two workers `PoolInEntrypoint` has 286,980 states.

Only model-checked: every liveness property and every use of fairness and
ENABLED, which the prover does not reach. The violation runs are counterexamples.

## 6. Not modelled

- `kafkanet.go`: dialer configuration and a dial, I/O without state; its outcome
  is the success or failure of an attempt.
- `prom.RegisterOrReuse`: one call of the registry.
- `Produce` and `ProduceBatch`: they hand messages to kafka-go's writer and change
  no state of the producer; keys, headers and compression are conversions for
  that library.
- In the HTTP client, the construction of URL, headers, body and middleware
  chain before the request is sent; on the server, HEAD requests, whose bodies
  net/http drops.
- The branch of `dispatch` for a topic without a handler: the reader subscribes to
  registered topics only.
- Statistics of pools, `List` of the stores, `/healthz`: they only read, or answer
  a constant.
- In the orders service, decoding, validation and encoding in the handlers, the
  construction in `httpwiring.go`, the dashboard and generated code.

Two things a further step would take: the other services in the place of the
entrypoint's black boxes, as `PoolInEntrypoint` does for the pool, and a consumer
of several partitions, whose offsets are independent but whose tasks share one
pool.
