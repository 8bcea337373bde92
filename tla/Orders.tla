------------------------------- MODULE Orders -------------------------------
(***************************************************************************)
(* The orders service of example/orders-service in its fullest wiring: the *)
(* store is a PostgresStore inside a CachingStore inside a PublishingStore,*)
(* so that every mutation is three steps that can each fail: the update of *)
(* the row, the invalidation of the cache, the event.  Its users run       *)
(* concurrently: the handlers that create and read orders, the tasks that  *)
(* confirm them in the worker pool, and the cleanup job.                   *)
(*                                                                         *)
(* Rows, cache entries and events survive the process, everything else is  *)
(* lost when it dies.  With ORDERS_REDIS or ORDERS_KAFKA off the cache and *)
(* event steps behave as the ones that fail do here, and within one        *)
(* process an InMemoryStore as a PostgresStore whose queries do not fail.  *)
(***************************************************************************)
EXTENDS Naturals, Sequences, FiniteSets

CONSTANTS
    Ids,          \* the orders that clients create, one request each
    Readers,      \* concurrent calls of CachingStore.Get
    MaxRestarts   \* bound: how often the process is restarted

ASSUME MaxRestartsType == MaxRestarts \in Nat

VARIABLES
    status,    \* status[o]: the row of o, "none" when there is none
    aged,      \* orders created before the cutoff of the cleanup job
    api,       \* api[o]: the handler that creates o
    task,      \* task[o]: OrderProcessor.process for o
    sweep,     \* where CleanupJob.run is
    batch,     \* the orders it canceled and has to report
    cache,     \* cache[o]: the entry of o in Redis, a status or "none"
    reader,    \* reader[r]: what Get has read from the store, to be cached
    events,    \* events[o]: the events of o, on their partition
    ctxDone,   \* the context of the services is done
    restarts   \* how often the process has been restarted

cleanupVars == <<sweep, batch>>
procVars == <<ctxDone, restarts>>
vars == <<status, aged, api, task, sweep, batch, cache, reader, events,
          ctxDone, restarts>>

Final == {"CONFIRMED", "CANCELED"}
EventTypes == {"created", "confirmed", "canceled"}
NoRead == <<>>

Init ==
    /\ status = [o \in Ids |-> "none"]
    /\ aged = {}
    /\ api = [o \in Ids |-> "idle"]
    /\ task = [o \in Ids |-> "none"]
    /\ sweep = "idle"
    /\ batch = {}
    /\ cache = [o \in Ids |-> "none"]
    /\ reader = [r \in Readers |-> NoRead]
    /\ events = [o \in Ids |-> <<>>]
    /\ ctxDone = FALSE
    /\ restarts = 0

-----------------------------------------------------------------------------
(* What the layers of the store do.  Errors of the cache and of the         *)
(* publisher are logged and forgotten.                                      *)

\* FAULTY: the update does not ask for a pending row.
WithConfirmedBlindly(o) == [status EXCEPT ![o] = "CONFIRMED"]

\* UPDATE ... WHERE id = $2 AND status = PENDING.
WithConfirmed(o) ==
    [status EXCEPT ![o] = IF @ = "PENDING" THEN "CONFIRMED" ELSE @]

\* FAULTY: the comparison with the cutoff is the wrong way round.
StaleFresh(o) == status[o] = "PENDING" /\ o \notin aged

\* WHERE status = PENDING AND created_at < cutoff.
Stale(o) == status[o] = "PENDING" /\ o \in aged

WithStaleCanceled ==
    [o \in Ids |-> IF Stale(o) THEN "CANCELED" ELSE status[o]]

\* Redis DEL of the keys, or an error.
Invalidate(ids) ==
    \/ cache' = [o \in Ids |-> IF o \in ids THEN "none" ELSE cache[o]]
    \/ UNCHANGED cache

\* The event is produced, or it is not.
Emit(o, type) ==
    \/ events' = [events EXCEPT ![o] = Append(@, type)]
    \/ UNCHANGED events

-----------------------------------------------------------------------------
(* handleCreate, and CreateOrder of the gRPC API: Create, then Enqueue.     *)

Create(o) ==
    /\ api[o] = "idle"
    /\ status' = [status EXCEPT ![o] = "PENDING"]
    /\ api' = [api EXCEPT ![o] = "created"]
    /\ UNCHANGED <<aged, task, cleanupVars, cache, reader, events, procVars>>

\* The request is invalid or the INSERT fails, perhaps after it was applied.
CreateFails(o) ==
    /\ api[o] = "idle"
    /\ \E applied \in {"none", "PENDING"} :
          status' = [status EXCEPT ![o] = applied]
    /\ api' = [api EXCEPT ![o] = "done"]
    /\ UNCHANGED <<aged, task, cleanupVars, cache, reader, events, procVars>>

EmitCreated(o) ==
    /\ api[o] = "created"
    /\ Emit(o, "created")
    /\ api' = [api EXCEPT ![o] = "enqueueing"]
    /\ UNCHANGED <<status, aged, task, cleanupVars, cache, reader, procVars>>

\* FAULTY: the order is enqueued before Create has emitted its event.
EnqueueUnordered(o) ==
    /\ api[o] \in {"created", "enqueueing"}
    /\ task[o] = "none"
    /\ task' = [task EXCEPT ![o] = "queued"]
    /\ api' = [api EXCEPT ![o] = IF @ = "enqueueing" THEN "done" ELSE @]
    /\ UNCHANGED <<status, aged, cleanupVars, cache, reader, events, procVars>>

\* The pool accepts the task.
Enqueue(o) ==
    /\ api[o] = "enqueueing"
    /\ task' = [task EXCEPT ![o] = "queued"]
    /\ api' = [api EXCEPT ![o] = "done"]
    /\ UNCHANGED <<status, aged, cleanupVars, cache, reader, events, procVars>>

\* It does not, within two seconds or because it is closed: the order stays
\* pending and is left to the cleanup job.
EnqueueFails(o) ==
    /\ api[o] = "enqueueing"
    /\ api' = [api EXCEPT ![o] = "done"]
    /\ UNCHANGED <<status, aged, task, cleanupVars, cache, reader, events, procVars>>

-----------------------------------------------------------------------------
(* OrderProcessor.process, in a worker of the pool.                         *)

TaskMoves(o, from, to) ==
    /\ task[o] = from
    /\ task' = [task EXCEPT ![o] = to]
    /\ UNCHANGED <<aged, api, cleanupVars, reader, procVars>>

\* case <-ctx.Done(): also what becomes of a task drained at shutdown.
ProcessCanceled(o) ==
    /\ ctxDone
    /\ TaskMoves(o, "queued", "over")
    /\ UNCHANGED <<status, cache, events>>

\* FAULTY: the outcome of the update is not looked at.
OutcomeAssumed(o) == "confirmed"

\* tag.RowsAffected() > 0
Outcome(o) == IF status[o] = "PENDING" THEN "confirmed" ELSE "skipped"

\* The row is updated, or left alone because it is not pending any more.
ConfirmPending(o) ==
    /\ TaskMoves(o, "queued", Outcome(o))
    /\ status' = WithConfirmed(o)
    /\ UNCHANGED <<cache, events>>

\* The query fails, perhaps after it was applied: no layer above does its part.
ConfirmFails(o) ==
    /\ TaskMoves(o, "queued", "over")
    /\ status' \in {status, WithConfirmed(o)}
    /\ UNCHANGED <<cache, events>>

\* CachingStore.ConfirmPending invalidates in both cases.
InvalidateConfirmed(o) ==
    /\ \/ TaskMoves(o, "confirmed", "emitting")
       \/ TaskMoves(o, "skipped", "over")
    /\ Invalidate({o})
    /\ UNCHANGED <<status, events>>

EmitConfirmed(o) ==
    /\ TaskMoves(o, "emitting", "over")
    /\ Emit(o, "confirmed")
    /\ UNCHANGED <<status, cache>>

TaskStep(o) ==
    \/ ProcessCanceled(o) \/ ConfirmPending(o) \/ ConfirmFails(o)
    \/ InvalidateConfirmed(o) \/ EmitConfirmed(o)

-----------------------------------------------------------------------------
(* CleanupJob.run; periodic.Service runs one at a time.                     *)

SweepMoves(from, to) ==
    /\ sweep = from
    /\ sweep' = to
    /\ UNCHANGED <<aged, api, task, reader, procVars>>

CancelStalePending ==
    /\ SweepMoves("idle", "swept")
    /\ status' = WithStaleCanceled
    /\ batch' = {o \in Ids : Stale(o)}
    /\ UNCHANGED <<cache, events>>

\* The query fails, perhaps after it was applied.
SweepFails ==
    /\ SweepMoves("idle", "idle")
    /\ status' \in {status, WithStaleCanceled}
    /\ UNCHANGED <<batch, cache, events>>

InvalidateCanceled ==
    /\ SweepMoves("swept", "emitting")
    /\ Invalidate(batch)
    /\ UNCHANGED <<status, batch, events>>

EmitCanceled(o) ==
    /\ o \in batch
    /\ SweepMoves("emitting", "emitting")
    /\ Emit(o, "canceled")
    /\ batch' = batch \ {o}
    /\ UNCHANGED <<status, cache>>

SweepEnds ==
    /\ batch = {}
    /\ SweepMoves("emitting", "idle")
    /\ UNCHANGED <<status, batch, cache, events>>

SweepStep ==
    \/ InvalidateCanceled \/ SweepEnds \/ \E o \in Ids : EmitCanceled(o)

-----------------------------------------------------------------------------
(* CachingStore.Get.  A hit changes nothing.                                *)

\* The cache misses or fails, and the store is read; an order that is not found
\* is not cached.
GetReads(r, o) ==
    /\ reader[r] = NoRead
    /\ status[o] # "none"
    /\ reader' = [reader EXCEPT ![r] = <<o, status[o]>>]
    /\ UNCHANGED <<status, aged, api, task, cleanupVars, cache, events, procVars>>

\* What was read is cached, or SET fails.
GetCaches(r) ==
    /\ reader[r] # NoRead
    /\ cache' \in {cache, [cache EXCEPT ![reader[r][1]] = reader[r][2]]}
    /\ reader' = [reader EXCEPT ![r] = NoRead]
    /\ UNCHANGED <<status, aged, api, task, cleanupVars, events, procVars>>

\* FAULTY: entries are stored without a TTL.
EntryExpiresNot(o) == FALSE /\ cache[o] # "none" /\ UNCHANGED vars

\* The TTL that SET was given ends.
EntryExpires(o) ==
    /\ cache[o] # "none"
    /\ cache' = [cache EXCEPT ![o] = "none"]
    /\ UNCHANGED <<status, aged, api, task, cleanupVars, reader, events, procVars>>

-----------------------------------------------------------------------------
\* staleAfter has passed since o was created.
Ages(o) ==
    /\ status[o] # "none"
    /\ o \notin aged
    /\ aged' = aged \cup {o}
    /\ UNCHANGED <<status, api, task, cleanupVars, cache, reader, events, procVars>>

\* Shutdown begins.  The last process that the bound allows is not shut down.
CancelCtx ==
    /\ ~ctxDone
    /\ restarts < MaxRestarts
    /\ ctxDone' = TRUE
    /\ UNCHANGED <<status, aged, api, task, cleanupVars, cache, reader, events, restarts>>

\* The process dies, at any moment, and is started again: requests, queued tasks
\* and a sweep in progress are gone, and nothing enqueues pending orders again.
Restart ==
    /\ restarts < MaxRestarts
    /\ restarts' = restarts + 1
    /\ ctxDone' = FALSE
    /\ api' = [o \in Ids |-> IF api[o] = "idle" THEN "idle" ELSE "done"]
    /\ task' = [o \in Ids |-> IF task[o] = "none" THEN "none" ELSE "over"]
    /\ sweep' = "idle"
    /\ batch' = {}
    /\ reader' = [r \in Readers |-> NoRead]
    /\ UNCHANGED <<status, aged, cache, events>>

ApiStep(o) ==
    \/ Create(o) \/ CreateFails(o) \/ EmitCreated(o) \/ Enqueue(o) \/ EnqueueFails(o)

Next ==
    \/ \E o \in Ids : ApiStep(o) \/ TaskStep(o) \/ EntryExpires(o) \/ Ages(o)
    \/ CancelStalePending \/ SweepFails \/ SweepStep
    \/ \E r \in Readers : GetCaches(r) \/ \E o \in Ids : GetReads(r, o)
    \/ CancelCtx \/ Restart

Spec == Init /\ [][Next]_vars

\* Time passes: orders age and cache entries expire.  While its context lives the
\* ticker goes on, and of sweeps tried again and again one succeeds; a process
\* that shuts down is started again.  Handlers and tasks may be slow for ever;
\* only a Get that has read does get around to caching.
Fairness ==
    /\ \A o \in Ids : WF_vars(Ages(o)) /\ WF_vars(EntryExpires(o))
    /\ SF_vars(~ctxDone /\ CancelStalePending) /\ WF_vars(SweepStep)
    /\ WF_vars(ctxDone /\ Restart)
    /\ \A r \in Readers : WF_vars(GetCaches(r))

FairSpec == Spec /\ Fairness

-----------------------------------------------------------------------------
(* Properties.                                                              *)

Entries == {"none", "PENDING", "CONFIRMED", "CANCELED"}

\* The state is well formed.
TypeOK ==
    /\ status \in [Ids -> Entries]
    /\ aged \subseteq Ids
    /\ api \in [Ids -> {"idle", "created", "enqueueing", "done"}]
    /\ task \in [Ids -> {"none", "queued", "confirmed", "skipped", "emitting", "over"}]
    /\ sweep \in {"idle", "swept", "emitting"}
    /\ batch \subseteq Ids
    /\ cache \in [Ids -> Entries]
    /\ reader \in [Readers -> {NoRead} \cup (Ids \X {"PENDING", "CONFIRMED", "CANCELED"})]
    /\ events \in [Ids -> Seq(EventTypes)]
    /\ ctxDone \in BOOLEAN
    /\ restarts \in 0 .. MaxRestarts

\* Confirmation and expiry of one order race, and the first wins for good: an
\* order that left PENDING never changes again.
OutcomeFinal ==
    [][\A o \in Ids : status[o] \in Final => status'[o] = status[o]]_vars

Emitted(o, type) == \E i \in 1 .. Len(events[o]) : events[o][i] = type

\* No event tells of an outcome the order does not have: the loser of the race
\* between confirmation and expiry emits nothing.
EventsTruthful ==
    \A o \in Ids :
        /\ Emitted(o, "confirmed") => status[o] = "CONFIRMED"
        /\ Emitted(o, "canceled") => status[o] = "CANCELED"

\* On the partition of an order its creation never follows its confirmation,
\* although they are emitted by a handler and by a worker.
CreatedFirst ==
    \A o \in Ids : \A i, j \in 1 .. Len(events[o]) :
        events[o][i] = "created" /\ events[o][j] = "confirmed" => i < j

\* No event is asked for twice: an order has at most one of each type, whatever
\* restarts, sweeps and failed queries it goes through.  (That the Kafka writer may
\* repeat an event while it delivers it is not modelled.)
EachEventOnce ==
    \A o \in Ids : \A i, j \in 1 .. Len(events[o]) :
        events[o][i] = events[o][j] => i = j

\* The cache may lag behind, but is never wrong about an outcome: an entry that
\* differs from the row says PENDING.
CacheOnlyLags == \A o \in Ids : cache[o] \in {"none", "PENDING", status[o]}

\* A stale entry does not stay: whatever invalidations fail, overtake a slow Get
\* or are cut off by a crash, the cache agrees with the rows in the end.
CacheSettles == \A o \in Ids : <>[](cache[o] \in {"none", status[o]})

\* No order is left pending for ever, whether its insert was reported as failed,
\* it was never enqueued, its task was lost with the process or drained under a
\* canceled context.
NoLimbo == \A o \in Ids : status[o] = "PENDING" ~> status[o] # "PENDING"

-----------------------------------------------------------------------------
(* The inductive invariant behind the safety properties.                    *)

\* An order whose handler has not emitted its creation has no task and no
\* confirmation; one whose handler has not run has no row.
ApiInv ==
    \A o \in Ids :
        /\ api[o] = "idle" => status[o] = "none"
        /\ api[o] \in {"idle", "created"} =>
              task[o] = "none" /\ ~Emitted(o, "confirmed")

\* Who is about to emit knows the outcome.
OutcomeInv ==
    /\ \A o \in Ids : task[o] \in {"confirmed", "emitting"} => status[o] = "CONFIRMED"
    /\ \A o \in batch : status[o] = "CANCELED"

\* A Get holds a status its order has or had.
ReaderInv ==
    \A r \in Readers : reader[r] # NoRead =>
        reader[r][2] \in {"PENDING", status[reader[r][1]]}

\* What is behind EachEventOnce: an order is enqueued once, and who is yet to emit
\* has not emitted before.
UnemittedInv ==
    \A o \in Ids :
        /\ api[o] # "done" => task[o] = "none"
        /\ api[o] \in {"idle", "created"} => ~Emitted(o, "created")
        /\ task[o] \notin {"skipped", "over"} => ~Emitted(o, "confirmed")
        /\ o \in batch => ~Emitted(o, "canceled")

IInv ==
    /\ TypeOK /\ ApiInv /\ OutcomeInv /\ ReaderInv
    /\ EventsTruthful /\ CreatedFirst /\ CacheOnlyLags
=============================================================================
