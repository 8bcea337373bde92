---------------------------- MODULE ConsumerOnPool ----------------------------
(***************************************************************************)
(* The consumer with the worker pool it really has: KafkaConsumer in which *)
(* FifoExecutor's actions are replaced by the Submits, the worker          *)
(* goroutines and pool.Start of WorkerPool.                                *)
(*                                                                         *)
(* backlog, finished and shut are the pool's channel and history.  active  *)
(* and pool are what KafkaConsumer sees of the workers and of pool.Start   *)
(* (View): no step of the pool is guarded by them.                         *)
(***************************************************************************)
EXTENDS KafkaConsumer

CONSTANT Workers  \* the pool's worker goroutines

ASSUME WorkersType == IsFiniteSet(Workers) /\ Cardinality(Workers) = PoolSize

VARIABLES
    submit,     \* submit[o]: consume's call of pool.Submit for o
    worker,     \* worker[w]: a worker goroutine
    job,        \* job[w]: the message whose dispatch worker w executes, or 0
    poolStart,  \* where pool.Start is
    poolStop,   \* where pool.Stop is
    stopExpired,  \* the context of pool.Stop is done: nobody waits for it
    drainOnStop   \* the pool's option, which New leaves FALSE

realVars == <<submit, worker, job, poolStart, poolStop, stopExpired, drainOnStop>>
cvars == <<vars, realVars>>

\* workerpool.New(c.poolSize, WithLogger): the pool does not drain on Stop.  It
\* is started, and every Submit called, with the context of the consumer's Start.
P == INSTANCE WorkerPool WITH
    Tasks <- Offsets, NoTask <- 0,
    queue <- backlog, closed <- shut, done <- finished,
    start <- poolStart, stop <- poolStop,
    submitCanceled <- [o \in Offsets |-> ctxDone]

PoolPlace ==
    CASE poolStart = "none"                     -> "none"
      [] poolStart \in {"launching", "waiting"} -> "running"
      [] OTHER                                  -> "returned"

View == active = P!Running /\ pool = PoolPlace

\* A step of the pool shows in the consumer's view of it.
Shows == active' = P!Running' /\ pool' = PoolPlace'

CInit == Init /\ P!Init /\ ~drainOnStop

-----------------------------------------------------------------------------
\* A step of the consumer that does not touch the pool.
Own(A) == A /\ UNCHANGED realVars

\* A step of the pool that the consumer takes no part in.
PoolOwn ==
    UNCHANGED <<diskVars, start, loop, position, stage, reader, ctxDone, stop, once>>

\* consume has a message and calls pool.Submit.
Fetches ==
    /\ FetchMessage
    /\ submit' = [submit EXCEPT ![position] = "pending"]
    /\ UNCHANGED <<worker, job, poolStart, poolStop, stopExpired, drainOnStop>>

\* The task goes into the buffer and Submit returns nil.
Sends ==
    /\ LoopMoves("submitting", "fetching")
    /\ UNCHANGED position
    /\ P!SubmitSends(Held)
    /\ Shows

\* The task goes straight to a waiting worker, which enters the handler.
Hands(w) ==
    /\ loop = "submitting"
    /\ loop' = "fetching"
    /\ stage' = [stage EXCEPT ![Held] = "handling"]
    /\ UNCHANGED <<diskVars, position, lifeVars>>
    /\ P!SubmitHands(Held, w)
    /\ Shows

\* FAULTY: a Submit that failed is tried again.
SubmitErrsRetried ==
    /\ ctxDone \/ shut
    /\ LoopMoves("submitting", "submitting")
    /\ UNCHANGED <<position, poolVars, realVars>>

\* Submit returns an error: consume returns.
SubmitErrs ==
    /\ LoopMoves("submitting", "exited")
    /\ UNCHANGED position
    /\ P!SubmitGivesUp(Held) \/ P!SubmitPanics(Held)
    /\ Shows

Consumes ==
    \/ Fetches \/ Own(FetchEnds) \/ Own(FetchFails)
    \/ Own(BackoffElapses) \/ Own(BackoffCanceled)
    \/ Sends \/ (\E w \in Workers : Hands(w)) \/ SubmitErrs

\* A worker receives the oldest buffered task and enters its handler.
Takes(w) ==
    /\ UNCHANGED <<diskVars, loop, position, lifeVars>>
    /\ P!WorkerTakes(w)
    /\ stage' = [stage EXCEPT ![job'[w]] = "handling"]
    /\ Shows

Handles(w) ==
    /\ worker[w] = "busy"
    /\ Own(HandlerSucceeds(job[w]))

\* dispatch returns, and with it the task.
Returns(w) ==
    /\ worker[w] = "busy"
    /\ DispatchReturns(job[w])
    /\ P!TaskReturns(w)
    /\ Shows

Exits(w) == PoolOwn /\ P!WorkerExits(w) /\ Shows

Works(w) == Takes(w) \/ Handles(w) \/ Returns(w) \/ Exits(w)

\* wg.Go(func() { _ = pool.Start(ctx) }), and what Start does from there.
PoolStartCall ==
    /\ start \in {"consuming", "waiting"}
    /\ PoolOwn
    /\ P!StartCall
    /\ Shows

PoolStartStep ==
    /\ PoolOwn
    /\ (\E w \in Workers : P!LaunchWorker(w)) \/ P!StartBlocks \/ P!CloseTasks
    /\ Shows

\* Stop closes the reader and calls pool.Stop on the pool it sees.
StopBoth ==
    /\ Stop
    /\ IF reader = "nil" THEN UNCHANGED realVars ELSE P!StopBegins

\* The new process has a new pool.
RestartBoth ==
    /\ Restart
    /\ submit' = [o \in Offsets |-> "idle"]
    /\ worker' = [w \in Workers |-> "none"]
    /\ job' = [w \in Workers |-> 0]
    /\ poolStart' = "none"
    /\ poolStop' = "none"
    /\ UNCHANGED <<stopExpired, drainOnStop>>

CNext ==
    \/ Own(Connect) \/ Own(ConnectFails)
    \/ Own(ConsumeReturns) \/ Own(StartReturns)
    \/ Consumes \/ \E w \in Workers : Works(w)
    \/ PoolStartCall \/ PoolStartStep
    \/ Own(CancelCtx) \/ StopBoth \/ RestartBoth

CSpec == CInit /\ [][CNext]_cvars

\* The scheduler runs Start, the loop, pool.Start and the workers; handlers
\* return; the fetch of an available message succeeds in the end, and a select
\* whose ctx.Done() case is ready takes it in the end; a process that ended, its
\* Start having failed or returned, is restarted while the bound allows.
CFairness ==
    /\ WF_cvars(Own(Connect \/ ConnectFails))
    /\ WF_cvars(Own(ConsumeReturns \/ StartReturns))
    /\ WF_cvars(PoolStartCall) /\ WF_cvars(PoolStartStep)
    /\ WF_cvars(Consumes) /\ SF_cvars(Fetches)
    /\ SF_cvars(Own(FetchEnds \/ BackoffCanceled))
    /\ \A w \in Workers : WF_cvars(start # "returned" /\ Works(w))
    /\ WF_cvars(start \in {"failed", "returned"} /\ RestartBoth)

FairSpec == CSpec /\ CFairness

-----------------------------------------------------------------------------
(* Properties.                                                              *)

\* The real pool does what KafkaConsumer relies on, inside the consumer and
\* across restarts: whatever the consumer with its pool does, KafkaConsumer does.
ImplementsConsumer == Spec

\* What the places of the loop, of Stop and of pool.Start imply about the pool.
LinkInv ==
    /\ \A o \in Offsets : o >= position => submit[o] = "idle"
    /\ loop = "submitting" => submit[Held] = "pending"
    /\ poolStart = "none" => \A w \in Workers : worker[w] = "none"
    /\ stop = "none" => poolStop = "none"
    /\ ~stopExpired /\ ~drainOnStop

CInv == P!IInv /\ View /\ LinkInv
=============================================================================
