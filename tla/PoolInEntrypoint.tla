-------------------------- MODULE PoolInEntrypoint --------------------------
(***************************************************************************)
(* The worker pool as the entrypoint runs it: Entrypoint, in which the     *)
(* Start and the Stop of the service Pool are no longer black boxes but    *)
(* those of WorkerPool.  The pool's contexts are the entrypoint's: Start   *)
(* gets svcCtx and Stop gets stopCtx.  The other services stay black boxes.*)
(***************************************************************************)
EXTENDS Entrypoint

CONSTANTS
    Pool,                             \* the service that is the pool
    Tasks, Workers, QueueSize, NoTask  \* of WorkerPool

\* The pool is one of the services, built as WorkerPool assumes.
PoolInstance ==
    /\ Pool \in Stoppers
    /\ IsFiniteSet(Workers) /\ Workers # {}
    /\ QueueSize \in Nat
    /\ NoTask \notin Tasks

VARIABLES
    submit, submitCanceled, queue, closed, worker, job, done,  \* of WorkerPool
    poolStart, poolStop,  \* where the pool's Start and Stop are
    drainOnStop           \* the pool's option

poolVars == <<submit, submitCanceled, queue, closed, worker, job, done,
              poolStart, poolStop, drainOnStop>>
cvars == <<vars, poolVars>>

P == INSTANCE WorkerPool WITH
    start <- poolStart, stop <- poolStop,
    ctxDone <- SvcCtxDone, stopExpired <- StopCtxDone

CInit == Init /\ P!Init

-----------------------------------------------------------------------------
\* What is not a call or a return of the pool's Start and Stop: the pool sees of
\* it only that its contexts end.
Around ==
    /\ \/ RunBegin \/ RunStep
       \/ \E s \in Services \ {Pool} : SvcStep(s)
       \/ \E s \in Stoppers \ {Pool} : StopStep(s)
       \/ StartsAwaited \/ StopsAwaited
       \/ EnvStep
    /\ UNCHANGED poolVars

\* The goroutine of the service calls Start, and ends when Start has returned,
\* which for the pool is always with nil.
PoolStartCalled == StartCalled(Pool) /\ P!StartCall

PoolStartReturns ==
    /\ poolStart = "returned"
    /\ StartReturnsNil(Pool)
    /\ UNCHANGED poolVars

\* So does the one of Stop; its error is only logged.
PoolStopCalled == StopCalled(Pool) /\ P!StopBegins

PoolStopReturns ==
    /\ poolStop \in {"ok", "expired"}
    /\ StopReturns(Pool)
    /\ UNCHANGED poolVars

\* The callers of Submit, the workers, and what Start and Stop do on their own.
Submits(t) == UNCHANGED vars /\ (P!SubmitCall(t) \/ P!CancelSubmit(t))
SubmitGoesOn(t) == UNCHANGED vars /\ P!SubmitStep(t)
Works(w) == UNCHANGED vars /\ P!WorkerStep(w)
StartGoesOn == UNCHANGED vars /\ P!StartStep
StopGoesOn == UNCHANGED vars /\ P!StopStep

CNext ==
    \/ Around
    \/ PoolStartCalled \/ PoolStartReturns \/ PoolStopCalled \/ PoolStopReturns
    \/ \E t \in Tasks : Submits(t) \/ SubmitGoesOn(t)
    \/ \E w \in Workers : Works(w)
    \/ StartGoesOn \/ StopGoesOn

CSpec == CInit /\ [][CNext]_cvars

-----------------------------------------------------------------------------
(* Properties.                                                              *)

\* The composition is an entrypoint, ...
ImplementsEntrypoint == Spec

\* ... and its service a worker pool: its Stop is called only under a canceled
\* svcCtx, as WorkerPool takes for granted.
ImplementsPool == P!Spec

\* What an application with a draining pool may rely on: when Run has returned in
\* time and no start hook failed, the pool refuses every further Submit and every
\* task that was ever accepted has run to its end, although Start and Stop raced,
\* Submits raced both, and other services failed.
CleanRunDrains ==
    pc = "Returned" /\ ~Aborted /\ ~deadline =>
        /\ closed
        /\ drainOnStop => \A t \in Tasks : submit[t] = "ok" => t \in done

-----------------------------------------------------------------------------
\* What the goroutines of the entrypoint and the pool's Start and Stop know of
\* each other: a Start or Stop that is launched has not begun, and one whose
\* goroutine is done has returned.
LinkInv ==
    /\ svc[Pool] \in {"none", "launched"} <=> poolStart = "none"
    /\ svc[Pool] \in {"none", "launched", "running", "done"}
    /\ svc[Pool] = "done" => poolStart = "returned"
    /\ stop[Pool] \in {"none", "launched"} <=> poolStop = "none"
    /\ stop[Pool] = "done" => poolStop \in {"ok", "expired"}
=============================================================================
