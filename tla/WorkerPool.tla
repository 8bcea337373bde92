----------------------------- MODULE WorkerPool -----------------------------
(***************************************************************************)
(* The bounded goroutine pool of pkg/workerpool: Start and the worker      *)
(* goroutines it launches, Stop, and one concurrent Submit for every task. *)
(*                                                                         *)
(* The channel p.tasks is the sequence queue and the flag closed.  Start   *)
(* gets the context ctxDone (canceled when the entrypoint shuts down),     *)
(* Stop gets the context stopExpired, and Submit(t) its own, submitCanceled*)
(* [t].  A task is opaque: it runs for a while and returns.                *)
(***************************************************************************)
EXTENDS Naturals, Sequences, FiniteSets

CONSTANTS
    Tasks,      \* the tasks that callers submit, one Submit call each
    Workers,    \* the p.size worker goroutines
    QueueSize,  \* the capacity of p.tasks
    NoTask      \* what a worker that runs no task holds

ASSUME WorkersFinite == IsFiniteSet(Workers) /\ Workers # {}
ASSUME QueueSizeType == QueueSize \in Nat
ASSUME NoTaskType == NoTask \notin Tasks

VARIABLES
    submit,          \* submit[t]: the Submit call of t
    submitCanceled,  \* submitCanceled[t]: the context of that call is done
    queue,           \* tasks buffered in p.tasks
    closed,          \* close(p.tasks) was executed
    worker,          \* worker[w]: a worker goroutine
    job,             \* job[w]: the task worker w is executing
    start,           \* where Start is
    stop,            \* where Stop is
    ctxDone,         \* the context of Start is done
    stopExpired,     \* the context of Stop is done
    drainOnStop,     \* p.drainOnStop, as WithDrainOnStop set it
    done             \* history: tasks that have returned

chanVars == <<queue, closed>>
workerVars == <<worker, job, done>>
lifeVars == <<start, stop, ctxDone, stopExpired, drainOnStop>>
vars == <<submit, submitCanceled, queue, closed, worker, job, start, stop,
          ctxDone, stopExpired, drainOnStop, done>>

Running == {job[w] : w \in Workers} \ {NoTask}
Queued == {queue[i] : i \in 1 .. Len(queue)}

-----------------------------------------------------------------------------
(* Channel and wait group.  A definition marked FAULTY is a variant of the  *)
(* one after it that no action uses: each shows that some property below    *)
(* would catch the mistake.                                                 *)

\* A send on the buffered channel does not block.
HasRoom == Len(queue) < QueueSize

\* FAULTY: wg.Wait() satisfied by one worker.
WaitGroupZeroOne == \E w \in Workers : worker[w] \in {"none", "exited"}

\* p.wg.Wait() returns: no worker was added, or every one added has returned.
WaitGroupZero == \A w \in Workers : worker[w] \in {"none", "exited"}

\* FAULTY: the worker gives up as soon as the channel is closed.
RangeOverWhenClosed == closed

\* for task := range p.tasks ends once the channel is closed and empty.
RangeOver == closed /\ queue = <<>>

-----------------------------------------------------------------------------
Init ==
    /\ submit = [t \in Tasks |-> "idle"]
    /\ submitCanceled = [t \in Tasks |-> FALSE]
    /\ queue = <<>>
    /\ closed = FALSE
    /\ worker = [w \in Workers |-> "none"]
    /\ job = [w \in Workers |-> NoTask]
    /\ start = "none"
    /\ stop = "none"
    /\ ctxDone \in BOOLEAN
    /\ stopExpired = FALSE
    /\ drainOnStop \in BOOLEAN
    /\ done = {}

-----------------------------------------------------------------------------
(* Submit.  Several callers may be inside Submit at once, also before Start *)
(* has run and after it has closed the channel.                             *)

SubmitCall(t) ==
    /\ submit[t] = "idle"
    /\ submit' = [submit EXCEPT ![t] = "pending"]
    /\ UNCHANGED <<submitCanceled, chanVars, workerVars, lifeVars>>

\* case p.tasks <- task, into the buffer.
SubmitSends(t) ==
    /\ submit[t] = "pending"
    /\ ~closed
    /\ HasRoom
    /\ queue' = Append(queue, t)
    /\ submit' = [submit EXCEPT ![t] = "ok"]
    /\ UNCHANGED <<submitCanceled, closed, workerVars, lifeVars>>

\* case p.tasks <- task, straight to a worker that waits to receive.
SubmitHands(t, w) ==
    /\ submit[t] = "pending"
    /\ ~closed
    /\ queue = <<>>
    /\ worker[w] = "idle"
    /\ submit' = [submit EXCEPT ![t] = "ok"]
    /\ worker' = [worker EXCEPT ![w] = "busy"]
    /\ job' = [job EXCEPT ![w] = t]
    /\ UNCHANGED <<submitCanceled, chanVars, done, lifeVars>>

\* case <-ctx.Done().
SubmitGivesUp(t) ==
    /\ submit[t] = "pending"
    /\ submitCanceled[t]
    /\ submit' = [submit EXCEPT ![t] = "canceled"]
    /\ UNCHANGED <<submitCanceled, chanVars, workerVars, lifeVars>>

\* FAULTY: the recovered panic leaves err nil.
SubmitPanicsSilently(t) ==
    /\ submit[t] = "pending"
    /\ closed
    /\ submit' = [submit EXCEPT ![t] = "ok"]
    /\ UNCHANGED <<submitCanceled, chanVars, workerVars, lifeVars>>

\* FAULTY: a caller blocked in the send is not woken by the shutdown.
SubmitUnwoken(t) ==
    /\ submit[t] = "pending"
    /\ closed
    /\ submitCanceled[t]
    /\ submit' = [submit EXCEPT ![t] = "canceled"]
    /\ UNCHANGED <<submitCanceled, chanVars, workerVars, lifeVars>>

\* The send panics on the closed channel, also for a caller that was blocked in
\* it when the channel was closed, and the deferred recover makes it an error.
SubmitPanics(t) ==
    /\ submit[t] = "pending"
    /\ closed
    /\ submit' = [submit EXCEPT ![t] =
                     IF submitCanceled[t] THEN "canceled" ELSE "stopped"]
    /\ UNCHANGED <<submitCanceled, chanVars, workerVars, lifeVars>>

SubmitStep(t) ==
    \/ SubmitSends(t) \/ SubmitGivesUp(t) \/ SubmitPanics(t)
    \/ \E w \in Workers : SubmitHands(t, w)

-----------------------------------------------------------------------------
(* The worker goroutines.                                                   *)

\* FAULTY: the newest task first.
WorkerTakesNewest(w) ==
    /\ worker[w] = "idle"
    /\ queue # <<>>
    /\ worker' = [worker EXCEPT ![w] = "busy"]
    /\ job' = [job EXCEPT ![w] = queue[Len(queue)]]
    /\ queue' = SubSeq(queue, 1, Len(queue) - 1)
    /\ UNCHANGED <<submit, submitCanceled, closed, done, lifeVars>>

\* The receive of for task := range p.tasks, from the buffer.
WorkerTakes(w) ==
    /\ worker[w] = "idle"
    /\ queue # <<>>
    /\ worker' = [worker EXCEPT ![w] = "busy"]
    /\ job' = [job EXCEPT ![w] = Head(queue)]
    /\ queue' = Tail(queue)
    /\ UNCHANGED <<submit, submitCanceled, closed, done, lifeVars>>

TaskReturns(w) ==
    /\ worker[w] = "busy"
    /\ worker' = [worker EXCEPT ![w] = "idle"]
    /\ done' = done \cup {job[w]}
    /\ job' = [job EXCEPT ![w] = NoTask]
    /\ UNCHANGED <<submit, submitCanceled, chanVars, lifeVars>>

WorkerExits(w) ==
    /\ worker[w] = "idle"
    /\ RangeOver
    /\ worker' = [worker EXCEPT ![w] = "exited"]
    /\ UNCHANGED <<submit, submitCanceled, chanVars, job, done, lifeVars>>

WorkerStep(w) == WorkerTakes(w) \/ TaskReturns(w) \/ WorkerExits(w)

-----------------------------------------------------------------------------
(* Start.                                                                   *)

StartCall ==
    /\ start = "none"
    /\ start' = "launching"
    /\ UNCHANGED <<stop, ctxDone, stopExpired, drainOnStop>>
    /\ UNCHANGED <<submit, submitCanceled, chanVars, workerVars>>

\* One turn of for range p.size { p.wg.Go(...) }.
LaunchWorker(w) ==
    /\ start = "launching"
    /\ worker[w] = "none"
    /\ worker' = [worker EXCEPT ![w] = "idle"]
    /\ UNCHANGED <<submit, submitCanceled, chanVars, job, done, lifeVars>>

\* Every worker is launched: Start waits for <-ctx.Done().
StartBlocks ==
    /\ start = "launching"
    /\ \A w \in Workers : worker[w] # "none"
    /\ start' = "waiting"
    /\ UNCHANGED <<stop, ctxDone, stopExpired, drainOnStop>>
    /\ UNCHANGED <<submit, submitCanceled, chanVars, workerVars>>

\* FAULTY: the channel is left open.
CloseTasksNot ==
    /\ start = "waiting"
    /\ ctxDone
    /\ start' = IF drainOnStop THEN "draining" ELSE "returned"
    /\ UNCHANGED <<closed, stop, ctxDone, stopExpired, drainOnStop>>
    /\ UNCHANGED <<submit, submitCanceled, queue, workerVars>>

\* close(p.tasks), then p.wg.Wait() or straight back to the caller.
CloseTasks ==
    /\ start = "waiting"
    /\ ctxDone
    /\ closed' = TRUE
    /\ start' = IF drainOnStop THEN "draining" ELSE "returned"
    /\ UNCHANGED <<stop, ctxDone, stopExpired, drainOnStop>>
    /\ UNCHANGED <<submit, submitCanceled, queue, workerVars>>

StartDrained ==
    /\ start = "draining"
    /\ WaitGroupZero
    /\ start' = "returned"
    /\ UNCHANGED <<stop, ctxDone, stopExpired, drainOnStop>>
    /\ UNCHANGED <<submit, submitCanceled, chanVars, workerVars>>

StartStep ==
    \/ \E w \in Workers : LaunchWorker(w)
    \/ StartBlocks \/ CloseTasks \/ StartDrained

-----------------------------------------------------------------------------
(* Stop.  The entrypoint calls it after it canceled the context of Start    *)
(* (Entrypoint!StopAfterCancel), in a goroutine of its own, so that Start   *)
(* may be anywhere by then, also not called yet.                            *)

StopBegins ==
    /\ stop = "none"
    /\ stop' = IF drainOnStop THEN "waiting" ELSE "ok"
    /\ UNCHANGED <<start, ctxDone, stopExpired, drainOnStop>>
    /\ UNCHANGED <<submit, submitCanceled, chanVars, workerVars>>

StopCall == ctxDone /\ StopBegins

StopDrained ==
    /\ stop = "waiting"
    /\ WaitGroupZero
    /\ stop' = "ok"
    /\ UNCHANGED <<start, ctxDone, stopExpired, drainOnStop>>
    /\ UNCHANGED <<submit, submitCanceled, chanVars, workerVars>>

StopExpires ==
    /\ stop = "waiting"
    /\ stopExpired
    /\ stop' = "expired"
    /\ UNCHANGED <<start, ctxDone, stopExpired, drainOnStop>>
    /\ UNCHANGED <<submit, submitCanceled, chanVars, workerVars>>

StopStep == StopDrained \/ StopExpires

-----------------------------------------------------------------------------
(* The contexts.                                                            *)

CancelCtx ==
    /\ ~ctxDone
    /\ ctxDone' = TRUE
    /\ UNCHANGED <<start, stop, stopExpired, drainOnStop>>
    /\ UNCHANGED <<submit, submitCanceled, chanVars, workerVars>>

\* The context of Stop is made when the one of Start is canceled, and may be done
\* before Stop is called.
ExpireStop ==
    /\ ctxDone
    /\ ~stopExpired
    /\ stopExpired' = TRUE
    /\ UNCHANGED <<start, stop, ctxDone, drainOnStop>>
    /\ UNCHANGED <<submit, submitCanceled, chanVars, workerVars>>

CancelSubmit(t) ==
    /\ ~submitCanceled[t]
    /\ submitCanceled' = [submitCanceled EXCEPT ![t] = TRUE]
    /\ UNCHANGED <<submit, chanVars, workerVars, lifeVars>>

Next ==
    \/ \E t \in Tasks : SubmitCall(t) \/ SubmitStep(t) \/ CancelSubmit(t)
    \/ \E w \in Workers : WorkerStep(w)
    \/ StartCall \/ StartStep
    \/ StopCall \/ StopStep
    \/ CancelCtx \/ ExpireStop

Spec == Init /\ [][Next]_vars

\* The scheduler runs every goroutine that can move, the entrypoint calls Start,
\* the shutdown timeout elapses, and tasks return.  Nothing makes a caller give
\* up or a shutdown begin, and nobody waits for the workers once Start has
\* returned: the process may be gone by then.
Fairness ==
    /\ WF_vars(StartCall) /\ WF_vars(StartStep)
    /\ WF_vars(StopStep) /\ WF_vars(ExpireStop)
    /\ \A t \in Tasks : WF_vars(SubmitStep(t))
    /\ \A w \in Workers : WF_vars(start # "returned" /\ WorkerStep(w))

FairSpec == Spec /\ Fairness

-----------------------------------------------------------------------------
(* Properties.                                                              *)

\* The pool's state is well formed and the channel holds at most its capacity.
TypeOK ==
    /\ submit \in [Tasks -> {"idle", "pending", "ok", "canceled", "stopped"}]
    /\ submitCanceled \in [Tasks -> BOOLEAN]
    /\ queue \in Seq(Tasks)
    /\ Len(queue) <= QueueSize
    /\ closed \in BOOLEAN
    /\ worker \in [Workers -> {"none", "idle", "busy", "exited"}]
    /\ job \in [Workers -> Tasks \cup {NoTask}]
    /\ start \in {"none", "launching", "waiting", "draining", "returned"}
    /\ stop \in {"none", "waiting", "ok", "expired"}
    /\ ctxDone \in BOOLEAN
    /\ stopExpired \in BOOLEAN
    /\ drainOnStop \in BOOLEAN
    /\ done \subseteq Tasks

\* A task was accepted, its Submit having returned nil, exactly when the pool
\* holds it, runs it or has run it: no accepted task is lost, not even by a
\* Submit that races close(p.tasks), and no task whose Submit failed ever runs.
AcceptedAccounted ==
    \A t \in Tasks : submit[t] = "ok" <=> t \in Queued \cup Running \cup done

\* With WithDrainOnStop, once Start has returned every accepted task has run to
\* its end and the set of accepted tasks is final.
DrainComplete ==
    drainOnStop /\ start = "returned" =>
        \A t \in Tasks : submit[t] = "ok" => t \in done

\* A Stop of a pool that drains returns nil only when every accepted task has run
\* to its end, or when it overtook Start: no worker was launched yet, and wg.Wait
\* had nothing to wait for.
StopDrainsOrOvertakes ==
    [][drainOnStop /\ stop # "ok" /\ stop' = "ok" =>
          \/ \A w \in Workers : worker[w] = "none"
          \/ \A t \in Tasks : submit[t] = "ok" => t \in done]_vars

\* A worker leaves only when the channel is closed and empty, so a pool that
\* drains loses no worker while there is work left.
WorkersStay ==
    \A w \in Workers : worker[w] = "exited" => closed /\ queue = <<>>

\* Every Submit returns: the workers make room, or the channel is closed under
\* the caller.
SubmitReturns ==
    \A t \in Tasks : submit[t] = "pending" ~> submit[t] # "pending"

\* With WithDrainOnStop every accepted task is executed, although nobody waits
\* for the workers once Start has returned: they range over the closed channel
\* until it is empty, and Start waits for them.
AcceptedRuns == \A t \in Tasks : (drainOnStop /\ submit[t] = "ok") ~> t \in done

\* Once its context is canceled Start returns, and so does a Stop.
ShutdownReturns ==
    /\ (ctxDone ~> start = "returned")
    /\ (stop = "waiting" ~> stop \in {"ok", "expired"})

-----------------------------------------------------------------------------
(* The inductive invariant behind the safety properties.                    *)

\* What the places of Start and of the workers imply about each other.
LifeInv ==
    /\ closed <=> start \in {"draining", "returned"}
    /\ start \in {"waiting", "draining", "returned"} =>
          \A w \in Workers : worker[w] # "none"
    /\ start = "returned" /\ drainOnStop => \A w \in Workers : worker[w] = "exited"
    /\ \A w \in Workers : worker[w] = "busy" <=> job[w] # NoTask

\* Only accepted tasks are inside the pool, each of them in one place.
PlaceInv ==
    /\ \A i \in 1 .. Len(queue) : submit[queue[i]] = "ok" /\ queue[i] \notin done
    /\ \A w \in Workers :
          job[w] # NoTask => submit[job[w]] = "ok" /\ job[w] \notin done
    /\ \A t \in done : submit[t] = "ok"
    /\ \A i, j \in 1 .. Len(queue) : queue[i] = queue[j] => i = j
    /\ \A v, w \in Workers : job[v] # NoTask /\ job[v] = job[w] => v = w
    /\ \A i \in 1 .. Len(queue), w \in Workers : queue[i] # job[w]

\* Every accepted task is somewhere.
KeptInv ==
    \A t \in Tasks : submit[t] = "ok" =>
        \/ \E i \in 1 .. Len(queue) : queue[i] = t
        \/ \E w \in Workers : job[w] = t
        \/ t \in done

IInv == TypeOK /\ LifeInv /\ PlaceInv /\ KeptInv /\ WorkersStay

-----------------------------------------------------------------------------
(* What a caller of the pool relies on, in terms of FifoExecutor.           *)

Fifo == INSTANCE FifoExecutor WITH
    Width <- Cardinality(Workers),
    backlog <- queue, active <- Running, finished <- done, shut <- closed

\* The pool is a first-in first-out executor of bounded width.
ImplementsFifo == Fifo!Spec
=============================================================================
