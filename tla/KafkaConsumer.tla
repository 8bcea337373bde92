---------------------------- MODULE KafkaConsumer ---------------------------
(***************************************************************************)
(* The managed consumer of pkg/kafka/consumer on one partition: Start with *)
(* its fetch loop, the tasks it dispatches through a worker pool without   *)
(* WithDrainOnStop, the offset commits, Stop, and the process dying and    *)
(* being restarted at any moment.                                          *)
(*                                                                         *)
(* The partition is the offsets 1 .. LogEnd.  committed is the group's     *)
(* offset at the broker, the next one a new reader starts from: it and the *)
(* set of handled messages are all that survives the process.  The broker  *)
(* and kafka-go are external; the pool appears as FifoExecutor, which      *)
(* WorkerPool is shown to implement.                                       *)
(***************************************************************************)
EXTENDS Naturals, Sequences, FiniteSets

CONSTANTS
    LogEnd,       \* the last offset of the partition
    PoolSize,     \* c.poolSize
    MayFail,      \* offsets whose handler may return an error
    MaxRestarts   \* bound: how often the process is restarted

Offsets == 1 .. LogEnd

ASSUME LogEndType == LogEnd \in Nat
ASSUME PoolSizeType == PoolSize \in Nat \ {0}
ASSUME MayFailType == MayFail \subseteq Offsets
ASSUME MaxRestartsType == MaxRestarts \in Nat

VARIABLES
    committed,  \* the group's committed offset (external, survives)
    handled,    \* history: offsets whose handler returned nil (survives)
    restarts,   \* how often the process has been restarted
    start,      \* where Start is
    loop,       \* where consume is
    position,   \* the next offset the reader fetches
    stage,      \* stage[o]: the task that dispatches o, in this process
    reader,     \* c.reader
    backlog,    \* tasks buffered in the pool
    active,     \* tasks the pool's workers execute
    finished,   \* tasks of this process that have returned
    shut,       \* the pool's channel is closed
    pool,       \* where pool.Start is
    ctxDone,    \* the context of Start is done
    stop,       \* Stop was called
    once        \* c.closeOnce is spent

poolVars == <<backlog, active, finished, shut>>
diskVars == <<committed, handled, restarts>>
lifeVars == <<start, reader, pool, ctxDone, stop, once>>
vars == <<committed, handled, restarts, start, loop, position, stage, reader,
          backlog, active, finished, shut, pool, ctxDone, stop, once>>

Pool == INSTANCE FifoExecutor WITH Tasks <- Offsets, Width <- PoolSize

QueueSize == 2 * PoolSize

\* The message consume holds while it is in Submit: the last one fetched.
Held == position - 1

-----------------------------------------------------------------------------
Init ==
    /\ committed = 1
    /\ handled = {}
    /\ restarts = 0
    /\ start = "connecting"
    /\ loop = "none"
    /\ position = 0
    /\ stage = [o \in Offsets |-> "none"]
    /\ reader = "nil"
    /\ backlog = <<>>
    /\ active = {}
    /\ finished = {}
    /\ shut = FALSE
    /\ pool = "none"
    /\ ctxDone = FALSE
    /\ stop = "none"
    /\ once = FALSE

-----------------------------------------------------------------------------
(* Start.                                                                   *)

\* No topic, no dialer, or retry.Do gave up: Start returns an error.
ConnectFails ==
    /\ start = "connecting"
    /\ start' = "failed"
    /\ UNCHANGED <<diskVars, loop, position, stage, poolVars>>
    /\ UNCHANGED <<reader, pool, ctxDone, stop, once>>

\* The probe succeeded: reader and pool are built and published, and consume
\* begins at the group's committed offset.
Connect ==
    /\ start = "connecting"
    /\ start' = "consuming"
    /\ reader' = "open"
    /\ loop' = "fetching"
    /\ position' = committed
    /\ UNCHANGED <<diskVars, stage, poolVars, pool, ctxDone, stop, once>>

\* wg.Go(pool.Start): the workers are launched.
PoolStarts ==
    /\ start \in {"consuming", "waiting"}
    /\ pool = "none"
    /\ pool' = "running"
    /\ UNCHANGED <<diskVars, loop, position, stage, poolVars>>
    /\ UNCHANGED <<start, reader, ctxDone, stop, once>>

\* pool.Start sees its context done, closes the channel and returns at once.
PoolCloses ==
    /\ pool = "running"
    /\ ctxDone
    /\ pool' = "returned"
    /\ Pool!Close
    /\ UNCHANGED <<diskVars, loop, position, stage>>
    /\ UNCHANGED <<start, reader, ctxDone, stop, once>>

\* consume has returned: Start waits for pool.Start and pollLag.
ConsumeReturns ==
    /\ start = "consuming"
    /\ loop = "exited"
    /\ start' = "waiting"
    /\ UNCHANGED <<diskVars, loop, position, stage, poolVars>>
    /\ UNCHANGED <<reader, pool, ctxDone, stop, once>>

\* wg.Wait(): pool.Start has returned, and pollLag returns on ctx.Done().
StartReturns ==
    /\ start = "waiting"
    /\ pool = "returned"
    /\ ctxDone
    /\ start' = "returned"
    /\ UNCHANGED <<diskVars, loop, position, stage, poolVars>>
    /\ UNCHANGED <<reader, pool, ctxDone, stop, once>>

StartStep ==
    \/ ConnectFails \/ Connect \/ PoolStarts \/ PoolCloses
    \/ ConsumeReturns \/ StartReturns

-----------------------------------------------------------------------------
(* consume, the fetch loop.                                                 *)

LoopMoves(from, to) ==
    /\ loop = from
    /\ loop' = to
    /\ UNCHANGED <<diskVars, stage, lifeVars>>

FetchMessage ==
    /\ reader = "open"
    /\ position \in Offsets
    /\ LoopMoves("fetching", "submitting")
    /\ position' = position + 1
    /\ UNCHANGED poolVars

\* FetchMessage fails with context.Canceled or io.ErrClosedPipe: consume returns.
FetchEnds ==
    /\ ctxDone \/ reader = "closed"
    /\ LoopMoves("fetching", "exited")
    /\ UNCHANGED <<position, poolVars>>

\* Any other error of FetchMessage, of an open or a closed reader, is logged and
\* backed off from.
FetchFails ==
    /\ LoopMoves("fetching", "backoff")
    /\ UNCHANGED <<position, poolVars>>

\* FAULTY: an error of FetchMessage ends the loop.
BackoffGivesUp ==
    /\ LoopMoves("backoff", "exited")
    /\ UNCHANGED <<position, poolVars>>

BackoffElapses ==
    /\ LoopMoves("backoff", "fetching")
    /\ UNCHANGED <<position, poolVars>>

BackoffCanceled ==
    /\ ctxDone
    /\ LoopMoves("backoff", "exited")
    /\ UNCHANGED <<position, poolVars>>

\* pool.Submit returns nil; it blocks while the queue is full.
Submit ==
    /\ Len(backlog) < QueueSize
    /\ LoopMoves("submitting", "fetching")
    /\ Pool!Accept(Held)
    /\ UNCHANGED position

\* pool.Submit hands the message to a worker that is waiting to receive.
SubmitHands ==
    /\ loop = "submitting"
    /\ pool # "none"
    /\ loop' = "fetching"
    /\ Pool!AcceptAndBegin(Held)
    /\ stage' = [stage EXCEPT ![Held] = "handling"]
    /\ UNCHANGED <<diskVars, position, lifeVars>>

\* pool.Submit returns an error: consume returns and drops the message it holds.
SubmitFails ==
    /\ ctxDone \/ shut
    /\ LoopMoves("submitting", "exited")
    /\ UNCHANGED <<position, poolVars>>

LoopStep ==
    \/ FetchMessage \/ FetchEnds \/ FetchFails
    \/ BackoffElapses \/ BackoffCanceled
    \/ Submit \/ SubmitHands \/ SubmitFails

-----------------------------------------------------------------------------
(* dispatch, the task that a worker executes for each message.              *)

\* A worker takes the oldest task: it enters its handler.
TaskBegins ==
    /\ pool # "none"
    /\ Pool!Begin
    /\ stage' = [stage EXCEPT ![Head(backlog)] = "handling"]
    /\ UNCHANGED <<diskVars, loop, position, lifeVars>>

HandlerSucceeds(o) ==
    /\ stage[o] = "handling"
    /\ stage' = [stage EXCEPT ![o] = "committing"]
    /\ handled' = handled \cup {o}
    /\ UNCHANGED <<committed, restarts, loop, position, poolVars, lifeVars>>

\* The handler returns an error: it is logged, the offset is not committed.
HandlerFails(o) ==
    /\ o \in MayFail
    /\ stage[o] = "handling"
    /\ stage' = [stage EXCEPT ![o] = "failed"]
    /\ UNCHANGED committed

CommitEnds(o, how) ==
    /\ stage[o] = "committing"
    /\ stage' = [stage EXCEPT ![o] = how]

\* CommitMessages of a message sets the group's offset to the one after it.
CommittedOffset(o) == o + 1

\* CommitMessages returns nil.  kafka-go sends the offset it was given, or the
\* highest of those it merged into one request.
CommitSucceeds(o) ==
    /\ reader = "open"
    /\ CommitEnds(o, "committed")
    /\ committed' \in {CommittedOffset(o)} \cup
                      ({committed} \cap (CommittedOffset(o) .. LogEnd + 1))

\* CommitMessages returns an error that is only logged: the broker may have
\* applied the offset nevertheless.
CommitFails(o) ==
    /\ CommitEnds(o, "failed")
    /\ committed' \in {committed} \cup
                      IF reader = "open" THEN {CommittedOffset(o)} ELSE {}

\* CommitMessages gives up because the context of Start is done.
CommitCanceled(o) ==
    /\ ctxDone
    /\ CommitEnds(o, "canceled")
    /\ UNCHANGED committed

\* dispatch returns to the worker that called it.
DispatchReturns(o) ==
    /\ \/ HandlerFails(o)
       \/ CommitSucceeds(o) \/ CommitFails(o) \/ CommitCanceled(o)
    /\ UNCHANGED <<handled, restarts, loop, position, lifeVars>>

TaskEnds(o) == DispatchReturns(o) /\ Pool!Finish(o)

TaskStep(o) == HandlerSucceeds(o) \/ TaskEnds(o)

-----------------------------------------------------------------------------
(* Shutdown, Stop, and the process.                                         *)

CancelCtx ==
    /\ ~ctxDone
    /\ ctxDone' = TRUE
    /\ UNCHANGED <<diskVars, loop, position, stage, poolVars>>
    /\ UNCHANGED <<start, reader, pool, stop, once>>

\* Stop closes the reader it sees, once; pool.Stop has nothing to wait for.  The
\* entrypoint calls Stop after it canceled ctx, others may call it before.
Stop ==
    /\ stop = "none"
    /\ stop' = "returned"
    /\ once' = TRUE
    /\ reader' = IF reader = "open" /\ ~once THEN "closed" ELSE reader
    /\ UNCHANGED <<diskVars, loop, position, stage, poolVars>>
    /\ UNCHANGED <<start, pool, ctxDone>>

\* The process crashes, is killed or exits, and is started again: everything but
\* the broker's offset and the effects of the handlers is gone.
Restart ==
    /\ restarts < MaxRestarts
    /\ restarts' = restarts + 1
    /\ UNCHANGED <<committed, handled>>
    /\ start' = "connecting"
    /\ loop' = "none"
    /\ position' = 0
    /\ stage' = [o \in Offsets |-> "none"]
    /\ reader' = "nil"
    /\ backlog' = <<>>
    /\ active' = {}
    /\ finished' = {}
    /\ shut' = FALSE
    /\ pool' = "none"
    /\ ctxDone' = FALSE
    /\ stop' = "none"
    /\ once' = FALSE

Next ==
    \/ StartStep \/ LoopStep
    \/ TaskBegins \/ \E o \in Offsets : TaskStep(o)
    \/ CancelCtx \/ Stop \/ Restart

Spec == Init /\ [][Next]_vars

-----------------------------------------------------------------------------
(* Properties.                                                              *)

\* The consumer's state is well formed.
TypeOK ==
    /\ committed \in 1 .. LogEnd + 1
    /\ handled \subseteq Offsets
    /\ restarts \in 0 .. MaxRestarts
    /\ start \in {"connecting", "consuming", "waiting", "returned", "failed"}
    /\ loop \in {"none", "fetching", "submitting", "backoff", "exited"}
    /\ position \in 0 .. LogEnd + 1
    /\ stage \in [Offsets -> {"none", "handling", "committing", "committed",
                             "failed", "canceled"}]
    /\ reader \in {"nil", "open", "closed"}
    /\ backlog \in Seq(Offsets)
    /\ Len(backlog) <= QueueSize
    /\ active \subseteq Offsets
    /\ finished \subseteq Offsets
    /\ shut \in BOOLEAN
    /\ pool \in {"none", "running", "returned"}
    /\ ctxDone \in BOOLEAN
    /\ stop \in {"none", "returned"}
    /\ once \in BOOLEAN

Queued == {backlog[i] : i \in 1 .. Len(backlog)}

\* This process will still run the handler of o, or is running it.
InFlight(o) ==
    \/ loop = "submitting" /\ o = Held
    \/ o \in Queued
    \/ stage[o] = "handling"

\* The group's offset only ever moves right past a message whose handler has
\* returned nil, in this process or an earlier one: a failed message is never
\* the one whose offset is committed.
TipHandled == committed = 1 \/ committed - 1 \in handled

\* At-least-once delivery: a message below the group's offset, which no process
\* will be given again, has been handled or is still about to be handled by the
\* present one.
NothingSkipped ==
    \A o \in Offsets : o < committed => o \in handled \/ InFlight(o)

\* With one worker a message below the group's offset has been handled unless its
\* own handler failed, however often the process dies, whichever commits fail and
\* wherever the shutdown finds it: nobody else's failure costs it its delivery.
PrefixHandled == \A o \in Offsets : o < committed => o \in handled \cup MayFail

\* With any number of workers it takes a restart to lose a message to the failure
\* or the commit of another one: until the first, a message below the group's
\* offset has been handled, has failed itself, or is still in this process.
LossNeedsRestart ==
    restarts = 0 =>
        \A o \in Offsets : o < committed => o \in handled \cup MayFail \/ InFlight(o)

\* The handler of a message is called at most once in the life of a process,
\* whatever is fetched, queued and handed over around it: a message is handled a
\* second time only after a restart.
OncePerProcess ==
    [][\A o \in Offsets :
          stage'[o] = "handling" /\ stage[o] # "handling" => stage[o] = "none"]_vars

\* With one worker the group's offset never moves back, not even when a commit
\* that was reported as failed was applied: a restart repeats only messages that
\* were not committed.
OffsetNeverRewinds == [][committed' >= committed]_vars

\* Every message whose handler does not fail is handled in the end, through
\* restarts, fetch errors, failures of other messages and failed commits, unless
\* the last process was itself told to stop or failed to connect, or a process
\* stays up whose reader a Stop has closed without its context being canceled.
EveryMessageHandled ==
    \A o \in Offsets \ MayFail :
        \/ <>(o \in handled)
        \/ <>[](restarts = MaxRestarts /\ (ctxDone \/ start = "failed"))
        \/ <>[](reader = "closed" /\ ~ctxDone)

\* Once its context is canceled Start returns, also when the cancellation finds
\* the loop blocked in a Submit on a full queue or backing off (a restart of the
\* process puts an end to the question).
CancelEndsStart == ctxDone ~> (start \in {"returned", "failed"} \/ ~ctxDone)

-----------------------------------------------------------------------------
(* The inductive invariants behind TipHandled and PrefixHandled.            *)

\* The pool's tasks and the stages of dispatch tell the same story.
StageInv ==
    /\ \A o \in Offsets : o \in active <=> stage[o] \in {"handling", "committing"}
    /\ \A o \in Offsets : stage[o] = "committing" => o \in handled
    /\ loop = "submitting" => Held \in Offsets
    /\ loop = "none" => position = 0
    /\ start = "connecting" => loop = "none"

\* Fetched messages pass through the loop, the queue and the worker in the order
\* of their offsets.
OrderInv ==
    /\ \A i \in 1 .. Len(backlog) : backlog[i] < position
    /\ \A a \in active : a < position
    /\ loop = "submitting" =>
          /\ \A i \in 1 .. Len(backlog) : backlog[i] < Held
          /\ \A a \in active : a < Held
    /\ \A i, j \in 1 .. Len(backlog) : i < j => backlog[i] < backlog[j]
    /\ \A a \in active, i \in 1 .. Len(backlog) : a < backlog[i]

\* A message behind the reader's position is handled, may have failed, or is
\* still in this process; only the last one fetched can have been dropped, by a
\* loop that has ended.
FetchedInv ==
    \A o \in Offsets : o < position =>
        \/ o \in handled \cup MayFail
        \/ \E i \in 1 .. Len(backlog) : backlog[i] = o
        \/ stage[o] = "handling"
        \/ o = Held /\ loop \in {"submitting", "exited"}

\* One worker, one task at a time.
OneAtATime == \A a, b \in active : a = b

\* The messages in the queue, the one the loop holds and those it has not fetched
\* are different ones, and none of them has been in a handler.
FreshInv ==
    /\ \A i, j \in 1 .. Len(backlog) : backlog[i] = backlog[j] => i = j
    /\ \A i \in 1 .. Len(backlog) : stage[backlog[i]] = "none" /\ backlog[i] < position
    /\ \A o \in Offsets : o >= position => stage[o] = "none"
    /\ loop = "submitting" =>
          /\ stage[Held] = "none"
          /\ \A i \in 1 .. Len(backlog) : backlog[i] # Held

\* Until the first restart the group's offset follows the reader's position.
FirstRunInv ==
    restarts = 0 =>
        /\ FetchedInv
        /\ (start = "connecting" => committed = 1)
        /\ committed = 1 \/ committed <= position

\* No message in the process is behind the group's offset.
AheadInv ==
    /\ \A a \in active : committed <= a
    /\ \A i \in 1 .. Len(backlog) : committed <= backlog[i]
    /\ loop = "submitting" => committed <= Held
    /\ position # 0 => committed <= position

TInv == TypeOK /\ StageInv /\ TipHandled
DInv == TInv /\ FreshInv
LInv == DInv /\ FirstRunInv
PInv == TInv /\ OrderInv /\ FetchedInv /\ OneAtATime /\ PrefixHandled
MInv == PInv /\ AheadInv
=============================================================================
