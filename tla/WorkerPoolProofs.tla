-------------------------- MODULE WorkerPoolProofs --------------------------
(***************************************************************************)
(* Proofs about WorkerPool, for any tasks, any non-empty finite set of     *)
(* workers, any queue size, with and without WithDrainOnStop.              *)
(***************************************************************************)
EXTENDS WorkerPool, FiniteSetTheorems, TLAPS

\* The invariant holds when the pool is created.
LEMMA InitIInv == Init => IInv
<1> SUFFICES ASSUME Init PROVE IInv
    OBVIOUS
<1>1. /\ closed \in BOOLEAN /\ ctxDone \in BOOLEAN /\ stopExpired \in BOOLEAN
      /\ drainOnStop \in BOOLEAN
      /\ submitCanceled \in [Tasks -> BOOLEAN] /\ ~closed
    BY Zenon DEF Init
<1>2. Len(queue) = 0 /\ queue \in Seq(Tasks)
    BY DEF Init
<1>3. TypeOK
    BY <1>1, <1>2, QueueSizeType DEF Init, TypeOK
<1>4. LifeInv /\ WorkersStay
    BY <1>1 DEF Init, LifeInv, WorkersStay
<1>5. PlaceInv /\ KeptInv
    BY <1>2 DEF Init, PlaceInv, KeptInv
<1> QED
    BY <1>3, <1>4, <1>5 DEF IInv

\* Submit preserves the invariant.
LEMMA SubmitPreservesIInv ==
    ASSUME IInv, NEW t \in Tasks, SubmitCall(t) \/ SubmitStep(t) \/ CancelSubmit(t)
    PROVE  IInv'
<1> USE NoTaskType DEF IInv, TypeOK, LifeInv, PlaceInv, KeptInv, WorkersStay,
            chanVars, workerVars, lifeVars
<1>1. CASE SubmitCall(t)
    BY <1>1 DEF SubmitCall
<1>2. CASE SubmitSends(t)
    <2>1. (TypeOK /\ LifeInv /\ WorkersStay)'
        BY <1>2, QueueSizeType DEF SubmitSends, HasRoom
    <2>2. /\ Len(queue') = Len(queue) + 1
          /\ queue'[Len(queue) + 1] = t
          /\ \A i \in 1 .. Len(queue) : queue'[i] = queue[i]
        BY <1>2 DEF SubmitSends
    <2>3. PlaceInv'
        BY <1>2, <2>2 DEF SubmitSends
    <2>4. KeptInv'
        BY <1>2, <2>2 DEF SubmitSends
    <2> QED
        BY <2>1, <2>3, <2>4
<1>3. ASSUME NEW w \in Workers, SubmitHands(t, w) PROVE IInv'
    BY <1>3 DEF SubmitHands
<1>4. CASE SubmitGivesUp(t)
    BY <1>4 DEF SubmitGivesUp
<1>5. CASE SubmitPanics(t)
    BY <1>5 DEF SubmitPanics
<1>6. CASE CancelSubmit(t)
    BY <1>6 DEF CancelSubmit
<1> QED
    BY <1>1, <1>2, <1>3, <1>4, <1>5, <1>6 DEF SubmitStep

\* The worker goroutines preserve the invariant.
LEMMA WorkersPreserveIInv ==
    ASSUME IInv, NEW w \in Workers, WorkerStep(w) \/ LaunchWorker(w)
    PROVE  IInv'
<1> USE NoTaskType DEF IInv, TypeOK, LifeInv, PlaceInv, KeptInv, WorkersStay,
            chanVars, workerVars, lifeVars
<1>1. CASE WorkerTakes(w)
    <2>1. (TypeOK /\ LifeInv /\ WorkersStay)'
        BY <1>1, QueueSizeType DEF WorkerTakes
    <2>2. /\ Len(queue) \in Nat /\ Len(queue) > 0 /\ Head(queue) = queue[1]
          /\ Len(queue') = Len(queue) - 1
          /\ \A i \in 1 .. Len(queue') : queue'[i] = queue[i + 1]
        BY <1>1 DEF WorkerTakes
    <2>3. PlaceInv'
        BY <1>1, <2>2 DEF WorkerTakes
    <2>4. KeptInv'
        <3> SUFFICES ASSUME NEW t \in Tasks, submit[t] = "ok",
                            NEW i \in 1 .. Len(queue), queue[i] = t
                     PROVE  \/ \E k \in 1 .. Len(queue') : queue'[k] = t
                            \/ \E v \in Workers : job'[v] = t
            BY <1>1 DEF WorkerTakes
        <3>1. CASE i = 1
            BY <1>1, <2>2, <3>1 DEF WorkerTakes
        <3>2. CASE i > 1
            <4>1. i - 1 \in 1 .. Len(queue') /\ queue'[i - 1] = t
                BY <2>2, <3>2
            <4> QED
                BY <4>1
        <3> QED
            BY <3>1, <3>2
    <2> QED
        BY <2>1, <2>3, <2>4
<1>2. CASE TaskReturns(w)
    BY <1>2 DEF TaskReturns
<1>3. CASE WorkerExits(w)
    BY <1>3 DEF WorkerExits, RangeOver
<1>4. CASE LaunchWorker(w)
    BY <1>4 DEF LaunchWorker
<1> QED
    BY <1>1, <1>2, <1>3, <1>4 DEF WorkerStep

\* Start, Stop and the contexts preserve the invariant.
LEMMA LifePreservesIInv ==
    ASSUME IInv,
           \/ StartCall \/ StartBlocks \/ CloseTasks \/ StartDrained
           \/ StopBegins \/ StopStep \/ CancelCtx \/ ExpireStop
    PROVE  IInv'
<1> USE DEF IInv, TypeOK, LifeInv, PlaceInv, KeptInv, WorkersStay,
            chanVars, workerVars, lifeVars
<1>1. CASE StartCall
    BY <1>1 DEF StartCall
<1>2. CASE StartBlocks
    BY <1>2 DEF StartBlocks
<1>3. CASE CloseTasks
    BY <1>3 DEF CloseTasks
<1>4. CASE StartDrained
    BY <1>4 DEF StartDrained, WaitGroupZero
<1>5. CASE StopBegins
    BY <1>5 DEF StopBegins
<1>6. CASE StopDrained \/ StopExpires
    BY <1>6 DEF StopDrained, StopExpires
<1>7. CASE CancelCtx
    BY <1>7 DEF CancelCtx
<1>8. CASE ExpireStop
    BY <1>8 DEF ExpireStop
<1> QED
    BY <1>1, <1>2, <1>3, <1>4, <1>5, <1>6, <1>7, <1>8 DEF StopStep

\* IInv is inductive.
LEMMA NextIInv == IInv /\ [Next]_vars => IInv'
<1>1. IInv /\ UNCHANGED vars => IInv'
    BY DEF IInv, TypeOK, LifeInv, PlaceInv, KeptInv, WorkersStay, vars
<1> QED
    BY <1>1, SubmitPreservesIInv, WorkersPreserveIInv, LifePreservesIInv
       DEF Next, StartStep, StopCall

\* IInv is an invariant of the pool.
THEOREM Invariance == Spec => []IInv
    BY InitIInv, NextIInv, PTL DEF Spec

-----------------------------------------------------------------------------
\* The pool's state is well formed and the channel never exceeds its capacity.
THEOREM TypeCorrectness == Spec => []TypeOK
    BY Invariance, PTL DEF IInv

\* No accepted task is lost and no refused task runs.
THEOREM AcceptedAccountedHolds == Spec => []AcceptedAccounted
<1>1. IInv => AcceptedAccounted
    BY NoTaskType DEF IInv, TypeOK, PlaceInv, KeptInv, AcceptedAccounted, Queued, Running
<1> QED
    BY <1>1, Invariance, PTL

\* When a draining Start has returned, the workers are gone and nothing is left of
\* the accepted tasks.
LEMMA DrainInv == IInv => DrainComplete
<1> SUFFICES ASSUME IInv, drainOnStop, start = "returned",
                    NEW t \in Tasks, submit[t] = "ok"
             PROVE  t \in done
    BY DEF DrainComplete
<1>1. \A w \in Workers : worker[w] = "exited"
    BY DEF IInv, LifeInv
<1>2. Len(queue) = 0
    BY <1>1, WorkersFinite DEF IInv, WorkersStay
<1>3. \A w \in Workers : job[w] = NoTask
    BY <1>1 DEF IInv, LifeInv
<1> QED
    BY <1>2, <1>3, NoTaskType DEF IInv, KeptInv

\* A draining Start returns only after every accepted task has run.
THEOREM DrainCompleteHolds == Spec => []DrainComplete
    BY DrainInv, Invariance, PTL

\* The only step in which a Stop of a pool that drains returns nil is the end of
\* its wg.Wait().
LEMMA NilStopWaited ==
    ASSUME [Next]_vars, drainOnStop, stop # "ok", stop' = "ok"
    PROVE  StopDrained
<1>1. CASE UNCHANGED vars
    BY <1>1 DEF vars
<1>2. ASSUME NEW t \in Tasks, SubmitCall(t) \/ SubmitStep(t) \/ CancelSubmit(t)
      PROVE  stop' = stop
    BY <1>2 DEF SubmitCall, SubmitStep, SubmitSends, SubmitGivesUp, SubmitPanics,
       SubmitHands, CancelSubmit, lifeVars
<1>3. ASSUME NEW w \in Workers, WorkerStep(w) PROVE stop' = stop
    BY <1>3 DEF WorkerStep, WorkerTakes, TaskReturns, WorkerExits, lifeVars
<1>4. CASE StartCall \/ StartStep \/ CancelCtx \/ ExpireStop
    BY <1>4 DEF StartCall, StartStep, LaunchWorker, StartBlocks, CloseTasks,
       StartDrained, CancelCtx, ExpireStop, lifeVars
<1>5. CASE StopCall \/ StopStep
    BY <1>5 DEF StopCall, StopBegins, StopStep, StopDrained, StopExpires
<1> QED
    BY <1>1, <1>2, <1>3, <1>4, <1>5 DEF Next

\* A Stop of a pool that drains returns nil only when every accepted task has
\* run, or before Start has launched a worker.
THEOREM StopDrainsOrOvertakesHolds == Spec => StopDrainsOrOvertakes
<1>1. ASSUME IInv, [Next]_vars, drainOnStop, stop # "ok", stop' = "ok"
      PROVE  \/ \A w \in Workers : worker[w] = "none"
             \/ \A t \in Tasks : submit[t] = "ok" => t \in done
    <2>1. \A w \in Workers : worker[w] \in {"none", "exited"}
        BY <1>1, NilStopWaited DEF StopDrained, WaitGroupZero
    <2> SUFFICES ASSUME NEW v \in Workers, worker[v] = "exited",
                        NEW t \in Tasks, submit[t] = "ok"
                 PROVE  t \in done
        BY <2>1
    <2>2. Len(queue) = 0
        BY <1>1 DEF IInv, WorkersStay
    <2>3. \A w \in Workers : job[w] = NoTask
        BY <1>1, <2>1 DEF IInv, LifeInv
    <2> QED
        BY <1>1, <2>2, <2>3, NoTaskType DEF IInv, KeptInv
<1> QED
    BY <1>1, Invariance, PTL DEF Spec, StopDrainsOrOvertakes

\* No worker leaves while the channel is open or holds a task.
THEOREM WorkersStayHolds == Spec => []WorkersStay
    BY Invariance, PTL DEF IInv

-----------------------------------------------------------------------------
(* Refinement.                                                              *)

\* No more tasks are running than there are workers.
LEMMA WidthBound ==
    ASSUME NEW j \in [Workers -> Tasks \cup {NoTask}]
    PROVE  Cardinality({j[w] : w \in Workers} \ {NoTask}) <= Cardinality(Workers)
<1> DEFINE img == {j[w] : w \in Workers}
<1>1. j \in Surjection(Workers, img)
    BY DEF Surjection
<1>2. IsFiniteSet(img) /\ Cardinality(img) <= Cardinality(Workers)
    BY <1>1, FS_Surjection, WorkersFinite
<1>3. /\ IsFiniteSet(img \ {NoTask})
      /\ Cardinality(img \ {NoTask}) <= Cardinality(img)
    BY <1>2, FS_Subset
<1>4. /\ Cardinality(img) \in Nat
      /\ Cardinality(img \ {NoTask}) \in Nat
      /\ Cardinality(Workers) \in Nat
    BY <1>2, <1>3, FS_CardinalityType, WorkersFinite
<1> QED
    BY <1>2, <1>3, <1>4

\* The pool does not know a task whose Submit has not returned nil.
LEMMA NotAcceptedUnknown ==
    ASSUME IInv, NEW t \in Tasks, submit[t] # "ok"
    PROVE  t \notin Running \cup done /\ \A i \in 1 .. Len(queue) : queue[i] # t
    BY NoTaskType DEF IInv, TypeOK, PlaceInv, Running

\* A task that is handed to a worker runs, beside no more others than there is
\* room for.
LEMMA HandsRuns ==
    ASSUME IInv, IInv', NEW t \in Tasks, NEW w \in Workers, SubmitHands(t, w)
    PROVE  Running' = Running \cup {t} /\ Cardinality(Running') <= Cardinality(Workers)
<1>1. Running' = Running \cup {t}
    BY NoTaskType DEF SubmitHands, Running, IInv, TypeOK, LifeInv
<1>2. /\ job' \in [Workers -> Tasks \cup {NoTask}]
      /\ Running' = {job'[v] : v \in Workers} \ {NoTask}
    BY DEF IInv, TypeOK, Running
<1> QED
    BY <1>1, <1>2, WidthBound

\* So does the task a worker takes out of the buffer.
LEMMA TakesRuns ==
    ASSUME IInv, IInv', NEW w \in Workers, WorkerTakes(w)
    PROVE  /\ Running' = Running \cup {Head(queue)}
           /\ Cardinality(Running') <= Cardinality(Workers)
<1>1. Running' = Running \cup {Head(queue)}
    BY NoTaskType DEF WorkerTakes, Running, IInv, TypeOK, LifeInv
<1>2. /\ job' \in [Workers -> Tasks \cup {NoTask}]
      /\ Running' = {job'[v] : v \in Workers} \ {NoTask}
    BY DEF IInv, TypeOK, Running
<1> QED
    BY <1>1, <1>2, WidthBound

\* A task that returns was running, in one worker only, and runs no more.
LEMMA ReturnsRuns ==
    ASSUME IInv, NEW w \in Workers, TaskReturns(w)
    PROVE  /\ job[w] \in Tasks /\ job[w] \in Running
           /\ Running' = Running \ {job[w]}
<1>1. job[w] \in Tasks /\ job[w] \in Running
    BY NoTaskType DEF TaskReturns, Running, IInv, TypeOK, LifeInv
<1>2. Running' = Running \ {job[w]}
    BY <1>1, NoTaskType DEF TaskReturns, Running, IInv, TypeOK, PlaceInv
<1> QED
    BY <1>1, <1>2

\* A step of a Submit accepts a task, hands it to a worker, or is invisible.
LEMMA SubmitRefines ==
    ASSUME IInv, IInv', NEW t \in Tasks,
           SubmitCall(t) \/ SubmitStep(t) \/ CancelSubmit(t)
    PROVE  [Fifo!Next]_(Fifo!fifoVars)
<1>1. submit[t] # "ok" => Fifo!Unknown(t)
    BY NotAcceptedUnknown DEF Fifo!Unknown
<1>2. CASE SubmitCall(t) \/ SubmitGivesUp(t) \/ SubmitPanics(t) \/ CancelSubmit(t)
    BY <1>2 DEF SubmitCall, SubmitGivesUp, SubmitPanics, CancelSubmit, chanVars,
                workerVars, Running, Fifo!fifoVars
<1>3. CASE SubmitSends(t)
    <2>1. Fifo!Accept(t)
        BY <1>1, <1>3 DEF SubmitSends, workerVars, Running, Fifo!Accept
    <2> QED
        BY <2>1 DEF Fifo!Next
<1>4. ASSUME NEW w \in Workers, SubmitHands(t, w) PROVE Fifo!Next
    <2>1. Fifo!AcceptAndBegin(t)
        BY <1>1, <1>4, HandsRuns DEF SubmitHands, chanVars, Fifo!AcceptAndBegin,
               Cardinality, Fifo!Cardinality
    <2> QED
        BY <2>1 DEF Fifo!Next
<1> QED
    BY <1>2, <1>3, <1>4 DEF SubmitStep

\* A step of a worker begins or finishes a task, or is invisible.
LEMMA WorkersRefine ==
    ASSUME IInv, IInv', NEW w \in Workers, WorkerStep(w) \/ LaunchWorker(w)
    PROVE  [Fifo!Next]_(Fifo!fifoVars)
<1>1. CASE WorkerTakes(w)
    <2>1. Fifo!Begin
        BY <1>1, TakesRuns DEF WorkerTakes, Fifo!Begin, Cardinality, Fifo!Cardinality
    <2> QED
        BY <2>1 DEF Fifo!Next
<1>2. CASE TaskReturns(w)
    <2>1. job[w] \in Tasks /\ Fifo!Finish(job[w])
        BY <1>2, ReturnsRuns DEF TaskReturns, chanVars, Fifo!Finish
    <2> QED
        BY <2>1 DEF Fifo!Next
<1>3. CASE WorkerExits(w) \/ LaunchWorker(w)
    BY <1>3 DEF WorkerExits, LaunchWorker, chanVars, Running, Fifo!fifoVars
<1> QED
    BY <1>1, <1>2, <1>3 DEF WorkerStep

\* Of Start, Stop and the contexts only the closing of the channel is visible.
LEMMA LifeRefines ==
    ASSUME \/ StartCall \/ StartBlocks \/ CloseTasks \/ StartDrained
           \/ StopCall \/ StopStep \/ CancelCtx \/ ExpireStop
    PROVE  [Fifo!Next]_(Fifo!fifoVars)
<1>1. CASE CloseTasks
    <2>1. Fifo!Close
        BY <1>1 DEF CloseTasks, workerVars, Running, Fifo!Close
    <2> QED
        BY <2>1 DEF Fifo!Next
<1>2. CASE StartCall \/ StartBlocks \/ StartDrained \/ StopCall \/ StopStep
            \/ CancelCtx \/ ExpireStop
    BY <1>2 DEF StartCall, StartBlocks, StartDrained, StopCall, StopBegins, StopStep,
                StopDrained, StopExpires, CancelCtx, ExpireStop, chanVars,
                workerVars, Running, Fifo!fifoVars
<1> QED
    BY <1>1, <1>2

\* The pool implements a first-in first-out executor whose width is the number
\* of workers.
THEOREM Refinement == Spec => ImplementsFifo
<1>1. Init => Fifo!Init
    <2> SUFFICES ASSUME Init PROVE Fifo!Init
        OBVIOUS
    <2>1. Running = {}
        BY DEF Init, Running
    <2> QED
        BY <2>1 DEF Init, Fifo!Init
<1>2. IInv /\ IInv' /\ [Next]_vars => [Fifo!Next]_(Fifo!fifoVars)
    <2> SUFFICES ASSUME IInv, IInv', [Next]_vars
                 PROVE  [Fifo!Next]_(Fifo!fifoVars)
        OBVIOUS
    <2>1. CASE UNCHANGED vars
        BY <2>1 DEF vars, Running, Fifo!fifoVars
    <2> QED
        BY <2>1, SubmitRefines, WorkersRefine, LifeRefines DEF Next, StartStep
<1> QED
    BY <1>1, <1>2, Invariance, PTL DEF Spec, Fifo!Spec, ImplementsFifo
=============================================================================
