------------------------- MODULE KafkaConsumerProofs ------------------------
(***************************************************************************)
(* Proofs about KafkaConsumer, for a log of any length and any number of   *)
(* restarts, and that ConsumerOnPool implements it.                        *)
(***************************************************************************)
EXTENDS ConsumerOnPool, FiniteSetTheorems, TLAPS

USE LogEndType, PoolSizeType, MayFailType, MaxRestartsType

\* The invariant holds in the first process.
LEMMA InitTInv == Init => TInv
<1> SUFFICES ASSUME Init PROVE TInv
    OBVIOUS
<1>1. shut \in BOOLEAN /\ ctxDone \in BOOLEAN /\ once \in BOOLEAN
    BY Zenon DEF Init
<1>2. backlog \in Seq(Offsets) /\ Len(backlog) = 0
    BY DEF Init
<1>3. TypeOK
    BY <1>1, <1>2 DEF Init, TypeOK, QueueSize, Offsets
<1>4. StageInv /\ TipHandled
    BY DEF Init, StageInv, TipHandled, Offsets
<1> QED
    BY <1>3, <1>4 DEF TInv

\* Start preserves the invariant.
LEMMA StartPreservesTInv == TInv /\ StartStep => TInv'
<1> SUFFICES ASSUME TInv, StartStep PROVE TInv'
    OBVIOUS
<1> USE DEF TInv, TypeOK, StageInv, TipHandled, diskVars, poolVars, Offsets,
            QueueSize, Held
<1>1. CASE ConnectFails
    BY <1>1 DEF ConnectFails
<1>2. CASE Connect
    BY <1>2 DEF Connect
<1>3. CASE PoolStarts
    BY <1>3 DEF PoolStarts
<1>4. CASE PoolCloses
    BY <1>4 DEF PoolCloses, Pool!Close
<1>5. CASE ConsumeReturns
    BY <1>5 DEF ConsumeReturns
<1>6. CASE StartReturns
    BY <1>6 DEF StartReturns
<1> QED
    BY <1>1, <1>2, <1>3, <1>4, <1>5, <1>6 DEF StartStep

\* The fetch loop preserves the invariant.
LEMMA LoopPreservesTInv == TInv /\ LoopStep => TInv'
<1> SUFFICES ASSUME TInv, LoopStep PROVE TInv'
    OBVIOUS
<1> USE DEF TInv, TypeOK, StageInv, TipHandled, diskVars, poolVars, lifeVars,
            Offsets, QueueSize, Held, LoopMoves
<1>1. CASE FetchMessage
    BY <1>1 DEF FetchMessage
<1>2. CASE FetchEnds
    BY <1>2 DEF FetchEnds
<1>3. CASE FetchFails
    BY <1>3 DEF FetchFails
<1>4. CASE BackoffElapses
    BY <1>4 DEF BackoffElapses
<1>5. CASE BackoffCanceled
    BY <1>5 DEF BackoffCanceled
<1>6. CASE Submit
    BY <1>6 DEF Submit, Pool!Accept
<1>7. CASE SubmitHands
    BY <1>7 DEF SubmitHands, Pool!AcceptAndBegin
<1>8. CASE SubmitFails
    BY <1>8 DEF SubmitFails
<1> QED
    BY <1>1, <1>2, <1>3, <1>4, <1>5, <1>6, <1>7, <1>8 DEF LoopStep

\* What the end of a task changes.
LEMMA TaskEndsChanges ==
    ASSUME TInv, NEW o \in Offsets, TaskEnds(o)
    PROVE  /\ o \in active /\ active' = active \ {o} /\ finished' = finished \cup {o}
           /\ UNCHANGED <<backlog, shut, handled, restarts, loop, position>>
           /\ UNCHANGED <<start, reader, pool, ctxDone, stop, once>>
           /\ \E how \in {"committed", "failed", "canceled"} :
                 stage' = [stage EXCEPT ![o] = how]
           /\ \/ stage[o] = "handling" /\ o \in MayFail /\ committed' = committed
              \/ /\ stage[o] = "committing" /\ o \in handled
                 /\ committed' \in {committed, o + 1}
    BY DEF TInv, StageInv, TaskEnds, DispatchReturns, HandlerFails, CommitSucceeds,
       CommitFails, CommitCanceled, CommitEnds, CommittedOffset, Pool!Finish, lifeVars

\* The dispatched tasks preserve the invariant.
LEMMA TasksPreserveTInv ==
    TInv /\ (TaskBegins \/ \E o \in Offsets : TaskStep(o)) => TInv'
<1> SUFFICES ASSUME TInv, TaskBegins \/ \E o \in Offsets : TaskStep(o) PROVE TInv'
    OBVIOUS
<1>1. CASE TaskBegins
    <2>1. /\ Head(backlog) \in Offsets
          /\ Tail(backlog) \in Seq(Offsets)
          /\ Len(Tail(backlog)) <= QueueSize
        <3>1. backlog \in Seq(Offsets) /\ backlog # <<>> /\ Len(backlog) <= QueueSize
            BY <1>1 DEF TInv, TypeOK, TaskBegins, Pool!Begin
        <3>2. Len(Tail(backlog)) = Len(backlog) - 1 /\ Len(backlog) \in Nat
            BY <3>1
        <3> QED
            BY <3>1, <3>2 DEF QueueSize
    <2>2. TypeOK'
        BY <1>1, <2>1 DEF TInv, TypeOK, TaskBegins, Pool!Begin, diskVars, lifeVars
    <2>3. StageInv'
        BY <1>1, <2>1 DEF TInv, TypeOK, StageInv, TaskBegins, Pool!Begin, diskVars,
                          lifeVars, Held
    <2>4. TipHandled'
        BY <1>1 DEF TInv, TipHandled, TaskBegins, diskVars
    <2> QED
        BY <2>2, <2>3, <2>4 DEF TInv
<1>2. ASSUME NEW o \in Offsets, HandlerSucceeds(o) PROVE TInv'
    BY <1>2 DEF TInv, TypeOK, StageInv, TipHandled, HandlerSucceeds, poolVars,
                lifeVars, Offsets, QueueSize, Held
<1>3. ASSUME NEW o \in Offsets, TaskEnds(o) PROVE TInv'
    <2>1. committed' \in 1 .. LogEnd + 1
        <3>1. committed' \in {committed, o + 1}
            BY <1>3, TaskEndsChanges
        <3> QED
            BY <3>1 DEF TInv, TypeOK, Offsets
    <2>2. TypeOK'
        BY <1>3, <2>1, TaskEndsChanges DEF TInv, TypeOK
    <2>3. StageInv'
        BY <1>3, TaskEndsChanges DEF TInv, TypeOK, StageInv, Held
    <2>4. TipHandled'
        BY <1>3, TaskEndsChanges DEF TInv, TypeOK, TipHandled, Offsets
    <2> QED
        BY <2>2, <2>3, <2>4 DEF TInv
<1> QED
    BY <1>1, <1>2, <1>3 DEF TaskStep

\* Shutdown, Stop and a restart preserve the invariant.
LEMMA OthersPreserveTInv == TInv /\ (CancelCtx \/ Stop \/ Restart) => TInv'
<1> SUFFICES ASSUME TInv, CancelCtx \/ Stop \/ Restart PROVE TInv'
    OBVIOUS
<1> USE DEF TInv, TypeOK, StageInv, TipHandled, diskVars, poolVars, Offsets,
            QueueSize, Held
<1>1. CASE CancelCtx
    BY <1>1 DEF CancelCtx
<1>2. CASE Stop
    BY <1>2 DEF Stop
<1>3. CASE Restart
    <2>1. shut' \in BOOLEAN /\ ctxDone' \in BOOLEAN /\ once' \in BOOLEAN
        BY <1>3, Zenon DEF Restart
    <2>2. backlog' \in Seq(Offsets) /\ Len(backlog') = 0
        BY <1>3 DEF Restart
    <2> QED
        BY <1>3, <2>1, <2>2 DEF Restart
<1> QED
    BY <1>1, <1>2, <1>3

\* Every step preserves the invariant.
LEMMA TInvPreserved == TInv /\ [Next]_vars => TInv'
<1>1. TInv /\ UNCHANGED vars => TInv'
    BY DEF TInv, TypeOK, StageInv, TipHandled, Held, vars
<1> QED
    BY <1>1, StartPreservesTInv, LoopPreservesTInv, TasksPreserveTInv,
       OthersPreserveTInv DEF Next

\* TInv is an invariant, for every pool size and whichever handlers fail.
THEOREM TInvariance == Spec => []TInv
    BY InitTInv, TInvPreserved, PTL DEF Spec

\* The consumer's state is well formed in every reachable state.
THEOREM TypeCorrectness == Spec => []TypeOK
    BY TInvariance, PTL DEF TInv

\* The committed offset is always one past a message that was handled.
THEOREM TipHandledHolds == Spec => []TipHandled
    BY TInvariance, PTL DEF TInv

-----------------------------------------------------------------------------
(* What holds for any number of workers.                                    *)

\* No step forgets a message that was fetched: it goes on to the queue, a worker,
\* handled or MayFail.  Only Connect moves the position over messages of earlier
\* processes.
LEMMA FetchedPreserved ==
    ASSUME TInv, TInv', FetchedInv, [Next]_vars, Connect => PrefixHandled
    PROVE  FetchedInv'
<1> USE DEF FetchedInv, Held
<1>1. CASE UNCHANGED vars
    BY <1>1 DEF vars
<1>2. CASE StartStep \/ CancelCtx \/ Stop
    BY <1>2 DEF StartStep, ConnectFails, Connect, PoolStarts, PoolCloses, Pool!Close,
       ConsumeReturns, StartReturns, CancelCtx, Stop, diskVars, poolVars, PrefixHandled,
       TInv, TypeOK, StageInv
<1>3. CASE FetchEnds \/ FetchFails \/ BackoffElapses \/ BackoffCanceled \/ SubmitFails
    BY <1>3 DEF FetchEnds, FetchFails, BackoffElapses, BackoffCanceled,
       SubmitFails, LoopMoves, diskVars, poolVars
<1>4. CASE FetchMessage
    BY <1>4 DEF FetchMessage, LoopMoves, diskVars, poolVars, TInv, TypeOK, Offsets
<1>5. CASE Submit
    <2>1. /\ Len(backlog) \in Nat
          /\ backlog' = Append(backlog, Held) /\ backlog \in Seq(Offsets)
          /\ UNCHANGED <<handled, position, stage>>
        BY <1>5 DEF Submit, Pool!Accept, LoopMoves, diskVars, TInv, TypeOK
    <2>2. /\ Len(backlog) + 1 \in 1 .. Len(backlog')
          /\ backlog'[Len(backlog) + 1] = Held
          /\ \A i \in 1 .. Len(backlog) :
                i \in 1 .. Len(backlog') /\ backlog'[i] = backlog[i]
        BY <2>1
    <2> QED
        BY <2>1, <2>2
<1>6. CASE SubmitHands
    BY <1>6 DEF SubmitHands, Pool!AcceptAndBegin, diskVars, TInv, TypeOK, StageInv
<1>7. CASE TaskBegins
    <2>1. /\ backlog \in Seq(Offsets) /\ backlog # <<>> /\ Len(backlog) \in Nat
          /\ UNCHANGED <<handled, position, loop>>
          /\ backlog' = Tail(backlog)
          /\ stage' = [stage EXCEPT ![Head(backlog)] = "handling"]
        BY <1>7 DEF TaskBegins, Pool!Begin, diskVars, TInv, TypeOK
    <2>2. Head(backlog) = backlog[1] /\ backlog[1] \in Offsets /\ Len(backlog) > 0
        BY <2>1
    <2>3. \A i \in 1 .. Len(backlog) :
             i = 1 \/ (i - 1 \in 1 .. Len(backlog') /\ backlog'[i - 1] = backlog[i])
        BY <2>1, <2>2
    <2>4. /\ stage'[backlog[1]] = "handling"
          /\ \A o \in Offsets : stage[o] = "handling" => stage'[o] = "handling"
        BY <2>1, <2>2 DEF TInv, TypeOK
    <2>5. \A i \in 1 .. Len(backlog) :
             \/ backlog[i] = backlog[1]
             \/ \E k \in 1 .. Len(backlog') : backlog'[k] = backlog[i]
        BY <2>3
    <2> SUFFICES ASSUME NEW o \in Offsets, o < position, o \notin handled \cup MayFail,
                        ~(o = Held /\ loop \in {"submitting", "exited"})
                 PROVE  \/ \E k \in 1 .. Len(backlog') : backlog'[k] = o
                        \/ stage'[o] = "handling"
        BY <2>1
    <2>6. (\E i \in 1 .. Len(backlog) : backlog[i] = o) \/ stage[o] = "handling"
        OBVIOUS
    <2> QED
        BY <2>4, <2>5, <2>6
<1>8. ASSUME NEW t \in Offsets, HandlerSucceeds(t) PROVE FetchedInv'
    BY <1>8 DEF HandlerSucceeds, poolVars, TInv, TypeOK
<1>9. ASSUME NEW t \in Offsets, TaskEnds(t) PROVE FetchedInv'
    BY <1>9, TaskEndsChanges DEF TInv, TypeOK
<1>10. CASE Restart
    BY <1>10 DEF Restart, Offsets
<1> QED
    BY <1>1, <1>2, <1>3, <1>4, <1>5, <1>6, <1>7, <1>8, <1>9, <1>10
       DEF Next, LoopStep, TaskStep

\* A message that a worker or a caller takes up has not been in a handler yet.
LEMMA DInvPreserved ==
    ASSUME DInv, TInv', [Next]_vars
    PROVE  DInv'
<1>1. /\ position \in Nat /\ backlog \in Seq(Offsets) /\ Len(backlog) \in Nat
      /\ \A i \in 1 .. Len(backlog) : backlog[i] \in Offsets /\ backlog[i] \in Nat
      /\ stage \in [Offsets -> {"none", "handling", "committing", "committed",
                               "failed", "canceled"}]
    BY DEF DInv, TInv, TypeOK, Offsets
<1> SUFFICES FreshInv'
    BY DEF DInv
<1> USE DEF DInv, FreshInv, Held, diskVars, poolVars, lifeVars
<1>2. CASE UNCHANGED vars
    BY <1>2 DEF vars
<1>3. CASE ConnectFails \/ PoolStarts \/ PoolCloses \/ ConsumeReturns \/ StartReturns
    BY <1>3 DEF ConnectFails, PoolStarts, PoolCloses, Pool!Close, ConsumeReturns,
                StartReturns
<1>4. CASE Connect
    BY <1>1, <1>4 DEF Connect, TInv, TypeOK, StageInv, Offsets
<1>5. CASE FetchEnds \/ FetchFails \/ BackoffElapses \/ BackoffCanceled \/ SubmitFails
    BY <1>5 DEF FetchEnds, FetchFails, BackoffElapses, BackoffCanceled, SubmitFails,
                LoopMoves
<1>6. CASE FetchMessage
    BY <1>1, <1>6 DEF FetchMessage, LoopMoves, Offsets
<1>7. CASE Submit
    <2>1. /\ loop = "submitting" /\ loop' = "fetching"
          /\ backlog' = Append(backlog, Held) /\ UNCHANGED <<position, stage>>
          /\ Held \in Offsets
        BY <1>7 DEF Submit, Pool!Accept, LoopMoves, TInv, StageInv
    <2>2. /\ Len(backlog') = Len(backlog) + 1
          /\ backlog'[Len(backlog) + 1] = Held
          /\ \A i \in 1 .. Len(backlog) : backlog'[i] = backlog[i]
          /\ \A i \in 1 .. Len(backlog') :
                i \in 1 .. Len(backlog) \/ i = Len(backlog) + 1
        BY <1>1, <2>1
    <2> QED
        BY <1>1, <2>1, <2>2
<1>8. CASE SubmitHands
    BY <1>1, <1>8 DEF SubmitHands, Pool!AcceptAndBegin, TInv, StageInv
<1>9. CASE TaskBegins
    <2>1. /\ backlog # <<>> /\ backlog' = Tail(backlog) /\ UNCHANGED <<loop, position>>
          /\ stage' = [stage EXCEPT ![Head(backlog)] = "handling"]
        BY <1>9 DEF TaskBegins, Pool!Begin
    <2>2. /\ Len(backlog) > 0 /\ Head(backlog) = backlog[1]
          /\ Len(backlog') = Len(backlog) - 1
          /\ \A i \in 1 .. Len(backlog') :
                /\ i + 1 \in 1 .. Len(backlog) /\ i + 1 # 1
                /\ backlog'[i] = backlog[i + 1]
        BY <1>1, <2>1
    <2>3. 1 \in 1 .. Len(backlog)
        BY <1>1, <2>2
    <2>4. \A i \in 1 .. Len(backlog') : backlog'[i] # backlog[1]
        BY <2>2, <2>3
    <2> QED
        BY <1>1, <2>1, <2>2, <2>3, <2>4
<1>10. ASSUME NEW t \in Offsets, TaskStep(t) PROVE FreshInv'
    <2>1. /\ stage[t] # "none" /\ UNCHANGED <<backlog, loop, position>>
          /\ \E how \in {"committing", "committed", "failed", "canceled"} :
                stage' = [stage EXCEPT ![t] = how]
        BY <1>10, TaskEndsChanges DEF TaskStep, HandlerSucceeds
    <2> QED
        BY <1>1, <2>1 DEF TInv, StageInv
<1>11. CASE CancelCtx \/ Stop
    BY <1>11 DEF CancelCtx, Stop
<1>12. CASE Restart
    <2>1. Len(backlog') = 0
        BY <1>12 DEF Restart
    <2> QED
        BY <1>12, <2>1 DEF Restart
<1> QED
    BY <1>2, <1>3, <1>4, <1>5, <1>6, <1>7, <1>8, <1>9, <1>10, <1>11, <1>12
       DEF Next, StartStep, LoopStep

\* DInv is an invariant, for every pool size and whichever handlers fail.
THEOREM DInvariance == Spec => []DInv
<1>1. Init => DInv
    <2> SUFFICES ASSUME Init PROVE DInv
        OBVIOUS
    <2>1. Len(backlog) = 0
        BY DEF Init
    <2> QED
        BY <2>1, InitTInv DEF Init, DInv, FreshInv
<1>2. DInv /\ TInv' /\ [Next]_vars => DInv'
    BY DInvPreserved
<1> QED
    BY <1>1, <1>2, TInvariance, PTL DEF Spec

\* A handler is called at most once for a message in the life of a process.
THEOREM OncePerProcessHolds == Spec => OncePerProcess
<1>1. DInv /\ [Next]_vars =>
        [\A o \in Offsets :
            stage'[o] = "handling" /\ stage[o] # "handling" => stage[o] = "none"]_vars
    <2> SUFFICES ASSUME DInv, Next, NEW o \in Offsets,
                        stage'[o] = "handling", stage[o] # "handling"
                 PROVE  stage[o] = "none"
        BY DEF vars
    <2>1. CASE StartStep \/ LoopStep \/ CancelCtx \/ Stop \/ Restart
        BY <2>1 DEF StartStep, ConnectFails, Connect, PoolStarts, PoolCloses,
           ConsumeReturns, StartReturns, LoopStep, LoopMoves, FetchMessage, FetchEnds,
           FetchFails, BackoffElapses, BackoffCanceled, Submit, SubmitHands, SubmitFails,
           CancelCtx, Stop, Restart, DInv, TInv, TypeOK, FreshInv
    <2>2. CASE TaskBegins
        <3>1. backlog \in Seq(Offsets) /\ backlog # <<>>
            BY <2>2 DEF TaskBegins, Pool!Begin, DInv, TInv, TypeOK
        <3>2. Head(backlog) = backlog[1] /\ 1 \in 1 .. Len(backlog)
            BY <3>1
        <3> QED
            BY <2>2, <3>2 DEF TaskBegins, DInv, TInv, TypeOK, FreshInv
    <2>3. ASSUME NEW t \in Offsets, TaskStep(t) PROVE stage[o] = "none"
        BY <2>3, TaskEndsChanges DEF TaskStep, HandlerSucceeds, DInv, TInv, TypeOK
    <2> QED
        BY <2>1, <2>2, <2>3 DEF Next
<1> QED
    BY <1>1, DInvariance, PTL DEF Spec, OncePerProcess

\* Until the first restart the group's offset stays behind the reader.
LEMMA LInvPreserved ==
    ASSUME LInv, DInv', [Next]_vars
    PROVE  LInv'
<1>1. /\ position \in Nat /\ committed \in Nat /\ restarts \in Nat
      /\ restarts' \in Nat
    BY DEF LInv, DInv, TInv, TypeOK
<1>2. ASSUME restarts' = 0 PROVE restarts = 0 /\ ~Restart
    BY <1>1, <1>2 DEF Next, vars, Restart, StartStep, ConnectFails, Connect,
       PoolStarts, PoolCloses, ConsumeReturns, StartReturns, LoopStep, LoopMoves,
       FetchMessage, FetchEnds, FetchFails, BackoffElapses, BackoffCanceled, Submit,
       SubmitHands, SubmitFails, TaskBegins, TaskStep, HandlerSucceeds, TaskEnds,
       DispatchReturns, CancelCtx, Stop, diskVars
<1> SUFFICES ASSUME restarts' = 0
             PROVE  /\ FetchedInv'
                    /\ (start = "connecting" => committed = 1)'
                    /\ (committed = 1 \/ committed <= position)'
    BY DEF LInv, FirstRunInv
<1>3. /\ restarts = 0 /\ ~Restart /\ FetchedInv
      /\ start = "connecting" => committed = 1
      /\ committed = 1 \/ committed <= position
    BY <1>2 DEF LInv, FirstRunInv
<1>4. FetchedInv'
    <2>1. Connect => PrefixHandled
        BY <1>3 DEF Connect, PrefixHandled, Offsets
    <2> QED
        BY <1>3, <2>1, FetchedPreserved DEF LInv, DInv
<1> SUFFICES /\ (start = "connecting" => committed = 1)'
             /\ (committed = 1 \/ committed <= position)'
    BY <1>4
<1>5. CASE UNCHANGED vars
    BY <1>3, <1>5 DEF vars
<1>6. CASE StartStep \/ LoopStep \/ TaskBegins \/ CancelCtx \/ Stop
    BY <1>1, <1>3, <1>6 DEF StartStep, ConnectFails, Connect,
       PoolStarts, PoolCloses, ConsumeReturns, StartReturns, LoopStep, LoopMoves,
       FetchMessage, FetchEnds, FetchFails, BackoffElapses, BackoffCanceled, Submit,
       SubmitHands, SubmitFails, TaskBegins, CancelCtx, Stop, diskVars, lifeVars
<1>7. ASSUME NEW t \in Offsets, TaskStep(t)
      PROVE  /\ (start = "connecting" => committed = 1)'
             /\ (committed = 1 \/ committed <= position)'
    <2>1. /\ stage[t] # "none" /\ UNCHANGED <<start, position>>
          /\ committed' \in {committed, t + 1}
        BY <1>7, TaskEndsChanges DEF TaskStep, HandlerSucceeds, lifeVars, LInv, DInv
    <2>2. t < position /\ t \in Nat /\ position # 0
        BY <1>1, <2>1 DEF LInv, DInv, FreshInv, Offsets
    <2>3. start # "connecting"
        BY <2>2 DEF LInv, DInv, TInv, StageInv
    <2> QED
        BY <1>1, <1>3, <2>1, <2>2, <2>3
<1> QED
    BY <1>3, <1>5, <1>6, <1>7 DEF Next

\* With any number of workers, no message is lost to another one's failure or
\* commit before the first restart.
THEOREM LossNeedsRestartHolds == Spec => []LossNeedsRestart
<1>1. Init /\ DInv => LInv
    BY DEF Init, LInv, FirstRunInv, FetchedInv, Offsets
<1>2. LInv /\ DInv' /\ [Next]_vars => LInv'
    BY LInvPreserved
<1>3. LInv => LossNeedsRestart
    <2> SUFFICES ASSUME LInv, restarts = 0, NEW o \in Offsets, o < committed,
                        o \notin handled \cup MayFail
                 PROVE  InFlight(o)
        BY DEF LossNeedsRestart
    <2>1. committed \in Nat /\ position \in Nat /\ o \in Nat /\ o >= 1
        BY DEF LInv, DInv, TInv, TypeOK, Offsets
    <2>2. FetchedInv /\ committed <= position /\ committed - 1 \in handled
        BY <2>1 DEF LInv, FirstRunInv, DInv, TInv, TipHandled
    <2>3. o # Held
        BY <2>1, <2>2 DEF Held
    <2> QED
        BY <2>1, <2>2, <2>3 DEF FetchedInv, InFlight, Queued
<1> QED
    BY <1>1, <1>2, <1>3, DInvariance, PTL DEF Spec

-----------------------------------------------------------------------------
(* At-least-once delivery with one worker, whichever handlers fail.         *)

\* FifoExecutor's bound of one keeps a second task from beginning.
LEMMA OneWorkerOneTask ==
    ASSUME NEW S \in SUBSET Offsets, Cardinality(S) <= 1, NEW a \in S, NEW b \in S
    PROVE  a = b
<1> SUFFICES ASSUME a # b PROVE FALSE
    OBVIOUS
<1>1. IsFiniteSet(S)
    <2>1. IsFiniteSet(1 .. LogEnd)
        <3>1. 1 \in Int /\ LogEnd \in Int
            OBVIOUS
        <3> QED
            BY ONLY <3>1, FS_Interval, Zenon
    <2> QED
        BY <2>1, FS_Subset DEF Offsets
<1>2. Cardinality({a, b}) = 2
    <2>1. IsFiniteSet({a}) /\ Cardinality({a}) = 1
        BY FS_Singleton
    <2>2. Cardinality({a} \cup {b}) = Cardinality({a}) + 1
        BY <2>1, FS_AddElement
    <2>3. {a} \cup {b} = {a, b}
        OBVIOUS
    <2> QED
        BY <2>1, <2>2, <2>3
<1>3. Cardinality({a, b}) <= Cardinality(S)
    BY <1>1, FS_Subset
<1>4. Cardinality(S) \in Nat
    BY <1>1, FS_CardinalityType
<1> QED
    BY <1>2, <1>3, <1>4

\* When the only worker commits a message, everything before it is handled or may
\* have failed.
LEMMA BeforeCommitHandled ==
    ASSUME PInv, NEW t \in Offsets, stage[t] = "committing"
    PROVE  \A o \in Offsets : o <= t => o \in handled \cup MayFail
<1> SUFFICES ASSUME NEW o \in Offsets, o <= t PROVE o \in handled \cup MayFail
    OBVIOUS
<1>1. t \in active /\ t \in handled
    BY DEF PInv, TInv, StageInv
<1>2. t < position
    BY <1>1 DEF PInv, OrderInv
<1>3. CASE o = t
    BY <1>1, <1>3
<1>4. CASE o < t
    <2>1. o < position /\ o # Held
        BY <1>2, <1>4 DEF Offsets, Held, PInv, TInv, TypeOK
    <2>2. ~ \E i \in 1 .. Len(backlog) : backlog[i] = o
        BY <1>1, <1>4 DEF PInv, OrderInv, TInv, TypeOK, Offsets
    <2>3. stage[o] # "handling"
        BY <1>1, <1>4 DEF PInv, OneAtATime, TInv, StageInv, Offsets
    <2> QED
        BY <2>1, <2>2, <2>3 DEF PInv, FetchedInv
<1> QED
    BY <1>3, <1>4 DEF Offsets

\* Steps that touch neither the messages in the process nor the group's offset,
\* and at most move the loop to a place where it holds no message, or end it.
LEMMA PFrame ==
    ASSUME PInv, TInv',
           UNCHANGED <<committed, handled, position, stage, backlog, active>>,
           \/ loop' = loop
           \/ /\ loop \in {"fetching", "backoff"}
              /\ loop' \in {"fetching", "backoff", "exited"}
           \/ loop = "submitting" /\ loop' = "exited"
    PROVE  PInv'
<1>1. OrderInv'
    BY DEF PInv, OrderInv, Held
<1>2. FetchedInv'
    BY DEF PInv, FetchedInv, Held
<1>3. (OneAtATime /\ PrefixHandled)'
    BY DEF PInv, OneAtATime, PrefixHandled
<1> QED
    BY <1>1, <1>2, <1>3 DEF PInv

\* The message that is submitted is behind all those in the pool.
LEMMA PSubmit == PInv /\ TInv' /\ Submit => PInv'
<1> SUFFICES ASSUME PInv, TInv', Submit PROVE PInv'
    OBVIOUS
<1>1. /\ position \in Nat /\ Held = position - 1 /\ Held \in Nat
      /\ backlog \in Seq(Offsets) /\ Len(backlog) \in Nat
      /\ \A i \in 1 .. Len(backlog) : backlog[i] \in Nat
      /\ \A a \in active : a \in Nat
    BY DEF Submit, LoopMoves, PInv, TInv, TypeOK, StageInv, Held, Offsets
<1>2. /\ loop = "submitting" /\ loop' = "fetching"
      /\ UNCHANGED <<committed, handled, position, stage, active>>
      /\ backlog' = Append(backlog, Held)
    BY DEF Submit, Pool!Accept, LoopMoves, diskVars
<1>3. /\ Len(backlog') = Len(backlog) + 1
      /\ backlog'[Len(backlog) + 1] = Held
      /\ \A i \in 1 .. Len(backlog) : backlog'[i] = backlog[i]
      /\ \A i \in 1 .. Len(backlog') :
            i \in 1 .. Len(backlog) \/ i = Len(backlog) + 1
    BY <1>1, <1>2
<1>4. /\ \A i \in 1 .. Len(backlog) : backlog[i] < Held
      /\ \A a \in active : a < Held
      /\ \A i, j \in 1 .. Len(backlog) : i < j => backlog[i] < backlog[j]
      /\ \A a \in active, i \in 1 .. Len(backlog) : a < backlog[i]
    BY <1>2 DEF PInv, OrderInv
<1>5. \A i \in 1 .. Len(backlog') : backlog'[i] < position'
    BY <1>1, <1>2, <1>3, <1>4
<1>6. \A i, j \in 1 .. Len(backlog') : i < j => backlog'[i] < backlog'[j]
    BY <1>1, <1>3, <1>4
<1>7. \A a \in active', i \in 1 .. Len(backlog') : a < backlog'[i]
    BY <1>2, <1>3, <1>4
<1>8. \A a \in active' : a < position'
    BY <1>1, <1>2, <1>4
<1>9. OrderInv'
    BY <1>2, <1>5, <1>6, <1>7, <1>8 DEF OrderInv
<1>10. FetchedInv'
    BY FetchedPreserved DEF PInv, Next, LoopStep
<1>11. (OneAtATime /\ PrefixHandled)'
    BY <1>2 DEF PInv, OneAtATime, PrefixHandled
<1> QED
    BY <1>9, <1>10, <1>11 DEF PInv

\* The one worker takes the lowest offset in the queue, and only when it is free.
LEMMA PTaskBegins ==
    ASSUME PoolSize = 1, PInv, TInv', TaskBegins
    PROVE  PInv'
<1>1. /\ backlog \in Seq(Offsets) /\ backlog # <<>> /\ Len(backlog) \in Nat
      /\ position \in Nat
    BY DEF TaskBegins, Pool!Begin, PInv, TInv, TypeOK
<1>2. /\ Len(backlog) > 0 /\ Head(backlog) = backlog[1] /\ backlog[1] \in Offsets
      /\ 1 \in 1 .. Len(backlog)
    BY <1>1
<1>3. /\ active' = active \cup {backlog[1]}
      /\ stage' = [stage EXCEPT ![backlog[1]] = "handling"]
      /\ stage \in [Offsets -> {"none", "handling", "committing", "committed",
                               "failed", "canceled"}]
      /\ UNCHANGED <<committed, handled, position, loop>>
      /\ backlog' = Tail(backlog)
    BY <1>2 DEF TaskBegins, Pool!Begin, diskVars, PInv, TInv, TypeOK
<1>4. /\ Len(backlog') = Len(backlog) - 1
      /\ \A i \in 1 .. Len(backlog') :
            /\ i + 1 \in 1 .. Len(backlog) /\ 1 < i + 1
            /\ backlog'[i] = backlog[i + 1]
    BY <1>1, <1>2, <1>3
<1>5. OneAtATime'
    <2>1. active' \in SUBSET Offsets
        BY DEF TInv, TypeOK
    <2>2. Cardinality(active') <= 1
        BY DEF TaskBegins, Pool!Begin, Cardinality, Pool!Cardinality
    <2> QED
        BY <2>1, <2>2, OneWorkerOneTask DEF OneAtATime
<1>6. /\ \A i \in 1 .. Len(backlog) : backlog[i] < position
      /\ \A a \in active : a < position
      /\ loop = "submitting" =>
            /\ \A i \in 1 .. Len(backlog) : backlog[i] < Held
            /\ \A a \in active : a < Held
      /\ \A i, j \in 1 .. Len(backlog) : i < j => backlog[i] < backlog[j]
      /\ \A a \in active, i \in 1 .. Len(backlog) : a < backlog[i]
    BY DEF PInv, OrderInv
<1>7. \A i \in 1 .. Len(backlog') : backlog'[i] < position'
    BY <1>3, <1>4, <1>6
<1>8. \A a \in active' : a < position'
    BY <1>2, <1>3, <1>6
<1>9. loop' = "submitting" =>
          /\ \A i \in 1 .. Len(backlog') : backlog'[i] < Held'
          /\ \A a \in active' : a < Held'
    <2>1. Held' = Held
        BY <1>3 DEF Held
    <2> QED
        BY <1>2, <1>3, <1>4, <1>6, <2>1
<1>10. \A i, j \in 1 .. Len(backlog') : i < j => backlog'[i] < backlog'[j]
    <2> SUFFICES ASSUME NEW i \in 1 .. Len(backlog'),
                        NEW j \in 1 .. Len(backlog'), i < j
                 PROVE  backlog'[i] < backlog'[j]
        OBVIOUS
    <2>1. i + 1 < j + 1
        OBVIOUS
    <2> QED
        BY <1>4, <1>6, <2>1
<1>11. \A a \in active', i \in 1 .. Len(backlog') : a < backlog'[i]
    BY <1>2, <1>3, <1>4, <1>6
<1>12. OrderInv'
    BY <1>7, <1>8, <1>9, <1>10, <1>11 DEF OrderInv
<1>13. FetchedInv'
    BY FetchedPreserved DEF PInv, Next
<1>14. PrefixHandled'
    BY <1>3 DEF PInv, PrefixHandled
<1> QED
    BY <1>5, <1>12, <1>13, <1>14 DEF PInv

\* A message goes straight to the worker only when the queue is empty, and there
\* is no other task when there is one worker.
LEMMA PSubmitHands ==
    ASSUME PoolSize = 1, PInv, TInv', SubmitHands
    PROVE  PInv'
<1>1. /\ position \in Nat /\ Held \in Offsets /\ Held < position
      /\ Len(backlog) = 0 /\ backlog' = backlog
      /\ active' = active \cup {Held}
      /\ stage' = [stage EXCEPT ![Held] = "handling"]
      /\ stage \in [Offsets -> {"none", "handling", "committing", "committed",
                               "failed", "canceled"}]
      /\ UNCHANGED <<committed, handled, position>>
      /\ loop = "submitting" /\ loop' = "fetching"
    BY DEF SubmitHands, Pool!AcceptAndBegin, diskVars, PInv, TInv, TypeOK, StageInv,
           Held, Offsets
<1>2. OneAtATime'
    <2>1. active' \in SUBSET Offsets
        BY DEF TInv, TypeOK
    <2>2. Cardinality(active') <= 1
        BY DEF SubmitHands, Pool!AcceptAndBegin, Cardinality, Pool!Cardinality
    <2> QED
        BY <2>1, <2>2, OneWorkerOneTask DEF OneAtATime
<1>3. OrderInv'
    BY <1>1 DEF PInv, OrderInv
<1>4. FetchedInv' /\ PrefixHandled'
    BY <1>1 DEF PInv, FetchedInv, PrefixHandled, Held
<1> QED
    BY <1>2, <1>3, <1>4 DEF PInv

\* Every step keeps offsets in order and PrefixHandled true.
LEMMA PInvPreserved ==
    ASSUME PoolSize = 1, PInv, TInv', [Next]_vars
    PROVE  PInv'
<1>1. CASE UNCHANGED vars
    BY <1>1, PFrame DEF vars
<1>2. CASE ConnectFails \/ PoolStarts \/ PoolCloses \/ ConsumeReturns \/ StartReturns
    BY <1>2, PFrame DEF ConnectFails, PoolStarts, PoolCloses, Pool!Close,
       ConsumeReturns, StartReturns, diskVars, poolVars
<1>3. CASE FetchEnds \/ FetchFails \/ BackoffElapses \/ BackoffCanceled \/ SubmitFails
    BY <1>3, PFrame DEF FetchEnds, FetchFails, BackoffElapses, BackoffCanceled,
       SubmitFails, LoopMoves, diskVars, poolVars
<1>4. CASE CancelCtx \/ Stop
    BY <1>4, PFrame DEF CancelCtx, Stop, diskVars, poolVars
<1>f. FetchedInv'
    BY FetchedPreserved DEF PInv
<1> USE DEF PInv, TInv, TypeOK, StageInv, OrderInv, FetchedInv, OneAtATime,
            PrefixHandled, diskVars, poolVars, lifeVars, Offsets, Held
<1>5. CASE Connect
    BY <1>5 DEF Connect
<1>6. CASE FetchMessage
    BY <1>6 DEF FetchMessage, LoopMoves
<1>7. CASE Submit
    BY <1>7, PSubmit
<1>8. CASE TaskBegins
    BY <1>8, PTaskBegins
<1>9. ASSUME NEW t \in Offsets, HandlerSucceeds(t) PROVE PInv'
    BY <1>9 DEF HandlerSucceeds
<1>10. ASSUME NEW t \in Offsets, TaskEnds(t) PROVE PInv'
    <2>1. /\ UNCHANGED <<handled, backlog, loop, position>>
          /\ active' = active \ {t}
          /\ committed' = committed \/ (stage[t] = "committing" /\ committed' = t + 1)
        BY <1>10, TaskEndsChanges
    <2>2. PrefixHandled'
        BY <2>1, BeforeCommitHandled
    <2>3. (OrderInv /\ OneAtATime)'
        BY <2>1
    <2> QED
        BY <1>f, <2>2, <2>3
<1>11. CASE Restart
    <2>1. Len(backlog') = 0
        BY <1>11 DEF Restart
    <2> QED
        BY <1>11, <2>1 DEF Restart
<1>12. CASE SubmitHands
    BY <1>12, PSubmitHands
<1> QED
    BY <1>1, <1>2, <1>3, <1>4, <1>5, <1>6, <1>7, <1>8, <1>9, <1>10, <1>11,
       <1>12 DEF Next, StartStep, LoopStep, TaskStep

\* PInv is an invariant when there is one worker.
THEOREM PInvariance ==
    ASSUME PoolSize = 1
    PROVE  Spec => []PInv
<1>1. Init => PInv
    <2> SUFFICES ASSUME Init PROVE PInv
        OBVIOUS
    <2>1. Len(backlog) = 0
        BY DEF Init
    <2> QED
        BY <2>1, InitTInv DEF Init, PInv, OrderInv, FetchedInv, OneAtATime,
           PrefixHandled, Offsets
<1>2. PInv /\ TInv' /\ [Next]_vars => PInv'
    BY PInvPreserved
<1> QED
    BY <1>1, <1>2, TInvariance, PTL DEF Spec

\* At-least-once: with one worker no message below the group's offset was skipped
\* but those whose own handler failed, whatever crashes and commits do.
THEOREM PrefixHandledHolds ==
    ASSUME PoolSize = 1
    PROVE  Spec => []PrefixHandled
<1>1. PInv => PrefixHandled
    BY DEF PInv
<1> QED
    BY <1>1, PInvariance, PTL

\* Every step keeps the messages of the process ahead of the group's offset, which
\* moves past the one task of the one worker only.
LEMMA MInvPreserved ==
    ASSUME PoolSize = 1, MInv, PInv', [Next]_vars
    PROVE  MInv' /\ committed' >= committed
<1>1. /\ position \in Nat /\ committed \in Nat /\ Held = position - 1
      /\ backlog \in Seq(Offsets) /\ Len(backlog) \in Nat
      /\ \A i \in 1 .. Len(backlog) : backlog[i] \in Nat
      /\ active \subseteq Offsets /\ \A a \in active : a \in Nat
    BY DEF MInv, PInv, TInv, TypeOK, Held, Offsets
<1> SUFFICES AheadInv' /\ committed' >= committed
    BY DEF MInv
<1> USE DEF MInv, AheadInv, Held, diskVars, poolVars, lifeVars
<1>2. CASE UNCHANGED vars
    BY <1>1, <1>2 DEF vars
<1>3. CASE StartStep \/ CancelCtx \/ Stop
    BY <1>1, <1>3 DEF StartStep, ConnectFails, Connect, PoolStarts, PoolCloses,
       Pool!Close, ConsumeReturns, StartReturns, CancelCtx, Stop, PInv, TInv, StageInv
<1>4. CASE FetchEnds \/ FetchFails \/ BackoffElapses \/ BackoffCanceled \/ SubmitFails
    BY <1>1, <1>4 DEF FetchEnds, FetchFails, BackoffElapses, BackoffCanceled,
       SubmitFails, LoopMoves
<1>5. CASE FetchMessage
    BY <1>1, <1>5 DEF FetchMessage, LoopMoves, Offsets
<1>6. CASE Submit
    <2>1. /\ loop = "submitting" /\ loop' = "fetching"
          /\ backlog' = Append(backlog, Held) /\ Held \in Offsets
          /\ UNCHANGED <<committed, position, active>>
        BY <1>6 DEF Submit, Pool!Accept, LoopMoves, PInv, TInv, StageInv
    <2>2. \A i \in 1 .. Len(backlog') :
             \/ i \in 1 .. Len(backlog) /\ backlog'[i] = backlog[i]
             \/ backlog'[i] = Held
        BY <1>1, <2>1
    <2> QED
        BY <1>1, <2>1, <2>2
<1>7. CASE SubmitHands
    BY <1>1, <1>7 DEF SubmitHands, Pool!AcceptAndBegin
<1>8. CASE TaskBegins
    <2>1. /\ backlog # <<>> /\ backlog' = Tail(backlog)
          /\ active' = active \cup {Head(backlog)}
          /\ UNCHANGED <<committed, loop, position>>
        BY <1>8 DEF TaskBegins, Pool!Begin
    <2>2. /\ Head(backlog) = backlog[1] /\ 1 \in 1 .. Len(backlog)
          /\ \A i \in 1 .. Len(backlog') :
                i + 1 \in 1 .. Len(backlog) /\ backlog'[i] = backlog[i + 1]
        BY <1>1, <2>1
    <2> QED
        BY <1>1, <2>1, <2>2
<1>9. ASSUME NEW t \in Offsets, TaskStep(t) PROVE AheadInv' /\ committed' >= committed
    <2>1. /\ t \in active /\ UNCHANGED <<backlog, loop, position>>
          /\ committed' \in {committed, t + 1} /\ active' \subseteq active
          /\ committed' # committed => t \notin active'
        BY <1>9, TaskEndsChanges DEF TaskStep, HandlerSucceeds, PInv, TInv, StageInv
    <2>2. CASE committed' = committed
        BY <1>1, <2>1, <2>2
    <2>3. CASE committed' # committed
        <3>1. committed' = t + 1 /\ committed <= t /\ active' = {} /\ t \in Nat
            BY <1>1, <2>1, <2>3 DEF PInv, OneAtATime
        <3>2. /\ t < position
              /\ \A i \in 1 .. Len(backlog) : t < backlog[i]
              /\ loop = "submitting" => t < Held
            BY <2>1 DEF PInv, OrderInv
        <3> QED
            BY <1>1, <2>1, <3>1, <3>2
    <2> QED
        BY <2>2, <2>3
<1>10. CASE Restart
    <2>1. Len(backlog') = 0
        BY <1>10 DEF Restart
    <2> QED
        BY <1>1, <1>10, <2>1 DEF Restart
<1> QED
    BY <1>2, <1>3, <1>4, <1>5, <1>6, <1>7, <1>8, <1>9, <1>10 DEF Next, LoopStep

\* With one worker the group's offset never moves back.
THEOREM OffsetNeverRewindsHolds ==
    ASSUME PoolSize = 1
    PROVE  Spec => OffsetNeverRewinds
<1>1. Init /\ PInv => MInv
    <2> SUFFICES ASSUME Init, PInv PROVE MInv
        OBVIOUS
    <2>1. Len(backlog) = 0
        BY DEF Init
    <2> QED
        BY <2>1 DEF Init, MInv, AheadInv
<1>2. MInv /\ PInv' /\ [Next]_vars => MInv' /\ [committed' >= committed]_vars
    BY MInvPreserved
<1> QED
    BY <1>1, <1>2, PInvariance, PTL DEF Spec, OffsetNeverRewinds

-----------------------------------------------------------------------------
(* The consumer with its real pool.                                         *)

\* The lemmas about the pool, for the pool of the consumer.
PP == INSTANCE WorkerPoolProofs WITH
    Tasks <- Offsets, NoTask <- 0,
    queue <- backlog, closed <- shut, done <- finished,
    start <- poolStart, stop <- poolStop,
    submitCanceled <- [o \in Offsets |-> ctxDone]

\* The consumer builds its pool as WorkerPool assumes.
LEMMA PoolAssumptions == PP!WorkersFinite /\ PP!QueueSizeType /\ PP!NoTaskType
<1>1. IsFiniteSet(Workers) /\ Workers # {}
    BY WorkersType, FS_EmptySet
<1>2. QueueSize \in Nat /\ 0 \notin Offsets
    BY DEF QueueSize, Offsets
<1> QED
    BY <1>1, <1>2 DEF PP!WorkersFinite, PP!QueueSizeType, PP!NoTaskType,
       PP!IsFiniteSet, IsFiniteSet

\* ConsumerOnPool and the lemmas talk about the same pool.
LEMMA SamePool ==
    /\ P!IInv <=> PP!IInv
    /\ P!IInv' <=> PP!IInv'
    /\ P!Running = PP!Running
    /\ P!Running' = PP!Running'
    BY Zenon DEF P!IInv, PP!IInv, P!TypeOK, PP!TypeOK, P!LifeInv, PP!LifeInv,
       P!PlaceInv, PP!PlaceInv, P!KeptInv, PP!KeptInv, P!WorkersStay, PP!WorkersStay,
       P!Running, PP!Running

\* The steps of that pool.
LEMMA SameSteps ==
    /\ \A o \in Offsets :
          /\ P!SubmitCall(o) => PP!SubmitCall(o)
          /\ P!SubmitSends(o) => PP!SubmitSends(o)
          /\ \A w \in Workers : P!SubmitHands(o, w) => PP!SubmitHands(o, w)
          /\ P!SubmitGivesUp(o) => PP!SubmitGivesUp(o)
          /\ P!SubmitPanics(o) => PP!SubmitPanics(o)
    /\ \A w \in Workers :
          /\ P!WorkerTakes(w) => PP!WorkerTakes(w)
          /\ P!TaskReturns(w) => PP!TaskReturns(w)
          /\ P!WorkerExits(w) => PP!WorkerExits(w)
          /\ P!LaunchWorker(w) => PP!LaunchWorker(w)
    /\ P!StartCall => PP!StartCall
    /\ P!StartBlocks => PP!StartBlocks
    /\ P!CloseTasks => PP!CloseTasks
    /\ P!StopBegins => PP!StopBegins
    BY Zenon DEF P!SubmitCall, PP!SubmitCall, P!SubmitSends, PP!SubmitSends,
       P!SubmitHands, PP!SubmitHands, P!SubmitGivesUp, PP!SubmitGivesUp,
       P!SubmitPanics, PP!SubmitPanics, P!WorkerTakes, PP!WorkerTakes,
       P!TaskReturns, PP!TaskReturns, P!WorkerExits, PP!WorkerExits,
       P!LaunchWorker, PP!LaunchWorker, P!StartCall, PP!StartCall,
       P!StartBlocks, PP!StartBlocks, P!CloseTasks, PP!CloseTasks,
       P!StopBegins, PP!StopBegins, P!HasRoom, PP!HasRoom, P!RangeOver, PP!RangeOver,
       P!chanVars, PP!chanVars, P!workerVars, PP!workerVars, P!lifeVars, PP!lifeVars

\* Any of them preserves the invariant of the pool.
LEMMA PoolStepsKeepIInv ==
    ASSUME P!IInv,
           \/ \E o \in Offsets :
                \/ P!SubmitCall(o) \/ P!SubmitSends(o)
                \/ P!SubmitGivesUp(o) \/ P!SubmitPanics(o)
                \/ \E w \in Workers : P!SubmitHands(o, w)
           \/ \E w \in Workers :
                \/ P!WorkerTakes(w) \/ P!TaskReturns(w) \/ P!WorkerExits(w)
                \/ P!LaunchWorker(w)
           \/ P!StartCall \/ P!StartBlocks \/ P!CloseTasks \/ P!StopBegins
    PROVE  P!IInv'
<1>1. PP!IInv
    BY SamePool
<1>2. ASSUME NEW o \in Offsets,
             \/ P!SubmitCall(o) \/ P!SubmitSends(o)
             \/ P!SubmitGivesUp(o) \/ P!SubmitPanics(o)
             \/ \E w \in Workers : P!SubmitHands(o, w)
      PROVE  P!IInv'
    <2>1. PP!SubmitCall(o) \/ PP!SubmitStep(o) \/ PP!CancelSubmit(o)
        BY <1>2, SameSteps DEF PP!SubmitStep
    <2> QED
        BY <1>1, <2>1, PP!SubmitPreservesIInv, PoolAssumptions, SamePool
<1>3. ASSUME NEW w \in Workers,
             \/ P!WorkerTakes(w) \/ P!TaskReturns(w) \/ P!WorkerExits(w)
             \/ P!LaunchWorker(w)
      PROVE  P!IInv'
    <2>1. PP!WorkerStep(w) \/ PP!LaunchWorker(w)
        BY <1>3, SameSteps DEF PP!WorkerStep
    <2> QED
        BY <1>1, <2>1, PP!WorkersPreserveIInv, PoolAssumptions, SamePool
<1>4. CASE P!StartCall \/ P!StartBlocks \/ P!CloseTasks \/ P!StopBegins
    <2>1. PP!StartCall \/ PP!StartBlocks \/ PP!CloseTasks \/ PP!StopBegins
        BY <1>4, SameSteps
    <2> QED
        BY <1>1, <2>1, PP!LifePreservesIInv, PoolAssumptions, SamePool
<1> QED
    BY <1>2, <1>3, <1>4

\* A step that leaves the pool alone, canceling its context perhaps.
LEMMA PoolFrame ==
    ASSUME P!IInv, View, UNCHANGED realVars,
           UNCHANGED <<backlog, active, finished, shut, pool>>, ctxDone' \in BOOLEAN
    PROVE  P!IInv' /\ View'
<1>1. [o \in Offsets |-> ctxDone'] \in [Offsets -> BOOLEAN]
    OBVIOUS
<1>2. P!TypeOK'
    BY <1>1 DEF P!IInv, P!TypeOK, realVars
<1>3. (P!LifeInv /\ P!PlaceInv /\ P!KeptInv /\ P!WorkersStay)'
    BY DEF P!IInv, P!LifeInv, P!PlaceInv, P!KeptInv, P!WorkersStay, realVars
<1>4. View'
    BY DEF View, P!Running, PoolPlace, realVars
<1> QED
    BY <1>2, <1>3, <1>4 DEF P!IInv

\* A new pool satisfies the invariant, in the next state too.
LEMMA NewPool == (PP!Init => PP!IInv) /\ (PP!Init' => PP!IInv')
<1>1. PP!Init => PP!IInv
    BY PP!InitIInv, PoolAssumptions
<1> QED
    BY <1>1, PTL

\* The new process begins with a new pool.
LEMMA RestartKeepsCInv == RestartBoth /\ CInv => CInv'
<1> SUFFICES ASSUME RestartBoth, CInv PROVE CInv'
    OBVIOUS
<1>1. stopExpired = FALSE /\ drainOnStop = FALSE
    BY DEF CInv, LinkInv, P!IInv, P!TypeOK
<1>2. PP!Init'
    BY <1>1, Zenon DEF RestartBoth, Restart, PP!Init
<1>3. View'
    BY DEF RestartBoth, Restart, View, P!Running, PoolPlace
<1>4. LinkInv'
    BY <1>1 DEF RestartBoth, Restart, LinkInv
<1> QED
    BY <1>2, <1>3, <1>4, NewPool, SamePool DEF CInv

\* Every step of consumer and pool keeps them in touch.
LEMMA CInvPreserved ==
    ASSUME TInv, CInv, [CNext]_cvars
    PROVE  CInv'
<1> USE DEF CInv
<1>1. /\ position \in Nat /\ ctxDone \in BOOLEAN /\ committed \in Nat
      /\ submit \in [Offsets -> {"idle", "pending", "ok", "canceled", "stopped"}]
      /\ worker \in [Workers -> {"none", "idle", "busy", "exited"}]
    BY DEF TInv, TypeOK, P!IInv, P!TypeOK
<1>2. loop = "submitting" => Held \in Offsets /\ Held < position
    BY <1>1 DEF TInv, StageInv, Held
<1>3. CASE UNCHANGED cvars
    BY <1>1, <1>3, PoolFrame DEF cvars, vars, LinkInv, Held, realVars
<1>4. CASE Own(Connect) \/ Own(ConnectFails) \/ Own(ConsumeReturns) \/ Own(StartReturns)
    <2>1. P!IInv' /\ View'
        BY <1>1, <1>4, PoolFrame DEF Own, Connect, ConnectFails, ConsumeReturns,
           StartReturns, poolVars
    <2>2. LinkInv'
        BY <1>1, <1>4 DEF Own, Connect, ConnectFails, ConsumeReturns, StartReturns,
           realVars, LinkInv, TInv, StageInv, Held, Offsets
    <2> QED
        BY <2>1, <2>2
<1>5. CASE Own(FetchEnds) \/ Own(FetchFails) \/ Own(BackoffElapses)
            \/ Own(BackoffCanceled) \/ Own(CancelCtx)
    <2>1. P!IInv' /\ View'
        BY <1>1, <1>5, PoolFrame DEF Own, FetchEnds, FetchFails, BackoffElapses,
           BackoffCanceled, CancelCtx, LoopMoves, poolVars, lifeVars
    <2>2. LinkInv'
        BY <1>1, <1>5 DEF Own, FetchEnds, FetchFails, BackoffElapses, BackoffCanceled,
           CancelCtx, LoopMoves, lifeVars, realVars, LinkInv, Held
    <2> QED
        BY <2>1, <2>2
<1>6. ASSUME NEW w \in Workers, Handles(w) PROVE CInv'
    <2>1. P!IInv' /\ View'
        BY <1>1, <1>6, PoolFrame DEF Handles, Own, HandlerSucceeds, poolVars, lifeVars
    <2>2. LinkInv'
        BY <1>6 DEF Handles, Own, HandlerSucceeds, lifeVars, realVars, LinkInv, Held
    <2> QED
        BY <2>1, <2>2
<1>7. CASE Fetches
    <2>1. submit[position] = "idle" /\ position \in Offsets
        BY <1>1, <1>7 DEF Fetches, FetchMessage, LinkInv
    <2>2. P!SubmitCall(position)
        BY <1>7, <2>1 DEF Fetches, FetchMessage, LoopMoves, P!SubmitCall, P!chanVars,
           P!workerVars, P!lifeVars, lifeVars, poolVars
    <2>3. P!IInv'
        BY <2>1, <2>2, PoolStepsKeepIInv
    <2>4. View'
        BY <1>7 DEF Fetches, FetchMessage, LoopMoves, lifeVars, poolVars, View,
           P!Running, PoolPlace
    <2>5. LinkInv'
        BY <1>1, <1>7, <2>1 DEF Fetches, FetchMessage, LoopMoves, lifeVars, LinkInv, Held
    <2> QED
        BY <2>3, <2>4, <2>5
<1>8. CASE Sends \/ SubmitErrs
    <2>1. /\ loop = "submitting" /\ loop' # "submitting"
          /\ P!SubmitSends(Held) \/ P!SubmitGivesUp(Held) \/ P!SubmitPanics(Held)
          /\ UNCHANGED <<position, stop>>
        BY <1>8 DEF Sends, SubmitErrs, LoopMoves, lifeVars
    <2>2. P!IInv'
        BY <1>2, <2>1, PoolStepsKeepIInv
    <2>3. View'
        BY <1>8 DEF Sends, SubmitErrs, Shows, View
    <2>4. LinkInv'
        BY <1>1, <1>2, <2>1 DEF P!SubmitSends, P!SubmitGivesUp, P!SubmitPanics,
           P!workerVars, P!lifeVars, LinkInv
    <2> QED
        BY <2>2, <2>3, <2>4
<1>9. ASSUME NEW w \in Workers, Hands(w) PROVE CInv'
    <2>1. P!IInv'
        BY <1>2, <1>9, PoolStepsKeepIInv DEF Hands
    <2>2. View'
        BY <1>9 DEF Hands, Shows, View
    <2>3. LinkInv'
        BY <1>1, <1>2, <1>9 DEF Hands, lifeVars, P!SubmitHands, P!lifeVars, LinkInv
    <2> QED
        BY <2>1, <2>2, <2>3
<1>10. ASSUME NEW w \in Workers, Takes(w) \/ Returns(w) \/ Exits(w) PROVE CInv'
    <2>1. /\ P!WorkerTakes(w) \/ P!TaskReturns(w) \/ P!WorkerExits(w)
          /\ UNCHANGED <<position, loop, stop>>
        BY <1>10 DEF Takes, Returns, Exits, DispatchReturns, PoolOwn, lifeVars
    <2>2. P!IInv'
        BY <2>1, PoolStepsKeepIInv
    <2>3. View'
        BY <1>10 DEF Takes, Returns, Exits, Shows, View
    <2>4. LinkInv'
        BY <1>1, <2>1 DEF P!WorkerTakes, P!TaskReturns, P!WorkerExits, P!lifeVars,
           LinkInv, Held
    <2> QED
        BY <2>2, <2>3, <2>4
<1>11. CASE PoolStartCall \/ PoolStartStep
    <2>1. /\ \/ \E w \in Workers : P!LaunchWorker(w)
             \/ P!StartCall \/ P!StartBlocks \/ P!CloseTasks
          /\ UNCHANGED <<position, loop, stop>>
        BY <1>11 DEF PoolStartCall, PoolStartStep, PoolOwn
    <2>2. P!IInv'
        BY <2>1, PoolStepsKeepIInv
    <2>3. View'
        BY <1>11 DEF PoolStartCall, PoolStartStep, Shows, View
    <2>4. LinkInv'
        BY <1>1, <2>1 DEF P!LaunchWorker, P!StartCall, P!StartBlocks, P!CloseTasks,
           P!workerVars, P!lifeVars, LinkInv, Held
    <2> QED
        BY <2>2, <2>3, <2>4
<1>12. CASE StopBoth
    <2>1. CASE reader = "nil"
        <3>1. P!IInv' /\ View'
            BY <1>1, <1>12, <2>1, PoolFrame DEF StopBoth, Stop, poolVars
        <3>2. LinkInv'
            BY <1>12, <2>1 DEF StopBoth, Stop, realVars, LinkInv, Held
        <3> QED
            BY <3>1, <3>2
    <2>2. CASE reader # "nil"
        <3>1. P!StopBegins /\ UNCHANGED <<position, loop, active, pool>> /\ stop' # "none"
            BY <1>12, <2>2 DEF StopBoth, Stop, poolVars
        <3>2. P!IInv'
            BY <3>1, PoolStepsKeepIInv
        <3>3. View'
            BY <3>1 DEF P!StopBegins, P!workerVars, View, P!Running, PoolPlace
        <3>4. LinkInv'
            BY <3>1 DEF P!StopBegins, P!workerVars, LinkInv, Held
        <3> QED
            BY <3>2, <3>3, <3>4
    <2> QED
        BY <2>1, <2>2
<1>13. CASE RestartBoth
    BY <1>13, RestartKeepsCInv
<1> QED
    BY <1>3, <1>4, <1>5, <1>6, <1>7, <1>8, <1>9, <1>10, <1>11, <1>12, <1>13
       DEF CNext, Consumes, Works

\* Every step of consumer and pool is a step of KafkaConsumer, or invisible in it.
LEMMA StepRefines ==
    ASSUME TInv, CInv, CInv', [CNext]_cvars
    PROVE  [Next]_vars
<1>1. /\ PP!IInv /\ PP!IInv' /\ View /\ View' /\ LinkInv
      /\ active = PP!Running /\ active' = PP!Running'
    BY SamePool DEF CInv, View
<1>2. loop = "submitting" =>
          Held \in Offsets /\ submit[Held] = "pending" /\ Pool!Unknown(Held)
    <2>1. loop = "submitting" => Held \in Offsets /\ submit[Held] # "ok"
        BY <1>1 DEF TInv, StageInv, LinkInv
    <2> QED
        BY <1>1, <2>1, PP!NotAcceptedUnknown, PoolAssumptions
           DEF TInv, StageInv, LinkInv, Pool!Unknown
<1>3. \A w \in Workers : worker[w] # "none" => pool # "none"
    BY <1>1 DEF View, PoolPlace, LinkInv
<1>4. CASE UNCHANGED cvars
    BY <1>4 DEF cvars
<1>5. CASE Own(Connect) \/ Own(ConnectFails) \/ Own(ConsumeReturns) \/ Own(StartReturns)
            \/ Own(FetchEnds) \/ Own(FetchFails) \/ Own(BackoffElapses)
            \/ Own(BackoffCanceled) \/ Own(CancelCtx) \/ Fetches \/ StopBoth
            \/ RestartBoth
    BY <1>5 DEF Own, Fetches, StopBoth, RestartBoth, Next, StartStep, LoopStep
<1>6. CASE Sends
    <2>1. Submit
        BY <1>1, <1>2, <1>6 DEF Sends, LoopMoves, Submit, Shows, View, P!SubmitSends,
           P!HasRoom, P!workerVars, P!Running, Pool!Accept
    <2> QED
        BY <2>1 DEF Next, LoopStep
<1>7. ASSUME NEW w \in Workers, Hands(w) PROVE SubmitHands
    <2>1. loop = "submitting" /\ PP!SubmitHands(Held, w)
        BY <1>2, <1>7, SameSteps DEF Hands
    <2>2. active' = active \cup {Held} /\ Cardinality(active') <= PoolSize
        <3>1. /\ PP!Running' = PP!Running \cup {Held}
              /\ PP!Cardinality(PP!Running') <= PP!Cardinality(Workers)
            BY <1>1, <1>2, <2>1, PP!HandsRuns, PoolAssumptions
        <3> QED
            BY <1>1, <3>1, WorkersType DEF Cardinality, PP!Cardinality
    <2>3. Pool!AcceptAndBegin(Held)
        BY <1>2, <1>7, <2>1, <2>2 DEF Hands, P!SubmitHands, P!chanVars,
           Pool!AcceptAndBegin, Cardinality, Pool!Cardinality
    <2> QED
        BY <1>3, <1>7, <2>3 DEF Hands, P!SubmitHands, SubmitHands
<1>8. CASE SubmitErrs
    <2>1. SubmitFails
        BY <1>1, <1>2, <1>8 DEF SubmitErrs, LoopMoves, SubmitFails, Shows, View,
           P!SubmitGivesUp, P!SubmitPanics, P!chanVars, P!workerVars, P!Running, poolVars
    <2> QED
        BY <2>1 DEF Next, LoopStep
<1>9. ASSUME NEW w \in Workers, Takes(w) PROVE TaskBegins
    <2>1. PP!WorkerTakes(w)
        BY <1>9, SameSteps DEF Takes
    <2>2. active' = active \cup {Head(backlog)} /\ Cardinality(active') <= PoolSize
        <3>1. /\ PP!Running' = PP!Running \cup {Head(backlog)}
              /\ PP!Cardinality(PP!Running') <= PP!Cardinality(Workers)
            BY <1>1, <2>1, PP!TakesRuns, PoolAssumptions
        <3> QED
            BY <1>1, <3>1, WorkersType DEF Cardinality, PP!Cardinality
    <2>3. Pool!Begin
        BY <1>9, <2>2 DEF Takes, P!WorkerTakes, Pool!Begin, Cardinality, Pool!Cardinality
    <2>4. job'[w] = Head(backlog)
        BY <1>9 DEF Takes, P!WorkerTakes, CInv, P!IInv, P!TypeOK
    <2> QED
        BY <1>3, <1>9, <2>3, <2>4 DEF Takes, P!WorkerTakes, TaskBegins
<1>10. ASSUME NEW w \in Workers, Handles(w) PROVE Next
    <2>1. job[w] \in Offsets
        BY <1>10 DEF Handles, CInv, P!IInv, P!TypeOK, P!LifeInv
    <2> QED
        BY <1>10, <2>1 DEF Handles, Own, Next, TaskStep
<1>11. ASSUME NEW w \in Workers, Returns(w) PROVE Next
    <2>1. PP!TaskReturns(w)
        BY <1>11, SameSteps DEF Returns
    <2>2. job[w] \in Offsets /\ job[w] \in active /\ active' = active \ {job[w]}
        BY <1>1, <2>1, PP!ReturnsRuns, PoolAssumptions
    <2>3. Pool!Finish(job[w])
        BY <1>11, <2>2 DEF Returns, P!TaskReturns, P!chanVars, Pool!Finish
    <2> QED
        BY <1>11, <2>2, <2>3 DEF Returns, TaskEnds, Next, TaskStep
<1>12. CASE PoolStartCall
    <2>1. PoolStarts
        BY <1>1, <1>12 DEF PoolStartCall, PoolOwn, P!StartCall, P!chanVars, P!workerVars,
           View, PoolPlace, P!Running, PoolStarts, diskVars, poolVars
    <2> QED
        BY <2>1 DEF Next, StartStep
<1>13. CASE PoolOwn /\ P!CloseTasks /\ Shows
    <2>1. PoolCloses
        BY <1>1, <1>13 DEF PoolOwn, P!CloseTasks, P!workerVars, View, PoolPlace,
           P!Running, LinkInv, PoolCloses, Pool!Close, diskVars
    <2> QED
        BY <2>1 DEF Next, StartStep
<1>14. CASE /\ PoolOwn
            /\ \/ \E w \in Workers : P!WorkerExits(w) \/ P!LaunchWorker(w)
               \/ P!StartBlocks
    <2>1. UNCHANGED vars
        BY <1>1, <1>14 DEF PoolOwn, P!WorkerExits, P!LaunchWorker, P!StartBlocks,
           P!chanVars, P!workerVars, P!lifeVars, View, PoolPlace, P!Running, diskVars, vars
    <2> QED
        BY <2>1
<1> QED
    BY <1>4, <1>5, <1>6, <1>7, <1>8, <1>9, <1>10, <1>11, <1>12, <1>13, <1>14
       DEF CNext, Consumes, Works, Exits, PoolStartStep, Next, LoopStep

\* Consumer and pool start in touch.
LEMMA CInitCInv == CInit => TInv /\ CInv
<1> SUFFICES ASSUME CInit PROVE TInv /\ CInv
    OBVIOUS
<1>1. TInv
    BY InitTInv DEF CInit
<1>2. PP!Init
    BY Zenon DEF CInit, P!Init, PP!Init
<1>3. View
    BY DEF CInit, Init, P!Init, View, P!Running, PoolPlace
<1>4. LinkInv
    BY DEF CInit, Init, P!Init, LinkInv
<1> QED
    BY <1>1, <1>2, <1>3, <1>4, NewPool, SamePool DEF CInv

\* The invariants of consumer and pool hold together.
THEOREM CInvariance == CSpec => [](TInv /\ CInv)
<1>1. TInv /\ CInv /\ [CNext]_cvars => TInv' /\ CInv'
    BY CInvPreserved, StepRefines, TInvPreserved
<1> QED
    BY CInitCInv, <1>1, PTL DEF CSpec

\* The consumer with the real worker pool implements KafkaConsumer: everything
\* proved of the consumer over an abstract executor holds of it.
THEOREM PoolRefinement == CSpec => ImplementsConsumer
<1>1. CInit => Init
    BY DEF CInit
<1>2. TInv /\ CInv /\ CInv' /\ [CNext]_cvars => [Next]_vars
    BY StepRefines
<1> QED
    BY <1>1, <1>2, CInvariance, PTL DEF CSpec, Spec, ImplementsConsumer

\* Inside the consumer, too, the pool loses no message whose Submit returned nil.
THEOREM AcceptedOnPool == CSpec => []P!AcceptedAccounted
<1>1. CInv => P!AcceptedAccounted
    BY DEF CInv, P!IInv, P!TypeOK, P!PlaceInv, P!KeptInv, P!AcceptedAccounted,
       P!Queued, P!Running, Offsets
<1> QED
    BY <1>1, CInvariance, PTL

\* With one worker goroutine the consumer skips no message but those that failed.
THEOREM PrefixHandledOnPool ==
    ASSUME PoolSize = 1
    PROVE  CSpec => []PrefixHandled
    BY PoolRefinement, PrefixHandledHolds, PTL DEF ImplementsConsumer
=============================================================================
