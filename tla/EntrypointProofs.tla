-------------------------- MODULE EntrypointProofs --------------------------
(***************************************************************************)
(* Proofs about Entrypoint, for any finite set of services, any choice of  *)
(* the ones that implement Shutdown and any number of hooks per phase.     *)
(***************************************************************************)
EXTENDS PoolInEntrypoint, FiniteSetTheorems, TLAPS

\* An error channel with one slot per service has room for an error of s as
\* long as it holds no error of s and no service twice.
LEMMA RoomForError ==
    ASSUME NEW q \in Seq(Services), NEW s \in Services,
           \A i \in 1 .. Len(q) : q[i] # s,
           \A i, j \in 1 .. Len(q) : q[i] = q[j] => i = j
    PROVE  Len(q) < ErrCap
<1>1. q \in Injection(1 .. Len(q), Services \ {s})
    BY DEF Injection, IsInjective
<1>2. /\ IsFiniteSet(Services \ {s})
      /\ Cardinality(Services \ {s}) = Cardinality(Services) - 1
    BY FS_RemoveElement, ServicesFinite
<1>3. Cardinality(1 .. Len(q)) = Len(q)
    <2>1. Len(q) \in Nat /\ Len(q) \in Int /\ 1 \in Int
        OBVIOUS
    <2>2. Cardinality(1 .. Len(q)) =
              IF 1 > Len(q) THEN 0 ELSE Len(q) - 1 + 1
        BY ONLY <2>1, FS_Interval, Zenon
    <2> QED
        BY <2>1, <2>2
<1>4. Cardinality(1 .. Len(q)) <= Cardinality(Services \ {s})
    BY <1>1, <1>2, FS_Injection
<1>5. Cardinality(Services) \in Nat
    BY FS_CardinalityType, ServicesFinite
<1> QED
    BY <1>2, <1>3, <1>4, <1>5 DEF ErrCap

\* The invariant holds before Run is called.
LEMMA InitIInv == Init => IInv
<1> SUFFICES ASSUME Init PROVE IInv
    OBVIOUS
<1>1. TypeOK
    <2>1. /\ sig \in BOOLEAN /\ ctxDone \in BOOLEAN /\ shutdownReq \in BOOLEAN
          /\ svcCanceled \in BOOLEAN /\ deadline \in BOOLEAN
        BY Zenon DEF Init
    <2> QED
        BY <2>1 DEF Init, TypeOK, HookPhases
<1>2. PhaseInv /\ StopAfterCancel /\ WaiterInv /\ CleanReturn
    BY DEF Init, PhaseInv, StopAfterCancel, WaiterInv, CleanReturn
<1>3. ErrsInv
    <2>1. Len(errs) = 0
        BY DEF Init
    <2> QED
        BY <2>1 DEF ErrsInv
<1>4. NoiseInv
    BY DEF Init, NoiseInv
<1> QED
    BY <1>1, <1>2, <1>3, <1>4 DEF IInv

\* The steps of Run itself preserve the invariant.
LEMMA RunPreservesIInv == IInv /\ (RunBegin \/ RunStep) => IInv'
<1> SUFFICES ASSUME IInv, RunBegin \/ RunStep PROVE IInv'
    OBVIOUS
<1> USE HooksType, StoppersAreServices
<1> USE DEF IInv, TypeOK, PhaseInv, StopAfterCancel, WaiterInv, ErrsInv,
            NoiseInv, CleanReturn, Aborted, HookPhases, SvcCtxDone, envVars,
            Quiet, HooksDone, HookRunning
<1>1. CASE RunBegin
    BY <1>1 DEF RunBegin
<1>2. ASSUME NEW p \in HookPhases, HookReturns(p) PROVE IInv'
    BY <1>2 DEF HookReturns
<1>3. ASSUME NEW p \in HookPhases, StopHookFails(p) PROVE IInv'
    BY <1>3 DEF StopHookFails
<1>4. CASE PreStartFails
    BY <1>4 DEF PreStartFails
<1>5. CASE PostStartFails
    BY <1>5 DEF PostStartFails
<1>6. CASE LaunchStarts
    BY <1>6 DEF LaunchStarts
<1>7. CASE EnterSelect
    BY <1>7 DEF EnterSelect
<1>8. CASE SelectCtx
    BY <1>8 DEF SelectCtx, BeginShutdown
<1>9. CASE SelectSignal
    <2>1. TypeOK'
        <3>1. sig' \in BOOLEAN
            BY <1>9, Zenon DEF SelectSignal
        <3> QED
            BY <1>9, <3>1 DEF SelectSignal, BeginShutdown
    <2>2. (PhaseInv /\ StopAfterCancel /\ WaiterInv /\ CleanReturn)'
        BY <1>9 DEF SelectSignal, BeginShutdown
    <2>3. (ErrsInv /\ NoiseInv)'
        BY <1>9 DEF SelectSignal, BeginShutdown
    <2> QED
        BY <2>1, <2>2, <2>3
<1>10. CASE SelectError
    BY <1>10 DEF SelectError, BeginShutdown
<1>11. CASE SelectShutdown
    BY <1>11 DEF SelectShutdown, BeginShutdown
<1>12. CASE LaunchStops
    BY <1>12 DEF LaunchStops
<1>13. CASE AwaitEnds
    BY <1>13 DEF AwaitEnds, StopCtxDone
<1>14. CASE RunReturns
    BY <1>14 DEF RunReturns
<1> QED
    BY <1>1, <1>2, <1>3, <1>4, <1>5, <1>6, <1>7, <1>8, <1>9, <1>10, <1>11,
       <1>12, <1>13, <1>14 DEF RunStep

\* The goroutines of the services preserve the invariant.
LEMMA ServicesPreserveIInv ==
    ASSUME NEW s \in Services, IInv, SvcStep(s)
    PROVE  IInv'
<1> USE DEF IInv, TypeOK, PhaseInv, StopAfterCancel, WaiterInv, ErrsInv,
            NoiseInv, CleanReturn, Aborted, HookPhases, SvcCtxDone, envVars,
            runVars, Quiet, SvcMoves
<1>1. CASE StartCalled(s)
    BY <1>1 DEF StartCalled
<1>2. CASE StartReturnsNil(s)
    BY <1>2 DEF StartReturnsNil
<1>3. CASE StartReturnsErr(s)
    BY <1>3 DEF StartReturnsErr
<1>4. CASE CheckLive(s)
    BY <1>4 DEF CheckLive, ForwardsError
<1>5. CASE SendErr(s)
    BY <1>5 DEF SendErr
<1> QED
    BY <1>1, <1>2, <1>3, <1>4, <1>5 DEF SvcStep

\* The goroutines of the Stops, the waiting goroutine and the environment
\* preserve the invariant.
LEMMA OthersPreserveIInv ==
    ASSUME IInv,
           \/ \E s \in Stoppers : StopStep(s)
           \/ StartsAwaited \/ StopsAwaited
           \/ EnvStep
    PROVE  IInv'
<1> USE DEF IInv, TypeOK, PhaseInv, StopAfterCancel, WaiterInv, ErrsInv,
            NoiseInv, CleanReturn, Aborted, HookPhases, SvcCtxDone, envVars,
            runVars, Quiet
<1>1. ASSUME NEW s \in Stoppers, StopCalled(s) PROVE IInv'
    BY <1>1 DEF StopCalled, StopMoves
<1>2. ASSUME NEW s \in Stoppers, StopReturns(s) PROVE IInv'
    BY <1>2 DEF StopReturns, StopMoves
<1>3. CASE StartsAwaited
    BY <1>3 DEF StartsAwaited, StartsFinished, WaiterMoves
<1>4. CASE StopsAwaited
    BY <1>4 DEF StopsAwaited, StopsFinished, WaiterMoves
<1>5. CASE CancelCtx
    BY <1>5 DEF CancelCtx
<1>6. CASE Shutdown
    BY <1>6 DEF Shutdown
<1>7. CASE SignalArrives
    BY <1>7 DEF SignalArrives
<1>8. CASE TimerFires
    BY <1>8 DEF TimerFires
<1> QED
    BY <1>1, <1>2, <1>3, <1>4, <1>5, <1>6, <1>7, <1>8 DEF StopStep, EnvStep

\* A stuttering step changes nothing the invariant speaks of.
LEMMA StutterPreservesIInv == IInv /\ UNCHANGED vars => IInv'
    BY DEF IInv, TypeOK, PhaseInv, StopAfterCancel, WaiterInv, ErrsInv,
           NoiseInv, CleanReturn, Aborted, HookPhases, SvcCtxDone, Quiet, vars

\* Every step preserves the invariant.
LEMMA NextIInv == IInv /\ [Next]_vars => IInv'
    BY RunPreservesIInv, ServicesPreserveIInv, OthersPreserveIInv,
       StutterPreservesIInv DEF Next

\* IInv is an invariant of Run.
THEOREM Invariance == Spec => []IInv
    BY InitIInv, NextIInv, PTL DEF Spec

-----------------------------------------------------------------------------
\* The state of Run and its goroutines is well formed in every reachable state.
THEOREM TypeCorrectness == Spec => []TypeOK
    BY Invariance, PTL DEF IInv

\* Run gets to its post-stop hooks only after every Start and Stop returned, the
\* timeout elapsed, or a start hook aborted it.
THEOREM CleanReturnHolds == Spec => []CleanReturn
    BY Invariance, PTL DEF IInv

\* Stop is called only after svcCancel(), and then on every Stopper.
THEOREM StopAfterCancelHolds == Spec => []StopAfterCancel
    BY Invariance, PTL DEF IInv

\* No service outlives Run under a live context, on whichever path Run returned.
THEOREM NoOrphanHolds == Spec => []NoOrphan
<1>1. IInv => NoOrphan
    BY DEF IInv, PhaseInv, NoOrphan, SvcCtxDone
<1> QED
    BY <1>1, Invariance, PTL

\* The cause Run returns is never an error that appeared after cancellation.
THEOREM NoNoiseHolds == Spec => []NoNoise
<1>1. IInv => NoNoise
    BY DEF IInv, NoiseInv, NoNoise
<1> QED
    BY <1>1, Invariance, PTL

\* No goroutine ever blocks on svcErrs, however many services fail and whether
\* or not Run still receives.
THEOREM SendersNeverBlockHolds == Spec => []SendersNeverBlock
<1>1. IInv => SendersNeverBlock
    <2> SUFFICES ASSUME IInv, NEW s \in Services, svc[s] = "sending"
                 PROVE  Len(errs) < ErrCap
        BY DEF SendersNeverBlock
    <2>1. errs \in Seq(Services)
        BY DEF IInv, TypeOK
    <2>2. \A i \in 1 .. Len(errs) : errs[i] # s
        BY DEF IInv, ErrsInv
    <2>3. \A i, j \in 1 .. Len(errs) : errs[i] = errs[j] => i = j
        BY DEF IInv, ErrsInv
    <2> QED
        BY <2>1, <2>2, <2>3, RoomForError
<1> QED
    BY <1>1, Invariance, PTL

-----------------------------------------------------------------------------
(* Refinement.                                                              *)

\* A new entrypoint is an idle lifecycle.
LEMMA InitRefines == Init => LC!Init
<1> SUFFICES ASSUME Init PROVE LC!Init
    OBVIOUS
<1>1. lcPhase = "idle"
    BY DEF Init, lcPhase
<1>2. lcLive = {} /\ lcStopping = {}
    BY DEF Init, lcLive, lcStopping
<1>3. deadline = FALSE
    BY DEF Init
<1> QED
    BY <1>1, <1>2, <1>3 DEF LC!Init

\* A step of Run that leaves the goroutines alone, or launches all of them.
LEMMA RunRefines ==
    ASSUME IInv, RunBegin \/ RunStep
    PROVE  [LC!Next]_(LC!lcVars)
<1> USE DEF LC!Next, LC!lcVars, lcPhase, envVars, HookRunning, HooksDone, HookPhases
<1>1. CASE RunBegin
    BY <1>1 DEF RunBegin, lcLive, lcStopping
<1>2. ASSUME NEW p \in HookPhases, HookReturns(p) \/ StopHookFails(p)
      PROVE  UNCHANGED LC!lcVars
    BY <1>2 DEF HookReturns, StopHookFails, lcLive, lcStopping
<1>3. CASE PreStartFails \/ PostStartFails
    <2>1. LC!Abandon
        BY <1>3 DEF PreStartFails, PostStartFails, LC!Abandon, lcLive, lcStopping
    <2> QED
        BY <2>1
<1>4. CASE LaunchStarts
    <2>1. lcLive' = Services /\ lcStopping' = lcStopping
        BY <1>4 DEF LaunchStarts, lcLive, lcStopping
    <2>2. LC!Launch
        BY <1>4, <2>1 DEF LaunchStarts, LC!Launch
    <2> QED
        BY <2>2
<1>5. CASE EnterSelect
    BY <1>5 DEF EnterSelect, lcLive, lcStopping
<1>6. ASSUME NEW c, NEW who, BeginShutdown(c, who)
      PROVE  LC!Cancel
    BY <1>6 DEF BeginShutdown, LC!Cancel, lcLive, lcStopping
<1>7. CASE SelectCtx \/ SelectSignal \/ SelectError \/ SelectShutdown
    BY <1>6, <1>7 DEF SelectCtx, SelectSignal, SelectError, SelectShutdown
<1>8. CASE LaunchStops
    <2>1. lcStopping' = Stoppers /\ lcLive' = lcLive
        BY <1>8 DEF LaunchStops, lcLive, lcStopping
    <2>2. LC!StopAll
        BY <1>8, <2>1 DEF LaunchStops, LC!StopAll
    <2> QED
        BY <2>2
<1>9. CASE AwaitEnds
    <2>1. deadline \/ (lcLive = {} /\ lcStopping = {})
        BY <1>9 DEF AwaitEnds, StopCtxDone, IInv, WaiterInv, lcLive, lcStopping
    <2>2. LC!End
        BY <1>9, <2>1 DEF AwaitEnds, LC!End, lcLive, lcStopping
    <2> QED
        BY <2>2
<1>10. CASE RunReturns
    BY <1>10 DEF RunReturns, lcLive, lcStopping
<1> QED
    BY <1>1, <1>2, <1>3, <1>4, <1>5, <1>7, <1>8, <1>9, <1>10 DEF RunStep

\* A step of a service's goroutine keeps it live or finishes it.
LEMMA ServicesRefine ==
    ASSUME IInv, NEW s \in Services, SvcStep(s)
    PROVE  [LC!Next]_(LC!lcVars)
<1>1. lcPhase' = lcPhase /\ lcStopping' = lcStopping /\ deadline' = deadline
    BY DEF SvcStep, SvcMoves, StartCalled, StartReturnsNil, StartReturnsErr,
           CheckLive, SendErr, runVars, envVars, lcPhase, lcStopping
<1>2. s \in lcLive
    BY DEF SvcStep, SvcMoves, StartCalled, StartReturnsNil, StartReturnsErr,
           CheckLive, SendErr, lcLive
<1>3. svc' = [svc EXCEPT ![s] = svc'[s]] /\ svc'[s] # "none"
    BY DEF IInv, TypeOK, SvcStep, SvcMoves, StartCalled, StartReturnsNil,
           StartReturnsErr, CheckLive, SendErr
<1>4. CASE svc'[s] = "done"
    <2>1. lcLive' = lcLive \ {s}
        BY <1>3, <1>4 DEF lcLive, IInv, TypeOK
    <2>2. LC!StartFinishes(s)
        BY <1>1, <1>2, <2>1 DEF LC!StartFinishes
    <2> QED
        BY <1>2, <2>2 DEF LC!Next
<1>5. CASE svc'[s] # "done"
    <2>1. lcLive' = lcLive
        BY <1>2, <1>3, <1>5 DEF lcLive, IInv, TypeOK
    <2> QED
        BY <1>1, <2>1 DEF LC!lcVars
<1> QED
    BY <1>4, <1>5

\* The other goroutines finish a Stop or change nothing abstract; of the
\* environment only the timer is visible.
LEMMA OthersRefine ==
    ASSUME IInv,
           \/ \E s \in Stoppers : StopStep(s)
           \/ StartsAwaited \/ StopsAwaited
           \/ EnvStep
    PROVE  [LC!Next]_(LC!lcVars)
<1>1. ASSUME NEW s \in Stoppers, StopCalled(s) PROVE UNCHANGED LC!lcVars
    BY <1>1 DEF StopCalled, StopMoves, runVars, envVars, lcPhase, lcLive,
                lcStopping, LC!lcVars, IInv, TypeOK
<1>2. ASSUME NEW s \in Stoppers, StopReturns(s) PROVE LC!Next
    <2>1. s \in lcStopping /\ lcStopping' = lcStopping \ {s}
        BY <1>2 DEF StopReturns, StopMoves, lcStopping, IInv, TypeOK
    <2>2. LC!StopFinishes(s)
        BY <1>2, <2>1 DEF StopReturns, StopMoves, runVars, envVars, lcPhase,
                          lcLive, LC!StopFinishes
    <2> QED
        BY <2>1, <2>2 DEF LC!Next
<1>3. CASE StartsAwaited \/ StopsAwaited
    BY <1>3 DEF StartsAwaited, StopsAwaited, WaiterMoves, runVars, envVars,
                lcPhase, lcLive, lcStopping, LC!lcVars
<1>4. CASE CancelCtx \/ Shutdown \/ SignalArrives
    BY <1>4 DEF CancelCtx, Shutdown, SignalArrives, runVars, lcPhase, lcLive,
                lcStopping, LC!lcVars
<1>5. CASE TimerFires
    <2>1. lcPhase \notin {"idle", "up"}
        BY <1>5 DEF TimerFires, lcPhase
    <2>2. LC!Expire
        BY <1>5, <2>1 DEF TimerFires, runVars, lcPhase, lcLive, lcStopping,
                          LC!Expire
    <2> QED
        BY <2>2 DEF LC!Next
<1> QED
    BY <1>1, <1>2, <1>3, <1>4, <1>5 DEF StopStep, EnvStep

\* Run implements the abstract lifecycle.
THEOREM Refinement == Spec => ImplementsLifecycle
<1>1. IInv /\ [Next]_vars => [LC!Next]_(LC!lcVars)
    <2> SUFFICES ASSUME IInv, [Next]_vars PROVE [LC!Next]_(LC!lcVars)
        OBVIOUS
    <2>1. CASE UNCHANGED vars
        BY <2>1 DEF vars, LC!lcVars, lcPhase, lcLive, lcStopping
    <2> QED
        BY <2>1, RunRefines, ServicesRefine, OthersRefine DEF Next
<1> QED
    BY <1>1, InitRefines, Invariance, PTL DEF Spec, LC!Spec, ImplementsLifecycle

-----------------------------------------------------------------------------
(* The worker pool as one of the services.                                  *)

\* The lemmas about the pool, for the pool of the entrypoint.
PP == INSTANCE WorkerPoolProofs WITH
    start <- poolStart, stop <- poolStop,
    ctxDone <- SvcCtxDone, stopExpired <- StopCtxDone

\* The pool is built as WorkerPool assumes.
LEMMA PoolAssumptions ==
    ASSUME PoolInstance
    PROVE  PP!WorkersFinite /\ PP!QueueSizeType /\ PP!NoTaskType
    BY DEF PoolInstance, PP!WorkersFinite, PP!QueueSizeType, PP!NoTaskType,
       PP!IsFiniteSet, IsFiniteSet

\* PoolInEntrypoint and the lemmas talk about the same pool.
LEMMA SamePool ==
    /\ P!IInv <=> PP!IInv
    /\ P!IInv' <=> PP!IInv'
    /\ P!Init <=> PP!Init
    /\ P!DrainComplete <=> PP!DrainComplete
    BY Zenon DEF P!IInv, PP!IInv, P!TypeOK, PP!TypeOK, P!LifeInv, PP!LifeInv,
       P!PlaceInv, PP!PlaceInv, P!KeptInv, PP!KeptInv, P!WorkersStay, PP!WorkersStay,
       P!Init, PP!Init, P!DrainComplete, PP!DrainComplete

\* A step of the composition is one of the entrypoint, or invisible to it.
LEMMA StepImplementsEntrypoint ==
    ASSUME PoolInstance, [CNext]_cvars
    PROVE  [Next]_vars
<1>1. Pool \in Stoppers /\ Pool \in Services
    BY StoppersAreServices DEF PoolInstance
<1>2. CASE Around
    BY <1>2 DEF Around, Next
<1>3. CASE PoolStartCalled \/ PoolStartReturns
    BY <1>1, <1>3 DEF PoolStartCalled, PoolStartReturns, SvcStep, Next
<1>4. CASE PoolStopCalled \/ PoolStopReturns
    BY <1>1, <1>4 DEF PoolStopCalled, PoolStopReturns, StopStep, Next
<1>5. CASE UNCHANGED vars
    BY <1>5
<1> QED
    BY <1>2, <1>3, <1>4, <1>5 DEF CNext, Submits, SubmitGoesOn, Works, StartGoesOn,
       StopGoesOn, cvars

\* The composition is an entrypoint: making one service a real pool adds no
\* behaviour that Entrypoint does not have.
THEOREM EntrypointRefinement ==
    ASSUME PoolInstance PROVE CSpec => ImplementsEntrypoint
<1>1. [CNext]_cvars => [Next]_vars
    BY StepImplementsEntrypoint
<1> QED
    BY <1>1, PTL DEF CSpec, CInit, Spec, ImplementsEntrypoint

\* A step outside the pool changes at most one of its contexts, and Stop's context
\* ends only after Start's.
LEMMA AroundIsPoolStep ==
    ASSUME IInv, IInv', Around
    PROVE  [P!Next]_(P!vars)
<1>1. /\ SvcCtxDone \in BOOLEAN /\ SvcCtxDone' \in BOOLEAN
      /\ deadline \in BOOLEAN /\ deadline' \in BOOLEAN
    BY DEF IInv, TypeOK, SvcCtxDone
<1>2. SvcCtxDone => SvcCtxDone'
    BY DEF Around, SvcCtxDone, RunBegin, RunStep, HookReturns, StopHookFails,
       PreStartFails, PostStartFails, LaunchStarts, EnterSelect, SelectCtx,
       SelectSignal, SelectError, SelectShutdown, BeginShutdown, LaunchStops,
       AwaitEnds, RunReturns, SvcStep, StartCalled, StartReturnsNil,
       StartReturnsErr, CheckLive, SendErr, SvcMoves, StopStep, StopCalled,
       StopReturns, StopMoves, StartsAwaited, StopsAwaited, WaiterMoves, EnvStep,
       CancelCtx, Shutdown, SignalArrives, TimerFires, runVars, envVars
<1>3. \/ deadline' = deadline
      \/ /\ ~deadline /\ deadline'
         /\ SvcCtxDone /\ SvcCtxDone' = SvcCtxDone
    BY DEF Around, IInv, PhaseInv, SvcCtxDone, RunBegin, RunStep, HookReturns, StopHookFails,
       PreStartFails, PostStartFails, LaunchStarts, EnterSelect, SelectCtx,
       SelectSignal, SelectError, SelectShutdown, BeginShutdown, LaunchStops,
       AwaitEnds, RunReturns, SvcStep, StartCalled, StartReturnsNil,
       StartReturnsErr, CheckLive, SendErr, SvcMoves, StopStep, StopCalled,
       StopReturns, StopMoves, StartsAwaited, StopsAwaited, WaiterMoves, EnvStep,
       CancelCtx, Shutdown, SignalArrives, TimerFires, runVars, envVars
<1>4. UNCHANGED poolVars
    BY DEF Around
<1>5. CASE deadline' = deadline /\ SvcCtxDone' = SvcCtxDone
    BY <1>4, <1>5, Zenon DEF poolVars, P!vars, StopCtxDone
<1>6. CASE deadline' = deadline /\ SvcCtxDone' # SvcCtxDone
    <2>1. ~SvcCtxDone /\ SvcCtxDone' = TRUE
        BY <1>1, <1>2, <1>6
    <2>2. P!CancelCtx
        BY <1>4, <1>6, <2>1, Zenon DEF poolVars, P!CancelCtx, StopCtxDone,
           P!chanVars, P!workerVars
    <2> QED
        BY <2>2 DEF P!Next
<1>7. CASE deadline' # deadline
    <2>1. ~deadline /\ deadline' = TRUE /\ SvcCtxDone /\ SvcCtxDone' = SvcCtxDone
        BY <1>1, <1>3, <1>7, Zenon
    <2>2. P!ExpireStop
        BY <1>4, <2>1, Zenon DEF poolVars, P!ExpireStop, StopCtxDone,
           P!chanVars, P!workerVars
    <2> QED
        BY <2>2 DEF P!Next
<1> QED
    BY <1>5, <1>6, <1>7

\* A step of the composition is one of the pool, or invisible to it: the pool's
\* Stop is called under a canceled svcCtx.
LEMMA StepImplementsPool ==
    ASSUME PoolInstance, IInv, IInv', [CNext]_cvars
    PROVE  [P!Next]_(P!vars)
<1>1. Pool \in Stoppers
    BY DEF PoolInstance
<1>2. CASE Around
    BY <1>2, AroundIsPoolStep
<1>3. CASE PoolStartCalled
    BY <1>3 DEF PoolStartCalled, P!Next
<1>4. CASE PoolStopCalled
    <2>1. svcCanceled
        BY <1>1, <1>4 DEF PoolStopCalled, StopCalled, StopMoves, IInv, StopAfterCancel
    <2>2. P!StopCall
        BY <1>4, <2>1 DEF PoolStopCalled, P!StopCall, SvcCtxDone
    <2> QED
        BY <2>2 DEF P!Next
<1>5. CASE PoolStartReturns \/ PoolStopReturns
    <2>1. UNCHANGED <<svcCanceled, ctxDone, deadline, poolVars>>
        BY <1>5 DEF PoolStartReturns, PoolStopReturns, StartReturnsNil, SvcMoves,
           StopReturns, StopMoves, runVars, envVars
    <2> QED
        BY <2>1, Zenon DEF P!vars, poolVars, SvcCtxDone, StopCtxDone
<1>6. ASSUME NEW t \in Tasks, Submits(t) \/ SubmitGoesOn(t)
      PROVE  P!Next
    BY <1>6 DEF Submits, SubmitGoesOn, P!Next
<1>7. ASSUME NEW w \in Workers, Works(w)
      PROVE  P!Next
    BY <1>7 DEF Works, P!Next
<1>8. CASE StartGoesOn \/ StopGoesOn
    BY <1>8 DEF StartGoesOn, StopGoesOn, P!Next
<1>9. CASE UNCHANGED cvars
    BY <1>9, Zenon DEF cvars, vars, P!vars, poolVars, SvcCtxDone, StopCtxDone
<1> QED
    BY <1>2, <1>3, <1>4, <1>5, <1>6, <1>7, <1>8, <1>9 DEF CNext

\* The service of the composition is a worker pool, whose Stop finds the context of
\* Start canceled, as WorkerPool takes for granted.
THEOREM PoolRefinement ==
    ASSUME PoolInstance PROVE CSpec => ImplementsPool
<1>1. CSpec => []IInv
    BY EntrypointRefinement, Invariance, PTL DEF ImplementsEntrypoint
<1>2. IInv /\ IInv' /\ [CNext]_cvars => [P!Next]_(P!vars)
    BY StepImplementsPool
<1> QED
    BY <1>1, <1>2, PTL DEF CSpec, CInit, P!Spec, ImplementsPool

-----------------------------------------------------------------------------
\* The pool's invariant holds of the pool in the entrypoint.
LEMMA PoolStepKeepsIInv ==
    ASSUME PoolInstance, P!IInv, [P!Next]_(P!vars)
    PROVE  P!IInv'
<1>1. [PP!Next]_(PP!vars)
    BY Zenon DEF P!Next, PP!Next, P!vars, PP!vars, P!SubmitCall, PP!SubmitCall,
       P!SubmitStep, PP!SubmitStep, P!SubmitSends, PP!SubmitSends,
       P!SubmitHands, PP!SubmitHands, P!SubmitGivesUp, PP!SubmitGivesUp,
       P!SubmitPanics, PP!SubmitPanics, P!CancelSubmit, PP!CancelSubmit,
       P!WorkerStep, PP!WorkerStep, P!WorkerTakes, PP!WorkerTakes,
       P!TaskReturns, PP!TaskReturns, P!WorkerExits, PP!WorkerExits,
       P!StartStep, PP!StartStep, P!LaunchWorker, PP!LaunchWorker,
       P!StartCall, PP!StartCall, P!StartBlocks, PP!StartBlocks,
       P!CloseTasks, PP!CloseTasks, P!StartDrained, PP!StartDrained,
       P!StopCall, PP!StopCall, P!StopBegins, PP!StopBegins, P!StopStep, PP!StopStep,
       P!StopDrained, PP!StopDrained, P!StopExpires, PP!StopExpires,
       P!CancelCtx, PP!CancelCtx, P!ExpireStop, PP!ExpireStop,
       P!HasRoom, PP!HasRoom, P!RangeOver, PP!RangeOver,
       P!WaitGroupZero, PP!WaitGroupZero,
       P!chanVars, PP!chanVars, P!workerVars, PP!workerVars, P!lifeVars, PP!lifeVars
<1>2. PP!IInv
    BY SamePool
<1>3. PP!IInv'
    BY <1>1, <1>2, PoolAssumptions, PP!NextIInv
<1> QED
    BY <1>3, SamePool

\* The entrypoint and the pool agree on where Start and Stop are.
LEMMA LinkPreserved ==
    ASSUME PoolInstance, IInv, LinkInv, [CNext]_cvars
    PROVE  LinkInv'
<1> USE DEF LinkInv
<1>1. Pool \in Stoppers /\ Pool \in Services
    BY StoppersAreServices DEF PoolInstance
<1>2. /\ svc \in [Services ->
                    {"none", "launched", "running", "erred", "sending", "done"}]
      /\ stop \in [Stoppers -> {"none", "launched", "running", "done"}]
    BY DEF IInv, TypeOK
<1>3. CASE LaunchStarts /\ UNCHANGED poolVars
    BY <1>1, <1>3 DEF LaunchStarts, HooksDone, IInv, PhaseInv, poolVars
<1>4. CASE LaunchStops /\ UNCHANGED poolVars
    BY <1>1, <1>4 DEF LaunchStops, HooksDone, IInv, PhaseInv, poolVars
<1>5. CASE svc'[Pool] = svc[Pool] /\ stop'[Pool] = stop[Pool] /\ UNCHANGED poolVars
    BY <1>5 DEF poolVars
<1>6. CASE Around /\ ~LaunchStarts /\ ~LaunchStops
    <2>1. svc'[Pool] = svc[Pool] /\ stop'[Pool] = stop[Pool]
        BY <1>1, <1>2, <1>6 DEF Around, RunBegin, RunStep, HookReturns, StopHookFails,
           PreStartFails, PostStartFails, EnterSelect, SelectCtx,
           SelectSignal, SelectError, SelectShutdown, BeginShutdown,
           AwaitEnds, RunReturns, SvcStep, StartCalled, StartReturnsNil,
           StartReturnsErr, CheckLive, SendErr, SvcMoves, StopStep, StopCalled,
           StopReturns, StopMoves, StartsAwaited, StopsAwaited, WaiterMoves, EnvStep,
           CancelCtx, Shutdown, SignalArrives, TimerFires
    <2> QED
        BY <1>5, <1>6, <2>1 DEF Around
<1>7. CASE PoolStartCalled \/ PoolStartReturns
    BY <1>1, <1>2, <1>7 DEF PoolStartCalled, PoolStartReturns, StartCalled,
       StartReturnsNil, SvcMoves, P!StartCall, poolVars
<1>8. CASE PoolStopCalled \/ PoolStopReturns
    BY <1>1, <1>2, <1>8 DEF PoolStopCalled, PoolStopReturns, StopCalled,
       StopReturns, StopMoves, P!StopBegins, poolVars
<1>9. CASE StartGoesOn
    BY <1>9 DEF StartGoesOn, vars, P!StartStep, P!LaunchWorker, P!StartBlocks,
       P!CloseTasks, P!StartDrained, P!lifeVars
<1>10. CASE StopGoesOn
    BY <1>10 DEF StopGoesOn, vars, P!StopStep, P!StopDrained, P!StopExpires
<1>11. ASSUME NEW t \in Tasks, Submits(t) \/ SubmitGoesOn(t)
       PROVE  LinkInv'
    BY <1>11 DEF Submits, SubmitGoesOn, vars, P!SubmitCall, P!CancelSubmit,
       P!SubmitStep, P!SubmitSends, P!SubmitHands, P!SubmitGivesUp, P!SubmitPanics,
       P!lifeVars
<1>12. ASSUME NEW w \in Workers, Works(w)
       PROVE  LinkInv'
    BY <1>12 DEF Works, vars, P!WorkerStep, P!WorkerTakes, P!TaskReturns,
       P!WorkerExits, P!lifeVars
<1>13. CASE UNCHANGED cvars
    BY <1>13 DEF cvars, vars, poolVars
<1> QED
    BY <1>3, <1>4, <1>6, <1>7, <1>8, <1>9, <1>10, <1>11, <1>12, <1>13
       DEF CNext, Around

\* When Run has returned in time, a draining pool has executed every task it
\* accepted and takes no more.
THEOREM CleanRunDrainsHolds ==
    ASSUME PoolInstance PROVE CSpec => []CleanRunDrains
<1>1. CSpec => []IInv
    BY EntrypointRefinement, Invariance, PTL DEF ImplementsEntrypoint
<1>2. CInit => LinkInv /\ P!IInv
    <2> SUFFICES ASSUME CInit PROVE LinkInv /\ P!IInv
        OBVIOUS
    <2>1. Pool \in Stoppers /\ Pool \in Services
        BY StoppersAreServices DEF PoolInstance
    <2>2. LinkInv
        BY <2>1 DEF CInit, Init, P!Init, LinkInv
    <2>3. PP!Init
        BY SamePool DEF CInit
    <2>4. PP!IInv
        BY <2>3, PoolAssumptions, PP!InitIInv
    <2> QED
        BY <2>2, <2>4, SamePool
<1>3. IInv /\ IInv' /\ LinkInv /\ P!IInv /\ [CNext]_cvars => LinkInv' /\ P!IInv'
    BY LinkPreserved, StepImplementsPool, PoolStepKeepsIInv
<1>4. IInv /\ LinkInv /\ P!IInv => CleanRunDrains
    <2> SUFFICES ASSUME IInv, LinkInv, P!IInv, pc = "Returned", ~Aborted, ~deadline
                 PROVE  /\ closed
                        /\ drainOnStop => \A t \in Tasks : submit[t] = "ok" => t \in done
        BY DEF CleanRunDrains
    <2>1. Pool \in Services
        BY StoppersAreServices DEF PoolInstance
    <2>2. poolStart = "returned"
        BY <2>1 DEF IInv, CleanReturn, Quiet, LinkInv
    <2>3. closed
        BY <2>2 DEF P!IInv, P!LifeInv
    <2>4. PP!IInv
        BY SamePool
    <2>5. PP!DrainComplete
        BY <2>4, PoolAssumptions, PP!DrainInv
    <2>6. P!DrainComplete
        BY <2>5, SamePool
    <2> QED
        BY <2>2, <2>3, <2>6 DEF P!DrainComplete
<1> QED
    BY <1>1, <1>2, <1>3, <1>4, PTL DEF CSpec
=============================================================================
