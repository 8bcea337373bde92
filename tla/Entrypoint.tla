----------------------------- MODULE Entrypoint -----------------------------
(***************************************************************************)
(* The lifecycle manager of pkg/core/entrypoint: Entrypoint.Run, the       *)
(* goroutines it launches for every Start and every Stop, the goroutine    *)
(* that waits for both wait groups, the programmatic Shutdown trigger, and *)
(* the environment (the caller's context, OS signals, the clock).          *)
(*                                                                         *)
(* Run is one process, with program counter pc.  The services and hooks    *)
(* are black boxes: Start may return nil or an error at any moment or      *)
(* never, Stop may return at any moment or never, a hook may succeed or    *)
(* fail.  Contexts are booleans: ctxDone is the caller's ctx, svcCanceled  *)
(* says svcCancel() was called, deadline says that stopCtx's timer fired.  *)
(***************************************************************************)
EXTENDS Naturals, Sequences, FiniteSets

CONSTANTS
    Services,      \* e.services, the values registered before Run
    Stoppers,      \* the services that implement service.Shutdown too
    Hooks,         \* Hooks[p]: how many hooks are registered for phase p
    CatchSignals   \* len(e.catchSignals) > 0

HookPhases == {"PreStart", "PostStart", "PreStop", "PostStop"}

ASSUME ServicesFinite == IsFiniteSet(Services)
ASSUME StoppersAreServices == Stoppers \subseteq Services
ASSUME HooksType == Hooks \in [HookPhases -> Nat]
ASSUME CatchSignalsType == CatchSignals \in BOOLEAN

VARIABLES
    pc,           \* where Run is
    hook,         \* hooks of the current phase that have returned nil
    svc,          \* svc[s]: the goroutine that calls s.Start
    stop,         \* stop[s]: the goroutine that calls s.Stop
    waiter,       \* the goroutine that closes allDone
    errs,         \* contents of the channel svcErrs
    sig,          \* a signal sits in sigCh (capacity 1)
    ctxDone,      \* the caller's ctx is done
    shutdownReq,  \* e.shutdownCtx is done
    svcCanceled,  \* svcCancel() was called
    deadline,     \* stopCtx's timer fired
    cause,        \* why Run returns
    culprit,      \* the service whose error is the cause, as a set
    lateErr       \* history: services whose Start failed under a done svcCtx

envVars == <<sig, ctxDone, shutdownReq, deadline>>
runVars == <<pc, hook, svcCanceled, cause, culprit>>
vars == <<pc, hook, svc, stop, waiter, errs, sig, ctxDone, shutdownReq,
          svcCanceled, deadline, cause, culprit, lateErr>>

-----------------------------------------------------------------------------
(* The channels and contexts Run builds.  A definition marked FAULTY is a   *)
(* variant of the one after it that no action uses: each shows that some    *)
(* property below would catch the mistake.                                  *)

\* FAULTY: room for one error only.
ErrCapOne == 1

\* make(chan error, len(e.services)): one slot for each possible sender.
ErrCap == Cardinality(Services)

\* svcCtx is a child of ctx: done when either is canceled.
SvcCtxDone == ctxDone \/ svcCanceled

\* FAULTY: stopCtx derived from the live ctx.
StopCtxDoneLiveParent == deadline \/ ctxDone

\* FAULTY: stopCtx without a timeout.
StopCtxDoneNever == FALSE

\* stopCtx is WithoutCancel(ctx) with a timeout: until Run returns (and calls
\* stopCancel) only its timer ends it.
StopCtxDone == deadline

\* runHooks stops at the first error, else it runs every hook of the phase.
HookRunning(p) == pc = p /\ hook < Hooks[p]
HooksDone(p) == pc = p /\ hook >= Hooks[p]

\* FAULTY: every error is forwarded.
ForwardsEveryError == TRUE

\* The goroutine forwards an error only while svcCtx is live.
ForwardsError == ~SvcCtxDone

\* What wg.Wait() returns on.
StartsFinished == \A s \in Services : svc[s] = "done"

\* FAULTY: the second wait group is not awaited.
StopsNotAwaited == TRUE

\* What stopWg.Wait() returns on.
StopsFinished == \A s \in Stoppers : stop[s] = "done"

-----------------------------------------------------------------------------
Init ==
    /\ pc = "New"
    /\ hook = 0
    /\ svc = [s \in Services |-> "none"]
    /\ stop = [s \in Stoppers |-> "none"]
    /\ waiter = "none"
    /\ errs = <<>>
    /\ sig = FALSE
    /\ ctxDone \in BOOLEAN
    /\ shutdownReq \in BOOLEAN
    /\ svcCanceled = FALSE
    /\ deadline = FALSE
    /\ cause = "none"
    /\ culprit = {}
    /\ lateErr = {}

-----------------------------------------------------------------------------
(* Run.                                                                     *)

\* Run is called: signals are captured from here on.
RunBegin ==
    /\ pc = "New"
    /\ pc' = "PreStart"
    /\ hook' = 0
    /\ UNCHANGED <<svcCanceled, cause, culprit>>
    /\ UNCHANGED <<svc, stop, waiter, errs, lateErr, envVars>>

\* A hook returns nil.
HookReturns(p) ==
    /\ HookRunning(p)
    /\ hook' = hook + 1
    /\ UNCHANGED <<pc, svcCanceled, cause, culprit>>
    /\ UNCHANGED <<svc, stop, waiter, errs, lateErr, envVars>>

\* A pre-start hook fails: Run returns before anything is started.
PreStartFails ==
    /\ HookRunning("PreStart")
    /\ pc' = "Returned"
    /\ cause' = "prestart"
    /\ UNCHANGED <<hook, svcCanceled, culprit>>
    /\ UNCHANGED <<svc, stop, waiter, errs, lateErr, envVars>>

\* FAULTY: the abort leaves svcCtx live.
PostStartFailsUncanceled ==
    /\ HookRunning("PostStart")
    /\ pc' = "Returned"
    /\ cause' = "poststart"
    /\ UNCHANGED <<hook, culprit, svcCanceled>>
    /\ UNCHANGED <<svc, stop, waiter, errs, lateErr, envVars>>

\* A post-start hook fails: svcCtx is canceled and Run returns at once, without
\* stopping or awaiting the services it has launched.
PostStartFails ==
    /\ HookRunning("PostStart")
    /\ svcCanceled' = TRUE
    /\ pc' = "Returned"
    /\ cause' = "poststart"
    /\ UNCHANGED <<hook, culprit>>
    /\ UNCHANGED <<svc, stop, waiter, errs, lateErr, envVars>>

\* A pre-stop or post-stop hook fails: the error is logged, the remaining hooks
\* of the phase are skipped and Run goes on.
StopHookFails(p) ==
    /\ p \in {"PreStop", "PostStop"}
    /\ HookRunning(p)
    /\ hook' = Hooks[p]
    /\ UNCHANGED <<pc, svcCanceled, cause, culprit>>
    /\ UNCHANGED <<svc, stop, waiter, errs, lateErr, envVars>>

\* wg.Go for every service.
LaunchStarts ==
    /\ HooksDone("PreStart")
    /\ svc' = [s \in Services |-> "launched"]
    /\ pc' = "PostStart"
    /\ hook' = 0
    /\ UNCHANGED <<svcCanceled, cause, culprit>>
    /\ UNCHANGED <<stop, waiter, errs, lateErr, envVars>>

\* The post-start hooks are done: Run blocks in its select.
EnterSelect ==
    /\ HooksDone("PostStart")
    /\ pc' = "Select"
    /\ UNCHANGED <<hook, svcCanceled, cause, culprit>>
    /\ UNCHANGED <<svc, stop, waiter, errs, lateErr, envVars>>

\* What every case of the select goes on to do: svcCancel(), then stopCtx and
\* its timer are created and the pre-stop hooks begin.
BeginShutdown(c, who) ==
    /\ pc = "Select"
    /\ cause' = c
    /\ culprit' = who
    /\ svcCanceled' = TRUE
    /\ pc' = "PreStop"
    /\ hook' = 0
    /\ UNCHANGED <<svc, stop, waiter, lateErr, ctxDone, shutdownReq, deadline>>

SelectCtx ==
    /\ ctxDone
    /\ BeginShutdown("ctx", {})
    /\ UNCHANGED <<errs, sig>>

SelectSignal ==
    /\ sig
    /\ BeginShutdown("signal", {})
    /\ sig' = FALSE
    /\ UNCHANGED errs

SelectError ==
    /\ errs # <<>>
    /\ BeginShutdown("error", {Head(errs)})
    /\ errs' = Tail(errs)
    /\ UNCHANGED sig

\* The programmatic trigger leaves shutdownCause nil.
SelectShutdown ==
    /\ shutdownReq
    /\ BeginShutdown("nil", {})
    /\ UNCHANGED <<errs, sig>>

\* stopWg.Go for every service that implements Shutdown, and the goroutine that
\* waits for both groups.
LaunchStops ==
    /\ HooksDone("PreStop")
    /\ stop' = [s \in Stoppers |-> "launched"]
    /\ waiter' = "starts"
    /\ pc' = "Await"
    /\ UNCHANGED <<hook, svcCanceled, cause, culprit>>
    /\ UNCHANGED <<svc, errs, lateErr, envVars>>

\* The second select: allDone was closed, or stopCtx ended first.
AwaitEnds ==
    /\ pc = "Await"
    /\ waiter = "closed" \/ StopCtxDone
    /\ pc' = "PostStop"
    /\ hook' = 0
    /\ UNCHANGED <<svcCanceled, cause, culprit>>
    /\ UNCHANGED <<svc, stop, waiter, errs, lateErr, envVars>>

RunReturns ==
    /\ HooksDone("PostStop")
    /\ pc' = "Returned"
    /\ UNCHANGED <<hook, svcCanceled, cause, culprit>>
    /\ UNCHANGED <<svc, stop, waiter, errs, lateErr, envVars>>

RunStep ==
    \/ \E p \in HookPhases : HookReturns(p) \/ StopHookFails(p)
    \/ PreStartFails \/ PostStartFails
    \/ LaunchStarts \/ EnterSelect
    \/ SelectCtx \/ SelectSignal \/ SelectError \/ SelectShutdown
    \/ LaunchStops \/ AwaitEnds \/ RunReturns

-----------------------------------------------------------------------------
(* The goroutine of each service's Start.                                   *)

SvcMoves(s, from, to) ==
    /\ svc[s] = from
    /\ svc' = [svc EXCEPT ![s] = to]
    /\ UNCHANGED <<stop, waiter, runVars, envVars>>

StartCalled(s) ==
    /\ SvcMoves(s, "launched", "running")
    /\ UNCHANGED <<errs, lateErr>>

StartReturnsNil(s) ==
    /\ SvcMoves(s, "running", "done")
    /\ UNCHANGED <<errs, lateErr>>

StartReturnsErr(s) ==
    /\ SvcMoves(s, "running", "erred")
    /\ lateErr' = IF SvcCtxDone THEN lateErr \cup {s} ELSE lateErr
    /\ UNCHANGED errs

\* err != nil && svcCtx.Err() == nil: the check and the send are two steps.
CheckLive(s) ==
    /\ SvcMoves(s, "erred", IF ForwardsError THEN "sending" ELSE "done")
    /\ UNCHANGED <<errs, lateErr>>

\* svcErrs <- err: blocks while the buffer is full.
SendErr(s) ==
    /\ Len(errs) < ErrCap
    /\ SvcMoves(s, "sending", "done")
    /\ errs' = Append(errs, s)
    /\ UNCHANGED lateErr

-----------------------------------------------------------------------------
(* The goroutines of each Stop, and the one that closes allDone.            *)

StopMoves(s, from, to) ==
    /\ stop[s] = from
    /\ stop' = [stop EXCEPT ![s] = to]
    /\ UNCHANGED <<svc, waiter, errs, lateErr, runVars, envVars>>

StopCalled(s) == StopMoves(s, "launched", "running")

StopReturns(s) == StopMoves(s, "running", "done")

WaiterMoves(from, to) ==
    /\ waiter = from
    /\ waiter' = to
    /\ UNCHANGED <<svc, stop, errs, lateErr, runVars, envVars>>

\* wg.Wait() returns.
StartsAwaited == StartsFinished /\ WaiterMoves("starts", "stops")

\* stopWg.Wait() returns and allDone is closed.
StopsAwaited == StopsFinished /\ WaiterMoves("stops", "closed")

-----------------------------------------------------------------------------
(* The environment.                                                         *)

CancelCtx ==
    /\ ~ctxDone
    /\ ctxDone' = TRUE
    /\ UNCHANGED <<sig, shutdownReq, deadline>>
    /\ UNCHANGED <<svc, stop, waiter, errs, lateErr, runVars>>

\* Entrypoint.Shutdown: a second call is a no-op.
Shutdown ==
    /\ ~shutdownReq
    /\ shutdownReq' = TRUE
    /\ UNCHANGED <<sig, ctxDone, deadline>>
    /\ UNCHANGED <<svc, stop, waiter, errs, lateErr, runVars>>

\* Between signal.Notify and the deferred signal.Stop a signal fills sigCh; one
\* that finds it full is dropped.
SignalArrives ==
    /\ CatchSignals
    /\ pc \notin {"New", "Returned"}
    /\ ~sig
    /\ sig' = TRUE
    /\ UNCHANGED <<ctxDone, shutdownReq, deadline>>
    /\ UNCHANGED <<svc, stop, waiter, errs, lateErr, runVars>>

\* The timer of stopCtx runs from its creation, so the pre-stop hooks spend it
\* too.
TimerFires ==
    /\ pc \in {"PreStop", "Await", "PostStop"}
    /\ ~deadline
    /\ deadline' = TRUE
    /\ UNCHANGED <<sig, ctxDone, shutdownReq>>
    /\ UNCHANGED <<svc, stop, waiter, errs, lateErr, runVars>>

SvcStep(s) ==
    \/ StartCalled(s) \/ StartReturnsNil(s) \/ StartReturnsErr(s)
    \/ CheckLive(s) \/ SendErr(s)

StopStep(s) == StopCalled(s) \/ StopReturns(s)

EnvStep == CancelCtx \/ Shutdown \/ SignalArrives \/ TimerFires

Next ==
    \/ RunBegin \/ RunStep
    \/ \E s \in Services : SvcStep(s)
    \/ \E s \in Stoppers : StopStep(s)
    \/ StartsAwaited \/ StopsAwaited
    \/ EnvStep

-----------------------------------------------------------------------------
(* Fairness.  The Go scheduler runs Run and the goroutines' own code, the   *)
(* clock advances, and hooks return.  Nothing is assumed of Start or Stop   *)
(* in Fairness; CooperativeFairness adds what service.Service asks of them: *)
(* Start returns once its context is done, and Stop returns.                *)

Fairness ==
    /\ WF_vars(RunStep)
    /\ WF_vars(TimerFires)
    /\ WF_vars(StartsAwaited \/ StopsAwaited)
    /\ \A s \in Services : WF_vars(StartCalled(s) \/ CheckLive(s) \/ SendErr(s))
    /\ \A s \in Stoppers : WF_vars(StopCalled(s))

CooperativeFairness ==
    /\ \A s \in Services :
          WF_vars(SvcCtxDone /\ (StartReturnsNil(s) \/ StartReturnsErr(s)))
    /\ \A s \in Stoppers : WF_vars(StopReturns(s))

Spec == Init /\ [][Next]_vars

FairSpec == Spec /\ Fairness

-----------------------------------------------------------------------------
(* Properties.                                                              *)

\* The state of Run and of its goroutines is well formed; in particular
\* runHooks never runs past the end of a hook list, and svcErrs never holds
\* more than its capacity.
TypeOK ==
    /\ pc \in {"New", "Select", "Await", "Returned"} \cup HookPhases
    /\ hook \in Nat
    /\ pc \in HookPhases => hook <= Hooks[pc]
    /\ svc \in [Services ->
                  {"none", "launched", "running", "erred", "sending", "done"}]
    /\ stop \in [Stoppers -> {"none", "launched", "running", "done"}]
    /\ waiter \in {"none", "starts", "stops", "closed"}
    /\ errs \in Seq(Services)
    /\ sig \in BOOLEAN
    /\ ctxDone \in BOOLEAN
    /\ shutdownReq \in BOOLEAN
    /\ svcCanceled \in BOOLEAN
    /\ deadline \in BOOLEAN
    /\ cause \in {"none", "ctx", "signal", "error", "nil",
                  "prestart", "poststart"}
    /\ culprit \subseteq Services
    /\ lateErr \subseteq Services

Aborted == cause \in {"prestart", "poststart"}

Quiet ==
    /\ \A s \in Services : svc[s] = "done"
    /\ \A s \in Stoppers : stop[s] = "done"

\* Unless a start hook aborted it, Run reaches the post-stop hooks, and returns,
\* only when every Start and every Stop has returned or the shutdown timeout has
\* really elapsed: a canceled caller context never cuts the drain short, because
\* stopCtx is detached from it.
CleanReturn ==
    pc \in {"PostStop", "Returned"} /\ ~Aborted => Quiet \/ deadline

\* However Run returned, no service is left running under a live context: the
\* abort after a failed post-start hook cancels svcCtx as well.
NoOrphan ==
    pc = "Returned" =>
        SvcCtxDone \/ \A s \in Services : svc[s] \in {"none", "done"}

\* The error Run returns is never shutdown noise: a service whose Start failed
\* because its context was already done is not reported as the cause.
NoNoise == culprit \cap lateErr = {}

\* A goroutine that forwards its service's error never finds svcErrs full, so
\* none outlives Run blocked on a channel nobody receives from any more.
SendersNeverBlock ==
    \A s \in Services : svc[s] = "sending" => Len(errs) < ErrCap

\* Stop is called on no service before svcCtx is canceled, and on every Stopper
\* by the time Run awaits them: no goroutine of a Stop exists before that.
StopAfterCancel ==
    /\ \A s \in Stoppers : stop[s] # "none" => svcCanceled
    /\ waiter # "none" => \A s \in Stoppers : stop[s] # "none"

Triggered == ctxDone \/ shutdownReq \/ sig \/ errs # <<>>

\* Whatever the services do, also when a Start or a Stop hangs for ever, a
\* trigger seen by a running Run makes it return.
TriggerLeadsToReturn == (Triggered /\ pc # "New") ~> (pc = "Returned")

\* When every Start obeys its context and every Stop returns, no goroutine of
\* the entrypoint survives Run for ever, on the abort paths neither.
NoGoroutineLeft ==
    CooperativeFairness =>
        (pc = "Returned" ~>
            /\ \A s \in Services : svc[s] \in {"none", "done"}
            /\ \A s \in Stoppers : stop[s] \in {"none", "done"}
            /\ waiter \in {"none", "closed"})

-----------------------------------------------------------------------------
(* The inductive invariant behind the safety properties.                    *)

\* What each place of Run implies about the goroutines and about cause.
PhaseInv ==
    /\ pc \in {"New", "PreStart"} =>
          errs = <<>> /\ \A s \in Services : svc[s] = "none"
    /\ pc \in {"New", "PreStart", "PostStart", "Select", "PreStop"} =>
          waiter = "none" /\ \A s \in Stoppers : stop[s] = "none"
    /\ pc \in {"New", "PreStart", "PostStart", "Select"} => culprit = {}
    /\ pc \in {"PreStop", "Await", "PostStop"} => svcCanceled /\ ~Aborted
    /\ pc = "Returned" =>
          svcCanceled \/ \A s \in Services : svc[s] = "none"

\* What each place of the waiting goroutine implies about the wait groups.
WaiterInv ==
    /\ waiter \in {"stops", "closed"} => \A s \in Services : svc[s] = "done"
    /\ waiter = "closed" => \A s \in Stoppers : stop[s] = "done"

\* svcErrs holds at most one error of each service, sent while svcCtx was live
\* by a goroutine that is finished since.
ErrsInv ==
    /\ \A i \in 1 .. Len(errs) : svc[errs[i]] = "done" /\ errs[i] \notin lateErr
    /\ \A i, j \in 1 .. Len(errs) : errs[i] = errs[j] => i = j

\* A service that failed late never gets past the check of svcCtx.
NoiseInv ==
    /\ \A s \in lateErr : svc[s] \in {"erred", "done"} /\ SvcCtxDone
    /\ \A s \in culprit : svc[s] = "done" /\ s \notin lateErr

IInv ==
    /\ TypeOK /\ PhaseInv /\ StopAfterCancel /\ WaiterInv
    /\ ErrsInv /\ NoiseInv /\ CleanReturn

-----------------------------------------------------------------------------
(* What a caller of Run relies on, in terms of Lifecycle.                   *)

lcPhase ==
    CASE pc \in {"New", "PreStart"} -> "idle"
      [] pc \in {"PostStart", "Select"} -> "up"
      [] pc = "PreStop" -> "canceled"
      [] pc = "Await" -> "stopping"
      [] pc \in {"PostStop", "Returned"} -> "ended"

lcLive == {s \in Services : svc[s] \notin {"none", "done"}}

lcStopping == {s \in Stoppers : stop[s] \notin {"none", "done"}}

LC == INSTANCE Lifecycle WITH
    phase <- lcPhase, live <- lcLive, stopping <- lcStopping, expired <- deadline

\* Run implements the abstract lifecycle: services are launched, canceled and
\* stopped together and in that order, and the lifecycle ends only when every
\* Start and Stop has returned, the timeout has expired, or a start hook failed.
ImplementsLifecycle == LC!Spec
=============================================================================
