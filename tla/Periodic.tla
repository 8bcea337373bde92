------------------------------ MODULE Periodic ------------------------------
(***************************************************************************)
(* periodic.Service: Start calls fn on every tick of a time.Ticker, in a   *)
(* goroutine of its own.  In the default mode a tick that finds the        *)
(* previous call still running is skipped; WithOverlapping launches one    *)
(* call for every tick.  Both modes wait for the calls in flight before    *)
(* Start returns.  The interval is left out: a tick may come at any time,  *)
(* and ticker.C holds at most one.                                         *)
(***************************************************************************)
EXTENDS Naturals, FiniteSets

CONSTANT Slots  \* names for the calls in flight; bounds how many there can be

ASSUME SlotsFinite == IsFiniteSet(Slots)

VARIABLES
    overlapping,  \* s.overlapping
    immediate,    \* s.immediateStart
    start,        \* where Start is
    tick,         \* ticker.C holds a tick
    busy,         \* the flag of the non-overlapping mode
    call,         \* call[i]: the goroutine of a call of fn
    ctxDone       \* the context of Start, and of fn, is done

options == <<overlapping, immediate>>
vars == <<overlapping, immediate, start, tick, busy, call, ctxDone>>

Init ==
    /\ overlapping \in BOOLEAN
    /\ immediate \in BOOLEAN
    /\ start = "none"
    /\ tick = FALSE
    /\ busy = FALSE
    /\ call = [i \in Slots |-> "free"]
    /\ ctxDone \in BOOLEAN

-----------------------------------------------------------------------------
(* Start.                                                                   *)

\* With WithImmediateStart fn is called in the goroutine of Start.
StartCall ==
    /\ start = "none"
    /\ start' = IF immediate THEN "immediate" ELSE "loop"
    /\ UNCHANGED <<options, tick, busy, call, ctxDone>>

\* Whatever that call returns, the ticker is created next.
ImmediateReturns ==
    /\ start = "immediate"
    /\ start' = "loop"
    /\ UNCHANGED <<options, tick, busy, call, ctxDone>>

\* FAULTY: the flag is not looked at.
MayLaunchAlways == TRUE

\* busy.CompareAndSwap(false, true), in the non-overlapping mode.
MayLaunch == overlapping \/ ~busy

\* case <-ticker.C: launch fn.
Launch(i) ==
    /\ start = "loop"
    /\ tick
    /\ MayLaunch
    /\ call[i] = "free"
    /\ tick' = FALSE
    /\ busy' = ~overlapping
    /\ call' = [call EXCEPT ![i] = "running"]
    /\ UNCHANGED <<options, start, ctxDone>>

\* case <-ticker.C, while the previous call still runs.
SkipTick ==
    /\ start = "loop"
    /\ tick
    /\ ~MayLaunch
    /\ tick' = FALSE
    /\ UNCHANGED <<options, start, busy, call, ctxDone>>

\* case <-ctx.Done(): the deferred wg.Wait() follows.
SelectCtx ==
    /\ start = "loop"
    /\ ctxDone
    /\ start' = "joining"
    /\ UNCHANGED <<options, tick, busy, call, ctxDone>>

\* What wg.Wait() returns on.
CallsOver == \A i \in Slots : call[i] = "free"

StartReturns ==
    /\ start = "joining"
    /\ CallsOver
    /\ start' = "returned"
    /\ UNCHANGED <<options, tick, busy, call, ctxDone>>

StartStep ==
    \/ ImmediateReturns \/ SkipTick \/ StartReturns
    \/ \E i \in Slots : Launch(i)

-----------------------------------------------------------------------------
(* The goroutine of a call.                                                 *)

\* FAULTY: busy is reset on success only.
FnReturnsBusy(i) ==
    /\ call[i] = "running"
    /\ call' = [call EXCEPT ![i] = "leaving"]
    /\ busy' \in {busy, FALSE}
    /\ UNCHANGED <<options, start, tick, ctxDone>>

\* fn returns, nil or an error, and the deferred busy.Store(false) runs.
FnReturns(i) ==
    /\ call[i] = "running"
    /\ call' = [call EXCEPT ![i] = "leaving"]
    /\ busy' = FALSE
    /\ UNCHANGED <<options, start, tick, ctxDone>>

\* FAULTY: a goroutine that finds ctx done leaves without telling the group.
LeavesUncounted(i) ==
    /\ call[i] = "leaving"
    /\ ~ctxDone
    /\ call' = [call EXCEPT ![i] = "free"]
    /\ UNCHANGED <<options, start, tick, busy, ctxDone>>

\* The goroutine ends: wg.Done().
Leaves(i) ==
    /\ call[i] = "leaving"
    /\ call' = [call EXCEPT ![i] = "free"]
    /\ UNCHANGED <<options, start, tick, busy, ctxDone>>

-----------------------------------------------------------------------------
\* The ticker drops a tick that finds the channel full.
Tick ==
    /\ start = "loop"
    /\ ~tick
    /\ tick' = TRUE
    /\ UNCHANGED <<options, start, busy, call, ctxDone>>

CancelCtx ==
    /\ ~ctxDone
    /\ ctxDone' = TRUE
    /\ UNCHANGED <<options, start, tick, busy, call>>

Next ==
    \/ StartCall \/ StartStep \/ SelectCtx
    \/ \E i \in Slots : FnReturns(i) \/ Leaves(i)
    \/ Tick \/ CancelCtx

Spec == Init /\ [][Next]_vars

\* Goroutines are scheduled, ticks come and fn returns.  A select that finds
\* both cases ready chooses at random, so the case of a done context is taken in
\* the end: strong fairness.
Fairness ==
    /\ WF_vars(StartStep) /\ SF_vars(SelectCtx) /\ WF_vars(Tick)
    /\ \A i \in Slots : WF_vars(FnReturns(i)) /\ WF_vars(Leaves(i))

FairSpec == Spec /\ Fairness

-----------------------------------------------------------------------------
(* Properties.                                                              *)

Running == {i \in Slots : call[i] = "running"}

\* The state is well formed, and the flag says whether a call runs.
TypeOK ==
    /\ overlapping \in BOOLEAN
    /\ immediate \in BOOLEAN
    /\ start \in {"none", "immediate", "loop", "joining", "returned"}
    /\ tick \in BOOLEAN
    /\ busy \in BOOLEAN
    /\ call \in [Slots -> {"free", "running", "leaving"}]
    /\ ctxDone \in BOOLEAN
    /\ busy <=> ~overlapping /\ Running # {}

\* In the default mode no two calls of fn run at the same time, the immediate
\* one included, although the flag is reset before the goroutine is gone.
OneAtATime ==
    /\ ~overlapping => \A i, j \in Running : i = j
    /\ start = "immediate" => Running = {}

\* No call of fn outlives Start.
NothingLeft == start = "returned" => \A i \in Slots : call[i] = "free"

\* The inductive invariant behind the safety properties.
IInv ==
    /\ TypeOK /\ OneAtATime /\ NothingLeft
    /\ start \in {"none", "immediate"} => CallsOver

\* Until ctx is done fn is called again and again: a skipped tick, or a call that
\* failed, never wedges the loop.
KeepsCalling == start = "loop" ~> Running # {} \/ ctxDone

\* Start returns once its context is done, although ticks keep coming.
CancelEndsStart == (ctxDone /\ start # "none") ~> start = "returned"
=============================================================================
