----------------------- MODULE ManagedResourceProofs ------------------------
(* Proofs about ManagedResource: the type invariant and the safety          *)
(* properties, for every retry configuration and any set of calls of Stop.  *)
EXTENDS ManagedResource, TLAPS

\* What TypeOK says of the retry.Config.
ConfigType == cfg \in [maxAttempts : Int, backoffMin : Nat, backoffMax : Nat]

\* There is at least one attempt, whatever MaxAttempts is.
LEMMA LimitType == ConfigType => R!Limit \in Nat \ {0}
  BY DEF R!Limit, ConfigType

\* A wait after the first is within BackoffMax.
LEMMA NextBackoffBound ==
  ASSUME ConfigType, NEW b \in Nat
  PROVE  R!NextBackoff(b) \in Nat /\ R!NextBackoff(b) <= cfg.backoffMax
  BY DEF R!NextBackoff, ConfigType

\* The configuration does not change, and with it the names of the handles.
LEMMA ConfigStays ==
  ASSUME ConfigType, [Next]_vars
  PROVE  /\ cfg' = cfg
         /\ R!Limit' = R!Limit /\ R!Limit \in Nat \ {0}
         /\ Handles' = Handles /\ Handles = 1 .. R!Limit
<1>1. cfg' = cfg
  <2>1. CASE StartCall \/ StartStep
    BY <2>1 DEF StartCall, StartStep, OpenHandle, PingBegins, ConnectSucceeds,
         ConnectFails, RetryElapses, RetryCanceled, ConnectGivesUp, Publish,
         StartReturns, R!AttemptSucceeds, R!AttemptFails, R!WaitElapses,
         R!WaitCanceled
  <2>2. CASE CancelCtx \/ UNCHANGED vars
    BY <2>2 DEF CancelCtx, vars
  <2>3. ASSUME NEW c \in Callers,
               \/ StopCall(c) \/ CloserStep(c) \/ CloseReturns(c)
               \/ StopReturns(c) \/ StopExpires(c) \/ ExpireStop(c)
        PROVE  cfg' = cfg
    BY <2>3 DEF StopCall, CloserStep, EnterOnce, SkipOnce, CloseReturns,
         StopReturns, StopExpires, ExpireStop
  <2> QED
    BY <2>1, <2>2, <2>3 DEF Next
<1>2. R!Limit' = R!Limit
  BY <1>1 DEF R!Limit
<1> QED
  BY <1>1, <1>2, LimitType DEF Handles

\* A new service satisfies the invariant.
LEMMA InitIInv == Init => IInv
<1> SUFFICES ASSUME Init PROVE IInv
  OBVIOUS
<1> USE DEF Init, R!RetryInit
<1>1. TypeOK
  <2>1. ConfigType /\ backoff \in Nat
    BY RetryConfigType DEF ConfigType
  <2> QED
    <3>1. R!Limit \in Nat \ {0}
      BY <2>1, LimitType
    <3>2. Handles = 1 .. R!Limit
      BY DEF Handles
    <3>3. /\ attempt \in Handles /\ backoff <= cfg.backoffMin
          /\ open \subseteq Handles /\ closes \in [Handles -> Nat]
      BY <2>1, <3>1, <3>2
    <3>4. kind \in AllKinds /\ dialing \in BOOLEAN
      BY KindsType
    <3>5. /\ stop \in [Callers -> {"none", "waiting", "ok", "err", "expired"}]
          /\ seen \in [Callers -> {0} \cup Handles]
          /\ closer \in [Callers -> {"none", "entering", "closing", "done", "failed"}]
          /\ expired \in [Callers -> BOOLEAN]
      OBVIOUS
    <3> QED
      BY <2>1, <3>3, <3>4, <3>5 DEF TypeOK, ConfigType
<1>2. NoAttemptLeak /\ ClosedAtMostOnce
  BY DEF NoAttemptLeak, ClosedAtMostOnce
<1>3. ConnectInv /\ OnceInv /\ CloserInv
  BY DEF ConnectInv, OnceInv, CloserInv, ClosesOnce
<1> QED
  BY <1>1, <1>2, <1>3 DEF IInv

\* The steps of Start, which leave the calls of Stop alone.
LEMMA StartPreservesIInv == IInv /\ (StartCall \/ StartStep) => IInv'
<1> SUFFICES ASSUME IInv, StartCall \/ StartStep PROVE IInv'
  OBVIOUS
<1>0. /\ cfg' = cfg
      /\ R!Limit' = R!Limit /\ R!Limit \in Nat \ {0}
      /\ Handles' = Handles /\ Handles = 1 .. R!Limit
  BY ConfigStays DEF Next, IInv, TypeOK, ConfigType
<1> USE <1>0
    DEF IInv, TypeOK, NoAttemptLeak, ClosedAtMostOnce, ConnectInv, OnceInv,
        CloserInv, ClosesOnce, stopVars
<1>1. CASE StartCall
  BY <1>1 DEF StartCall
<1>2. CASE OpenHandle
  BY <1>2 DEF OpenHandle, startVars
<1>10. CASE PingBegins
  BY <1>10 DEF PingBegins
<1>3. CASE ConnectSucceeds
  BY <1>3 DEF ConnectSucceeds, R!AttemptSucceeds
<1>4. CASE ConnectFails
  <2>1. TypeOK' /\ ClosedAtMostOnce'
    BY <1>4 DEF ConnectFails, R!AttemptFails
  <2>2. NoAttemptLeak' /\ ConnectInv'
    BY <1>4 DEF ConnectFails, R!AttemptFails
  <2>3. OnceInv' /\ CloserInv'
    BY <1>4 DEF ConnectFails, R!AttemptFails
  <2> QED
    BY <2>1, <2>2, <2>3
<1>5. CASE RetryElapses
  <2>1. /\ backoff' \in Nat /\ backoff' <= cfg.backoffMax
    BY <1>5, NextBackoffBound DEF RetryElapses, R!WaitElapses, ConfigType
  <2> QED
    BY <1>5, <2>1 DEF RetryElapses, R!WaitElapses
<1>6. CASE RetryCanceled
  BY <1>6 DEF RetryCanceled, R!WaitCanceled
<1>7. CASE ConnectGivesUp
  BY <1>7 DEF ConnectGivesUp
<1>8. CASE Publish
  BY <1>8 DEF Publish
<1>9. CASE StartReturns
  BY <1>9 DEF StartReturns
<1> QED
  BY <1>1, <1>2, <1>3, <1>4, <1>5, <1>6, <1>7, <1>8, <1>9, <1>10 DEF StartStep

\* The steps of a call of Stop, which leave the fields of Start alone.
LEMMA StopPreservesIInv ==
  ASSUME IInv, NEW c \in Callers,
         \/ StopCall(c) \/ CloserStep(c) \/ CloseReturns(c)
         \/ StopReturns(c) \/ StopExpires(c) \/ ExpireStop(c)
  PROVE  IInv'
<1>0. /\ cfg' = cfg
      /\ R!Limit' = R!Limit /\ R!Limit \in Nat \ {0}
      /\ Handles' = Handles /\ Handles = 1 .. R!Limit
  BY ConfigStays DEF Next, IInv, TypeOK, ConfigType
<1> USE <1>0
    DEF IInv, TypeOK, NoAttemptLeak, ClosedAtMostOnce, ConnectInv, OnceInv,
        CloserInv, ClosesOnce, startVars
<1>1. CASE StopCall(c)
  <2>1. TypeOK' /\ ClosedAtMostOnce'
    BY <1>1 DEF StopCall
  <2>2. NoAttemptLeak' /\ ConnectInv'
    BY <1>1 DEF StopCall
  <2>3. OnceInv' /\ CloserInv'
    BY <1>1 DEF StopCall
  <2> QED
    BY <2>1, <2>2, <2>3
<1>2. CASE EnterOnce(c)
  BY <1>2 DEF EnterOnce
<1>3. CASE SkipOnce(c)
  BY <1>3 DEF SkipOnce, OnceDone
<1>4. CASE CloseReturns(c)
  <2>1. TypeOK' /\ ClosedAtMostOnce'
    <3>1. closes' \in [Handles -> Nat]
      BY <1>4 DEF CloseReturns
    <3>2. ClosedAtMostOnce'
      BY <1>4 DEF CloseReturns
    <3>3. /\ open' \subseteq Handles
          /\ once' \in {"fresh", "busy", "done"}
          /\ closer' \in [Callers -> {"none", "entering", "closing", "done", "failed"}]
      BY <1>4 DEF CloseReturns
    <3> QED
      BY <1>4, <3>1, <3>2, <3>3 DEF CloseReturns
  <2>2. NoAttemptLeak' /\ ConnectInv'
    BY <1>4 DEF CloseReturns
  <2>3. OnceInv' /\ CloserInv'
    BY <1>4 DEF CloseReturns
  <2> QED
    BY <2>1, <2>2, <2>3
<1>5. CASE StopReturns(c)
  BY <1>5 DEF StopReturns
<1>6. CASE StopExpires(c)
  BY <1>6 DEF StopExpires
<1>7. CASE ExpireStop(c)
  BY <1>7 DEF ExpireStop, stopVars
<1> QED
  BY <1>1, <1>2, <1>3, <1>4, <1>5, <1>6, <1>7 DEF CloserStep

\* The cancellation of the context, and stuttering.
LEMMA RestPreservesIInv == IInv /\ (CancelCtx \/ UNCHANGED vars) => IInv'
<1> SUFFICES ASSUME IInv, CancelCtx \/ UNCHANGED vars PROVE IInv'
  OBVIOUS
<1>1. /\ UNCHANGED <<kind, cfg, start, retry, attempt, backoff, dialing, open, handle>>
      /\ UNCHANGED <<once, stop, seen, closer, closes, expired>>
      /\ ctxDone' \in BOOLEAN
  BY DEF IInv, TypeOK, CancelCtx, vars, startVars, stopVars
<1>0. R!Limit' = R!Limit /\ Handles' = Handles
  BY ConfigStays DEF Next, IInv, TypeOK, ConfigType
<1>2. TypeOK'
  BY <1>0, <1>1 DEF IInv, TypeOK
<1>3. NoAttemptLeak' /\ ClosedAtMostOnce' /\ ConnectInv'
  BY <1>0, <1>1 DEF IInv, NoAttemptLeak, ClosedAtMostOnce, ConnectInv, ClosesOnce
<1>4. OnceInv' /\ CloserInv'
  BY <1>0, <1>1 DEF IInv, OnceInv, CloserInv, ClosesOnce
<1> QED
  BY <1>2, <1>3, <1>4 DEF IInv

\* IInv is an invariant of the four services.
THEOREM Invariance == Spec => []IInv
<1>1. IInv /\ [Next]_vars => IInv'
  BY StartPreservesIInv, StopPreservesIInv, RestPreservesIInv DEF Next
<1> QED
  BY <1>1, InitIInv, PTL DEF Spec

\* The state is well formed: attempts and waits stay within what was configured.
THEOREM TypeCorrectness == Spec => []TypeOK
<1>1. IInv => TypeOK
  BY DEF IInv
<1> QED
  BY <1>1, Invariance, PTL

\* No failed connection attempt leaves a handle open.
THEOREM NoAttemptLeakHolds == Spec => []NoAttemptLeak
<1>1. IInv => NoAttemptLeak
  BY DEF IInv
<1> QED
  BY <1>1, Invariance, PTL

\* dbservice, redisservice and the producer close a handle at most once.
THEOREM ClosedAtMostOnceHolds == Spec => []ClosedAtMostOnce
<1>1. IInv => ClosedAtMostOnce
  BY DEF IInv
<1> QED
  BY <1>1, Invariance, PTL

-----------------------------------------------------------------------------
(* What a leak needs.                                                       *)

\* A new service satisfies LeakInv.
LEMMA InitLeakInv == Init => LeakInv
  BY DEF Init, LeakInv, ClosesOnce

\* The steps of Start: only a failed attempt ends in a Start that gives up, and
\* the handle is published while no closer of it can be done.
LEMMA StartPreservesLeakInv ==
  ASSUME IInv, LeakInv, StartCall \/ StartStep
  PROVE  LeakInv'
<1>1. UNCHANGED <<kind, once, stop, seen, closer, closes>>
  BY DEF StartCall, StartStep, OpenHandle, PingBegins, ConnectSucceeds, ConnectFails,
         RetryElapses, RetryCanceled, ConnectGivesUp, Publish, StartReturns,
         stopVars
<1>2. start' \in {"none", "failed"} => open' = {}
  BY DEF StartCall, StartStep, OpenHandle, PingBegins, ConnectSucceeds, ConnectFails,
         RetryElapses, RetryCanceled, ConnectGivesUp, Publish, StartReturns,
         startVars, stopVars, IInv, NoAttemptLeak, LeakInv
<1>3. ASSUME handle # 0, handle \notin open
      PROVE  handle' # 0 /\ handle' \notin open'
  BY <1>3 DEF StartCall, StartStep, OpenHandle, PingBegins, ConnectSucceeds, ConnectFails,
         RetryElapses, RetryCanceled, ConnectGivesUp, Publish, StartReturns,
         startVars, stopVars, IInv, ConnectInv
<1> QED
  BY <1>1, <1>2, <1>3 DEF LeakInv, ClosesOnce

\* The steps of a call of Stop.
LEMMA StopPreservesLeakInv ==
  ASSUME IInv, LeakInv, NEW c \in Callers,
         \/ StopCall(c) \/ CloserStep(c) \/ CloseReturns(c)
         \/ StopReturns(c) \/ StopExpires(c) \/ ExpireStop(c)
  PROVE  LeakInv'
<1> USE DEF IInv, TypeOK, LeakInv, ClosesOnce, startVars
<1>1. CASE StopCall(c)
  BY <1>1 DEF StopCall
<1>2. CASE EnterOnce(c)
  BY <1>2 DEF EnterOnce, OnceInv
<1>3. CASE SkipOnce(c)
  BY <1>3 DEF SkipOnce, OnceDone
<1>4. CASE CloseReturns(c)
  <2>1. stop[c] # "none"
    BY <1>4 DEF CloseReturns
  <2> QED
    BY <1>4, <2>1 DEF CloseReturns, OnceInv
<1>5. CASE StopReturns(c)
  BY <1>5 DEF StopReturns
<1>6. CASE StopExpires(c)
  BY <1>6 DEF StopExpires
<1>7. CASE ExpireStop(c)
  BY <1>7 DEF ExpireStop, stopVars
<1> QED
  BY <1>1, <1>2, <1>3, <1>4, <1>5, <1>6, <1>7 DEF CloserStep

\* The cancellation of the context, and stuttering.
LEMMA RestPreservesLeakInv ==
  ASSUME LeakInv, CancelCtx \/ UNCHANGED vars
  PROVE  LeakInv'
  BY DEF LeakInv, ClosesOnce, CancelCtx, vars, startVars, stopVars

\* In a shutdown that is over, a Stop that saw the handle has closed it, except
\* where a Stop of the producer that saw none has spent the Once.
LEMMA LeakInvSuffices == IInv /\ LeakInv => LeakOnlyWhenOvertaken
<1> SUFFICES ASSUME IInv, LeakInv, ShutdownOver,
                    NEW c \in Callers, seen[c] # 0, open # {}
             PROVE  kind = "producer" /\ \E b \in Callers : seen[b] = 0
  BY DEF LeakOnlyWhenOvertaken
<1>1. closer[c] \in {"done", "failed"}
  BY DEF LeakInv, ShutdownOver
<1>2. handle \in open /\ seen[c] = handle
  <2>1. seen[c] = handle /\ handle # 0
    BY DEF IInv, OnceInv
  <2>2. PICK h \in open : TRUE
    OBVIOUS
  <2> QED
    BY <2>1, <2>2 DEF IInv, NoAttemptLeak, ConnectInv
<1>3. kind = "producer"
  BY <1>1, <1>2 DEF IInv, CloserInv
<1>4. once = "done"
  BY <1>1, <1>3 DEF LeakInv, ClosesOnce
<1> QED
  BY <1>2, <1>3, <1>4 DEF LeakInv

\* LeakInv is an invariant of the four services.
THEOREM LeakInvariance == Spec => []LeakInv
<1>1. IInv /\ LeakInv /\ [Next]_vars => LeakInv'
  BY StartPreservesLeakInv, StopPreservesLeakInv, RestPreservesLeakInv DEF Next
<1> QED
  BY <1>1, InitLeakInv, Invariance, PTL DEF Spec

\* One Stop that saw the handle is enough for nothing to be left open at the end
\* of a shutdown; only the producer needs all of them to have seen it.
THEOREM LeakOnlyWhenOvertakenHolds == Spec => []LeakOnlyWhenOvertaken
  BY Invariance, LeakInvariance, LeakInvSuffices, PTL

\* A Stop that saw a handle and returned nil means that the handle is closed,
\* for the producer unless a Stop that saw no writer has spent closeOnce.
THEOREM StopMeansClosedHolds == Spec => []StopMeansClosed
<1>1. IInv /\ LeakInv => StopMeansClosed
  <2> SUFFICES ASSUME IInv, LeakInv, NEW c \in Callers,
                      stop[c] = "ok", seen[c] # 0, seen[c] \in open
               PROVE  /\ kind = "producer"
                      /\ \E b \in Callers : seen[b] = 0 /\ stop[b] # "none"
    BY DEF StopMeansClosed
  <2>1. closer[c] = "done" /\ seen[c] = handle
    BY DEF IInv, CloserInv, OnceInv
  <2>2. kind = "producer"
    BY <2>1 DEF IInv, CloserInv
  <2>3. once = "done"
    BY <2>1, <2>2 DEF LeakInv, ClosesOnce
  <2> QED
    BY <2>1, <2>2, <2>3 DEF LeakInv
<1> QED
  BY <1>1, Invariance, LeakInvariance, PTL
=============================================================================
