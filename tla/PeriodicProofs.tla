--------------------------- MODULE PeriodicProofs ---------------------------
(* Proofs about Periodic: the type invariant and the safety properties, for *)
(* any number of calls in flight.                                           *)
EXTENDS Periodic, TLAPS

\* A new service satisfies the invariant.
LEMMA InitIInv == Init => IInv
  BY DEF Init, IInv, TypeOK, OneAtATime, NothingLeft, CallsOver, Running

\* No step of Start, of a call or of the environment disturbs the invariant.
LEMMA NextIInv == IInv /\ [Next]_vars => IInv'
<1> SUFFICES ASSUME IInv, [Next]_vars PROVE IInv'
  OBVIOUS
<1> USE DEF IInv, TypeOK, OneAtATime, NothingLeft, CallsOver, Running, options
<1>1. CASE StartCall
  BY <1>1 DEF StartCall
<1>2. CASE StartStep
  <2>1. CASE ImmediateReturns
    BY <2>1 DEF ImmediateReturns
  <2>2. CASE SkipTick
    BY <2>2 DEF SkipTick
  <2>3. CASE StartReturns
    BY <2>3 DEF StartReturns
  <2>4. ASSUME NEW i \in Slots, Launch(i) PROVE IInv'
    BY <2>4 DEF Launch, MayLaunch
  <2> QED
    BY <1>2, <2>1, <2>2, <2>3, <2>4 DEF StartStep
<1>3. CASE SelectCtx
  BY <1>3 DEF SelectCtx
<1>4. ASSUME NEW i \in Slots, FnReturns(i) PROVE IInv'
  BY <1>4 DEF FnReturns
<1>5. ASSUME NEW i \in Slots, Leaves(i) PROVE IInv'
  BY <1>5 DEF Leaves
<1>6. CASE Tick
  BY <1>6 DEF Tick
<1>7. CASE CancelCtx
  BY <1>7 DEF CancelCtx
<1>8. CASE UNCHANGED vars
  BY <1>8 DEF vars
<1> QED
  BY <1>1, <1>2, <1>3, <1>4, <1>5, <1>6, <1>7, <1>8 DEF Next

\* IInv is an invariant of periodic.Service.
THEOREM Invariance == Spec => []IInv
  BY InitIInv, NextIInv, PTL DEF Spec

\* The state is well formed, and busy says whether a call runs.
THEOREM TypeCorrectness == Spec => []TypeOK
<1>1. IInv => TypeOK
  BY DEF IInv
<1> QED
  BY <1>1, Invariance, PTL

\* In the default mode no two calls of fn ever overlap.
THEOREM OneAtATimeHolds == Spec => []OneAtATime
<1>1. IInv => OneAtATime
  BY DEF IInv
<1> QED
  BY <1>1, Invariance, PTL

\* No call of fn outlives Start, in either mode.
THEOREM NothingLeftHolds == Spec => []NothingLeft
<1>1. IInv => NothingLeft
  BY DEF IInv
<1> QED
  BY <1>1, Invariance, PTL
=============================================================================
