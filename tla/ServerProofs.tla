---------------------------- MODULE ServerProofs ----------------------------
(* Proofs about Server: the type invariant and the safety properties, for   *)
(* any set of connections and of calls of Stop.                             *)
EXTENDS Server, TLAPS

\* A new server satisfies the invariant.
LEMMA InitIInv == Init => IInv
  BY ServerKinds
  DEF Init, IInv, TypeOK, OnceInv, StopInv, StartInv, CancelDrains,
      NoneOpen, Actors

\* The library server's connections come and go; once the graceful shutdown is
\* over no connection is open, and none is opened.
LEMMA ConnsPreserveIInv ==
  ASSUME IInv, NEW x \in Conns,
         Accept(x) \/ HandlerBegins(x) \/ HandlerReturns(x) \/ ConnCloses(x)
  PROVE  IInv'
<1> USE DEF IInv, TypeOK, OnceInv, StopInv, StartInv, CancelDrains,
            NoneOpen, startVars, syncVars, stopVars, ctxVars
<1>1. CASE Accept(x)
  BY <1>1 DEF Accept
<1>2. CASE HandlerBegins(x)
  BY <1>2 DEF HandlerBegins
<1>3. CASE HandlerReturns(x)
  BY <1>3 DEF HandlerReturns
<1>4. CASE ConnCloses(x)
  BY <1>4 DEF ConnCloses
<1> QED
  BY <1>1, <1>2, <1>3, <1>4

\* The steps of Start.
LEMMA StartPreservesIInv ==
  IInv /\ (StartListens \/ StartFails \/ StartStep \/ ServeFails) => IInv'
<1> SUFFICES ASSUME IInv, StartListens \/ StartFails \/ StartStep \/ ServeFails
             PROVE  IInv'
  OBVIOUS
<1> USE DEF IInv, TypeOK, OnceInv, StopInv, StartInv, CancelDrains,
            NoneOpen, libVars, syncVars, stopVars, ctxVars
<1>1. CASE StartListens
  BY <1>1, WatcherIsNoCaller DEF StartListens, Actors
<1>2. CASE StartFails
  BY <1>2 DEF StartFails
<1>3. CASE ServeCall
  BY <1>3 DEF ServeCall
<1>4. CASE ServeReturns
  BY <1>4 DEF ServeReturns, ServeOver
<1>5. CASE CloseQuit
  BY <1>5 DEF CloseQuit
<1>6. CASE StartReturns
  BY <1>6 DEF StartReturns, WatcherOver
<1>7. CASE ServeFails
  BY <1>7 DEF ServeFails
<1> QED
  BY <1>1, <1>2, <1>3, <1>4, <1>5, <1>6, <1>7 DEF StartStep

\* The watcher, and what it and the Stops do inside shutdownOnce.
LEMMA OncePreservesIInv ==
  IInv /\ (WatcherWakes \/ \E a \in Actors : OnceStep(a)) => IInv'
<1> SUFFICES ASSUME IInv, WatcherWakes \/ \E a \in Actors : OnceStep(a)
             PROVE  IInv'
  OBVIOUS
<1> USE DEF IInv, TypeOK, OnceInv, StopInv, StartInv, CancelDrains,
            NoneOpen, startVars, libVars, stopVars, ctxVars
<1>0. Watcher \in Actors /\ \A c \in Callers : c \in Actors /\ c # Watcher
  BY WatcherIsNoCaller DEF Actors
<1>1. CASE WatcherWakes
  BY <1>0, <1>1 DEF WatcherWakes
<1>2. ASSUME NEW a \in Actors, EnterOnce(a) PROVE IInv'
  BY <1>0, <1>2 DEF EnterOnce, Actors
<1>3. ASSUME NEW a \in Actors, SkipOnce(a) PROVE IInv'
  BY <1>0, <1>3 DEF SkipOnce
<1>4. ASSUME NEW a \in Actors, DrainEnds(a) PROVE IInv'
  BY <1>0, <1>4 DEF DrainEnds, Drained
<1> QED
  BY <1>1, <1>2, <1>3, <1>4 DEF OnceStep

\* The calls of Stop.
LEMMA StopPreservesIInv ==
  ASSUME IInv, NEW c \in Callers,
         StopLate(c) \/ StopCall(c) \/ StopStep(c) \/ ExpireStop(c)
  PROVE  IInv'
<1> USE DEF IInv, TypeOK, OnceInv, StopInv, StartInv, CancelDrains,
            NoneOpen, startVars, syncVars, libVars, ctxVars,
            ForceClose
<1>0. c \in Actors /\ c # Watcher
  BY WatcherIsNoCaller DEF Actors
<1>1. CASE StopLate(c)
  BY <1>0, <1>1 DEF StopLate
<1>2. CASE StopCall(c)
  BY <1>0, <1>2 DEF StopCall
<1>3. CASE StopDrained(c)
  BY <1>0, <1>3 DEF StopDrained
<1>4. CASE StopForces(c)
  BY <1>0, <1>4 DEF StopForces
<1>5. CASE StopJoins(c)
  BY <1>0, <1>5 DEF StopJoins
<1>6. CASE ExpireStop(c)
  BY <1>0, <1>6 DEF ExpireStop, stopVars
<1> QED
  BY <1>1, <1>2, <1>3, <1>4, <1>5, <1>6 DEF StopStep

\* The cancellation of ctx, and stuttering, touch nothing else.
LEMMA RestPreservesIInv == IInv /\ (CancelCtx \/ UNCHANGED vars) => IInv'
<1> SUFFICES ASSUME IInv, CancelCtx \/ UNCHANGED vars PROVE IInv'
  OBVIOUS
<1>1. /\ UNCHANGED <<kind, start, serveErr, quit, actor, once, down, released>>
      /\ UNCHANGED <<conn, stop, late, expired>>
      /\ ctxDone' \in BOOLEAN
  BY DEF IInv, TypeOK, CancelCtx, vars, startVars, syncVars, libVars, stopVars
<1>2. TypeOK'
  BY <1>1 DEF IInv, TypeOK
<1>3. OnceInv' /\ StopInv' /\ StartInv'
  BY <1>1 DEF IInv, OnceInv, StopInv, StartInv, NoneOpen
<1>4. CancelDrains'
  BY <1>1 DEF IInv, CancelDrains, NoneOpen
<1> QED
  BY <1>2, <1>3, <1>4 DEF IInv

\* Every step preserves the invariant.
LEMMA NextIInv == IInv /\ [Next]_vars => IInv'
  BY ConnsPreserveIInv, StartPreservesIInv, OncePreservesIInv,
     StopPreservesIInv, RestPreservesIInv
  DEF Next

\* IInv is an invariant of both servers.
THEOREM Invariance == Spec => []IInv
  BY NextIInv, InitIInv, PTL DEF Spec

\* The state is well formed and one goroutine at a time shuts the server down.
THEOREM TypeCorrectness == Spec => []TypeOK
<1>1. IInv => TypeOK
  BY DEF IInv
<1> QED
  BY <1>1, Invariance, PTL

\* A Stop that returned nil had a live context when it was called, and means that
\* the server is drained for good.
THEOREM NilStopMeansDrainedHolds == Spec => []NilStopMeansDrained
<1>1. IInv => NilStopMeansDrained
  BY DEF IInv, OnceInv, StopInv, NilStopMeansDrained
<1> QED
  BY <1>1, Invariance, PTL

\* Without a Stop, Start returns only when the cancellation has drained the
\* server.
THEOREM CancelDrainsHolds == Spec => []CancelDrains
<1>1. IInv => CancelDrains
  BY DEF IInv
<1> QED
  BY <1>1, Invariance, PTL

-----------------------------------------------------------------------------
\* No step takes away what a forced shutdown leaves behind, and shutdownOnce is
\* busy only as long as some goroutine is in the graceful shutdown.
LEMMA ForcePreserved ==
  ASSUME IInv, ForceInv, [Next]_vars
  PROVE  ForceInv'
<1> USE DEF ForceInv, NoneOpen
<1>0. Watcher \in Actors /\ \A c \in Callers : c \in Actors /\ c # Watcher
  BY WatcherIsNoCaller DEF Actors
<1>1. /\ actor \in [Actors -> {"none", "waiting", "entering", "draining", "done"}]
      /\ conn \in [Conns -> {"none", "idle", "active", "aborted", "done"}]
      /\ stop \in [Callers -> {"none", "waiting", "forced", "ok", "expired"}]
      /\ once \in {"fresh", "busy", "done"}
  BY DEF IInv, TypeOK
<1>2. ASSUME NEW x \in Conns,
             Accept(x) \/ HandlerBegins(x) \/ HandlerReturns(x) \/ ConnCloses(x)
      PROVE  ForceInv'
  BY <1>1, <1>2 DEF Accept, HandlerBegins, HandlerReturns, ConnCloses, syncVars, stopVars
<1>3. CASE StartListens
  BY <1>0, <1>1, <1>3 DEF StartListens, libVars, stopVars, IInv, StartInv
<1>4. CASE StartFails \/ StartStep \/ ServeFails
  BY <1>4 DEF StartFails, StartStep, ServeCall, ServeReturns, CloseQuit, StartReturns,
     ServeFails, syncVars, libVars, stopVars
<1>5. CASE WatcherWakes
  BY <1>0, <1>1, <1>5 DEF WatcherWakes, libVars, stopVars
<1>6. ASSUME NEW a \in Actors, EnterOnce(a) PROVE ForceInv'
  BY <1>0, <1>1, <1>6 DEF EnterOnce, stopVars
<1>7. ASSUME NEW a \in Actors, SkipOnce(a) PROVE ForceInv'
  BY <1>0, <1>1, <1>7 DEF SkipOnce, libVars, stopVars
<1>8. ASSUME NEW a \in Actors, DrainEnds(a) PROVE ForceInv'
  BY <1>0, <1>1, <1>8 DEF DrainEnds, stopVars
<1>9. ASSUME NEW c \in Callers, StopLate(c) \/ StopForces(c) PROVE ForceInv'
  BY <1>0, <1>1, <1>9 DEF StopLate, StopForces, ForceClose, syncVars
<1>10. ASSUME NEW c \in Callers, StopCall(c) PROVE ForceInv'
  BY <1>0, <1>1, <1>10 DEF StopCall, libVars, IInv, StopInv
<1>11. ASSUME NEW c \in Callers, StopDrained(c) \/ StopJoins(c) PROVE ForceInv'
  BY <1>1, <1>11 DEF StopDrained, StopJoins, syncVars, libVars
<1>12. ASSUME NEW c \in Callers, ExpireStop(c) PROVE ForceInv'
  BY <1>12 DEF ExpireStop, syncVars, libVars, stopVars
<1>13. CASE CancelCtx \/ UNCHANGED vars
  BY <1>13 DEF CancelCtx, vars, syncVars, libVars, stopVars
<1> QED
  BY <1>2, <1>3, <1>4, <1>5, <1>6, <1>7, <1>8, <1>9, <1>10, <1>11, <1>12, <1>13
  DEF Next, OnceStep, StopStep

\* Nobody is wedged behind shutdownOnce, the safety half of StopReturns and
\* StopEndsStart.
THEOREM NobodyWedgedHolds == Spec => []NobodyWedged
<1>1. Init => ForceInv
  BY DEF Init, ForceInv
<1>2. IInv /\ ForceInv /\ [Next]_vars => ForceInv'
  BY ForcePreserved
<1>3. IInv /\ ForceInv => NobodyWedged
  <2> SUFFICES ASSUME IInv, ForceInv PROVE NobodyWedged
    OBVIOUS
  <2>1. ASSUME NEW c \in Callers, stop[c] = "forced", actor[c] # "done",
               ~HandlerLeaving
        PROVE  OnceMoves
    <3>1. c \in Actors
      BY DEF Actors
    <3>2. Drained
      BY <2>1 DEF ForceInv, NoneOpen, HandlerLeaving, Drained
    <3>3. CASE \E a \in Actors : actor[a] = "draining"
      BY <3>2, <3>3 DEF OnceMoves
    <3>4. CASE \A a \in Actors : actor[a] # "draining"
      BY <2>1, <3>1, <3>4 DEF OnceMoves, ForceInv
    <3> QED
      BY <3>3, <3>4
  <2>2. start = "serving" /\ down =>
            ServeOver \/ \E a \in Actors : actor[a] = "draining"
    BY DEF ForceInv, ServeOver
  <2> QED
    BY <2>1, <2>2 DEF NobodyWedged
<1> QED
  BY <1>1, <1>2, <1>3, Invariance, PTL DEF Spec
=============================================================================
