------------------------------- MODULE Server -------------------------------
(***************************************************************************)
(* Start and Stop of http/server and grpc/server.  Both wrap a library     *)
(* server in the same way: Start binds, launches a watcher that begins a   *)
(* graceful shutdown when ctx is done, and serves; Stop runs the graceful  *)
(* shutdown too, in a goroutine, and falls back to a forced one when its   *)
(* own context ends.  The watcher and the Stops share one sync.Once.  kind *)
(* says which of the two a behaviour is of.                                *)
(*                                                                         *)
(* The library servers (net/http and grpc-go) are external: the module     *)
(* has of them what the two wrappers rely on.  A connection is idle, or    *)
(* active while a handler works for it, or aborted when a forced shutdown  *)
(* closed it under a handler that still runs.                              *)
(***************************************************************************)
EXTENDS Naturals, FiniteSets

CONSTANTS
    Kinds,    \* the kinds to consider, a subset of {"http", "grpc"}
    Conns,    \* the connections clients open
    Callers   \* the calls of Stop

ASSUME ServerKinds == Kinds \subseteq {"http", "grpc"}

\* The goroutine Start launches; it is the one besides the Stops that may run
\* the graceful shutdown.
Watcher == "watcher"
Actors == {Watcher} \cup Callers

ASSUME WatcherIsNoCaller == Watcher \notin Callers

VARIABLES
    kind,      \* which server this is
    start,     \* where Start is
    serveErr,  \* Serve ended with an error that is not the shutdown's
    quit,      \* close(quit) was executed
    actor,     \* actor[a]: the goroutine of the watcher, or the one of a Stop
    once,      \* shutdownOnce
    down,      \* the library server was told to stop: its listeners are closed
    released,  \* a grpc GracefulStop or Stop has finished, which Serve awaits
    conn,      \* conn[x]: connection x
    stop,      \* stop[c]: the call c of Stop
    late,      \* history: late[c], the context of that call was done when it was made
    ctxDone,   \* the context of Start is done
    expired    \* expired[c]: the context of call c is done

libVars == <<down, released, conn>>
startVars == <<start, serveErr, quit>>
stopVars == <<stop, late>>
syncVars == <<actor, once>>
ctxVars == <<ctxDone, expired>>
vars == <<kind, start, serveErr, quit, actor, once, down, released, conn, stop,
          late, ctxDone, expired>>

-----------------------------------------------------------------------------
Init ==
    /\ kind \in Kinds
    /\ start = "none"
    /\ serveErr = FALSE
    /\ quit = FALSE
    /\ actor = [a \in Actors |-> "none"]
    /\ once = "fresh"
    /\ down = FALSE
    /\ released = FALSE
    /\ conn = [x \in Conns |-> "none"]
    /\ stop = [c \in Callers |-> "none"]
    /\ late = [c \in Callers |-> FALSE]
    /\ ctxDone \in BOOLEAN
    /\ expired \in [Callers -> BOOLEAN]

-----------------------------------------------------------------------------
(* The library server, and the handlers it runs.                            *)

Accept(x) ==
    /\ start = "serving"
    /\ ~down
    /\ conn[x] = "none"
    /\ conn' = [conn EXCEPT ![x] = "idle"]
    /\ UNCHANGED <<kind, startVars, syncVars, down, released, stopVars, ctxVars>>

\* A request arrives, also on a connection accepted before the shutdown began.
HandlerBegins(x) ==
    /\ conn[x] = "idle"
    /\ conn' = [conn EXCEPT ![x] = "active"]
    /\ UNCHANGED <<kind, startVars, syncVars, down, released, stopVars, ctxVars>>

\* A connection is kept alive only while the server is not shutting down.
HandlerReturns(x) ==
    /\ conn[x] \in {"active", "aborted"}
    /\ \E next \in {"done"} \cup (IF down THEN {} ELSE {"idle"}) :
          conn' = [conn EXCEPT ![x] = next]
    /\ UNCHANGED <<kind, startVars, syncVars, down, released, stopVars, ctxVars>>

\* The client leaves, or the server closes an idle connection.
ConnCloses(x) ==
    /\ conn[x] = "idle"
    /\ conn' = [conn EXCEPT ![x] = "done"]
    /\ UNCHANGED <<kind, startVars, syncVars, down, released, stopVars, ctxVars>>

\* What http.Server.Shutdown and GracefulStop wait for: no open connection, and
\* for grpc-go no handler either.
Drained ==
    \A x \in Conns :
        conn[x] \notin {"idle", "active"} \cup (IF kind = "grpc" THEN {"aborted"} ELSE {})

\* http.Server.Close and grpc.Server.Stop: listeners and connections are closed,
\* the handlers are not waited for.
ForceClose ==
    /\ down' = TRUE
    /\ released' = TRUE
    /\ conn' = [x \in Conns |->
                  CASE conn[x] = "idle" -> "done"
                    [] conn[x] = "active" -> "aborted"
                    [] OTHER -> conn[x]]

\* Serve comes back when the listener is closed; the one of grpc-go waits until
\* a shutdown has finished.
ServeOver == down /\ (kind = "grpc" => released)

-----------------------------------------------------------------------------
(* Start.                                                                   *)

\* net.Listen, publish the listener, launch the watcher.
StartListens ==
    /\ start = "none"
    /\ start' = "bound"
    /\ actor' = [actor EXCEPT ![Watcher] = "waiting"]
    /\ UNCHANGED <<kind, serveErr, quit, once, libVars, stopVars, ctxVars>>

StartFails ==
    /\ start = "none"
    /\ start' = "failed"
    /\ UNCHANGED <<kind, serveErr, quit, syncVars, libVars, stopVars, ctxVars>>

\* Serve refuses the listener when the server was stopped before.
ServeCall ==
    /\ start = "bound"
    /\ start' = IF down THEN "served" ELSE "serving"
    /\ UNCHANGED <<kind, serveErr, quit, syncVars, libVars, stopVars, ctxVars>>

ServeReturns ==
    /\ start = "serving"
    /\ ServeOver
    /\ start' = "served"
    /\ UNCHANGED <<kind, serveErr, quit, syncVars, libVars, stopVars, ctxVars>>

\* Accept fails for good: the connections that are open stay open.
ServeFails ==
    /\ start = "serving"
    /\ ~down
    /\ start' = "served"
    /\ serveErr' = TRUE
    /\ UNCHANGED <<kind, quit, syncVars, libVars, stopVars, ctxVars>>

\* close(quit)
CloseQuit ==
    /\ start = "served"
    /\ quit' = TRUE
    /\ start' = "joining"
    /\ UNCHANGED <<kind, serveErr, syncVars, libVars, stopVars, ctxVars>>

\* FAULTY: Start does not wait for the watcher.
WatcherNotAwaited == TRUE

\* What wg.Wait() of Start returns on.
WatcherOver == actor[Watcher] = "done"

\* The error of Serve is returned by http/server; grpc/server logs it.
StartReturns ==
    /\ start = "joining"
    /\ WatcherOver
    /\ start' = IF serveErr /\ kind = "http" THEN "failed" ELSE "returned"
    /\ UNCHANGED <<kind, serveErr, quit, syncVars, libVars, stopVars, ctxVars>>

StartStep ==
    \/ ServeCall \/ ServeReturns \/ CloseQuit \/ StartReturns

-----------------------------------------------------------------------------
(* The watcher, and the goroutine of each Stop: both call shutdownOnce.Do.  *)

\* FAULTY: the watcher does not hear that Serve is over.
WatcherIgnoresQuit ==
    /\ actor[Watcher] = "waiting"
    /\ ctxDone
    /\ actor' = [actor EXCEPT ![Watcher] = "entering"]
    /\ UNCHANGED <<kind, startVars, once, libVars, stopVars, ctxVars>>

\* select { case <-ctx.Done(): ... case <-quit: }
WatcherWakes ==
    /\ actor[Watcher] = "waiting"
    /\ \/ ctxDone /\ actor' = [actor EXCEPT ![Watcher] = "entering"]
       \/ quit /\ actor' = [actor EXCEPT ![Watcher] = "done"]
    /\ UNCHANGED <<kind, startVars, once, libVars, stopVars, ctxVars>>

\* The first caller of Do begins the graceful shutdown.
EnterOnce(a) ==
    /\ actor[a] = "entering"
    /\ once = "fresh"
    /\ once' = "busy"
    /\ actor' = [actor EXCEPT ![a] = "draining"]
    /\ down' = TRUE
    /\ UNCHANGED <<kind, startVars, released, conn, stopVars, ctxVars>>

\* FAULTY: later callers do not wait for the first.
SkipOnceEarly(a) ==
    /\ actor[a] = "entering"
    /\ once # "fresh"
    /\ actor' = [actor EXCEPT ![a] = "done"]
    /\ UNCHANGED <<kind, startVars, once, libVars, stopVars, ctxVars>>

\* Later callers of Do return when the first has finished.
SkipOnce(a) ==
    /\ actor[a] = "entering"
    /\ once = "done"
    /\ actor' = [actor EXCEPT ![a] = "done"]
    /\ UNCHANGED <<kind, startVars, once, libVars, stopVars, ctxVars>>

\* http.Server.Shutdown or GracefulStop returns.
DrainEnds(a) ==
    /\ actor[a] = "draining"
    /\ Drained
    /\ once' = "done"
    /\ actor' = [actor EXCEPT ![a] = "done"]
    /\ released' = TRUE
    /\ UNCHANGED <<kind, startVars, down, conn, stopVars, ctxVars>>

OnceStep(a) == EnterOnce(a) \/ SkipOnce(a) \/ DrainEnds(a)

-----------------------------------------------------------------------------
(* Stop.                                                                    *)

\* A context that is already done: force the server and report the context.
StopLate(c) ==
    /\ stop[c] = "none"
    /\ expired[c]
    /\ ForceClose
    /\ stop' = [stop EXCEPT ![c] = "expired"]
    /\ late' = [late EXCEPT ![c] = expired[c]]
    /\ UNCHANGED <<kind, startVars, syncVars, ctxVars>>

\* FAULTY: the context is not looked at before the graceful shutdown begins.
StopCallUnchecked(c) ==
    /\ stop[c] = "none"
    /\ stop' = [stop EXCEPT ![c] = "waiting"]
    /\ late' = [late EXCEPT ![c] = expired[c]]
    /\ actor' = [actor EXCEPT ![c] = "entering"]
    /\ UNCHANGED <<kind, startVars, once, libVars, ctxVars>>

StopCall(c) ==
    /\ stop[c] = "none"
    /\ ~expired[c]
    /\ stop' = [stop EXCEPT ![c] = "waiting"]
    /\ late' = [late EXCEPT ![c] = expired[c]]
    /\ actor' = [actor EXCEPT ![c] = "entering"]
    /\ UNCHANGED <<kind, startVars, once, libVars, ctxVars>>

\* case <-done
StopDrained(c) ==
    /\ stop[c] = "waiting"
    /\ actor[c] = "done"
    /\ stop' = [stop EXCEPT ![c] = "ok"]
    /\ UNCHANGED <<kind, startVars, syncVars, libVars, late, ctxVars>>

\* FAULTY: the deadline is reported without forcing the server.
StopForcesNot(c) ==
    /\ stop[c] = "waiting"
    /\ expired[c]
    /\ stop' = [stop EXCEPT ![c] = "forced"]
    /\ UNCHANGED <<kind, startVars, syncVars, libVars, late, ctxVars>>

\* case <-ctx.Done(): force, then wait for the goroutine.
StopForces(c) ==
    /\ stop[c] = "waiting"
    /\ expired[c]
    /\ ForceClose
    /\ stop' = [stop EXCEPT ![c] = "forced"]
    /\ UNCHANGED <<kind, startVars, syncVars, late, ctxVars>>

StopJoins(c) ==
    /\ stop[c] = "forced"
    /\ actor[c] = "done"
    /\ stop' = [stop EXCEPT ![c] = "expired"]
    /\ UNCHANGED <<kind, startVars, syncVars, libVars, late, ctxVars>>

StopStep(c) == StopDrained(c) \/ StopForces(c) \/ StopJoins(c)

-----------------------------------------------------------------------------
CancelCtx ==
    /\ ~ctxDone
    /\ ctxDone' = TRUE
    /\ UNCHANGED <<kind, startVars, syncVars, libVars, stopVars, expired>>

ExpireStop(c) ==
    /\ ~expired[c]
    /\ expired' = [expired EXCEPT ![c] = TRUE]
    /\ UNCHANGED <<kind, startVars, syncVars, libVars, stopVars, ctxDone>>

Next ==
    \/ \E x \in Conns :
          Accept(x) \/ HandlerBegins(x) \/ HandlerReturns(x) \/ ConnCloses(x)
    \/ StartListens \/ StartFails \/ StartStep \/ ServeFails
    \/ WatcherWakes
    \/ \E a \in Actors : OnceStep(a)
    \/ \E c \in Callers :
          StopLate(c) \/ StopCall(c) \/ StopStep(c) \/ ExpireStop(c)
    \/ CancelCtx

Spec == Init /\ [][Next]_vars

\* The scheduler runs every goroutine, contexts of Stops end, and net/http
\* closes idle connections while it shuts down.  Nothing is assumed of handlers,
\* except that a gRPC handler gives up once its connection was closed: grpc-go
\* cancels its context then, and GracefulStop waits for it.
Fairness ==
    /\ WF_vars(StartStep) /\ WF_vars(WatcherWakes)
    /\ \A a \in Actors : WF_vars(OnceStep(a))
    /\ \A c \in Callers : WF_vars(StopStep(c)) /\ WF_vars(ExpireStop(c))
    /\ \A x \in Conns :
          /\ WF_vars(down /\ ConnCloses(x))
          /\ WF_vars(kind = "grpc" /\ conn[x] = "aborted" /\ HandlerReturns(x))

FairSpec == Spec /\ Fairness

-----------------------------------------------------------------------------
(* Properties.                                                              *)

\* No connection is open: what a complete graceful shutdown leaves behind.
NoneOpen == \A x \in Conns : conn[x] \notin {"idle", "active"}

\* The state is well formed, and shutdownOnce lets one goroutine at a time, the
\* watcher or a Stop, run the graceful shutdown.
TypeOK ==
    /\ kind \in {"http", "grpc"}
    /\ start \in {"none", "bound", "serving", "served", "joining",
                  "returned", "failed"}
    /\ serveErr \in BOOLEAN
    /\ quit \in BOOLEAN
    /\ actor \in [Actors -> {"none", "waiting", "entering", "draining", "done"}]
    /\ \A a, b \in Actors :
          actor[a] = "draining" /\ actor[b] = "draining" => a = b
    /\ once \in {"fresh", "busy", "done"}
    /\ down \in BOOLEAN
    /\ released \in BOOLEAN
    /\ conn \in [Conns -> {"none", "idle", "active", "aborted", "done"}]
    /\ stop \in [Callers -> {"none", "waiting", "forced", "ok", "expired"}]
    /\ late \in [Callers -> BOOLEAN]
    /\ ctxDone \in BOOLEAN
    /\ expired \in [Callers -> BOOLEAN]

\* A Stop that returned nil means that the server is drained for good, also when
\* it was the watcher, or another Stop, that ran the graceful shutdown: no
\* connection is open and none is accepted any more, whether or not Start has
\* got as far as Serve.  A Stop whose context was done when it was called never
\* returns nil, although the graceful shutdown of an idle server ends at once.
NilStopMeansDrained ==
    \A c \in Callers :
        stop[c] = "ok" =>
            ~late[c] /\ NoneOpen /\ ~(start = "serving" /\ ~down)

\* Without any Stop, the cancellation of its context alone makes Start drain the
\* server before it returns.
CancelDrains ==
    /\ \A c \in Callers : stop[c] = "none"
    /\ start = "returned" /\ ~serveErr
    => NoneOpen

\* Stop returns although handlers never do: the forced close sets the goroutine
\* free that is still in the graceful shutdown, be it this Stop's, the watcher's
\* or another Stop's.
StopReturns ==
    \A c \in Callers :
        stop[c] \in {"waiting", "forced"} ~> stop[c] \in {"ok", "expired"}

\* Some goroutine can go on with shutdownOnce.
OnceMoves ==
    \E a \in Actors :
        \/ actor[a] = "entering" /\ once # "busy"
        \/ actor[a] = "draining" /\ Drained

\* A gRPC handler has not noticed yet that its connection was closed.
HandlerLeaving == kind = "grpc" /\ \E x \in Conns : conn[x] = "aborted"

\* Nobody is wedged behind shutdownOnce.  A Stop that forced the server, and now
\* joins its goroutine, waits only for a goroutine that can go on, or for a gRPC
\* handler whose connection it has closed; the Serve of a server that was told to
\* stop, only for a graceful shutdown that is in progress.
NobodyWedged ==
    /\ \A c \in Callers :
          stop[c] = "forced" => actor[c] = "done" \/ OnceMoves \/ HandlerLeaving
    /\ start = "serving" /\ down =>
          ServeOver \/ \E a \in Actors : actor[a] = "draining"

\* Once a Stop has returned, a Start that was called returns too, wherever the
\* Stop overtook it.
StopEndsStart ==
    \A c \in Callers :
        (stop[c] \in {"ok", "expired"} /\ start # "none")
            ~> start \in {"returned", "failed"}

-----------------------------------------------------------------------------
(* The inductive invariant behind the safety properties.                    *)

\* What the state of shutdownOnce says about the goroutines and the server.
OnceInv ==
    /\ once = "fresh" => \A a \in Actors : actor[a] # "draining"
    /\ once = "done" => NoneOpen /\ \A a \in Actors : actor[a] # "draining"
    /\ once # "fresh" => down
    /\ \A c \in Callers : actor[c] = "done" => once = "done"

\* What the place of each Stop implies about its goroutine.
StopInv ==
    \A c \in Callers :
        /\ stop[c] = "none" => actor[c] = "none"
        /\ stop[c] = "ok" => actor[c] = "done"
        /\ late[c] => stop[c] = "expired"

\* What the place of Start implies about the server; without any Stop it can
\* only have been shut down by the watcher.
StartInv ==
    /\ start = "none" => actor[Watcher] = "none"
    /\ start \in {"none", "bound", "serving"} => ~serveErr
    /\ start \in {"served", "joining", "returned"} /\ ~serveErr => down
    /\ down /\ (\A c \in Callers : stop[c] = "none") =>
          actor[Watcher] = "draining" \/ once = "done"

\* What a forced shutdown leaves for the goroutines that still wait.
ForceInv ==
    /\ once = "busy" => \E a \in Actors : actor[a] = "draining"
    /\ down => released \/ \E a \in Actors : actor[a] = "draining"
    /\ \A c \in Callers :
          /\ stop[c] \in {"waiting", "forced"} =>
                actor[c] \in {"entering", "draining", "done"}
          /\ stop[c] = "forced" => down /\ NoneOpen

IInv ==
    /\ TypeOK /\ OnceInv /\ StopInv /\ StartInv
    /\ CancelDrains
=============================================================================
