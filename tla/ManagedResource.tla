--------------------------- MODULE ManagedResource --------------------------
(***************************************************************************)
(* The services that own a connection: dbservice, redisservice,            *)
(* kafka/producer and grpc/client.  They share one shape: Start opens a    *)
(* handle (with retries, except for grpc/client), publishes it under the   *)
(* mutex and blocks until its context is done; Stop reads the published    *)
(* handle and closes it.  kind says which of the four a behaviour is of,   *)
(* and the actions differ where the four differ.                           *)
(*                                                                         *)
(* A handle is named by the attempt that opened it; 0 is the nil handle.   *)
(* open is the set of handles that hold connections.  Stop may be called   *)
(* several times, concurrently.                                            *)
(***************************************************************************)
EXTENDS Integers, FiniteSets

CONSTANTS
    Kinds,        \* the kinds to consider, a subset of AllKinds
    Callers,      \* the calls of Stop
    AttemptLimits,  \* the values of retry.Config.MaxAttempts to consider
    Durations       \* those of BackoffMin and BackoffMax, in any order

AllKinds == {"db", "redis", "producer", "grpcclient"}

ASSUME KindsType == Kinds \subseteq AllKinds
ASSUME RetryConfigType == AttemptLimits \subseteq Int /\ Durations \subseteq Nat

VARIABLES
    kind,      \* which service this is
    start,     \* where Start is
    cfg,       \* its retry.Config
    retry, attempt, backoff,  \* retry.Do, inside Start
    dialing,   \* the ping or probe of this attempt is under way, begun before ctx was done
    open,      \* the handles that hold connections
    handle,    \* the published handle: s.pool, s.client, p.writer, c.conn
    once,      \* shutdownOnce or closeOnce
    stop,      \* stop[c]: the call c of Stop
    seen,      \* seen[c]: the handle that call read
    closer,    \* closer[c]: what closes the handle for call c
    closes,    \* history: closes[h], how often handle h was closed
    ctxDone,   \* the context of Start is done
    expired    \* expired[c]: the context of call c is done

startVars == <<start, retry, attempt, backoff, dialing, handle>>
stopVars == <<once, stop, seen, closer, closes>>
vars == <<kind, cfg, start, retry, attempt, backoff, dialing, open, handle,
          once, stop, seen, closer, closes, ctxDone, expired>>

R == INSTANCE Retry

Handles == 1 .. R!Limit

\* connectOnce of these kinds opens the handle before it pings the server; the
\* others probe first and build the handle when the probe has succeeded.
OpensThenPings == kind \in {"db", "redis"}

\* The attempt of these kinds dials under the context of Start; grpc.NewClient
\* takes none and does not dial.
TakesContext == kind # "grpcclient"

\* Stop of these kinds closes in a goroutine and waits no longer than its ctx;
\* the others close in the caller's goroutine and ignore ctx.
ClosesInBackground == kind \in {"db", "grpcclient"}

\* grpc/client closes without a sync.Once.
ClosesOnce == kind # "grpcclient"

-----------------------------------------------------------------------------
Init ==
    /\ kind \in Kinds
    /\ cfg \in [maxAttempts : AttemptLimits, backoffMin : Durations, backoffMax : Durations]
    /\ start = "none"
    /\ R!RetryInit
    /\ dialing = FALSE
    /\ open = {}
    /\ handle = 0
    /\ once = "fresh"
    /\ stop = [c \in Callers |-> "none"]
    /\ seen = [c \in Callers |-> 0]
    /\ closer = [c \in Callers |-> "none"]
    /\ closes = [h \in Handles |-> 0]
    /\ ctxDone \in BOOLEAN
    /\ expired = [c \in Callers |-> FALSE]

-----------------------------------------------------------------------------
(* Start.                                                                   *)

\* The configuration is parsed, or found wrong.
StartCall ==
    /\ start = "none"
    /\ start' \in {"connecting", "failed"}
    /\ UNCHANGED <<kind, cfg, retry, attempt, backoff, dialing, open, handle>>
    /\ UNCHANGED <<stopVars, ctxDone, expired>>

\* pgxpool.NewWithConfig and redis.NewClient return a handle without dialing.
OpenHandle ==
    /\ start = "connecting"
    /\ retry = "attempt"
    /\ OpensThenPings
    /\ attempt \notin open
    /\ open' = open \cup {attempt}
    /\ UNCHANGED <<kind, cfg, startVars, stopVars, ctxDone, expired>>

\* Ping(ctx) or Probe(ctx) begins: under a context that is done it does not
\* reach the server and can only fail.
PingBegins ==
    /\ start = "connecting"
    /\ retry = "attempt"
    /\ TakesContext
    /\ ~ctxDone
    /\ ~dialing
    /\ OpensThenPings => attempt \in open
    /\ dialing' = TRUE
    /\ UNCHANGED <<kind, cfg, start, retry, attempt, backoff, open, handle>>
    /\ UNCHANGED <<stopVars, ctxDone, expired>>

\* The ping, the probe or grpc.NewClient succeeds; a cancellation during the
\* ping may come too late to make it fail.
ConnectSucceeds ==
    /\ start = "connecting"
    /\ TakesContext => dialing
    /\ R!AttemptSucceeds
    /\ dialing' = FALSE
    /\ UNCHANGED <<kind, start, open, handle, stopVars, ctxDone, expired>>

\* FAULTY: the handle whose ping failed is left open.
ConnectFailsLeaky ==
    /\ start = "connecting"
    /\ R!AttemptFails
    /\ dialing' = FALSE
    /\ UNCHANGED <<kind, start, open, handle, stopVars, ctxDone, expired>>

\* It fails: connectOnce closes the handle it has just opened.
ConnectFails ==
    /\ start = "connecting"
    /\ R!AttemptFails
    /\ dialing' = FALSE
    /\ open' = open \ {attempt}
    /\ UNCHANGED <<kind, start, handle, stopVars, ctxDone, expired>>

\* Between two attempts Do waits for the backoff or for ctx; grpc/client does
\* not go through Do.
RetryElapses ==
    /\ start = "connecting"
    /\ kind # "grpcclient"
    /\ R!WaitElapses
    /\ UNCHANGED <<kind, start, dialing, open, handle, stopVars, ctxDone, expired>>

RetryCanceled ==
    /\ start = "connecting"
    /\ kind # "grpcclient"
    /\ ctxDone
    /\ R!WaitCanceled
    /\ UNCHANGED <<kind, start, dialing, open, handle, stopVars, ctxDone, expired>>

\* retry.Do, or grpc.NewClient which is not retried, returned an error.
ConnectGivesUp ==
    /\ start = "connecting"
    /\ \/ retry \in {"exhausted", "canceled"}
       \/ kind = "grpcclient" /\ retry = "wait"
    /\ start' = "failed"
    /\ UNCHANGED <<kind, cfg, retry, attempt, backoff, dialing, open, handle>>
    /\ UNCHANGED <<stopVars, ctxDone, expired>>

\* The handle is stored under the mutex.
Publish ==
    /\ start = "connecting"
    /\ retry = "ok"
    /\ open' = open \cup {attempt}
    /\ handle' = attempt
    /\ start' = "running"
    /\ UNCHANGED <<kind, cfg, retry, attempt, backoff, dialing, stopVars, ctxDone, expired>>

\* <-ctx.Done(): Start leaves the handle to Stop.
StartReturns ==
    /\ start = "running"
    /\ ctxDone
    /\ start' = "returned"
    /\ UNCHANGED <<kind, cfg, retry, attempt, backoff, dialing, open, handle>>
    /\ UNCHANGED <<stopVars, ctxDone, expired>>

StartStep ==
    \/ OpenHandle \/ PingBegins \/ ConnectSucceeds \/ ConnectFails
    \/ RetryElapses \/ RetryCanceled
    \/ ConnectGivesUp \/ Publish \/ StartReturns

-----------------------------------------------------------------------------
(* Stop.                                                                    *)

\* Stop reads the handle under the mutex.  db, redis and grpcclient return at
\* once when there is none; the producer goes on to its closeOnce in any case.
StopCall(c) ==
    /\ stop[c] = "none"
    /\ ctxDone
    /\ seen' = [seen EXCEPT ![c] = handle]
    /\ IF handle = 0 /\ kind # "producer"
         THEN /\ stop' = [stop EXCEPT ![c] = "ok"]
              /\ UNCHANGED closer
         ELSE /\ stop' = [stop EXCEPT ![c] = "waiting"]
              /\ closer' = [closer EXCEPT ![c] = "entering"]
    /\ UNCHANGED <<kind, cfg, startVars, open, once, closes, ctxDone, expired>>

\* FAULTY: a flag in the place of sync.Once lets the second caller through while
\* the first is still closing.
OnceDoneEarly == once \in {"busy", "done"}

\* sync.Once: a second caller waits until the first has finished.
OnceDone == once = "done"

\* The closure is entered by the first caller.
EnterOnce(c) ==
    /\ closer[c] = "entering"
    /\ ClosesOnce => once = "fresh"
    /\ once' = IF ClosesOnce THEN "busy" ELSE once
    /\ closer' = [closer EXCEPT ![c] = "closing"]
    /\ UNCHANGED <<kind, cfg, startVars, open, stop, seen, closes, ctxDone, expired>>

SkipOnce(c) ==
    /\ closer[c] = "entering"
    /\ ClosesOnce
    /\ OnceDone
    /\ closer' = [closer EXCEPT ![c] = "done"]
    /\ UNCHANGED <<kind, cfg, startVars, open, once, stop, seen, closes, ctxDone, expired>>

\* pool.Close, client.Close, writer.Close or conn.Close returns, all but the
\* first possibly with an error; the producer's closure returns at once when it
\* has seen no writer.
CloseReturns(c) ==
    /\ closer[c] = "closing"
    /\ open' = open \ {seen[c]}
    /\ closes' = [h \in Handles |-> IF h = seen[c] THEN closes[h] + 1 ELSE closes[h]]
    /\ once' = IF ClosesOnce THEN "done" ELSE once
    /\ \E result \in {"done"} \cup (IF seen[c] = 0 \/ kind = "db" THEN {} ELSE {"failed"}) :
          closer' = [closer EXCEPT ![c] = result]
    /\ UNCHANGED <<kind, cfg, startVars, stop, seen, ctxDone, expired>>

StopReturns(c) ==
    /\ stop[c] = "waiting"
    /\ closer[c] \in {"done", "failed"}
    /\ stop' = [stop EXCEPT ![c] = IF closer[c] = "failed" THEN "err" ELSE "ok"]
    /\ UNCHANGED <<kind, cfg, startVars, open, once, seen, closer, closes, ctxDone, expired>>

\* FAULTY: the close is awaited without a bound.
StopExpiresNot(c) == FALSE /\ stop[c] = "waiting" /\ UNCHANGED vars

\* case <-ctx.Done(): the goroutine that closes goes on in the background.
StopExpires(c) ==
    /\ stop[c] = "waiting"
    /\ ClosesInBackground
    /\ expired[c]
    /\ stop' = [stop EXCEPT ![c] = "expired"]
    /\ UNCHANGED <<kind, cfg, startVars, open, once, seen, closer, closes, ctxDone, expired>>

CloserStep(c) == EnterOnce(c) \/ SkipOnce(c)

-----------------------------------------------------------------------------
CancelCtx ==
    /\ ~ctxDone
    /\ ctxDone' = TRUE
    /\ UNCHANGED <<kind, cfg, startVars, open, stopVars, expired>>

ExpireStop(c) ==
    /\ stop[c] = "waiting"
    /\ ~expired[c]
    /\ expired' = [expired EXCEPT ![c] = TRUE]
    /\ UNCHANGED <<kind, cfg, startVars, open, stopVars, ctxDone>>

Next ==
    \/ StartCall \/ StartStep \/ CancelCtx
    \/ \E c \in Callers :
          \/ StopCall(c) \/ CloserStep(c) \/ CloseReturns(c)
          \/ StopReturns(c) \/ StopExpires(c) \/ ExpireStop(c)

Spec == Init /\ [][Next]_vars

\* Start is scheduled, connection attempts and waits end, and so does the
\* context of Stop; whether Close ever returns is not assumed.
Fairness ==
    /\ WF_vars(StartStep)
    /\ \A c \in Callers :
          /\ WF_vars(CloserStep(c)) /\ WF_vars(ExpireStop(c))
          /\ WF_vars(StopReturns(c)) /\ WF_vars(StopExpires(c))

FairSpec == Spec /\ Fairness

-----------------------------------------------------------------------------
(* Properties.                                                              *)

\* The state is well formed; attempts stay within the configured number and
\* waits within the configured durations.
TypeOK ==
    /\ kind \in AllKinds
    /\ cfg \in [maxAttempts : Int, backoffMin : Nat, backoffMax : Nat]
    /\ start \in {"none", "connecting", "running", "returned", "failed"}
    /\ retry \in {"attempt", "wait", "ok", "exhausted", "canceled"}
    /\ attempt \in Handles
    /\ backoff \in Nat
    /\ backoff <= cfg.backoffMin \/ backoff <= cfg.backoffMax
    /\ dialing \in BOOLEAN
    /\ open \subseteq Handles
    /\ handle \in {0} \cup Handles
    /\ once \in {"fresh", "busy", "done"}
    /\ stop \in [Callers -> {"none", "waiting", "ok", "err", "expired"}]
    /\ seen \in [Callers -> {0} \cup Handles]
    /\ closer \in [Callers -> {"none", "entering", "closing", "done", "failed"}]
    /\ closes \in [Handles -> Nat]
    /\ ctxDone \in BOOLEAN
    /\ expired \in [Callers -> BOOLEAN]

\* No failed connection attempt leaves a handle open: whatever is open belongs
\* to the attempt in progress or is the handle Start is about to publish or has
\* published.
NoAttemptLeak ==
    \A h \in open : h = attempt /\ retry \in {"attempt", "ok"}

\* A Stop that saw a handle and returned nil means that the handle is closed,
\* also when another Stop was the one that closed it.  The one exception is a
\* producer with an earlier Stop that saw no writer and so spent closeOnce.
StopMeansClosed ==
    \A c \in Callers : stop[c] = "ok" /\ seen[c] # 0 =>
        \/ seen[c] \notin open
        \/ kind = "producer" /\ \E b \in Callers : seen[b] = 0 /\ stop[b] # "none"

\* The services that guard Close with a sync.Once close a handle at most once,
\* however many Stops run.
ClosedAtMostOnce ==
    ClosesOnce => \A h \in Handles : closes[h] <= 1

\* Once its context is canceled Start comes to an end, wherever the cancellation
\* found it in the retry loop, and Stop of dbservice and of grpc/client returns
\* although Close hangs for ever.
ShutdownReturns ==
    /\ (ctxDone /\ start # "none") ~> start \in {"returned", "failed"}
    /\ \A c \in Callers :
          (ClosesInBackground /\ stop[c] = "waiting")
              ~> stop[c] \in {"ok", "err", "expired"}

\* Start and every Stop are over, and no goroutine is left that closes a handle.
ShutdownOver ==
    /\ start \in {"returned", "failed"}
    /\ \A c \in Callers : /\ stop[c] \in {"ok", "err", "expired"}
                          /\ closer[c] \in {"none", "done", "failed"}

\* What the architecture document says: Stop closes the pool.  When the shutdown
\* is over nothing is left open.
StopClosesResource == ShutdownOver => open = {}

\* What the code does guarantee: one Stop that saw the handle is enough for
\* nothing to be left open, whatever the other Stops and the expired contexts
\* did.  A leak therefore needs every Stop to have overtaken the publication of
\* the handle; for the producer, whose closeOnce such a Stop spends, one of them.
LeakOnlyWhenOvertaken ==
    ShutdownOver =>
        \A c \in Callers : seen[c] # 0 =>
            \/ open = {}
            \/ kind = "producer" /\ \E b \in Callers : seen[b] = 0

-----------------------------------------------------------------------------
(* The inductive invariant behind the safety properties.                    *)

\* retry.Do waits only while attempts are left, and the published handle is the
\* one of the attempt that succeeded.
ConnectInv ==
    /\ kind \in Kinds
    /\ retry = "wait" => attempt < R!Limit
    /\ handle # 0 <=> start \in {"running", "returned"}
    /\ handle # 0 => handle = attempt /\ retry = "ok"

\* Who is inside the Once, and what is behind it.
OnceInv ==
    /\ \A c \in Callers : seen[c] # 0 => seen[c] = handle
    /\ \A c \in Callers :
          closer[c] # "none" /\ kind # "producer" => seen[c] # 0
    /\ ClosesOnce => \A c \in Callers : closer[c] = "closing" => once = "busy"
    /\ ClosesOnce => \A b, c \in Callers :
          closer[b] = "closing" /\ closer[c] = "closing" => b = c
    /\ ClosesOnce /\ once # "done" => \A h \in Handles : closes[h] = 0
    /\ ClosesOnce /\ once = "done" /\ kind # "producer" =>
          handle # 0 /\ handle \notin open

\* A call whose closer is done has its handle closed.
CloserInv ==
    /\ \A c \in Callers : stop[c] = "ok" /\ seen[c] # 0 => closer[c] = "done"
    /\ kind # "producer" => \A c \in Callers :
          closer[c] \in {"done", "failed"} => seen[c] \notin open

\* What is behind LeakOnlyWhenOvertaken: a failed Start leaves nothing open, a
\* Stop that saw the handle has a closer, and the closers of the producer are
\* done only when the Once is, which closed the handle or was spent by a Stop
\* that saw none.
LeakInv ==
    /\ start \in {"none", "failed"} => open = {}
    /\ \A c \in Callers : seen[c] # 0 => closer[c] # "none"
    /\ \A c \in Callers : stop[c] = "none" => closer[c] = "none" /\ seen[c] = 0
    /\ ClosesOnce => \A c \in Callers :
          closer[c] \in {"done", "failed"} => once = "done"
    /\ kind = "producer" /\ once = "done" =>
          \/ handle # 0 /\ handle \notin open
          \/ \E c \in Callers : seen[c] = 0 /\ stop[c] # "none"

IInv ==
    /\ TypeOK /\ NoAttemptLeak /\ ClosedAtMostOnce
    /\ ConnectInv /\ OnceInv /\ CloserInv
=============================================================================
