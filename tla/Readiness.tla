----------------------------- MODULE Readiness ------------------------------
(***************************************************************************)
(* When the orders service says that it is ready: /readyz of               *)
(* pkg/healthserver fanning out to its probers, Backends.Prepare and       *)
(* WaitReady, the gated CleanupJob, and the publication of the pool by     *)
(* dbservice, wired together as cmd/orders-service does and run by the     *)
(* entrypoint (whose part here is the cancellation of svcCtx).             *)
(*                                                                         *)
(* Store and backends are chosen at the start by the environment flags.    *)
(* The database, the other backends and the clients of /readyz are         *)
(* external.                                                               *)
(***************************************************************************)
EXTENDS Naturals

CONSTANTS
    Checks,   \* requests of /readyz
    Others    \* the other optional backends: redis, producer, consumer

ASSUME OthersAreNew == {"cleanup", "db"} \cap Others = {}

VARIABLES
    postgres,  \* ORDERS_STORE=postgres
    schema,    \* the orders table exists (external, survives)
    dbStart,   \* where Start of dbservice is
    metrics,   \* s.probeDuration is set
    pool,      \* s.pool: unset, open, or closed by Stop
    prepare,   \* where Prepare, the post-start hook, is
    ready,     \* b.ready is closed
    cleanup,   \* where the cleanup job is
    warmedUp,  \* j.warmedUp
    swept,     \* history: a sweep has succeeded
    svcDone,   \* svcCtx is canceled
    check,     \* where a request of /readyz is
    outcome,   \* outcome[q][p]: what prober p returned to request q
    hungUp,    \* r.Context() is done: the client of the request is gone
    status,    \* the status of the answer
    crashed    \* a goroutine panicked and took the process down

dbVars == <<dbStart, metrics, pool, schema>>
jobVars == <<cleanup, warmedUp, swept>>
startVars == <<prepare, ready, svcDone>>
checkVars == <<check, outcome, hungUp, status>>
rvars == <<postgres, dbVars, startVars, jobVars, checkVars, crashed>>

\* healthserver.WithProber: the cleanup job and every optional backend.
Probers == {"cleanup"} \cup Others \cup IF postgres THEN {"db"} ELSE {}

RInit ==
    /\ postgres \in BOOLEAN
    /\ schema \in BOOLEAN
    /\ dbStart = "connecting"
    /\ metrics = FALSE
    /\ pool = "nil"
    /\ prepare = "none"
    /\ ready = FALSE
    /\ cleanup = "resting"
    /\ warmedUp = FALSE
    /\ swept = FALSE
    /\ svcDone = FALSE
    /\ check = [q \in Checks |-> "none"]
    /\ outcome = [q \in Checks |-> [p \in Probers |-> "pending"]]
    /\ hungUp = [q \in Checks |-> FALSE]
    /\ status = [q \in Checks |-> 0]
    /\ crashed = FALSE

-----------------------------------------------------------------------------
(* dbservice.                                                               *)

DbFrame == UNCHANGED <<postgres, startVars, jobVars, checkVars, crashed>>

\* retry.Do gives up, or ctx is done.
DbConnectFails ==
    /\ postgres /\ dbStart = "connecting"
    /\ dbStart' = "failed"
    /\ UNCHANGED <<metrics, pool, schema>> /\ DbFrame

DbConnects ==
    /\ postgres /\ dbStart = "connecting"
    /\ dbStart' = "connected"
    /\ UNCHANGED <<metrics, pool, schema>> /\ DbFrame

DbInitMetrics ==
    /\ dbStart = "connected"
    /\ dbStart' = "measured"
    /\ metrics' = TRUE
    /\ UNCHANGED <<pool, schema>> /\ DbFrame

DbPublishes ==
    /\ dbStart = "measured"
    /\ dbStart' = "published"
    /\ pool' = "open"
    /\ UNCHANGED <<metrics, schema>> /\ DbFrame

\* Stop, which the entrypoint calls after it canceled svcCtx, but not after a hook
\* that failed.
DbStops ==
    /\ svcDone /\ prepare = "prepared" /\ pool = "open"
    /\ pool' = "closed"
    /\ UNCHANGED <<dbStart, metrics, schema>> /\ DbFrame

DbStep ==
    DbConnectFails \/ DbConnects \/ DbInitMetrics \/ DbPublishes \/ DbStops

-----------------------------------------------------------------------------
(* Prepare, run by the entrypoint as a post-start hook under Run's context. *)

PrepareFrame == UNCHANGED <<postgres, dbStart, metrics, pool, jobVars, checkVars, crashed>>

PrepareMoves(from, to) == prepare = from /\ prepare' = to

PrepareCall ==
    /\ PrepareMoves("none", IF postgres THEN "waiting" ELSE "signaling")
    /\ UNCHANGED <<ready, svcDone, schema>> /\ PrepareFrame

\* b.db.Pool() is looked at every 50 ms.
PrepareSeesPool ==
    /\ pool # "nil"
    /\ PrepareMoves("waiting", "ensuring")
    /\ UNCHANGED <<ready, svcDone, schema>> /\ PrepareFrame

\* The hook fails: the entrypoint cancels svcCtx and Run returns.
HookFails(from) ==
    /\ PrepareMoves(from, "failed")
    /\ svcDone' = TRUE
    /\ UNCHANGED <<ready, schema>> /\ PrepareFrame

\* FAULTY: the wait for the pool has no deadline.
PrepareWaitsOn == FALSE /\ HookFails("waiting")

\* dbConnectTimeout has elapsed.
PrepareTimesOut == HookFails("waiting")

EnsureSchema ==
    /\ PrepareMoves("ensuring", "signaling")
    /\ schema' = TRUE
    /\ UNCHANGED <<ready, svcDone>> /\ PrepareFrame

EnsureSchemaFails == HookFails("ensuring")

\* readyOnce: b.ready is closed and Prepare returns nil.
PrepareSignals ==
    /\ PrepareMoves("signaling", "prepared")
    /\ ready' = TRUE
    /\ UNCHANGED <<svcDone, schema>> /\ PrepareFrame

PrepareStep ==
    \/ PrepareCall \/ PrepareSeesPool \/ PrepareTimesOut
    \/ EnsureSchema \/ EnsureSchemaFails \/ PrepareSignals

\* Any reason to stop: a signal, the failure of a service.  Run looks at it once
\* the post-start hooks are through.
Shutdown ==
    /\ prepare = "prepared" /\ ~svcDone
    /\ svcDone' = TRUE
    /\ UNCHANGED <<postgres, dbVars, prepare, ready, jobVars, checkVars, crashed>>

-----------------------------------------------------------------------------
(* The cleanup job: run is called at once, then at every tick, never twice at *)
(* a time (periodic.Service).                                                *)

CleanupMoves(from, to) ==
    /\ cleanup = from
    /\ cleanup' = to
    /\ UNCHANGED <<postgres, dbVars, startVars, checkVars, crashed>>

RunCalled == CleanupMoves("resting", "gated") /\ UNCHANGED <<warmedUp, swept>>

\* FAULTY: the error of the gate is taken for its opening.
GatePassesOnCancel ==
    /\ ready \/ svcDone
    /\ CleanupMoves("gated", "sweeping")
    /\ UNCHANGED <<warmedUp, swept>>

\* WaitReady returns nil.
GatePasses ==
    /\ ready
    /\ CleanupMoves("gated", "sweeping")
    /\ UNCHANGED <<warmedUp, swept>>

\* FAULTY: WaitReady does not look at its context.
GateCanceledNot == FALSE /\ CleanupMoves("gated", "resting") /\ UNCHANGED <<warmedUp, swept>>

\* WaitReady returns an error, since ctx is done: run returns nil without sweeping.
GateCanceled ==
    /\ svcDone
    /\ CleanupMoves("gated", "resting")
    /\ UNCHANGED <<warmedUp, swept>>

\* CancelStalePending succeeds, which takes a pool and a table.
Sweeps ==
    /\ postgres => pool = "open" /\ schema
    /\ CleanupMoves("sweeping", "resting")
    /\ warmedUp' = TRUE
    /\ swept' = TRUE

\* It fails; the error is logged, or dropped if ctx is done.
SweepFails ==
    /\ postgres
    /\ CleanupMoves("sweeping", "resting")
    /\ UNCHANGED <<warmedUp, swept>>

\* Start of the periodic service returns.
CleanupEnds ==
    /\ svcDone
    /\ CleanupMoves("resting", "ended")
    /\ UNCHANGED <<warmedUp, swept>>

CleanupStep ==
    RunCalled \/ GatePasses \/ GateCanceled \/ Sweeps \/ SweepFails \/ CleanupEnds

-----------------------------------------------------------------------------
(* /readyz.                                                                 *)

CheckFrame == UNCHANGED <<postgres, dbVars, startVars, jobVars>>

\* handleReadyz launches one goroutine per prober.
HandleReadyz(q) ==
    /\ check[q] = "none"
    /\ check' = [check EXCEPT ![q] = "probing"]
    /\ UNCHANGED <<outcome, hungUp, status, crashed>> /\ CheckFrame

Returns(q, p, what) ==
    /\ check[q] = "probing" /\ outcome[q][p] = "pending"
    /\ outcome' = [outcome EXCEPT ![q][p] = what]
    /\ UNCHANGED <<check, hungUp, status, crashed>> /\ CheckFrame

ProbeCleanup(q) == Returns(q, "cleanup", IF warmedUp THEN "ok" ELSE "err")

\* Without a pool Probe fails; with one it fails or succeeds as Ping does, and
\* observes how long that took.  Were the histogram still nil, the goroutine would
\* panic, and no middleware recovers it.
ProbeDb(q) ==
    /\ "db" \in Probers
    /\ check[q] = "probing" /\ outcome[q]["db"] = "pending"
    /\ \E what \in IF pool = "open" THEN {"ok", "err"} ELSE {"err"} :
          outcome' = [outcome EXCEPT ![q]["db"] = what]
    /\ crashed' = (pool # "nil" /\ ~metrics)
    /\ UNCHANGED <<check, hungUp, status>> /\ CheckFrame

\* Any other backend answers as it likes, or hangs until ctx is done.
ProbeOther(q, p) == \E what \in {"ok", "err"} : Returns(q, p, what)

\* FAULTY: an answer is composed while probes are still running.
ProbedSome(q) == \E p \in Probers : outcome[q][p] # "pending"

\* wg.Wait()
Probed(q) == \A p \in Probers : outcome[q][p] # "pending"

\* 200 when no probe failed, 503 with the errors otherwise.
Answer(q) ==
    /\ check[q] = "probing" /\ Probed(q)
    /\ check' = [check EXCEPT ![q] = "answered"]
    /\ status' = [status EXCEPT ![q] =
                     IF \E p \in Probers : outcome[q][p] = "err" THEN 503 ELSE 200]
    /\ UNCHANGED <<outcome, hungUp, crashed>> /\ CheckFrame

\* The client gives up on its request.
HangsUp(q) ==
    /\ check[q] = "probing" /\ ~hungUp[q]
    /\ hungUp' = [hungUp EXCEPT ![q] = TRUE]
    /\ UNCHANGED <<check, outcome, status, crashed>> /\ CheckFrame

ProbeStep(q) ==
    ProbeDb(q) \/ \E p \in Others : ProbeOther(q, p)

\* FAULTY: probes do not run under the context of their request.
ProbeCtxDoneNever(q) == FALSE

\* The context of the probes, r.Context(), is done.
ProbeCtxDone(q) == hungUp[q]

CheckStep(q) ==
    HandleReadyz(q) \/ ProbeCleanup(q) \/ ProbeStep(q) \/ Answer(q) \/ HangsUp(q)

RNext ==
    /\ ~crashed
    /\ \/ DbStep \/ PrepareStep \/ Shutdown \/ CleanupStep
       \/ \E q \in Checks : CheckStep(q)

RSpec == RInit /\ [][RNext]_rvars

\* The scheduler runs Prepare and the job, and timers fire.  The connection attempts
\* of dbservice owe nothing; EnsureSchema returns; a sweep that is repeated succeeds
\* in the end, and a select with two ready cases takes each in the end.  Clients
\* hang up on a request they get no answer to, and a probe returns once its context
\* is done, else it may hang.
RFairness ==
    LET Do(A) == ~crashed /\ A IN
    /\ WF_rvars(Do(PrepareStep)) /\ WF_rvars(Do(CleanupStep))
    /\ SF_rvars(Do(Sweeps)) /\ SF_rvars(Do(CleanupEnds))
    /\ \A q \in Checks :
          /\ WF_rvars(Do(ProbeCleanup(q))) /\ WF_rvars(Do(Answer(q)))
          /\ WF_rvars(Do(HangsUp(q)))
          /\ WF_rvars(Do(ProbeCtxDone(q) /\ ProbeStep(q)))

RFairSpec == RSpec /\ RFairness

-----------------------------------------------------------------------------
(* Properties.                                                              *)

StartTypes ==
    /\ postgres \in BOOLEAN /\ schema \in BOOLEAN /\ metrics \in BOOLEAN
    /\ ready \in BOOLEAN /\ warmedUp \in BOOLEAN /\ swept \in BOOLEAN
    /\ svcDone \in BOOLEAN
    /\ dbStart \in {"connecting", "connected", "measured", "published", "failed"}
    /\ pool \in {"nil", "open", "closed"}
    /\ prepare \in {"none", "waiting", "ensuring", "signaling", "prepared", "failed"}
    /\ cleanup \in {"resting", "gated", "sweeping", "ended"}

CheckTypes ==
    /\ check \in [Checks -> {"none", "probing", "answered"}]
    /\ outcome \in [Checks -> [Probers -> {"pending", "ok", "err"}]]
    /\ hungUp \in [Checks -> BOOLEAN]
    /\ status \in [Checks -> {0, 200, 503}]

\* The state of the service is well formed.
RTypeOK == StartTypes /\ CheckTypes /\ crashed \in BOOLEAN

\* Ready means usable: /readyz answers 200 only if every prober returned nil to
\* this very request, the schema exists and a sweep has really been completed.
ReadyMeansUsable ==
    \A q \in Checks : status[q] = 200 =>
        /\ \A p \in Probers : outcome[q][p] = "ok"
        /\ swept
        /\ postgres => schema

\* The cleanup job never runs against a store that is still connecting or has no
\* schema, the shutdown after a failed Prepare included.
NoSweepBeforeSchema ==
    postgres /\ cleanup = "sweeping" => schema /\ pool # "nil"

\* Startup does not wait for ever, whether or not the database ever connects: the
\* job has warmed up in the end, or the services are canceled.
StartupSettles == <>(warmedUp \/ svcDone)

\* A canceled cleanup job ends, also when Prepare failed and the gate will never
\* open.
CancelEndsCleanup == svcDone ~> cleanup = "ended"

\* Every request of /readyz is answered, although backends hang and the pool is
\* published while it is being probed, unless the service is going down.
ReadyzAnswers == \A q \in Checks : check[q] = "probing" ~> check[q] = "answered" \/ svcDone
=============================================================================
