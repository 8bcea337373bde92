----------------------------- MODULE HttpProofs -----------------------------
(***************************************************************************)
(* Theorems about the middleware and the client (Middleware, HttpClient)   *)
(* and about the readiness of the orders service (Readiness), whose names  *)
(* are disjoint.                                                           *)
(***************************************************************************)
EXTENDS HttpClient, Readiness, TLAPS, FiniteSetTheorems

-----------------------------------------------------------------------------
(* Readiness.                                                               *)

\* A published pool has its histogram: no probe panics.
MetricsInv ==
    /\ dbStart \in {"measured", "published"} => metrics
    /\ pool # "nil" => dbStart = "published"
    /\ crashed = FALSE

\* What the place of Prepare and the gate imply about the store.
GateInv ==
    /\ ready => prepare = "prepared"
    /\ postgres /\ prepare \in {"ensuring", "signaling", "prepared"} => pool # "nil"
    /\ postgres /\ prepare \in {"signaling", "prepared"} => schema
    /\ cleanup = "sweeping" => ready
    /\ warmedUp => swept
    /\ swept /\ postgres => schema

\* What an answer and the outcome of the cleanup job's probe imply.
CheckInv ==
    \A q \in Checks :
        /\ status[q] # 0 => check[q] = "answered"
        /\ outcome[q]["cleanup"] = "ok" => swept
        /\ status[q] = 200 => \A p \in Probers : outcome[q][p] = "ok"

\* What a step of each part leaves alone.
LEMMA Frames ==
  /\ DbStep => DbFrame
  /\ PrepareStep => PrepareFrame
  /\ CleanupStep => UNCHANGED <<postgres, dbVars, startVars, checkVars, crashed>>
  /\ \A q \in Checks : CheckStep(q) => CheckFrame
<1>1. DbStep => DbFrame
  BY DEF DbStep, DbConnectFails, DbConnects, DbInitMetrics, DbPublishes, DbStops
<1>2. PrepareStep => PrepareFrame
  BY DEF PrepareStep, PrepareCall, PrepareSeesPool, PrepareTimesOut, EnsureSchema,
         EnsureSchemaFails, PrepareSignals, HookFails
<1>3. CleanupStep => UNCHANGED <<postgres, dbVars, startVars, checkVars, crashed>>
  BY DEF CleanupStep, RunCalled, GatePasses, GateCanceled, Sweeps, SweepFails,
         CleanupEnds, CleanupMoves
<1>4. \A q \in Checks : CheckStep(q) => CheckFrame
  BY DEF CheckStep, HandleReadyz, ProbeCleanup, ProbeStep, ProbeDb, ProbeOther,
         Returns, Answer, HangsUp
<1> QED
  BY <1>1, <1>2, <1>3, <1>4

StartInv == StartTypes /\ MetricsInv /\ GateInv

RInv == StartInv /\ CheckTypes /\ CheckInv

\* The inductive step for the state that /readyz only reads.
LEMMA StartInvStep == StartInv /\ [RNext]_rvars => StartInv'
<1> SUFFICES ASSUME StartInv, [RNext]_rvars PROVE StartInv'
  OBVIOUS
<1> USE DEF StartInv, StartTypes, MetricsInv, GateInv
<1>1. CASE DbStep
  <2> USE DEF DbFrame, startVars, jobVars
  <2>1. CASE DbConnectFails
    BY <2>1 DEF DbConnectFails
  <2>2. CASE DbConnects
    BY <2>2 DEF DbConnects
  <2>3. CASE DbInitMetrics
    BY <2>3 DEF DbInitMetrics
  <2>4. CASE DbPublishes
    BY <2>4 DEF DbPublishes
  <2>5. CASE DbStops
    BY <2>5 DEF DbStops
  <2> QED
    BY <1>1, <2>1, <2>2, <2>3, <2>4, <2>5 DEF DbStep
<1>2. CASE PrepareStep
  <2> USE DEF PrepareMoves, PrepareFrame, HookFails, jobVars
  <2>1. CASE PrepareCall
    BY <2>1 DEF PrepareCall
  <2>2. CASE PrepareSeesPool
    BY <2>2 DEF PrepareSeesPool
  <2>3. CASE PrepareTimesOut
    BY <2>3 DEF PrepareTimesOut
  <2>4. CASE EnsureSchema
    BY <2>4 DEF EnsureSchema
  <2>5. CASE EnsureSchemaFails
    BY <2>5 DEF EnsureSchemaFails
  <2>6. CASE PrepareSignals
    BY <2>6 DEF PrepareSignals
  <2> QED
    BY <1>2, <2>1, <2>2, <2>3, <2>4, <2>5, <2>6 DEF PrepareStep
<1>3. CASE Shutdown
  BY <1>3 DEF Shutdown, dbVars, jobVars
<1>4. CASE CleanupStep
  <2> USE DEF CleanupMoves, dbVars, startVars
  <2>1. CASE RunCalled
    BY <2>1 DEF RunCalled
  <2>2. CASE GatePasses
    BY <2>2 DEF GatePasses
  <2>3. CASE GateCanceled
    BY <2>3 DEF GateCanceled
  <2>4. CASE Sweeps
    BY <2>4 DEF Sweeps
  <2>5. CASE SweepFails
    BY <2>5 DEF SweepFails
  <2>6. CASE CleanupEnds
    BY <2>6 DEF CleanupEnds
  <2> QED
    BY <1>4, <2>1, <2>2, <2>3, <2>4, <2>5, <2>6 DEF CleanupStep
<1>5. ASSUME NEW q \in Checks, CheckStep(q) PROVE StartInv'
  <2>1. CheckFrame
    BY <1>5, Frames
  <2>2. crashed' = FALSE
    <3>1. CASE ProbeDb(q)
      BY <3>1 DEF ProbeDb
    <3>2. CASE ~ProbeDb(q)
      BY <1>5, <3>2 DEF CheckStep, HandleReadyz, ProbeCleanup, ProbeStep, ProbeOther,
                        Returns, Answer, HangsUp
    <3> QED
      BY <3>1, <3>2
  <2> QED
    BY <2>1, <2>2 DEF CheckFrame, dbVars, startVars, jobVars
<1>6. CASE UNCHANGED rvars
  BY <1>6 DEF rvars, dbVars, startVars, jobVars
<1> QED
  BY <1>1, <1>2, <1>3, <1>4, <1>5, <1>6 DEF RNext

\* The inductive step for the requests of /readyz.
LEMMA CheckInvStep ==
  StartInv /\ CheckTypes /\ CheckInv /\ [RNext]_rvars => CheckTypes' /\ CheckInv'
<1> SUFFICES ASSUME StartInv, CheckTypes, CheckInv, [RNext]_rvars
             PROVE  CheckTypes' /\ CheckInv'
  OBVIOUS
<1> USE DEF CheckTypes, CheckInv
<1>1. ASSUME UNCHANGED <<postgres, checkVars>>, swept => swept'
      PROVE  CheckTypes' /\ CheckInv'
  <2>1. Probers' = Probers
    BY <1>1 DEF Probers
  <2> QED
    BY <1>1, <2>1 DEF checkVars
<1>2. CASE DbStep
  BY <1>1, <1>2, Frames DEF DbFrame, jobVars
<1>3. CASE PrepareStep
  BY <1>1, <1>3, Frames DEF PrepareFrame, jobVars
<1>4. CASE Shutdown
  BY <1>1, <1>4 DEF Shutdown, jobVars
<1>5. CASE CleanupStep
  <2>1. swept => swept'
    BY <1>5 DEF CleanupStep, RunCalled, GatePasses, GateCanceled, Sweeps, SweepFails,
                CleanupEnds
  <2> QED
    BY <1>1, <1>5, <2>1, Frames
<1>6. ASSUME NEW q \in Checks, CheckStep(q) PROVE CheckTypes' /\ CheckInv'
  <2>0. UNCHANGED <<postgres, swept>> /\ Probers' = Probers
    BY <1>6, Frames DEF CheckFrame, jobVars, Probers
  <2>1. CASE HandleReadyz(q)
    BY <2>0, <2>1 DEF HandleReadyz
  <2>2. CASE ProbeCleanup(q)
    <3>1. "cleanup" \in Probers
      BY DEF Probers
    <3>2. warmedUp => swept
      BY DEF StartInv, GateInv
    <3> QED
      BY <2>0, <2>2, <3>1, <3>2 DEF ProbeCleanup, Returns
  <2>3. CASE ProbeDb(q)
    BY <2>0, <2>3 DEF ProbeDb
  <2>4. ASSUME NEW p \in Others, ProbeOther(q, p) PROVE CheckTypes' /\ CheckInv'
    <3>1. p \in Probers /\ p # "cleanup"
      BY OthersAreNew DEF Probers
    <3> QED
      BY <2>0, <2>4, <3>1 DEF ProbeOther, Returns
  <2>5. CASE Answer(q)
    BY <2>0, <2>5 DEF Answer, Probed
  <2>6. CASE HangsUp(q)
    BY <2>0, <2>6 DEF HangsUp
  <2> QED
    BY <1>6, <2>1, <2>2, <2>3, <2>4, <2>5, <2>6 DEF CheckStep, ProbeStep
<1>7. CASE UNCHANGED rvars
  BY <1>1, <1>7 DEF rvars, jobVars
<1> QED
  BY <1>2, <1>3, <1>4, <1>5, <1>6, <1>7 DEF RNext

\* The initial states satisfy the invariant of Readiness.
LEMMA RInvInit == RInit => RInv
<1> SUFFICES ASSUME RInit PROVE RInv
  OBVIOUS
<1>1. StartInv
  BY DEF RInit, StartInv, StartTypes, MetricsInv, GateInv
<1>2. "cleanup" \in Probers
  BY DEF Probers
<1>3. CheckTypes /\ CheckInv
  BY <1>2 DEF RInit, CheckTypes, CheckInv
<1> QED
  BY <1>1, <1>3 DEF RInv

\* The inductive invariant of Readiness.
THEOREM ReadinessInvariant == RSpec => []RInv
<1>1. RInv /\ [RNext]_rvars => RInv'
  BY StartInvStep, CheckInvStep DEF RInv
<1> QED
  BY <1>1, RInvInit, PTL DEF RSpec

\* The state of the service is well formed, whatever backends it has.
THEOREM ReadinessTypes == RSpec => []RTypeOK
<1>1. RInv => RTypeOK
  BY DEF RInv, StartInv, MetricsInv, RTypeOK
<1> QED
  BY <1>1, ReadinessInvariant, PTL

\* /readyz says ready only when every prober answered this request with nil, a sweep
\* was completed and the schema exists, for any number of backends and requests.
THEOREM ReadyMeansUsableHolds == RSpec => []ReadyMeansUsable
<1>1. RInv => ReadyMeansUsable
  BY DEF RInv, StartInv, CheckInv, GateInv, ReadyMeansUsable, Probers
<1> QED
  BY <1>1, ReadinessInvariant, PTL

\* The cleanup job never sweeps before Prepare has seen the pool and made the schema.
THEOREM NoSweepBeforeSchemaHolds == RSpec => []NoSweepBeforeSchema
<1>1. RInv => NoSweepBeforeSchema
  BY DEF RInv, StartInv, GateInv, NoSweepBeforeSchema
<1> QED
  BY <1>1, ReadinessInvariant, PTL

\* No probe of /readyz finds a pool whose histogram is not set yet: Start publishes
\* the pool after initMetrics.
THEOREM ProbesDoNotPanic == RSpec => []~crashed
<1>1. RInv => ~crashed
  BY DEF RInv, StartInv, MetricsInv
<1> QED
  BY <1>1, ReadinessInvariant, PTL
-----------------------------------------------------------------------------
(* The middleware.                                                          *)

\* Unseen, of a writer and a response.
Hidden(w, s) == s.informed \/ s.flushed \/ s.hijacked \/ ~Valid(w.statusCode)

AllParts(s) == \A i \in 1 .. Len(s.body) : s.body[i] = "part"

\* What a writer knows of its response after k calls of the handler.
Agree(w, s, k) ==
    /\ w.size = Len(s.body)
    /\ AllParts(s)
    /\ ~w.wroteHeader => w.statusCode = 200 /\ (Sent(s) => s.flushed)
    /\ ~Hidden(w, s) => (w.wroteHeader <=> Sent(s)) /\ (Sent(s) => w.statusCode = s.status)
    /\ k = 0 => ~w.wroteHeader /\ ~Sent(s) /\ ~Hidden(w, s) /\ s.body = <<>>
    /\ k > 0 /\ ~Hidden(w, s) => w.wroteHeader

\* What holds once the handler is over and a panic recovered.
Settled(w, s) ==
    /\ w.size = Len(s.body)
    /\ AllParts(s) \/ s.status = 500 \/ s.flushed
    /\ ~Hidden(w, s) => w.statusCode = IF Sent(s) THEN s.status ELSE 200

\* The answer to a panic after k calls, g telling whether the client is gone.
Answered(w, s, k, g) ==
    /\ k = 0 => /\ ~Hidden(w, s) /\ s.status = 500
                /\ g \/ s.body = <<"problem">>
    /\ k > 0 /\ ~Hidden(w, s) => AllParts(s)

RequestInv(r) ==
    /\ pc[r] \in {"idle", "entered", "handling"} => panicked[r] = FALSE
    /\ pc[r] = "panicking" => panicked[r] = TRUE
    /\ pc[r] \in {"idle", "entered", "handling", "panicking"} => Agree(rw[r], res[r], calls[r])
    /\ pc[r] \in {"observing", "finishing", "done"} => Settled(rw[r], res[r])
    /\ pc[r] = "done" => Sent(res[r]) \/ Hidden(rw[r], res[r])
    /\ pc[r] \in {"finishing", "done"} => observed[r] = ObservedOf(r)
    /\ Recovered(r) => Answered(rw[r], res[r], calls[r], gone[r])

\* WriteHeader returns a writer.
LEMMA HeaderType ==
  ASSUME NEW w \in Writers, NEW c \in Int PROVE WriteHeader(w, c) \in Writers
  BY DEF WriteHeader, Writers

\* Write returns a writer.
LEMMA WriteType ==
  ASSUME NEW w \in Writers, NEW n \in {0, 1} PROVE Write(w, n) \in Writers
<1>1. w.size + n \in Nat
  BY DEF Writers
<1> QED
  BY <1>1 DEF Write, Writers

\* net/http's WriteHeader returns a response.
LEMMA NetHeaderType ==
  ASSUME NEW s \in Responses, NEW c \in Int PROVE NetWriteHeader(s, c) \in Responses
  BY DEF NetWriteHeader, Responses

\* Sending the header returns a response.
LEMMA NetFlushType ==
  ASSUME NEW s \in Responses PROVE NetFlush(s) \in Responses
  BY NetHeaderType DEF NetFlush

\* net/http's Write returns a response.
LEMMA NetWriteType ==
  ASSUME NEW s \in Responses, NEW n \in {0, 1}, NEW part \in {"part", "problem"}
  PROVE  NetWrite(s, part, n) \in Responses
<1>1. NetFlush(s) \in Responses
  BY NetFlushType
<1>2. Append(NetFlush(s).body, part) \in Seq({"part", "problem"})
  BY <1>1 DEF Responses
<1> QED
  BY <1>1, <1>2 DEF NetWrite, Responses

\* What NetFlush and NetWrite do to a response.
LEMMA NetFacts ==
  ASSUME NEW s \in Responses
  PROVE  /\ NetFlush(s).body = s.body
         /\ NetFlush(s).informed = s.informed /\ NetFlush(s).flushed = s.flushed
         /\ NetFlush(s).hijacked = s.hijacked
         /\ NetFlush(s).status = IF s.hijacked \/ Sent(s) THEN s.status ELSE 200
  BY DEF NetFlush, NetWriteHeader, Responses, Valid, Informational, Sent

\* What net/http's WriteHeader does to a response.
LEMMA HeaderFacts ==
  ASSUME NEW s \in Responses, NEW c \in Int
  PROVE  LET t == NetWriteHeader(s, c) IN
         /\ t.body = s.body /\ t.flushed = s.flushed /\ t.hijacked = s.hijacked
         /\ s.informed => t.informed
         /\ t.status = IF s.hijacked \/ Sent(s) \/ ~Valid(c) \/ Informational(c)
                       THEN s.status ELSE c
         /\ ~s.hijacked /\ ~Sent(s) /\ Valid(c) /\ Informational(c) => t.informed
         /\ s.hijacked \/ Sent(s) \/ ~Valid(c) \/ ~Informational(c) => t.informed = s.informed
  BY DEF NetWriteHeader, Responses

\* What net/http's Write does to a response.
LEMMA WriteFacts ==
  ASSUME NEW s \in Responses, NEW n \in {0, 1}, NEW part \in {"part", "problem"}
  PROVE  LET t == NetWrite(s, part, n) IN
         /\ t.status = NetFlush(s).status
         /\ t.informed = s.informed /\ t.flushed = s.flushed /\ t.hijacked = s.hijacked
         /\ n = 0 => t.body = s.body
         /\ n = 1 => t.body = Append(s.body, part)
         /\ Len(t.body) = Len(s.body) + n
<1>1. NetFlush(s) \in Responses
  BY NetFlushType
<1> QED
  BY <1>1, NetFacts DEF NetWrite, Responses

\* What the wrapper notes of a Write.
LEMMA WriteNotes ==
  ASSUME NEW w \in Writers, NEW n \in {0, 1}
  PROVE  /\ Write(w, n).statusCode = w.statusCode /\ Write(w, n).size = w.size + n
         /\ Write(w, n).wroteHeader = TRUE
  BY DEF Write, Writers

\* What the wrapper notes of a WriteHeader: the first code only.
LEMMA HeaderNotes ==
  ASSUME NEW w \in Writers, NEW c \in Int
  PROVE  /\ WriteHeader(w, c).size = w.size /\ WriteHeader(w, c).wroteHeader = TRUE
         /\ w.wroteHeader => WriteHeader(w, c).statusCode = w.statusCode
         /\ ~w.wroteHeader => WriteHeader(w, c).statusCode = c
<1>1. CASE w.wroteHeader
  BY <1>1 DEF WriteHeader, Writers
<1>2. CASE ~w.wroteHeader
  BY <1>2 DEF WriteHeader, Writers
<1> QED
  BY <1>1, <1>2

\* WriteHeader keeps writer and response in agreement.
LEMMA AgreeHeader ==
  ASSUME NEW w \in Writers, NEW s \in Responses, NEW k \in Nat, NEW c \in Int, Agree(w, s, k)
  PROVE  Agree(WriteHeader(w, c), NetWriteHeader(s, c), k + 1)
<1> DEFINE v == WriteHeader(w, c)
           t == NetWriteHeader(s, c)
<1>1. /\ v.size = w.size /\ v.wroteHeader = TRUE
      /\ w.wroteHeader => v.statusCode = w.statusCode
      /\ ~w.wroteHeader => v.statusCode = c
  BY HeaderNotes
<1>2. /\ t.body = s.body /\ t.flushed = s.flushed /\ t.hijacked = s.hijacked
      /\ s.informed => t.informed
      /\ t.status = IF s.hijacked \/ Sent(s) \/ ~Valid(c) \/ Informational(c)
                    THEN s.status ELSE c
      /\ ~s.hijacked /\ ~Sent(s) /\ Valid(c) /\ Informational(c) => t.informed
  BY HeaderFacts
<1>3. Valid(c) => c # 0
  BY DEF Valid
<1> HIDE DEF v, t
<1>4. v.size = Len(t.body) /\ AllParts(t)
  BY <1>1, <1>2 DEF Agree, AllParts
<1>5. ~Hidden(v, t) => Sent(t) /\ v.statusCode = t.status
  <2> SUFFICES ASSUME ~Hidden(v, t) PROVE Sent(t) /\ v.statusCode = t.status
    OBVIOUS
  <2>1. CASE w.wroteHeader
    BY <1>1, <1>2, <2>1 DEF Agree, Hidden, Sent
  <2>2. CASE ~w.wroteHeader
    <3>1. v.statusCode = c /\ Valid(c) /\ ~t.informed /\ ~s.hijacked /\ ~s.flushed
      BY <1>1, <1>2, <2>2 DEF Hidden
    <3>2. ~Sent(s)
      BY <2>2, <3>1 DEF Agree
    <3>3. t.status = c
      BY <1>2, <3>1, <3>2
    <3> QED
      BY <1>3, <3>1, <3>3 DEF Sent
  <2> QED
    BY <2>1, <2>2
<1>6. Agree(v, t, k + 1)
  BY <1>1, <1>4, <1>5 DEF Agree
<1> QED
  BY <1>6 DEF v, t

\* Write keeps writer and response in agreement.
LEMMA AgreeWrite ==
  ASSUME NEW w \in Writers, NEW s \in Responses, NEW k \in Nat, NEW n \in {0, 1},
         Agree(w, s, k)
  PROVE  Agree(Write(w, n), NetWrite(s, "part", n), k + 1)
<1> DEFINE v == Write(w, n)
           t == NetWrite(s, "part", n)
<1>1. v.statusCode = w.statusCode /\ v.size = w.size + n /\ v.wroteHeader = TRUE
  BY WriteNotes
<1>2. /\ t.informed = s.informed /\ t.flushed = s.flushed /\ t.hijacked = s.hijacked
      /\ n = 0 => t.body = s.body
      /\ n = 1 => t.body = Append(s.body, "part")
      /\ Len(t.body) = Len(s.body) + n
      /\ t.status = IF s.hijacked \/ Sent(s) THEN s.status ELSE 200
  BY WriteFacts, NetFacts
<1>3. s.body \in Seq({"part", "problem"})
  BY DEF Responses
<1> HIDE DEF v, t
<1>4. v.size = Len(t.body) /\ AllParts(t)
  <2>1. CASE n = 0
    BY <1>1, <1>2, <2>1 DEF Agree, AllParts, Writers
  <2>2. CASE n = 1
    BY <1>1, <1>2, <1>3, <2>2 DEF Agree, AllParts
  <2> QED
    BY <2>1, <2>2
<1>5. ~Hidden(v, t) => Sent(t) /\ v.statusCode = t.status
  BY <1>1, <1>2 DEF Agree, Hidden, Sent
<1>6. Agree(v, t, k + 1)
  BY <1>1, <1>4, <1>5 DEF Agree
<1> QED
  BY <1>6 DEF v, t

\* Flush and Hijack bypass the writer, but are hidden from it.
LEMMA AgreeBypass ==
  ASSUME NEW w \in Writers, NEW s \in Responses, NEW k \in Nat, Agree(w, s, k)
  PROVE  /\ Agree(w, [NetFlush(s) EXCEPT !.flushed = @ \/ ~Sent(s)], k + 1)
         /\ Agree(w, [s EXCEPT !.hijacked = TRUE], k + 1)
<1>1. Agree(w, [NetFlush(s) EXCEPT !.flushed = @ \/ ~Sent(s)], k + 1)
  <2> DEFINE t == [NetFlush(s) EXCEPT !.flushed = @ \/ ~Sent(s)]
  <2>1. NetFlush(s) \in Responses
    BY NetFlushType
  <2>2. /\ t.body = s.body /\ t.informed = s.informed /\ t.hijacked = s.hijacked
        /\ t.status = IF s.hijacked \/ Sent(s) THEN s.status ELSE 200
        /\ t.flushed <=> s.flushed \/ ~Sent(s)
    BY <2>1, NetFacts DEF Responses
  <2> HIDE DEF t
  <2>3. Agree(w, t, k + 1)
    BY <2>2 DEF Agree, AllParts, Hidden, Sent
  <2> QED
    BY <2>3 DEF t
<1>2. Agree(w, [s EXCEPT !.hijacked = TRUE], k + 1)
  <2> DEFINE t == [s EXCEPT !.hijacked = TRUE]
  <2>1. /\ t.body = s.body /\ t.status = s.status /\ t.flushed = s.flushed
        /\ t.hijacked = TRUE
    BY DEF Responses
  <2> HIDE DEF t
  <2>2. Agree(w, t, k + 1)
    BY <2>1 DEF Agree, AllParts, Hidden, Sent
  <2> QED
    BY <2>2 DEF t
<1> QED
  BY <1>1, <1>2

\* The writer and the response of a handler that returned, or panicked after it had
\* begun its response.
LEMMA AgreeSettles ==
  ASSUME NEW w \in Writers, NEW s \in Responses, NEW k \in Nat, NEW g, Agree(w, s, k)
  PROVE  Settled(w, s) /\ (w.wroteHeader => Answered(w, s, k, g))
  BY DEF Agree, Settled, Answered, AllParts

\* WriteProblem answers a panic of a handler that had not begun its response.
LEMMA ProblemSettles ==
  ASSUME TypeOK, NEW r \in Requests, NEW n \in {0, 1},
         Agree(rw[r], res[r], calls[r]), ~rw[r].wroteHeader, res[r].hijacked => n = 0,
         rw'[r] = WriteProblem(rw[r], n),
         res'[r] = NetWrite(NetWriteHeader(res[r], 500), "problem", n)
  PROVE  /\ Settled(rw'[r], res'[r])
         /\ calls[r] > 0 => Hidden(rw'[r], res'[r])
         /\ calls[r] = 0 => /\ ~Hidden(rw'[r], res'[r]) /\ res'[r].status = 500
                            /\ n = 1 => res'[r].body = <<"problem">>
<1> DEFINE w == rw[r]
           s == res[r]
           k == calls[r]
           v == WriteProblem(w, n)
           u == NetWriteHeader(s, 500)
           t == NetWrite(u, "problem", n)
<1>a. /\ w \in Writers /\ s \in Responses /\ k \in Nat
      /\ Agree(w, s, k) /\ ~w.wroteHeader /\ (s.hijacked => n = 0)
  BY MaxCallsType DEF TypeOK
<1>b. rw'[r] = v /\ res'[r] = t
  OBVIOUS
<1> HIDE DEF w, s, k
<1>0. u \in Responses /\ WriteHeader(w, 500) \in Writers
  BY <1>a, HeaderType, NetHeaderType
<1>1. v.statusCode = 500 /\ v.size = w.size + n
  <2> DEFINE h == WriteHeader(w, 500)
  <2>1. h.statusCode = 500 /\ h.size = w.size
    BY <1>a DEF WriteHeader, Writers
  <2>2. h \in Writers
    BY <1>0
  <2> HIDE DEF h
  <2>3. Write(h, n).statusCode = 500 /\ Write(h, n).size = w.size + n
    BY <2>1, <2>2 DEF Write, Writers
  <2> QED
    BY <2>3 DEF WriteProblem, h
<1>2. /\ u.body = s.body /\ u.informed = s.informed /\ u.flushed = s.flushed
      /\ u.hijacked = s.hijacked
      /\ u.status = IF s.hijacked \/ Sent(s) THEN s.status ELSE 500
  BY <1>a, HeaderFacts DEF Valid, Informational
<1> HIDE DEF u, v
<1>3. /\ t.informed = s.informed /\ t.flushed = s.flushed /\ t.hijacked = s.hijacked
      /\ n = 0 => t.body = s.body
      /\ n = 1 => t.body = Append(s.body, "problem")
      /\ Len(t.body) = Len(s.body) + n
      /\ t.status = IF s.hijacked \/ Sent(s) THEN u.status ELSE 500
  BY <1>0, <1>2, WriteFacts, NetFacts DEF Sent
<1>4. s.body \in Seq({"part", "problem"})
  BY <1>a DEF Responses
<1> HIDE DEF t
<1>5. Valid(500) /\ Valid(200)
  BY DEF Valid
<1>6. Settled(v, t)
  <2>1. AllParts(t) \/ t.status = 500 \/ t.flushed
    BY <1>a, <1>3, <1>4 DEF Agree, AllParts
  <2>2. ~Hidden(v, t) => Sent(t) /\ v.statusCode = t.status
    BY <1>a, <1>1, <1>3 DEF Agree, Hidden, Sent
  <2> QED
    BY <1>a, <1>1, <1>3, <2>1, <2>2 DEF Agree, Settled
<1>7. k > 0 => Hidden(v, t)
  BY <1>a, <1>1, <1>3, <1>5 DEF Agree, Hidden
<1>8. k = 0 => ~Hidden(v, t) /\ t.status = 500 /\ (n = 1 => t.body = <<"problem">>)
  BY <1>a, <1>1, <1>3, <1>5 DEF Agree, Hidden
<1> QED
  BY <1>b, <1>6, <1>7, <1>8 DEF k

\* net/http ends a settled response.
LEMMA EndSettles ==
  ASSUME NEW w \in Writers, NEW s \in Responses, NEW k \in Nat, NEW g,
         Settled(w, s)
  PROVE  /\ Settled(w, NetFlush(s)) /\ (Sent(NetFlush(s)) \/ Hidden(w, NetFlush(s)))
         /\ Answered(w, s, k, g) => Answered(w, NetFlush(s), k, g)
<1> DEFINE t == NetFlush(s)
<1>1. /\ t.body = s.body /\ t.informed = s.informed /\ t.flushed = s.flushed
      /\ t.hijacked = s.hijacked
      /\ t.status = IF s.hijacked \/ Sent(s) THEN s.status ELSE 200
  BY NetFacts
<1> HIDE DEF t
<1>2. Settled(w, t) /\ (Sent(t) \/ Hidden(w, t))
  BY <1>1 DEF Settled, AllParts, Hidden, Sent
<1>3. Answered(w, s, k, g) => Answered(w, t, k, g)
  BY <1>1 DEF Answered, AllParts, Hidden, Sent
<1> QED
  BY <1>2, <1>3 DEF t

\* A write hands on all of its part or nothing.
LEMMA OutcomesType ==
  ASSUME NEW r, NEW s PROVE Outcomes(r, s) \subseteq {0, 1}
  BY DEF Outcomes

\* The inductive step of the type invariant.
LEMMA TypeStep == TypeOK /\ [Next]_vars => TypeOK'
<1> SUFFICES ASSUME TypeOK, [Next]_vars PROVE TypeOK'
  OBVIOUS
<1> USE DEF TypeOK, muxVars, metricVars
<1>1. ASSUME NEW r \in Requests, NEW w \in Writers, NEW s \in Responses, Call(r, w, s),
             pc' \in [Requests -> {"idle", "entered", "handling", "panicking",
                                   "observing", "finishing", "done"}],
             panicked' \in [Requests -> BOOLEAN]
      PROVE  TypeOK'
  <2>1. calls' \in [Requests -> 0 .. MaxCalls]
    BY <1>1, MaxCallsType DEF Call
  <2> QED
    BY <1>1, <2>1 DEF Call
<1>2. ASSUME NEW r \in Requests, HandlerStep(r) PROVE TypeOK'
  <2>0. rw[r] \in Writers /\ res[r] \in Responses
    OBVIOUS
  <2>1. ASSUME NEW c \in Codes, CallWriteHeader(r, c) PROVE TypeOK'
    <3>1. WriteHeader(rw[r], c) \in Writers /\ NetWriteHeader(res[r], c) \in Responses
      BY <2>0, HeaderType, NetHeaderType, CodesAreInts
    <3>2. panicked' \in [Requests -> BOOLEAN]
      BY <2>1 DEF CallWriteHeader
    <3>3. pc' \in [Requests -> {"idle", "entered", "handling", "panicking",
                                "observing", "finishing", "done"}]
      BY <2>1 DEF CallWriteHeader
    <3> QED
      BY <1>1, <2>1, <3>1, <3>2, <3>3 DEF CallWriteHeader
  <2>2. CASE CallWrite(r)
    <3>1. PICK n \in Outcomes(r, res[r]) :
             Call(r, Write(rw[r], n), NetWrite(res[r], "part", n))
      BY <2>2 DEF CallWrite
    <3>0. n \in {0, 1}
      BY OutcomesType
    <3>2. Write(rw[r], n) \in Writers /\ NetWrite(res[r], "part", n) \in Responses
      BY <2>0, <3>0, WriteType, NetWriteType
    <3> QED
      BY <1>1, <2>2, <3>1, <3>2 DEF CallWrite
  <2>3. CASE CallFlush(r)
    <3>1. NetFlush(res[r]) \in Responses
      BY <2>0, NetFlushType
    <3>2. [NetFlush(res[r]) EXCEPT !.flushed = @ \/ ~Sent(res[r])] \in Responses
      BY <3>1 DEF Responses
    <3> QED
      BY <1>1, <2>0, <2>3, <3>2 DEF CallFlush
  <2>4. CASE CallHijack(r)
    <3>1. [res[r] EXCEPT !.hijacked = TRUE] \in Responses
      BY <2>0 DEF Responses
    <3> QED
      BY <1>1, <2>0, <2>4, <3>1 DEF CallHijack
  <2>5. CASE HandlerReturns(r)
    BY <2>5 DEF HandlerReturns, Moves
  <2>6. CASE HandlerPanics(r)
    BY <2>6 DEF HandlerPanics, Moves
  <2> QED
    BY <1>2, <2>1, <2>2, <2>3, <2>4, <2>5, <2>6 DEF HandlerStep
<1>3. ASSUME NEW r \in Requests, Enter(r) PROVE TypeOK'
  BY <1>3 DEF Enter, Moves
<1>4. ASSUME NEW r \in Requests, Route(r) PROVE TypeOK'
  BY <1>4 DEF Route, Moves
<1>5. ASSUME NEW r \in Requests, Recover(r) PROVE TypeOK'
  <2>0. rw[r] \in Writers /\ res[r] \in Responses
    OBVIOUS
  <2>1. rw' \in [Requests -> Writers] /\ res' \in [Requests -> Responses]
    <3>1. CASE rw[r].wroteHeader
      BY <1>5, <3>1 DEF Recover
    <3>2. CASE ~rw[r].wroteHeader
      <4> DEFINE s == NetWriteHeader(res[r], 500)
      <4>1. s \in Responses /\ WriteHeader(rw[r], 500) \in Writers
        BY <2>0, HeaderType, NetHeaderType
      <4>2. PICK n \in Outcomes(r, s) :
               /\ rw' = [rw EXCEPT ![r] = WriteProblem(@, n)]
               /\ res' = [res EXCEPT ![r] = NetWrite(s, "problem", n)]
        BY <1>5, <3>2 DEF Recover
      <4> HIDE DEF s
      <4>0. n \in {0, 1}
        BY OutcomesType
      <4>3. NetWrite(s, "problem", n) \in Responses /\ WriteProblem(rw[r], n) \in Writers
        BY <4>0, <4>1, WriteType, NetWriteType DEF WriteProblem
      <4> QED
        BY <4>2, <4>3
    <3> QED
      BY <3>1, <3>2
  <2>2. /\ Moves(r, "panicking", "observing")
        /\ panics' = [panics EXCEPT ![pattern[r]] = @ + 1]
        /\ UNCHANGED <<muxVars, inflight, observed, calls, panicked, gone>>
    BY <1>5 DEF Recover
  <2> QED
    BY <2>1, <2>2 DEF Moves
<1>6. ASSUME NEW r \in Requests, Observe(r) PROVE TypeOK'
  <2>1. ObservedOf(r) \in Seq([handler : Labels, code : Int, size : Nat])
    BY DEF ObservedOf, Writers
  <2> QED
    BY <1>6, <2>1 DEF Observe, Moves
<1>7. ASSUME NEW r \in Requests, Finish(r) PROVE TypeOK'
  <2>1. NetFlush(res[r]) \in Responses
    BY NetFlushType
  <2> QED
    BY <1>7, <2>1 DEF Finish, Moves
<1>8. ASSUME NEW r \in Requests, ClientGone(r) PROVE TypeOK'
  BY <1>8 DEF ClientGone
<1>9. CASE UNCHANGED vars
  BY <1>9 DEF vars
<1> QED
  BY <1>2, <1>3, <1>4, <1>5, <1>6, <1>7, <1>8, <1>9 DEF Next, ServerStep

Active == {"entered", "handling", "panicking", "observing"}

\* The inductive step of InflightMatches: only Enter and Observe change who is in
\* progress, and each changes the gauge of the same label by one.
LEMMA InflightStep == TypeOK /\ InflightMatches /\ [Next]_vars => InflightMatches'
<1> SUFFICES ASSUME TypeOK, InflightMatches, [Next]_vars, NEW l \in Labels
             PROVE  inflight'[l] = Cardinality(InProgress(l)')
  BY DEF InflightMatches
<1>0. inflight[l] = Cardinality(InProgress(l)) /\ IsFiniteSet(InProgress(l))
  <2>1. InProgress(l) \subseteq Requests
    BY DEF InProgress
  <2> QED
    BY <2>1, RequestsFinite, FS_Subset DEF InflightMatches
<1>a. InProgress(l) = {q \in Requests : pc[q] \in Active /\ inflightPattern[q] = l}
  BY DEF InProgress, Active
<1>b. InProgress(l)' = {q \in Requests : pc'[q] \in Active /\ inflightPattern'[q] = l}
  BY DEF InProgress, Active
<1>1. ASSUME NEW r \in Requests, Enter(r) PROVE inflight'[l] = Cardinality(InProgress(l)')
  <2>1. /\ pc[r] = "idle" /\ pc' = [pc EXCEPT ![r] = "entered"]
        /\ inflightPattern' = [inflightPattern EXCEPT ![r] = pattern[r]]
        /\ inflight' = [inflight EXCEPT ![pattern[r]] = @ + 1]
    BY <1>1 DEF Enter, Moves
  <2>2. r \notin InProgress(l)
    BY <1>a, <2>1 DEF Active
  <2>3. CASE pattern[r] = l
    <3>1. InProgress(l)' = InProgress(l) \cup {r}
      BY <1>a, <1>b, <2>1, <2>3 DEF TypeOK, Active
    <3>2. Cardinality(InProgress(l) \cup {r}) = Cardinality(InProgress(l)) + 1
      BY <1>0, <2>2, FS_AddElement
    <3>3. inflight'[l] = inflight[l] + 1
      BY <2>1, <2>3 DEF TypeOK
    <3> QED
      BY <1>0, <3>1, <3>2, <3>3
  <2>4. CASE pattern[r] # l
    <3>1. InProgress(l)' = InProgress(l)
      BY <1>a, <1>b, <2>1, <2>4 DEF TypeOK, Active
    <3>2. inflight'[l] = inflight[l]
      BY <2>1, <2>4 DEF TypeOK
    <3> QED
      BY <1>0, <3>1, <3>2
  <2> QED
    BY <2>3, <2>4
<1>2. ASSUME NEW r \in Requests, Observe(r) PROVE inflight'[l] = Cardinality(InProgress(l)')
  <2>1. /\ pc[r] = "observing" /\ pc' = [pc EXCEPT ![r] = "finishing"]
        /\ inflightPattern' = inflightPattern
        /\ inflight' = [inflight EXCEPT ![inflightPattern[r]] = @ - 1]
    BY <1>2 DEF Observe, Moves, muxVars
  <2>2. CASE inflightPattern[r] = l
    <3>1. InProgress(l)' = InProgress(l) \ {r}
      BY <1>a, <1>b, <2>1, <2>2 DEF TypeOK, Active
    <3>2. r \in InProgress(l)
      BY <1>a, <2>1, <2>2 DEF Active
    <3>3. Cardinality(InProgress(l) \ {r}) = Cardinality(InProgress(l)) - 1
      BY <1>0, <3>2, FS_RemoveElement
    <3>4. inflight'[l] = inflight[l] - 1
      BY <2>1, <2>2 DEF TypeOK
    <3> QED
      BY <1>0, <3>1, <3>3, <3>4
  <2>3. CASE inflightPattern[r] # l
    <3>1. InProgress(l)' = InProgress(l)
      BY <1>a, <1>b, <2>1, <2>3 DEF TypeOK, Active
    <3>2. inflight'[l] = inflight[l]
      BY <2>1, <2>3 DEF TypeOK
    <3> QED
      BY <1>0, <3>1, <3>2
  <2> QED
    BY <2>2, <2>3
<1>3. ASSUME UNCHANGED <<inflight, inflightPattern>>,
             \A q \in Requests : pc[q] \in Active <=> pc'[q] \in Active
      PROVE  inflight'[l] = Cardinality(InProgress(l)')
  <2>1. InProgress(l)' = InProgress(l)
    BY <1>a, <1>b, <1>3
  <2> QED
    BY <1>0, <1>3, <2>1
<1>4. ASSUME NEW r \in Requests, HandlerStep(r)
      PROVE  inflight'[l] = Cardinality(InProgress(l)')
  <2>1. UNCHANGED <<inflight, inflightPattern>>
    BY <1>4 DEF HandlerStep, CallWriteHeader, CallWrite, CallFlush, CallHijack, Call,
                HandlerReturns, HandlerPanics, muxVars, metricVars
  <2>2. /\ pc[r] = "handling"
        /\ \/ pc' = pc
           \/ pc' = [pc EXCEPT ![r] = "panicking"] \/ pc' = [pc EXCEPT ![r] = "observing"]
    BY <1>4 DEF HandlerStep, CallWriteHeader, CallWrite, CallFlush, CallHijack, Call,
                HandlerReturns, HandlerPanics, Moves
  <2> QED
    BY <1>3, <2>1, <2>2 DEF TypeOK, Active
<1>5. ASSUME NEW r \in Requests, Route(r) PROVE inflight'[l] = Cardinality(InProgress(l)')
  BY <1>3, <1>5 DEF Route, Moves, metricVars, TypeOK, Active
<1>6. ASSUME NEW r \in Requests, Recover(r) PROVE inflight'[l] = Cardinality(InProgress(l)')
  <2>1. Moves(r, "panicking", "observing") /\ UNCHANGED <<muxVars, inflight>>
    BY <1>6 DEF Recover
  <2> QED
    BY <1>3, <2>1 DEF Moves, muxVars, TypeOK, Active
<1>7. ASSUME NEW r \in Requests, Finish(r) PROVE inflight'[l] = Cardinality(InProgress(l)')
  BY <1>3, <1>7 DEF Finish, Moves, muxVars, metricVars, TypeOK, Active
<1>8. ASSUME NEW r \in Requests, ClientGone(r)
      PROVE  inflight'[l] = Cardinality(InProgress(l)')
  BY <1>3, <1>8 DEF ClientGone, muxVars, metricVars
<1>9. CASE UNCHANGED vars
  BY <1>3, <1>9 DEF vars
<1> QED
  BY <1>1, <1>2, <1>4, <1>5, <1>6, <1>7, <1>8, <1>9 DEF Next, ServerStep

\* A request that a step does not touch keeps its invariant.
LEMMA Untouched ==
  ASSUME NEW q, RequestInv(q),
         pc'[q] = pc[q], panicked'[q] = panicked[q], rw'[q] = rw[q], res'[q] = res[q],
         calls'[q] = calls[q], gone'[q] = gone[q], observed'[q] = observed[q],
         pattern'[q] = pattern[q]
  PROVE  RequestInv(q)'
<1>1. ObservedOf(q)' = ObservedOf(q) /\ (Recovered(q)' <=> Recovered(q))
  BY DEF ObservedOf, Recovered
<1> QED
  BY <1>1 DEF RequestInv

\* A step of one request touches no other.
LEMMA OneRequest ==
  ASSUME TypeOK, NEW r \in Requests, NEW q \in Requests, q # r,
         ServerStep(r) \/ HandlerStep(r) \/ ClientGone(r)
  PROVE  /\ pc'[q] = pc[q] /\ panicked'[q] = panicked[q] /\ rw'[q] = rw[q]
         /\ res'[q] = res[q] /\ calls'[q] = calls[q] /\ gone'[q] = gone[q]
         /\ observed'[q] = observed[q] /\ pattern'[q] = pattern[q]
<1> USE DEF TypeOK, muxVars, metricVars, Moves
<1>1. CASE HandlerStep(r)
  <2>1. pattern'[q] = pattern[q] /\ observed'[q] = observed[q] /\ gone'[q] = gone[q]
    BY <1>1 DEF HandlerStep, CallWriteHeader, CallWrite, CallFlush, CallHijack, Call,
                HandlerReturns, HandlerPanics
  <2>2. calls'[q] = calls[q] /\ rw'[q] = rw[q] /\ res'[q] = res[q]
    BY <1>1 DEF HandlerStep, CallWriteHeader, CallWrite, CallFlush, CallHijack, Call,
                HandlerReturns, HandlerPanics
  <2>3. pc'[q] = pc[q] /\ panicked'[q] = panicked[q]
    BY <1>1 DEF HandlerStep, CallWriteHeader, CallWrite, CallFlush, CallHijack,
                HandlerReturns, HandlerPanics
  <2> QED
    BY <2>1, <2>2, <2>3
<1>2. CASE Enter(r)
  BY <1>2 DEF Enter
<1>3. CASE Route(r)
  BY <1>3 DEF Route
<1>4. CASE Recover(r)
  BY <1>4 DEF Recover
<1>5. CASE Observe(r)
  BY <1>5 DEF Observe
<1>6. CASE Finish(r)
  BY <1>6 DEF Finish
<1>7. CASE ClientGone(r)
  BY <1>7 DEF ClientGone
<1> QED
  BY <1>1, <1>2, <1>3, <1>4, <1>5, <1>6, <1>7 DEF ServerStep

\* The steps of the handler keep the invariant of its request.
LEMMA HandlerInv ==
  ASSUME TypeOK, NEW r \in Requests, RequestInv(r), HandlerStep(r)
  PROVE  RequestInv(r)'
<1>0. /\ rw[r] \in Writers /\ res[r] \in Responses /\ calls[r] \in Nat
      /\ pc[r] = "handling" /\ panicked[r] = FALSE /\ Agree(rw[r], res[r], calls[r])
  <2>1. pc[r] = "handling"
    BY DEF HandlerStep, CallWriteHeader, CallWrite, CallFlush, CallHijack, Call,
           HandlerReturns, HandlerPanics, Moves
  <2>2. calls[r] \in Nat
    BY MaxCallsType DEF TypeOK
  <2> QED
    BY <2>1, <2>2 DEF TypeOK, RequestInv
<1>1. ASSUME NEW w, NEW s, Call(r, w, s), Agree(w, s, calls[r] + 1),
             \/ pc' = pc /\ panicked'[r] = FALSE
             \/ pc' = [pc EXCEPT ![r] = "panicking"] /\ panicked'[r] = TRUE
      PROVE  RequestInv(r)'
  <2>1. rw'[r] = w /\ res'[r] = s /\ calls'[r] = calls[r] + 1
    BY <1>1 DEF Call, TypeOK
  <2>2. \/ pc'[r] = "handling" /\ panicked'[r] = FALSE
        \/ pc'[r] = "panicking" /\ panicked'[r] = TRUE
    BY <1>0, <1>1 DEF TypeOK
  <2>3. ~Recovered(r)'
    BY <2>2 DEF Recovered
  <2> QED
    BY <1>1, <2>1, <2>2, <2>3 DEF RequestInv
<1>2. ASSUME NEW c \in Codes, CallWriteHeader(r, c) PROVE RequestInv(r)'
  <2>1. Agree(WriteHeader(rw[r], c), NetWriteHeader(res[r], c), calls[r] + 1)
    BY <1>0, AgreeHeader, CodesAreInts
  <2>2. pc' = pc \/ pc' = [pc EXCEPT ![r] = "panicking"]
    BY <1>2 DEF CallWriteHeader
  <2>3. panicked'[r] = (pc'[r] = "panicking")
    BY <1>2 DEF CallWriteHeader, TypeOK
  <2>5. /\ pc' = pc => panicked'[r] = FALSE
        /\ pc' = [pc EXCEPT ![r] = "panicking"] => panicked'[r] = TRUE
    BY <1>0, <2>3 DEF TypeOK
  <2>4. Call(r, WriteHeader(rw[r], c), NetWriteHeader(res[r], c))
    BY <1>2 DEF CallWriteHeader
  <2> QED
    BY <1>1, <2>1, <2>2, <2>4, <2>5
<1>3. CASE CallWrite(r)
  <2>1. PICK n \in Outcomes(r, res[r]) :
           Call(r, Write(rw[r], n), NetWrite(res[r], "part", n))
    BY <1>3 DEF CallWrite
  <2>2. n \in {0, 1}
    BY OutcomesType
  <2>3. Agree(Write(rw[r], n), NetWrite(res[r], "part", n), calls[r] + 1)
    BY <1>0, <2>2, AgreeWrite
  <2> QED
    BY <1>0, <1>1, <1>3, <2>1, <2>3 DEF CallWrite
<1>4. CASE CallFlush(r)
  <2>1. Agree(rw[r], [NetFlush(res[r]) EXCEPT !.flushed = @ \/ ~Sent(res[r])], calls[r] + 1)
    BY <1>0, AgreeBypass
  <2> QED
    BY <1>0, <1>1, <1>4, <2>1 DEF CallFlush
<1>5. CASE CallHijack(r)
  <2>1. Agree(rw[r], [res[r] EXCEPT !.hijacked = TRUE], calls[r] + 1)
    BY <1>0, AgreeBypass
  <2> QED
    BY <1>0, <1>1, <1>5, <2>1 DEF CallHijack
<1>6. CASE HandlerReturns(r)
  <2>1. pc'[r] = "observing" /\ UNCHANGED <<rw, res, panicked>>
    BY <1>6 DEF HandlerReturns, Moves, TypeOK
  <2>2. Settled(rw[r], res[r])
    BY <1>0, AgreeSettles
  <2> QED
    BY <1>0, <2>1, <2>2 DEF RequestInv, Recovered
<1>7. CASE HandlerPanics(r)
  <2>1. pc'[r] = "panicking" /\ panicked'[r] = TRUE /\ UNCHANGED <<rw, res, calls>>
    BY <1>7 DEF HandlerPanics, Moves, TypeOK
  <2> QED
    BY <1>0, <2>1 DEF RequestInv, Recovered
<1> QED
  BY <1>2, <1>3, <1>4, <1>5, <1>6, <1>7 DEF HandlerStep

\* The steps of the middleware and of net/http keep the invariant of their request.
LEMMA ServerInv ==
  ASSUME TypeOK, NEW r \in Requests, RequestInv(r), ServerStep(r) \/ ClientGone(r)
  PROVE  RequestInv(r)'
<1>0. /\ rw[r] \in Writers /\ res[r] \in Responses /\ gone[r] \in BOOLEAN
      /\ calls[r] \in Nat
  BY MaxCallsType DEF TypeOK
<1> USE DEF muxVars, metricVars, Moves
<1>1. CASE Enter(r)
  BY <1>1 DEF Enter, TypeOK, RequestInv, Recovered
<1>2. CASE Route(r)
  BY <1>2 DEF Route, TypeOK, RequestInv, Recovered
<1>3. CASE Recover(r)
  <2>1. /\ pc[r] = "panicking" /\ pc'[r] = "observing"
        /\ UNCHANGED <<calls, panicked, gone>>
    BY <1>3 DEF Recover, TypeOK
  <2>2. Agree(rw[r], res[r], calls[r])
    BY <2>1 DEF RequestInv
  <2>3. Settled(rw'[r], res'[r]) /\ Answered(rw'[r], res'[r], calls[r], gone[r])
    <3>1. CASE rw[r].wroteHeader
      <4>1. UNCHANGED <<rw, res>>
        BY <1>3, <3>1 DEF Recover
      <4> QED
        BY <1>0, <2>2, <3>1, <4>1, AgreeSettles
    <3>2. CASE ~rw[r].wroteHeader
      <4> DEFINE s == NetWriteHeader(res[r], 500)
      <4>1. PICK n \in Outcomes(r, s) :
               /\ rw' = [rw EXCEPT ![r] = WriteProblem(@, n)]
               /\ res' = [res EXCEPT ![r] = NetWrite(s, "problem", n)]
        BY <1>3, <3>2 DEF Recover
      <4>2. /\ n \in {0, 1}
            /\ rw'[r] = WriteProblem(rw[r], n) /\ res'[r] = NetWrite(s, "problem", n)
        BY <4>1, OutcomesType DEF TypeOK
      <4>3. s \in Responses /\ s.hijacked = res[r].hijacked
        BY <1>0, NetHeaderType, HeaderFacts
      <4>4. res[r].hijacked => n = 0
        BY <4>1, <4>3 DEF Outcomes, NetAccepts
      <4>5. calls[r] = 0 /\ n = 0 => gone[r]
        <5> SUFFICES ASSUME calls[r] = 0, ~gone[r] PROVE n = 1
          BY <4>2
        <5>1. ~res[r].hijacked /\ ~Sent(res[r])
          BY <2>2 DEF Agree, Hidden
        <5>0. Valid(500) /\ ~Informational(500)
          BY DEF Valid, Informational
        <5>2. s.status = 500 /\ Sent(s)
          BY <1>0, <5>0, <5>1 DEF NetWriteHeader, Sent, Responses
        <5>3. NetFlush(s).status = 500
          BY <4>3, <5>2, NetFacts
        <5>4. NetAccepts(s)
          BY <4>3, <5>1, <5>3 DEF NetAccepts, BodyAllowed
        <5> QED
          BY <4>1, <5>4 DEF Outcomes
      <4>6. /\ Settled(rw'[r], res'[r])
            /\ calls[r] > 0 => Hidden(rw'[r], res'[r])
            /\ calls[r] = 0 => /\ ~Hidden(rw'[r], res'[r]) /\ res'[r].status = 500
                               /\ n = 1 => res'[r].body = <<"problem">>
        BY <2>2, <3>2, <4>2, <4>4, ProblemSettles
      <4> QED
        BY <1>0, <4>2, <4>5, <4>6 DEF Answered
    <3> QED
      BY <3>1, <3>2
  <2> QED
    BY <2>1, <2>3 DEF RequestInv
<1>4. CASE Observe(r)
  <2>1. /\ pc[r] = "observing" /\ pc'[r] = "finishing" /\ observed'[r] = ObservedOf(r)
        /\ UNCHANGED <<pattern, rw, res, calls, panicked, gone>>
    BY <1>4 DEF Observe, TypeOK
  <2>2. ObservedOf(r)' = ObservedOf(r)
    BY <2>1 DEF ObservedOf
  <2> QED
    BY <2>1, <2>2 DEF RequestInv, Recovered
<1>5. CASE Finish(r)
  <2>1. /\ pc[r] = "finishing" /\ pc'[r] = "done" /\ res'[r] = NetFlush(res[r])
        /\ UNCHANGED <<pattern, observed, rw, calls, panicked, gone>>
    BY <1>5 DEF Finish, TypeOK
  <2>2. ObservedOf(r)' = ObservedOf(r)
    BY <2>1 DEF ObservedOf
  <2>3. Settled(rw[r], res[r])
    BY <2>1 DEF RequestInv
  <2>4. /\ Settled(rw[r], res'[r]) /\ (Sent(res'[r]) \/ Hidden(rw[r], res'[r]))
        /\ Answered(rw[r], res[r], calls[r], gone[r])
              => Answered(rw[r], res'[r], calls[r], gone[r])
    BY <1>0, <2>1, <2>3, EndSettles
  <2> QED
    BY <2>1, <2>2, <2>4 DEF RequestInv, Recovered
<1>6. CASE ClientGone(r)
  <2>1. gone'[r] = TRUE /\ UNCHANGED <<pc, pattern, observed, rw, res, calls, panicked>>
    BY <1>6 DEF ClientGone, TypeOK
  <2>2. ObservedOf(r)' = ObservedOf(r) /\ (Recovered(r)' <=> Recovered(r))
    BY <2>1 DEF ObservedOf, Recovered
  <2>3. Answered(rw[r], res[r], calls[r], gone[r])
           => Answered(rw[r], res[r], calls[r], TRUE)
    BY DEF Answered
  <2> QED
    BY <2>1, <2>2, <2>3 DEF RequestInv
<1> QED
  BY <1>1, <1>2, <1>3, <1>4, <1>5, <1>6 DEF ServerStep

MInv == TypeOK /\ InflightMatches /\ \A r \in Requests : RequestInv(r)

\* The initial states satisfy the invariant of Middleware.
LEMMA MInvInit == Init => MInv
<1> SUFFICES ASSUME Init PROVE MInv
  OBVIOUS
<1>1. TypeOK
  BY MaxCallsType DEF Init, TypeOK, Labels, Writers, Responses
<1>2. InflightMatches
  <2> SUFFICES ASSUME NEW l \in Labels PROVE inflight[l] = Cardinality(InProgress(l))
    BY DEF InflightMatches
  <2>1. InProgress(l) = {}
    BY DEF Init, InProgress
  <2> QED
    BY <2>1, FS_EmptySet DEF Init
<1>3. ASSUME NEW r \in Requests PROVE RequestInv(r)
  <2>1. Valid(200)
    BY DEF Valid
  <2> QED
    BY <2>1 DEF Init, RequestInv, Recovered, Agree, AllParts, Hidden, Sent
<1> QED
  BY <1>1, <1>2, <1>3 DEF MInv

\* Every step keeps the invariant of Middleware.
LEMMA MInvStep == MInv /\ [Next]_vars => MInv'
<1> SUFFICES ASSUME MInv, [Next]_vars PROVE MInv'
  OBVIOUS
<1>1. TypeOK' /\ InflightMatches'
  BY TypeStep, InflightStep DEF MInv
<1>2. ASSUME NEW q \in Requests PROVE RequestInv(q)'
  <2>1. CASE UNCHANGED vars
    BY <2>1, Untouched DEF MInv, vars
  <2>2. ASSUME NEW r \in Requests, ServerStep(r) \/ HandlerStep(r) \/ ClientGone(r)
        PROVE  RequestInv(q)'
    <3>1. CASE q = r
      BY <2>2, <3>1, HandlerInv, ServerInv DEF MInv
    <3>2. CASE q # r
      <4>1. /\ pc'[q] = pc[q] /\ panicked'[q] = panicked[q] /\ rw'[q] = rw[q]
            /\ res'[q] = res[q] /\ calls'[q] = calls[q] /\ gone'[q] = gone[q]
            /\ observed'[q] = observed[q] /\ pattern'[q] = pattern[q]
        BY <2>2, <3>2, OneRequest DEF MInv
      <4> QED
        BY <4>1, Untouched DEF MInv
    <3> QED
      BY <3>1, <3>2
  <2> QED
    BY <2>1, <2>2 DEF Next
<1> QED
  BY <1>1, <1>2 DEF MInv

\* The inductive invariant of Middleware.
THEOREM MiddlewareInvariant == Spec => []MInv
  BY MInvInit, MInvStep, PTL DEF Spec

\* The state of every request is well formed, whatever its handler does.
THEOREM MiddlewareTypes == Spec => []TypeOK
<1>1. MInv => TypeOK
  BY DEF MInv
<1> QED
  BY <1>1, MiddlewareInvariant, PTL

\* The inflight gauge counts the requests in progress under every label, for any
\* number of requests and patterns.
THEOREM InflightMatchesHolds == Spec => []InflightMatches
<1>1. MInv => InflightMatches
  BY DEF MInv
<1> QED
  BY <1>1, MiddlewareInvariant, PTL

RecoveredUnder(l) == {r \in Requests : Recovered(r) /\ pattern[r] = l}

\* The inductive step of PanicsCounted: Recover adds its request to the recovered
\* ones and counts it under the same label; no other step changes who is recovered,
\* since the mux sets the pattern before the handler runs.
LEMMA PanicsStep == MInv /\ PanicsCounted /\ [Next]_vars => PanicsCounted'
<1> SUFFICES ASSUME MInv, PanicsCounted, [Next]_vars, NEW l \in Labels
             PROVE  panics'[l] = Cardinality(RecoveredUnder(l)')
  BY DEF PanicsCounted, RecoveredUnder
<1>0. TypeOK /\ \A r \in Requests : RequestInv(r)
  BY DEF MInv
<1>1. panics[l] = Cardinality(RecoveredUnder(l)) /\ IsFiniteSet(RecoveredUnder(l))
  <2>1. RecoveredUnder(l) \subseteq Requests
    BY DEF RecoveredUnder
  <2> QED
    BY <2>1, RequestsFinite, FS_Subset DEF PanicsCounted, RecoveredUnder
<1>2. RecoveredUnder(l)' = {r \in Requests : Recovered(r)' /\ pattern'[r] = l}
  BY DEF RecoveredUnder
<1>3. ASSUME UNCHANGED panics,
             \A r \in Requests : (Recovered(r)' /\ pattern'[r] = l)
                                     <=> (Recovered(r) /\ pattern[r] = l)
      PROVE  panics'[l] = Cardinality(RecoveredUnder(l)')
  <2>1. RecoveredUnder(l)' = RecoveredUnder(l)
    BY <1>2, <1>3 DEF RecoveredUnder
  <2> QED
    BY <1>1, <1>3, <2>1
<1>4. ASSUME NEW r \in Requests, Recover(r)
      PROVE  panics'[l] = Cardinality(RecoveredUnder(l)')
  <2>1. /\ pc[r] = "panicking" /\ pc' = [pc EXCEPT ![r] = "observing"]
        /\ panics' = [panics EXCEPT ![pattern[r]] = @ + 1]
        /\ UNCHANGED <<pattern, panicked>>
    BY <1>4 DEF Recover, Moves, muxVars
  <2>2. r \notin RecoveredUnder(l)
    BY <2>1 DEF RecoveredUnder, Recovered
  <2>3. panicked[r]
    BY <1>0, <2>1 DEF RequestInv
  <2>4. CASE pattern[r] = l
    <3>1. RecoveredUnder(l)' = RecoveredUnder(l) \cup {r}
      BY <1>0, <1>2, <2>1, <2>3, <2>4 DEF RecoveredUnder, Recovered, TypeOK
    <3>2. Cardinality(RecoveredUnder(l) \cup {r}) = Cardinality(RecoveredUnder(l)) + 1
      BY <1>1, <2>2, FS_AddElement
    <3>3. panics'[l] = panics[l] + 1
      BY <1>0, <2>1, <2>4 DEF TypeOK
    <3> QED
      BY <1>1, <3>1, <3>2, <3>3
  <2>5. CASE pattern[r] # l
    <3>1. RecoveredUnder(l)' = RecoveredUnder(l)
      BY <1>0, <1>2, <2>1, <2>5 DEF RecoveredUnder, Recovered, TypeOK
    <3>2. panics'[l] = panics[l]
      BY <1>0, <2>1, <2>5 DEF TypeOK
    <3> QED
      BY <1>1, <3>1, <3>2
  <2> QED
    BY <2>4, <2>5
<1>5. ASSUME NEW r \in Requests, HandlerStep(r)
      PROVE  panics'[l] = Cardinality(RecoveredUnder(l)')
  <2>1. /\ pc[r] = "handling" /\ UNCHANGED <<panics, pattern>>
        /\ \/ pc' = pc \/ pc' = [pc EXCEPT ![r] = "panicking"]
           \/ pc' = [pc EXCEPT ![r] = "observing"] /\ UNCHANGED panicked
    BY <1>5 DEF HandlerStep, CallWriteHeader, CallWrite, CallFlush, CallHijack, Call,
                HandlerReturns, HandlerPanics, Moves, muxVars, metricVars
  <2>2. \A q \in Requests : q # r => panicked'[q] = panicked[q] /\ pc'[q] = pc[q]
    BY <1>0, <1>5, OneRequest
  <2>3. panicked[r] = FALSE
    BY <1>0, <2>1 DEF RequestInv
  <2>4. ~Recovered(r) /\ ~Recovered(r)'
    BY <1>0, <2>1, <2>3 DEF Recovered, TypeOK
  <2>5. \A q \in Requests : q # r => (Recovered(q)' <=> Recovered(q))
    BY <2>2 DEF Recovered
  <2> QED
    BY <1>3, <2>1, <2>4, <2>5
<1>6. ASSUME NEW r \in Requests, Route(r)
      PROVE  panics'[l] = Cardinality(RecoveredUnder(l)')
  <2>1. /\ UNCHANGED <<panics, panicked>> /\ pc[r] = "entered"
        /\ pc' = [pc EXCEPT ![r] = "handling"]
        /\ \E p \in Labels : pattern' = [pattern EXCEPT ![r] = p]
    BY <1>6 DEF Route, Moves, metricVars
  <2>2. ~Recovered(r) /\ ~Recovered(r)'
    BY <1>0, <2>1 DEF Recovered, TypeOK
  <2>3. \A q \in Requests : q # r =>
           (Recovered(q)' <=> Recovered(q)) /\ pattern'[q] = pattern[q]
    BY <1>0, <2>1 DEF Recovered, TypeOK
  <2> QED
    BY <1>3, <2>1, <2>2, <2>3
<1>7. ASSUME NEW r \in Requests, Enter(r) \/ Observe(r) \/ Finish(r)
      PROVE  panics'[l] = Cardinality(RecoveredUnder(l)')
  <2>1. UNCHANGED <<panics, panicked, pattern>>
    BY <1>7 DEF Enter, Observe, Finish, muxVars, metricVars
  <2>2. \A q \in Requests : Recovered(q)' <=> Recovered(q)
    BY <1>0, <1>7, <2>1 DEF Enter, Observe, Finish, Moves, Recovered, TypeOK
  <2> QED
    BY <1>3, <2>1, <2>2
<1>8. ASSUME UNCHANGED <<pc, panicked, pattern, panics>>
      PROVE  panics'[l] = Cardinality(RecoveredUnder(l)')
  BY <1>3, <1>8 DEF Recovered
<1> QED
  BY <1>4, <1>5, <1>6, <1>7, <1>8 DEF Next, ServerStep, ClientGone, vars, muxVars, metricVars

\* The panic counter of a label is the number of requests routed to it whose panic
\* was recovered, for any number of requests and patterns.
THEOREM PanicsCountedHolds == Spec => []PanicsCounted
<1>1. Init => PanicsCounted
  <2> SUFFICES ASSUME Init, NEW l \in Labels
               PROVE  panics[l] = Cardinality(RecoveredUnder(l))
    BY DEF PanicsCounted, RecoveredUnder
  <2>1. RecoveredUnder(l) = {}
    BY DEF Init, RecoveredUnder, Recovered
  <2> QED
    BY <2>1, FS_EmptySet DEF Init
<1> QED
  BY <1>1, PanicsStep, MiddlewareInvariant, PTL DEF Spec

\* What the metrics record is what was sent, for any number of calls of the writer
\* and any status codes, except in the cases the wrapper cannot see.
THEOREM RecordedIsSentHolds == Spec => []RecordedIsSent
<1>1. MInv => RecordedIsSent
  <2> SUFFICES ASSUME MInv, NEW r \in Requests, pc[r] = "done"
               PROVE  /\ observed[r][1].size = Len(res[r].body)
                      /\ Unseen(r) \/ observed[r][1].code = res[r].status
    BY DEF RecordedIsSent
  <2>1. /\ Settled(rw[r], res[r]) /\ observed[r] = ObservedOf(r)
        /\ Sent(res[r]) \/ Hidden(rw[r], res[r])
    BY DEF MInv, RequestInv
  <2>2. observed[r][1].size = rw[r].size /\ observed[r][1].code = rw[r].statusCode
    BY <2>1 DEF ObservedOf
  <2>3. Unseen(r) <=> Hidden(rw[r], res[r])
    BY DEF Unseen, Hidden
  <2> QED
    BY <2>1, <2>2, <2>3 DEF Settled
<1> QED
  BY <1>1, MiddlewareInvariant, PTL

\* A panic is answered by status 500 and the problem document before the response
\* has begun, and adds nothing to it afterwards.
THEOREM PanicAnsweredHolds == Spec => []PanicAnswered
<1>1. MInv => PanicAnswered
  <2> SUFFICES ASSUME MInv, NEW r \in Requests, Recovered(r), ~Unseen(r)
               PROVE  IF calls[r] = 0
                      THEN res[r].status = 500 /\ (gone[r] \/ res[r].body = <<"problem">>)
                      ELSE \A i \in 1 .. Len(res[r].body) : res[r].body[i] = "part"
    BY DEF PanicAnswered
  <2>1. Answered(rw[r], res[r], calls[r], gone[r]) /\ calls[r] \in Nat
    BY MaxCallsType DEF MInv, RequestInv, TypeOK
  <2>2. ~Hidden(rw[r], res[r])
    BY DEF Unseen, Hidden
  <2> QED
    BY <2>1, <2>2 DEF Answered, AllParts
<1> QED
  BY <1>1, MiddlewareInvariant, PTL

-----------------------------------------------------------------------------
(* The client.                                                              *)

\* What Do does to the server is at most to close the connection.
LEMMA ClientStep == TypeOK /\ [XNext]_xvars => [Next]_vars
<1> SUFFICES ASSUME TypeOK, [XNext]_xvars PROVE [Next]_vars
  OBVIOUS
<1>1. CASE UNCHANGED xvars
  BY <1>1 DEF xvars
<1>2. ASSUME NEW r \in Requests, DoStep(r) PROVE [Next]_vars
  <2>1. ASSUME NEW from, GivesUp(r, from) PROVE [Next]_vars
    <3>1. CASE gone[r]
      <4>1. gone' = gone
        BY <2>1, <3>1 DEF GivesUp, TypeOK
      <4> QED
        BY <2>1, <4>1 DEF GivesUp, vars, muxVars, metricVars
    <3>2. CASE ~gone[r]
      <4>1. ClientGone(r)
        BY <2>1, <3>2 DEF GivesUp, ClientGone
      <4> QED
        BY <4>1 DEF Next
    <3> QED
      BY <3>1, <3>2
  <2>2. CASE SendFails(r) \/ ReadFails(r)
    BY <2>1, <2>2 DEF SendFails, ReadFails
  <2>3. CASE Send(r) \/ NewRequestFails(r) \/ HeaderArrives(r) \/ ReadEnds(r)
    BY <2>3 DEF Send, NewRequestFails, HeaderArrives, ReadEnds
  <2> QED
    BY <1>2, <2>2, <2>3 DEF DoStep
<1>3. ASSUME NEW r \in Requests, ServeStep(r) PROVE [Next]_vars
  BY <1>3 DEF ServeStep, Next
<1>4. ASSUME NEW r \in Requests, ConnectionBreaks(r) PROVE [Next]_vars
  BY <1>4 DEF ConnectionBreaks, Next
<1> QED
  BY <1>1, <1>2, <1>3, <1>4 DEF XNext

\* A server with clients implements the middleware on its own: what is proved of
\* Middleware holds with clients that read, give up and lose their connections.
THEOREM ClientImplements == XSpec => Spec
<1>1. XInit => Init /\ TypeOK
  BY MInvInit DEF XInit, MInv
<1>2. TypeOK /\ [XNext]_xvars => TypeOK'
  BY ClientStep, TypeStep
<1> QED
  BY <1>1, <1>2, ClientStep, PTL DEF XSpec, Spec

\* What Do has returned, and that nothing changes it.
AnswerInv ==
    /\ do \in [Requests -> {"none", "sending", "reading", "returned"}]
    /\ answer \in [Requests -> {"none", "error", "zero", "value"}]
    /\ \A r \in Requests : answer[r] # "none" => do[r] = "returned"

\* What each answer of Do says about the response it decoded.
LEMMA DecodeFacts ==
  ASSUME NEW status_, NEW body
  PROVE  /\ Decode(status_, body) \in {"error", "zero", "value"}
         /\ Decode(status_, body) # "error" => status_ \in 200 .. 299
         /\ Decode(status_, body) = "value" => body \in Decodable
  BY DEF Decode

\* The inductive step of SuccessIsServed.
LEMMA AnswerStep ==
  MInv /\ AnswerInv /\ SuccessIsServed /\ [XNext]_xvars => AnswerInv' /\ SuccessIsServed'
<1> SUFFICES ASSUME MInv, AnswerInv, SuccessIsServed, [XNext]_xvars
             PROVE  AnswerInv' /\ SuccessIsServed'
  OBVIOUS
<1> USE DEF AnswerInv
<1>0. TypeOK
  BY DEF MInv
<1>1. ASSUME UNCHANGED answer, do' \in [Requests -> {"none", "sending", "reading", "returned"}],
             \A q \in Requests : do[q] = "returned" => do'[q] = "returned",
             \A q \in Requests : pc[q] = "done" =>
                /\ pc'[q] = "done" /\ panicked'[q] = panicked[q] /\ calls'[q] = calls[q]
                /\ res'[q] = res[q]
      PROVE  AnswerInv' /\ SuccessIsServed'
  BY <1>1 DEF SuccessIsServed
<1>2. ASSUME NEW r \in Requests, UNCHANGED vars \/ gone' = [gone EXCEPT ![r] = TRUE],
             UNCHANGED <<pc, panicked, calls, res>>, do[r] # "returned",
             do' = [do EXCEPT ![r] = "returned"],
             answer' = [answer EXCEPT ![r] = "error"]
      PROVE  AnswerInv' /\ SuccessIsServed'
  BY <1>2 DEF SuccessIsServed
<1>3. CASE UNCHANGED xvars
  BY <1>1, <1>3 DEF xvars, vars, doVars
<1>4. ASSUME NEW r \in Requests, Send(r) \/ HeaderArrives(r)
      PROVE  AnswerInv' /\ SuccessIsServed'
  BY <1>1, <1>4 DEF Send, HeaderArrives, vars
<1>5. ASSUME NEW r \in Requests, NewRequestFails(r) PROVE AnswerInv' /\ SuccessIsServed'
  BY <1>2, <1>5 DEF NewRequestFails, vars
<1>6. ASSUME NEW r \in Requests, SendFails(r) \/ ReadFails(r)
      PROVE  AnswerInv' /\ SuccessIsServed'
  BY <1>2, <1>6 DEF SendFails, ReadFails, GivesUp
<1>7. ASSUME NEW r \in Requests, ReadEnds(r) PROVE AnswerInv' /\ SuccessIsServed'
  <2>1. /\ do[r] = "reading" /\ pc[r] = "done" /\ UNCHANGED vars
        /\ do' = [do EXCEPT ![r] = "returned"]
        /\ answer' = [answer EXCEPT ![r] = Decode(res[r].status, res[r].body)]
    BY <1>7 DEF ReadEnds
  <2>2. /\ Settled(rw[r], res[r])
        /\ panicked[r] => Answered(rw[r], res[r], calls[r], gone[r])
    BY <2>1 DEF MInv, RequestInv, Recovered
  <2>3. answer'[r] \in {"zero", "value"} => (panicked[r] => calls[r] > 0)
    <3> SUFFICES ASSUME answer'[r] \in {"zero", "value"}, panicked[r], ~(calls[r] > 0)
                 PROVE  FALSE
      OBVIOUS
    <3>1. calls[r] = 0
      BY <1>0, MaxCallsType DEF TypeOK
    <3>2. res[r].status = 500
      BY <2>2, <3>1 DEF Answered
    <3>3. res[r].status \in 200 .. 299
      BY <2>1, DecodeFacts
    <3> QED
      BY <3>2, <3>3
  <2>4. answer'[r] = "value" => res[r].body = Document \/ res[r].flushed
    <3> SUFFICES ASSUME answer'[r] = "value", res[r].body # Document
                 PROVE  res[r].flushed
      OBVIOUS
    <3>1. res[r].status \in 200 .. 299 /\ res[r].body = <<"problem">>
      BY <2>1, DecodeFacts DEF Decodable
    <3>2. ~AllParts(res[r])
      BY <3>1 DEF AllParts
    <3> QED
      BY <2>2, <3>1, <3>2 DEF Settled
  <2>5. answer' \in [Requests -> {"none", "error", "zero", "value"}]
    BY <2>1, DecodeFacts
  <2>6. UNCHANGED <<pc, panicked, calls, res>>
    BY <2>1 DEF vars
  <2> QED
    BY <2>1, <2>3, <2>4, <2>5, <2>6 DEF SuccessIsServed
<1>8. ASSUME NEW r \in Requests, ServeStep(r) PROVE AnswerInv' /\ SuccessIsServed'
  <2>1. UNCHANGED <<do, answer>> /\ (ServerStep(r) \/ HandlerStep(r))
    BY <1>8 DEF ServeStep, doVars
  <2>2. pc[r] # "done"
    BY <2>1 DEF ServerStep, Enter, Route, Recover, Observe, Finish, HandlerStep,
                CallWriteHeader, CallWrite, CallFlush, CallHijack, Call, HandlerReturns,
                HandlerPanics, Moves
  <2>3. \A q \in Requests : q # r =>
           /\ pc'[q] = pc[q] /\ panicked'[q] = panicked[q] /\ calls'[q] = calls[q]
           /\ res'[q] = res[q]
    BY <1>0, <2>1, OneRequest
  <2> QED
    BY <1>1, <2>1, <2>2, <2>3
<1>9. ASSUME NEW r \in Requests, ConnectionBreaks(r) PROVE AnswerInv' /\ SuccessIsServed'
  BY <1>1, <1>9 DEF ConnectionBreaks, ClientGone, doVars
<1> QED
  BY <1>3, <1>4, <1>5, <1>6, <1>7, <1>8, <1>9 DEF XNext, DoStep

\* Do returns no error only for a response that was served to its end, and never the
\* answer to a panic of a handler that had not begun its response.
THEOREM SuccessIsServedHolds == XSpec => []SuccessIsServed
<1>1. XInit => AnswerInv /\ SuccessIsServed
  BY DEF XInit, AnswerInv, SuccessIsServed
<1> QED
  BY <1>1, AnswerStep, ClientImplements, MiddlewareInvariant, PTL DEF XSpec
=============================================================================
