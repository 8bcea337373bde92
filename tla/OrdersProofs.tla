---------------------------- MODULE OrdersProofs ----------------------------
(***************************************************************************)
(* Proofs about Orders, for any set of orders, any number of concurrent    *)
(* reads and any number of restarts.                                       *)
(***************************************************************************)
EXTENDS Orders, TLAPS

\* The invariant holds before the first request.
LEMMA InitIInv == Init => IInv
<1> SUFFICES ASSUME Init PROVE IInv
    OBVIOUS
<1>1. ctxDone \in BOOLEAN
    BY Zenon DEF Init
<1>2. \A o \in Ids : Len(events[o]) = 0 /\ events[o] \in Seq(EventTypes)
    BY DEF Init
<1>3. TypeOK
    BY <1>1, MaxRestartsType DEF Init, TypeOK, Entries
<1>4. EventsTruthful /\ CreatedFirst /\ \A o \in Ids : ~Emitted(o, "confirmed")
    BY <1>2 DEF EventsTruthful, CreatedFirst, Emitted
<1>5. ApiInv /\ OutcomeInv /\ ReaderInv /\ CacheOnlyLags
    BY <1>4 DEF Init, ApiInv, OutcomeInv, ReaderInv, CacheOnlyLags
<1> QED
    BY <1>3, <1>4, <1>5 DEF IInv

\* What an emit does to the partition of its order: one event more at the end, or
\* nothing.
LEMMA EmitFacts ==
    ASSUME TypeOK, NEW o \in Ids, NEW type \in EventTypes, Emit(o, type)
    PROVE  /\ events' \in [Ids -> Seq(EventTypes)]
           /\ \A p \in Ids : \A x :
                 Emitted(p, x)' => Emitted(p, x) \/ (p = o /\ x = type)
           /\ CreatedFirst /\ (type = "created" => ~Emitted(o, "confirmed"))
                 => CreatedFirst'
<1>1. events \in [Ids -> Seq(EventTypes)]
    BY DEF TypeOK
<1>2. CASE UNCHANGED events
    BY <1>1, <1>2 DEF Emitted, CreatedFirst
<1>3. CASE events' = [events EXCEPT ![o] = Append(@, type)]
    <2>1. /\ events' \in [Ids -> Seq(EventTypes)]
          /\ \A p \in Ids : p # o => events'[p] = events[p]
          /\ events'[o] = Append(events[o], type)
        BY <1>1, <1>3
    <2>2. /\ Len(events[o]) \in Nat
          /\ Len(events'[o]) = Len(events[o]) + 1
          /\ events'[o][Len(events[o]) + 1] = type
          /\ \A i \in 1 .. Len(events[o]) : events'[o][i] = events[o][i]
        BY <1>1, <2>1
    <2>3. ASSUME NEW p \in Ids, NEW x, Emitted(p, x)', ~(p = o /\ x = type)
          PROVE  Emitted(p, x)
        <3>1. CASE p # o
            BY <2>1, <2>3, <3>1 DEF Emitted
        <3>2. CASE p = o
            BY <2>2, <2>3, <3>2 DEF Emitted
        <3> QED
            BY <3>1, <3>2
    <2>4. ASSUME CreatedFirst, type = "created" => ~Emitted(o, "confirmed")
          PROVE  CreatedFirst'
        <3> SUFFICES ASSUME NEW p \in Ids,
                            NEW i \in 1 .. Len(events'[p]), NEW j \in 1 .. Len(events'[p]),
                            events'[p][i] = "created", events'[p][j] = "confirmed"
                     PROVE  i < j
            BY DEF CreatedFirst
        <3>1. CASE p # o
            BY <2>1, <2>4, <3>1 DEF CreatedFirst
        <3>2. CASE p = o
            <4>1. CASE i = Len(events[o]) + 1
                BY <2>2, <2>4, <3>2, <4>1 DEF Emitted
            <4>2. CASE i # Len(events[o]) + 1
                BY <2>2, <2>4, <3>2, <4>2 DEF CreatedFirst
            <4> QED
                BY <4>1, <4>2
        <3> QED
            BY <3>1, <3>2
    <2> QED
        BY <2>1, <2>3, <2>4
<1> QED
    BY <1>2, <1>3 DEF Emit

\* What a step that emits nothing leaves as it is.
LEMMA SilentFacts ==
    ASSUME UNCHANGED events
    PROVE  /\ \A p \in Ids : \A x : Emitted(p, x)' <=> Emitted(p, x)
           /\ CreatedFirst' <=> CreatedFirst
    BY DEF Emitted, CreatedFirst

\* What the conditional updates of PostgresStore do to the rows.
LEMMA UpdateFacts ==
    ASSUME status \in [Ids -> Entries]
    PROVE  /\ \A o \in Ids :
                /\ WithConfirmed(o) \in [Ids -> Entries]
                /\ WithConfirmed(o)[o] =
                      IF status[o] = "PENDING" THEN "CONFIRMED" ELSE status[o]
                /\ \A p \in Ids : WithConfirmed(o)[p] = status[p] \/ status[p] = "PENDING"
                /\ \A p \in Ids : p # o => WithConfirmed(o)[p] = status[p]
           /\ WithStaleCanceled \in [Ids -> Entries]
           /\ \A p \in Ids : WithStaleCanceled[p] = status[p] \/ status[p] = "PENDING"
           /\ \A p \in Ids : Stale(p) => WithStaleCanceled[p] = "CANCELED"
    BY DEF WithConfirmed, WithStaleCanceled, Stale, Entries

\* What a Get holds is a row that was found.
LEMMA ReaderFacts ==
    ASSUME TypeOK, NEW r \in Readers, reader[r] # NoRead
    PROVE  /\ reader[r][1] \in Ids
           /\ reader[r][2] \in {"PENDING", "CONFIRMED", "CANCELED"}
    BY DEF TypeOK, NoRead

\* An order that changes was missing or pending; then what a Get or the cache has
\* of it still only lags behind, and no event told of its outcome.
LEMMA RowFacts ==
    ASSUME IInv, UNCHANGED <<cache, reader, events>>,
           \A p \in Ids : status'[p] = status[p] \/ status[p] \in {"none", "PENDING"}
    PROVE  (ReaderInv /\ CacheOnlyLags /\ EventsTruthful /\ CreatedFirst)'
<1>1. ReaderInv'
    <2> SUFFICES ASSUME NEW r \in Readers, reader[r] # NoRead
                 PROVE  reader[r][2] \in {"PENDING", status'[reader[r][1]]}
        BY DEF ReaderInv
    <2>1. /\ reader[r][1] \in Ids
          /\ reader[r][2] \in {"PENDING", "CONFIRMED", "CANCELED"}
          /\ reader[r][2] \in {"PENDING", status[reader[r][1]]}
        BY ReaderFacts DEF IInv, ReaderInv
    <2> QED
        BY <2>1
<1>2. (CacheOnlyLags /\ EventsTruthful /\ CreatedFirst)'
    BY SilentFacts DEF IInv, CacheOnlyLags, EventsTruthful
<1> QED
    BY <1>1, <1>2

\* A step that changes no row and emits nothing keeps what is said of events.
LEMMA QuietFacts ==
    ASSUME IInv, UNCHANGED <<status, events>>
    PROVE  (EventsTruthful /\ CreatedFirst)'
    BY SilentFacts DEF IInv, EventsTruthful

\* The handlers that create an order preserve the invariant.
LEMMA ApiPreservesIInv == ASSUME IInv, NEW o \in Ids, ApiStep(o) PROVE IInv'
<1> USE DEF cleanupVars, procVars
<1>1. CASE Create(o) \/ CreateFails(o)
    <2>1. PICK applied \in {"none", "PENDING"} :
                /\ status' = [status EXCEPT ![o] = applied]
                /\ api[o] = "idle" /\ status[o] = "none"
        BY <1>1 DEF Create, CreateFails, IInv, ApiInv
    <2>2. (ReaderInv /\ CacheOnlyLags /\ EventsTruthful /\ CreatedFirst)'
        BY <1>1, <2>1, RowFacts DEF Create, CreateFails, IInv, TypeOK
    <2>3. TypeOK'
        BY <1>1, <2>1 DEF Create, CreateFails, IInv, TypeOK, Entries
    <2>4. (ApiInv /\ OutcomeInv)'
        BY <1>1, <2>1, SilentFacts DEF Create, CreateFails, IInv, TypeOK, ApiInv, OutcomeInv
    <2> QED
        BY <2>2, <2>3, <2>4 DEF IInv
<1>2. CASE EmitCreated(o)
    <2>1. /\ events' \in [Ids -> Seq(EventTypes)] /\ CreatedFirst'
          /\ \A p \in Ids : \A x : Emitted(p, x)' => Emitted(p, x) \/ x = "created"
        BY <1>2, EmitFacts DEF EmitCreated, EventTypes, IInv, ApiInv
    <2> QED
        BY <1>2, <2>1 DEF EmitCreated, IInv, TypeOK, ApiInv, OutcomeInv, ReaderInv,
           EventsTruthful, CacheOnlyLags
<1>3. CASE Enqueue(o) \/ EnqueueFails(o)
    <2>1. (EventsTruthful /\ CreatedFirst)'
        BY <1>3, QuietFacts DEF Enqueue, EnqueueFails
    <2>2. (TypeOK /\ ReaderInv /\ CacheOnlyLags)'
        BY <1>3 DEF Enqueue, EnqueueFails, IInv, TypeOK, ReaderInv, CacheOnlyLags
    <2>3. (ApiInv /\ OutcomeInv)'
        BY <1>3, SilentFacts DEF Enqueue, EnqueueFails, IInv, TypeOK, ApiInv, OutcomeInv
    <2> QED
        BY <2>1, <2>2, <2>3 DEF IInv
<1> QED
    BY <1>1, <1>2, <1>3 DEF ApiStep

\* A task in the pool preserves the invariant.
LEMMA TaskPreservesIInv == ASSUME IInv, NEW o \in Ids, TaskStep(o) PROVE IInv'
<1> USE DEF cleanupVars, procVars, TaskMoves
<1>1. CASE ProcessCanceled(o)
    BY <1>1, SilentFacts DEF ProcessCanceled, IInv, TypeOK, ApiInv, OutcomeInv,
       ReaderInv, EventsTruthful, CacheOnlyLags
<1>2. CASE ConfirmPending(o) \/ ConfirmFails(o)
    <2>1. /\ status \in [Ids -> Entries] /\ task[o] = "queued"
          /\ status' \in {status, WithConfirmed(o)}
        BY <1>2 DEF ConfirmPending, ConfirmFails, IInv, TypeOK
    <2>2. /\ status' \in [Ids -> Entries]
          /\ \A p \in Ids : status'[p] = status[p] \/ status[p] = "PENDING"
        BY <2>1, UpdateFacts
    <2>3. (ReaderInv /\ CacheOnlyLags /\ EventsTruthful /\ CreatedFirst)'
        BY <1>2, <2>2, RowFacts DEF ConfirmPending, ConfirmFails
    <2>4. TypeOK'
        BY <1>2, <2>2 DEF ConfirmPending, ConfirmFails, Outcome, IInv, TypeOK
    <2>5. ApiInv'
        BY <1>2, <2>1, <2>2, SilentFacts DEF ConfirmPending, ConfirmFails, IInv, TypeOK, ApiInv
    <2>6. task'[o] \in {"confirmed", "emitting"} => status'[o] = "CONFIRMED"
        BY <1>2, <2>1, UpdateFacts DEF ConfirmPending, ConfirmFails, Outcome, IInv, TypeOK
    <2>7. OutcomeInv'
        BY <1>2, <2>2, <2>6 DEF ConfirmPending, ConfirmFails, IInv, TypeOK, OutcomeInv
    <2> QED
        BY <2>3, <2>4, <2>5, <2>7 DEF IInv
<1>3. CASE InvalidateConfirmed(o)
    <2>1. (EventsTruthful /\ CreatedFirst)'
        BY <1>3, QuietFacts DEF InvalidateConfirmed
    <2>2. (ApiInv /\ OutcomeInv /\ ReaderInv)'
        BY <1>3, SilentFacts DEF InvalidateConfirmed, IInv, TypeOK, ApiInv, OutcomeInv,
           ReaderInv
    <2>4. TypeOK'
        <3>1. cache' \in [Ids -> Entries]
            BY <1>3 DEF InvalidateConfirmed, Invalidate, IInv, TypeOK, Entries
        <3> QED
            BY <1>3, <3>1 DEF InvalidateConfirmed, IInv, TypeOK
    <2>3. CacheOnlyLags'
        BY <1>3 DEF InvalidateConfirmed, Invalidate, IInv, TypeOK, CacheOnlyLags
    <2> QED
        BY <2>1, <2>2, <2>3, <2>4 DEF IInv
<1>4. CASE EmitConfirmed(o)
    <2>1. /\ events' \in [Ids -> Seq(EventTypes)] /\ CreatedFirst'
          /\ \A p \in Ids : \A x :
                Emitted(p, x)' => Emitted(p, x) \/ (p = o /\ x = "confirmed")
        BY <1>4, EmitFacts DEF EmitConfirmed, EventTypes, IInv
    <2>2. (TypeOK /\ ReaderInv /\ CacheOnlyLags)'
        BY <1>4, <2>1 DEF EmitConfirmed, IInv, TypeOK, ReaderInv, CacheOnlyLags
    <2>3. status[o] = "CONFIRMED" /\ api[o] \notin {"idle", "created"}
        BY <1>4 DEF EmitConfirmed, IInv, OutcomeInv, ApiInv
    <2>4. (ApiInv /\ OutcomeInv)'
        BY <1>4, <2>1, <2>3 DEF EmitConfirmed, IInv, TypeOK, ApiInv, OutcomeInv
    <2>5. EventsTruthful'
        BY <1>4, <2>1, <2>3 DEF EmitConfirmed, IInv, EventsTruthful
    <2> QED
        BY <2>1, <2>2, <2>4, <2>5 DEF IInv
<1> QED
    BY <1>1, <1>2, <1>3, <1>4 DEF TaskStep

\* The cleanup job preserves the invariant.
LEMMA SweepPreservesIInv ==
    ASSUME IInv, CancelStalePending \/ SweepFails \/ SweepStep PROVE IInv'
<1> USE DEF IInv, TypeOK, ApiInv, OutcomeInv, ReaderInv, EventsTruthful, CacheOnlyLags,
            Entries, cleanupVars, procVars, SweepMoves
<1>1. CASE CancelStalePending
    BY <1>1, SilentFacts DEF CancelStalePending, WithStaleCanceled, Stale
<1>2. CASE SweepFails
    BY <1>2, SilentFacts DEF SweepFails, WithStaleCanceled, Stale
<1>3. CASE InvalidateCanceled
    BY <1>3, SilentFacts DEF InvalidateCanceled, Invalidate
<1>4. CASE SweepEnds
    BY <1>4, SilentFacts DEF SweepEnds
<1>5. ASSUME NEW o \in Ids, EmitCanceled(o) PROVE IInv'
    <2>1. /\ events' \in [Ids -> Seq(EventTypes)] /\ CreatedFirst'
          /\ \A p \in Ids : \A x :
                Emitted(p, x)' => Emitted(p, x) \/ (p = o /\ x = "canceled")
        BY <1>5, EmitFacts DEF EmitCanceled, EventTypes
    <2> QED
        BY <1>5, <2>1 DEF EmitCanceled
<1> QED
    BY <1>1, <1>2, <1>3, <1>4, <1>5 DEF SweepStep

\* The cache and its readers preserve the invariant.
LEMMA CachePreservesIInv ==
    ASSUME IInv,
           \/ \E o \in Ids : EntryExpires(o)
           \/ \E r \in Readers : GetCaches(r) \/ \E o \in Ids : GetReads(r, o)
    PROVE  IInv'
<1> USE DEF cleanupVars, procVars
<1>1. ASSUME NEW o \in Ids, EntryExpires(o) PROVE IInv'
    BY <1>1, SilentFacts DEF EntryExpires, IInv, TypeOK, ApiInv, OutcomeInv, ReaderInv,
       EventsTruthful, CacheOnlyLags, Entries
<1>2. ASSUME NEW r \in Readers, GetCaches(r) PROVE IInv'
    <2>1. (EventsTruthful /\ CreatedFirst)'
        BY <1>2, QuietFacts DEF GetCaches
    <2>2. (ApiInv /\ OutcomeInv)'
        BY <1>2, SilentFacts DEF GetCaches, IInv, ApiInv, OutcomeInv
    <2>3. ReaderInv'
        BY <1>2 DEF GetCaches, IInv, TypeOK, ReaderInv
    <2>4. /\ reader[r][1] \in Ids
          /\ reader[r][2] \in {"PENDING", "CONFIRMED", "CANCELED"}
          /\ reader[r][2] \in {"PENDING", status[reader[r][1]]}
        BY <1>2, ReaderFacts DEF GetCaches, IInv, ReaderInv
    <2>5. TypeOK'
        BY <1>2, <2>4 DEF GetCaches, IInv, TypeOK, Entries
    <2>6. CacheOnlyLags'
        BY <1>2, <2>4 DEF GetCaches, IInv, TypeOK, CacheOnlyLags
    <2> QED
        BY <2>1, <2>2, <2>3, <2>5, <2>6 DEF IInv
<1>3. ASSUME NEW r \in Readers, NEW o \in Ids, GetReads(r, o) PROVE IInv'
    BY <1>3, SilentFacts DEF GetReads, IInv, TypeOK, ApiInv, OutcomeInv, ReaderInv,
       EventsTruthful, CacheOnlyLags, Entries
<1> QED
    BY <1>1, <1>2, <1>3

\* Time, the shutdown and a crash preserve the invariant.
LEMMA EnvironmentPreservesIInv ==
    ASSUME IInv, (\E o \in Ids : Ages(o)) \/ CancelCtx \/ Restart PROVE IInv'
<1> USE DEF IInv, TypeOK, ApiInv, OutcomeInv, ReaderInv, EventsTruthful, CacheOnlyLags,
            Entries, cleanupVars, procVars
<1>1. ASSUME NEW o \in Ids, Ages(o) PROVE IInv'
    BY <1>1, SilentFacts DEF Ages
<1>2. CASE CancelCtx
    BY <1>2, SilentFacts DEF CancelCtx
<1>3. CASE Restart
    <2>1. TypeOK'
        <3>1. ctxDone' \in BOOLEAN
            BY <1>3, Zenon DEF Restart
        <3>2. restarts' \in 0 .. MaxRestarts
            BY <1>3, MaxRestartsType DEF Restart
        <3>3. /\ api' \in [Ids -> {"idle", "created", "enqueueing", "done"}]
              /\ task' \in [Ids -> {"none", "queued", "confirmed", "skipped",
                                   "emitting", "over"}]
            BY <1>3 DEF Restart
        <3> QED
            BY <1>3, <3>1, <3>2, <3>3 DEF Restart
    <2>2. (ApiInv /\ OutcomeInv /\ ReaderInv)'
        BY <1>3, SilentFacts DEF Restart
    <2>3. (EventsTruthful /\ CreatedFirst /\ CacheOnlyLags)'
        BY <1>3, SilentFacts DEF Restart
    <2> QED
        BY <2>1, <2>2, <2>3
<1> QED
    BY <1>1, <1>2, <1>3

\* IInv is inductive.
LEMMA NextIInv == IInv /\ [Next]_vars => IInv'
<1> SUFFICES ASSUME IInv, [Next]_vars PROVE IInv'
    OBVIOUS
<1>1. CASE UNCHANGED vars
    BY <1>1, SilentFacts DEF vars, IInv, TypeOK, ApiInv, OutcomeInv, ReaderInv,
       EventsTruthful, CacheOnlyLags
<1> QED
    BY <1>1, ApiPreservesIInv, TaskPreservesIInv, SweepPreservesIInv,
       CachePreservesIInv, EnvironmentPreservesIInv DEF Next

\* IInv is an invariant of the orders service.
THEOREM Invariance == Spec => []IInv
    BY InitIInv, NextIInv, PTL DEF Spec

\* The state is well formed; in particular an order that is not found is never
\* cached.
THEOREM TypeCorrectness == Spec => []TypeOK
<1>1. IInv => TypeOK
    BY DEF IInv
<1> QED
    BY <1>1, Invariance, PTL

\* Neither the loser of the race between process and CleanupJob.run, nor a query
\* applied although it failed, changes an order that left PENDING.
THEOREM OutcomeFinalHolds == Spec => OutcomeFinal
<1>1. ASSUME IInv, [Next]_vars
      PROVE  \A o \in Ids : status[o] \in Final => status'[o] = status[o]
    <2> SUFFICES ASSUME NEW o \in Ids, status[o] \in Final PROVE status'[o] = status[o]
        OBVIOUS
    <2> USE DEF IInv, TypeOK, ApiInv, Final
    <2>1. ASSUME NEW p \in Ids, ApiStep(p) PROVE status'[o] = status[o]
        BY <1>1, <2>1 DEF ApiStep, Create, CreateFails, EmitCreated, Enqueue, EnqueueFails
    <2>2. ASSUME NEW p \in Ids, TaskStep(p) PROVE status'[o] = status[o]
        BY <1>1, <2>2, UpdateFacts DEF TaskStep, ProcessCanceled, ConfirmPending,
           ConfirmFails, InvalidateConfirmed, EmitConfirmed
    <2>3. CASE CancelStalePending \/ SweepFails \/ SweepStep
        BY <1>1, <2>3, UpdateFacts DEF CancelStalePending, SweepFails, SweepStep,
           InvalidateCanceled, EmitCanceled, SweepEnds
    <2>4. CASE UNCHANGED status
        BY <2>4
    <2> QED
        BY <1>1, <2>1, <2>2, <2>3, <2>4 DEF Next, vars, EntryExpires, Ages, GetCaches,
           GetReads, CancelCtx, Restart
<1>2. IInv /\ [Next]_vars
        => [\A o \in Ids : status[o] \in Final => status'[o] = status[o]]_vars
    BY <1>1
<1> QED
    BY <1>2, Invariance, PTL DEF Spec, OutcomeFinal

\* No event of PublishingStore tells of an outcome the order does not have.
THEOREM EventsTruthfulHolds == Spec => []EventsTruthful
<1>1. IInv => EventsTruthful
    BY DEF IInv
<1> QED
    BY <1>1, Invariance, PTL

\* The confirmation of an order never precedes its creation on the partition.
THEOREM CreatedFirstHolds == Spec => []CreatedFirst
<1>1. IInv => CreatedFirst
    BY DEF IInv
<1> QED
    BY <1>1, Invariance, PTL

\* A cache entry that differs from the row says PENDING, however many reads and
\* invalidations overtake each other.
THEOREM CacheOnlyLagsHolds == Spec => []CacheOnlyLags
<1>1. IInv => CacheOnlyLags
    BY DEF IInv
<1> QED
    BY <1>1, Invariance, PTL

-----------------------------------------------------------------------------
(* At most one event of each type.                                          *)

\* An event that was not emitted before is not a repetition.
LEMMA EmitOnce ==
    ASSUME TypeOK, NEW o \in Ids, NEW type \in EventTypes, Emit(o, type),
           EachEventOnce, ~Emitted(o, type)
    PROVE  EachEventOnce'
<1>1. events \in [Ids -> Seq(EventTypes)]
    BY DEF TypeOK
<1>2. CASE UNCHANGED events
    BY <1>2 DEF EachEventOnce
<1>3. CASE events' = [events EXCEPT ![o] = Append(@, type)]
    <2>1. /\ \A p \in Ids : p # o => events'[p] = events[p]
          /\ events'[o] = Append(events[o], type)
        BY <1>1, <1>3
    <2>2. /\ Len(events[o]) \in Nat
          /\ Len(events'[o]) = Len(events[o]) + 1
          /\ events'[o][Len(events[o]) + 1] = type
          /\ \A i \in 1 .. Len(events[o]) : events'[o][i] = events[o][i]
        BY <1>1, <2>1
    <2>3. \A i \in 1 .. Len(events[o]) : events[o][i] # type
        BY DEF Emitted
    <2> SUFFICES ASSUME NEW p \in Ids, NEW i \in 1 .. Len(events'[p]),
                        NEW j \in 1 .. Len(events'[p]), events'[p][i] = events'[p][j]
                 PROVE  i = j
        BY DEF EachEventOnce
    <2>4. CASE p # o
        BY <2>1, <2>4 DEF EachEventOnce
    <2>5. CASE p = o
        BY <2>2, <2>3, <2>5 DEF EachEventOnce
    <2> QED
        BY <2>4, <2>5
<1> QED
    BY <1>2, <1>3 DEF Emit

\* A step that emits nothing repeats nothing; what is yet to be emitted follows
\* from where handlers, tasks and the sweep are.
LEMMA SilentOnce ==
    ASSUME UnemittedInv, EachEventOnce, UNCHANGED events,
           \A o \in Ids :
              /\ api'[o] # "done" => task'[o] = "none"
              /\ api'[o] \in {"idle", "created"} => api[o] \in {"idle", "created"}
              /\ task'[o] \notin {"skipped", "over"} =>
                    task[o] \notin {"skipped", "over"}
              /\ o \in batch' => o \in batch \/ ~Emitted(o, "canceled")
    PROVE  (UnemittedInv /\ EachEventOnce)'
<1>1. \A p \in Ids : \A x : Emitted(p, x)' <=> Emitted(p, x)
    BY SilentFacts
<1>2. EachEventOnce'
    BY DEF EachEventOnce
<1> QED
    BY <1>1, <1>2 DEF UnemittedInv

\* The inductive step: each of the three emits comes after a state in which its
\* event was not emitted, and leaves that state.
LEMMA OnceStep ==
    ASSUME IInv, UnemittedInv, EachEventOnce, [Next]_vars
    PROVE  (UnemittedInv /\ EachEventOnce)'
<1>0. TypeOK
    BY DEF IInv
<1> USE DEF cleanupVars, procVars
<1>1. ASSUME NEW o \in Ids, EmitCreated(o) PROVE (UnemittedInv /\ EachEventOnce)'
    <2>1. \A p \in Ids : \A x :
             Emitted(p, x)' => Emitted(p, x) \/ (p = o /\ x = "created")
        BY <1>0, <1>1, EmitFacts DEF EmitCreated, EventTypes
    <2>2. EachEventOnce'
        BY <1>0, <1>1, EmitOnce DEF EmitCreated, EventTypes, UnemittedInv
    <2> QED
        BY <1>0, <1>1, <2>1, <2>2 DEF EmitCreated, UnemittedInv, TypeOK
<1>2. ASSUME NEW o \in Ids, EmitConfirmed(o) PROVE (UnemittedInv /\ EachEventOnce)'
    <2>1. \A p \in Ids : \A x :
             Emitted(p, x)' => Emitted(p, x) \/ (p = o /\ x = "confirmed")
        BY <1>0, <1>2, EmitFacts DEF EmitConfirmed, EventTypes
    <2>2. EachEventOnce'
        BY <1>0, <1>2, EmitOnce DEF EmitConfirmed, TaskMoves, EventTypes, UnemittedInv
    <2> QED
        BY <1>0, <1>2, <2>1, <2>2 DEF EmitConfirmed, TaskMoves, UnemittedInv, TypeOK
<1>3. ASSUME NEW o \in Ids, EmitCanceled(o) PROVE (UnemittedInv /\ EachEventOnce)'
    <2>1. \A p \in Ids : \A x :
             Emitted(p, x)' => Emitted(p, x) \/ (p = o /\ x = "canceled")
        BY <1>0, <1>3, EmitFacts DEF EmitCanceled, EventTypes
    <2>2. EachEventOnce'
        BY <1>0, <1>3, EmitOnce DEF EmitCanceled, EventTypes, UnemittedInv
    <2> QED
        BY <1>0, <1>3, <2>1, <2>2 DEF EmitCanceled, SweepMoves, UnemittedInv
<1>4. ASSUME NEW o \in Ids, ApiStep(o), ~EmitCreated(o)
      PROVE  (UnemittedInv /\ EachEventOnce)'
    <2>1. CASE Create(o) \/ CreateFails(o)
        BY <1>0, <2>1, SilentOnce DEF Create, CreateFails, TypeOK, UnemittedInv
    <2>2. CASE Enqueue(o) \/ EnqueueFails(o)
        <3>1. task'[o] \notin {"skipped", "over"} => task[o] \notin {"skipped", "over"}
            BY <1>0, <2>2 DEF Enqueue, EnqueueFails, TypeOK, UnemittedInv
        <3> QED
            BY <1>0, <2>2, <3>1, SilentOnce DEF Enqueue, EnqueueFails, TypeOK, UnemittedInv
    <2> QED
        BY <1>4, <2>1, <2>2 DEF ApiStep
<1>5. ASSUME NEW o \in Ids, TaskStep(o), ~EmitConfirmed(o)
      PROVE  (UnemittedInv /\ EachEventOnce)'
    <2>1. UNCHANGED <<events, api, batch>>
        BY <1>5 DEF TaskStep, ProcessCanceled, ConfirmPending, ConfirmFails,
           InvalidateConfirmed, TaskMoves
    <2>2. \A p \in Ids :
             /\ task'[p] \notin {"skipped", "over"} => task[p] \notin {"skipped", "over"}
             /\ api[p] # "done" => task'[p] = "none"
        BY <1>0, <1>5 DEF TaskStep, ProcessCanceled, ConfirmPending, ConfirmFails,
           InvalidateConfirmed, TaskMoves, TypeOK, UnemittedInv
    <2> QED
        BY <2>1, <2>2, SilentOnce
<1>6. CASE CancelStalePending
    <2>1. UNCHANGED <<events, api, task>> /\ batch' = {o \in Ids : Stale(o)}
        BY <1>6 DEF CancelStalePending, SweepMoves
    <2>2. \A o \in Ids : Stale(o) => ~Emitted(o, "canceled")
        BY DEF Stale, IInv, EventsTruthful
    <2> QED
        BY <2>1, <2>2, SilentOnce DEF UnemittedInv
<1>7. CASE UNCHANGED <<events, api, task, batch>>
    BY <1>7, SilentOnce DEF UnemittedInv
<1>8. CASE Restart
    BY <1>0, <1>8, SilentOnce DEF Restart, TypeOK, UnemittedInv
<1> QED
    BY <1>1, <1>2, <1>3, <1>4, <1>5, <1>6, <1>7, <1>8
    DEF Next, vars, SweepStep, SweepFails, InvalidateCanceled, SweepEnds, SweepMoves,
        EntryExpires, Ages, GetCaches, GetReads, CancelCtx

\* An order has at most one event of each type, for any number of orders, of
\* restarts and of sweeps.
THEOREM EachEventOnceHolds == Spec => []EachEventOnce
<1>1. Init => UnemittedInv /\ EachEventOnce
    <2> SUFFICES ASSUME Init PROVE UnemittedInv /\ EachEventOnce
        OBVIOUS
    <2>1. \A o \in Ids : Len(events[o]) = 0
        BY DEF Init
    <2> QED
        BY <2>1 DEF Init, UnemittedInv, EachEventOnce, Emitted
<1>2. IInv /\ UnemittedInv /\ EachEventOnce /\ [Next]_vars
        => (UnemittedInv /\ EachEventOnce)'
    BY OnceStep
<1> QED
    BY <1>1, <1>2, Invariance, PTL DEF Spec
=============================================================================
