---------------------------- MODULE FifoExecutor ----------------------------
(***************************************************************************)
(* What a worker pool promises about the tasks it accepts: they begin in   *)
(* the order they were accepted, each at most once, no more of them at a   *)
(* time than there are workers, and none is accepted once it is closed.    *)
(***************************************************************************)
EXTENDS Naturals, Sequences, FiniteSets

CONSTANTS Tasks, Width

VARIABLES
    backlog,   \* accepted tasks that have not begun, oldest first
    active,    \* tasks being executed
    finished,  \* tasks that have been executed
    shut       \* no task is accepted any more

fifoVars == <<backlog, active, finished, shut>>

Unknown(t) ==
    /\ t \notin active \cup finished
    /\ \A i \in 1 .. Len(backlog) : backlog[i] # t

Init ==
    /\ backlog = <<>>
    /\ active = {}
    /\ finished = {}
    /\ shut = FALSE

Accept(t) ==
    /\ ~shut
    /\ Unknown(t)
    /\ backlog' = Append(backlog, t)
    /\ UNCHANGED <<active, finished, shut>>

Begin ==
    /\ backlog # <<>>
    /\ active' = active \cup {Head(backlog)}
    /\ Cardinality(active') <= Width
    /\ backlog' = Tail(backlog)
    /\ UNCHANGED <<finished, shut>>

\* A task accepted by a worker that is waiting for one begins at once.
AcceptAndBegin(t) ==
    /\ ~shut
    /\ Unknown(t)
    /\ backlog = <<>>
    /\ active' = active \cup {t}
    /\ Cardinality(active') <= Width
    /\ UNCHANGED <<backlog, finished, shut>>

Finish(t) ==
    /\ t \in active
    /\ active' = active \ {t}
    /\ finished' = finished \cup {t}
    /\ UNCHANGED <<backlog, shut>>

Close ==
    /\ shut' = TRUE
    /\ UNCHANGED <<backlog, active, finished>>

Next ==
    \/ \E t \in Tasks : Accept(t) \/ AcceptAndBegin(t) \/ Finish(t)
    \/ Begin \/ Close

Spec == Init /\ [][Next]_fifoVars
=============================================================================
