----------------------------- MODULE Lifecycle ------------------------------
(***************************************************************************)
(* What Entrypoint.Run promises about a set of services, with no hooks,    *)
(* channels, goroutines or triggers in sight: the services are started     *)
(* together, canceled together, the ones that can be stopped are stopped   *)
(* together, and the lifecycle ends when everything has finished or the    *)
(* time for it has expired.  A lifecycle may also end before it is up, or  *)
(* be abandoned while it comes up.                                         *)
(***************************************************************************)
CONSTANTS Services, Stoppers

VARIABLES
    phase,     \* how far the lifecycle is
    live,      \* services whose Start has not finished
    stopping,  \* services whose Stop has not finished
    expired    \* the shutdown timeout has elapsed

lcVars == <<phase, live, stopping, expired>>

Init ==
    /\ phase = "idle"
    /\ live = {}
    /\ stopping = {}
    /\ expired = FALSE

Launch ==
    /\ phase = "idle"
    /\ phase' = "up"
    /\ live' = Services
    /\ UNCHANGED <<stopping, expired>>

Abandon ==
    /\ phase \in {"idle", "up"}
    /\ phase' = "ended"
    /\ UNCHANGED <<live, stopping, expired>>

Cancel ==
    /\ phase = "up"
    /\ phase' = "canceled"
    /\ UNCHANGED <<live, stopping, expired>>

StopAll ==
    /\ phase = "canceled"
    /\ phase' = "stopping"
    /\ stopping' = Stoppers
    /\ UNCHANGED <<live, expired>>

Expire ==
    /\ phase \notin {"idle", "up"}
    /\ expired' = TRUE
    /\ UNCHANGED <<phase, live, stopping>>

StartFinishes(s) ==
    /\ s \in live
    /\ live' = live \ {s}
    /\ UNCHANGED <<phase, stopping, expired>>

StopFinishes(s) ==
    /\ s \in stopping
    /\ stopping' = stopping \ {s}
    /\ UNCHANGED <<phase, live, expired>>

End ==
    /\ phase = "stopping"
    /\ expired \/ (live = {} /\ stopping = {})
    /\ phase' = "ended"
    /\ UNCHANGED <<live, stopping, expired>>

Next ==
    \/ Launch \/ Abandon \/ Cancel \/ StopAll \/ Expire \/ End
    \/ \E s \in live : StartFinishes(s)
    \/ \E s \in stopping : StopFinishes(s)

Spec == Init /\ [][Next]_lcVars
=============================================================================
