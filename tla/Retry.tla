------------------------------- MODULE Retry --------------------------------
(***************************************************************************)
(* retry.Do of pkg/internal/retry: call connect until it succeeds, the     *)
(* attempts are used up, or ctx is canceled during a wait.  What connect   *)
(* does is left to the module that instantiates this one.  Durations are   *)
(* integers; the factor 1.5 is exact integer arithmetic, as it is for      *)
(* time.Duration below 2^53 ns.                                            *)
(***************************************************************************)
EXTENDS Integers

VARIABLES
    cfg,      \* the Config: maxAttempts, any integer, backoffMin and backoffMax
    retry,    \* where Do is
    attempt,  \* the loop variable
    backoff   \* the next wait

\* MaxAttempts <= 0 is treated as 1.
Limit == IF cfg.maxAttempts <= 0 THEN 1 ELSE cfg.maxAttempts

NextBackoff(b) ==
    LET grown == (b * 3) \div 2
    IN  IF grown < cfg.backoffMax THEN grown ELSE cfg.backoffMax

RetryInit ==
    /\ retry = "attempt"
    /\ attempt = 1
    /\ backoff = cfg.backoffMin

AttemptSucceeds ==
    /\ retry = "attempt"
    /\ retry' = "ok"
    /\ UNCHANGED <<cfg, attempt, backoff>>

\* FAULTY: one attempt more than the limit.
AttemptFailsLate ==
    /\ retry = "attempt"
    /\ retry' = IF attempt > Limit THEN "exhausted" ELSE "wait"
    /\ UNCHANGED <<cfg, attempt, backoff>>

\* The last attempt's error is returned, any other is followed by a wait.
AttemptFails ==
    /\ retry = "attempt"
    /\ retry' = IF attempt = Limit THEN "exhausted" ELSE "wait"
    /\ UNCHANGED <<cfg, attempt, backoff>>

WaitElapses ==
    /\ retry = "wait"
    /\ retry' = "attempt"
    /\ attempt' = attempt + 1
    /\ backoff' = NextBackoff(backoff)
    /\ UNCHANGED cfg

\* The caller adds that ctx is done.
WaitCanceled ==
    /\ retry = "wait"
    /\ retry' = "canceled"
    /\ UNCHANGED <<cfg, attempt, backoff>>
=============================================================================
