---------------------------- MODULE MCEntrypoint ----------------------------
(* Small instances of Entrypoint for TLC.                                   *)
EXTENDS Entrypoint

CONSTANTS s1, s2

\* A hook in every phase, and two before the stops: the second is skipped when
\* the first fails.
AllHooks == [p \in HookPhases |-> IF p = "PreStop" THEN 2 ELSE 1]
=============================================================================
