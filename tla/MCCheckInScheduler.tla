------------------------- MODULE MCCheckInScheduler -------------------------
(***************************************************************************)
(* Instances of CheckInScheduler for TLC: two runs of one cron check-in,   *)
(* or heartbeats, of the check-ins "backup" and "worker".                  *)
(***************************************************************************)
EXTENDS CheckInScheduler, TLC

CONSTANTS c1, c2  \* two Cron instances

BothRunBackup == c1 :> "backup" @@ c2 :> "backup"

OneRunsBackup == c1 :> "backup"

NoRuns == <<>>

\* The two instances differ in their digest only.
Instances == Permutations({c1, c2})
=============================================================================
