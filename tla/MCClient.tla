------------------------------ MODULE MCClient ------------------------------
(***************************************************************************)
(* Instances of Client for TLC: two clients, two calls of stop(), a cron   *)
(* check-in and a heartbeat.                                               *)
(***************************************************************************)
EXTENDS Client, TLC

CONSTANTS c1, c2  \* two Cron instances

OneRunsBackup == c1 :> "backup"

BothRunBackup == c1 :> "backup" @@ c2 :> "backup"
=============================================================================
