--------------------------- MODULE MCCheckInQueue ---------------------------
(***************************************************************************)
(* Instance of CheckInQueue for TLC: two runs of "backup", one of          *)
(* "report", and heartbeats of "report".                                   *)
(***************************************************************************)
EXTENDS CheckInQueue

CONSTANTS c1, c2, c3  \* three Cron instances

TwoBackupsOneReport == c1 :> "backup" @@ c2 :> "backup" @@ c3 :> "report"
=============================================================================
