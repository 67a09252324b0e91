--------------------------- MODULE MCTransmitter ---------------------------
(***************************************************************************)
(* Instances of Transmitter for TLC.  The statuses stand for: success, a   *)
(* redirect that turns the method into GET, one that keeps it, an error.   *)
(***************************************************************************)
EXTENDS Transmitter

SomeStatuses == {200, 302, 307, 404}
=============================================================================
