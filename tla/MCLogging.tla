----------------------------- MODULE MCLogging -----------------------------
(* The instance of Logging that TLC checks. *)
EXTENDS Logging

MCLevels == {"debug", "crit"}   \* "crit": of Winston alone
MCPinoLevels == {50}
=============================================================================
