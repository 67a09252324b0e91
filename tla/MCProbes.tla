------------------------------ MODULE MCProbes ------------------------------
(* Probes with two names, two functions and three timers; a minute is two  *)
(* units of time and the event loop may be one late.                       *)
EXTENDS Probes

CONSTANTS p, q, f, g, t1, t2, t3

MCNames == {p, q}
MCFns == {f, g}
MCTimerIds == {t1, t2, t3}
=============================================================================
