---------------------------- MODULE CheckInOutbox ----------------------------
(***************************************************************************)
(* What the check-in scheduler promises its caller, with no timers, no     *)
(* requests and no algorithm: an outbox.  Reports are put in until it is   *)
(* closed, a newer report takes the place of an older one that says the    *)
(* same, and the whole content is posted at once, thinned of surplus cron  *)
(* runs.  Closing posts what is left; nothing is posted afterwards.        *)
(***************************************************************************)
EXTENDS CheckInEvents

VARIABLES queued,  \* reports put in and not yet posted
          posted,  \* the batches posted so far
          closed   \* is the outbox closed?

vars == <<queued, posted, closed>>

Init ==
  /\ queued = {}
  /\ posted = {}
  /\ closed = FALSE

\* The newcomer is the youngest report in the box.
Accept ==
  /\ ~closed
  /\ \E event \in queued' :
       /\ \A e \in queued : e.id < event.id
       /\ queued' = {e \in queued : ~SameReport(e, event)} \cup {event}
  /\ UNCHANGED <<posted, closed>>

PostAll ==
  /\ queued # {}
  /\ queued' = {}
  /\ \E batch \in SUBSET queued :
       /\ Thins(batch, queued)
       /\ posted' = posted \cup {batch}

Post ==
  /\ ~closed
  /\ PostAll
  /\ UNCHANGED closed

Close ==
  /\ ~closed
  /\ closed' = TRUE
  /\ PostAll \/ (queued = {} /\ UNCHANGED <<queued, posted>>)

Next == Accept \/ Post \/ Close

Spec == Init /\ [][Next]_vars
=============================================================================
