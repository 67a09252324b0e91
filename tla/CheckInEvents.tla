--------------------------- MODULE CheckInEvents ---------------------------
(***************************************************************************)
(* The check-in event of src/src/check_in/event.ts and the two operations  *)
(* that thin out a list of events: the redundancy test applied when an     *)
(* event is queued and the removal of surplus cron pairs before a          *)
(* transmission.                                                           *)
(*                                                                         *)
(* The array `events' is a set here: every event carries the number `id'   *)
(* of its construction, events are only ever appended, and both operations *)
(* filter, so the order of the array is the order of the ids.  The         *)
(* timestamp is left out; the id orders events the way it would.           *)
(***************************************************************************)
EXTENDS Naturals

CONSTANTS Identifiers,     \* names of check-ins
          Crons,           \* Cron instances; each draws its own random digest
          CronIdentifier,  \* the name each Cron instance was created with
          Heartbeats       \* the names heartbeats are sent under

ASSUME CronIdentifierAssumption == CronIdentifier \in [Crons -> Identifiers]
ASSUME HeartbeatsAssumption == Heartbeats \subseteq Identifiers

Kinds == {"start", "finish"}

\* Event.cron(cron, kind): the digest stands for the instance that drew it.
CronEvent(n, cron, kind) ==
  [id |-> n, check_in_type |-> "cron", identifier |-> CronIdentifier[cron],
   digest |-> cron, kind |-> kind]

\* Event.heartbeat(identifier): no digest and no kind.
HeartbeatEvent(n, identifier) ==
  [id |-> n, check_in_type |-> "heartbeat", identifier |-> identifier,
   digest |-> "undefined", kind |-> "undefined"]

\* Every event the two factory methods can build with the number n.
EventsNumbered(n) ==
  {CronEvent(n, c, k) : c \in Crons, k \in Kinds}
    \cup {HeartbeatEvent(n, i) : i \in Heartbeats}

Events ==
  [id : Nat, check_in_type : {"cron"}, identifier : Identifiers,
   digest : Crons, kind : Kinds]
    \cup [id : Nat, check_in_type : {"heartbeat"}, identifier : Identifiers,
          digest : {"undefined"}, kind : {"undefined"}]

-----------------------------------------------------------------------------
(* What the two operations are for, in terms of the reports alone.         *)

\* Two events report the same thing, possibly at different times.
SameReport(e, f) ==
  /\ e.check_in_type = f.check_in_type
  /\ e.identifier = f.identifier
  /\ e.digest = f.digest
  /\ e.kind = f.kind

\* e is one side of a run of which both sides are in S.
IsPaired(e, S) ==
  /\ e.check_in_type = "cron"
  /\ \E o \in S : /\ o.check_in_type = "cron"
                  /\ o.identifier = e.identifier
                  /\ o.digest = e.digest
                  /\ o.kind # e.kind

\* kept is all of the queue but for complete runs of a check-in of which kept
\* holds another complete run; and it holds one complete run per check-in at
\* most.
Thins(kept, queue) ==
  /\ kept \subseteq queue
  /\ \A e \in queue \ kept :
       /\ IsPaired(e, queue)
       /\ \E p \in kept : /\ p.identifier = e.identifier
                          /\ p.digest # e.digest
                          /\ IsPaired(p, kept)
  /\ \A e, f \in kept :
       IsPaired(e, kept) /\ IsPaired(f, kept) /\ e.identifier = f.identifier
         => e.digest = f.digest

-----------------------------------------------------------------------------
(* Event.isRedundant and Scheduler.addEvent                                *)

\* Slip: the digest is not compared.
IsRedundantAnyDigest(event, newEvent) ==
  /\ event.check_in_type = newEvent.check_in_type
  /\ event.identifier = newEvent.identifier
  /\ event.kind = newEvent.kind

\* event.isRedundant(newEvent): same check-in, and for crons the same side of
\* the same run.
IsRedundant(event, newEvent) ==
  /\ event.check_in_type = newEvent.check_in_type
  /\ event.identifier = newEvent.identifier
  /\ event.check_in_type = "cron" =>
       event.kind = newEvent.kind /\ event.digest = newEvent.digest

\* Slip: an event that is already queued is not queued again.
AddEventIfNew(events, event) ==
  IF \E e \in events : IsRedundant(e, event) THEN events
                                             ELSE events \cup {event}

\* Scheduler.addEvent: drop what the new event makes redundant, then push it.
AddEvent(events, event) ==
  {e \in events : ~IsRedundant(e, event)} \cup {event}

-----------------------------------------------------------------------------
(* Event.deduplicateCron                                                   *)

\* The other side of the run that e reports.
IsCounterpart(e, other) ==
  /\ other.check_in_type = "cron"
  /\ other.identifier = e.identifier
  /\ other.digest = e.digest
  /\ other.kind # e.kind

\* The events of a check-in at which the first loop of deduplicateCron sees a
\* pair become complete: their counterpart comes earlier in the array.
Completing(events, identifier) ==
  {e \in events : /\ e.check_in_type = "cron"
                  /\ e.identifier = identifier
                  /\ \E o \in events : IsCounterpart(e, o) /\ o.id < e.id}

\* complete_digests.get(identifier)
CompleteDigests(events, identifier) ==
  {e.digest : e \in Completing(events, identifier)}

\* keep_digest.get(identifier): each completed pair overwrites the one before.
KeepDigest(events, identifier) ==
  (CHOOSE last \in Completing(events, identifier) :
     \A e \in Completing(events, identifier) : e.id <= last.id).digest

\* Slip: the pair to keep is spliced out with the others.
SurplusEveryPair(events) ==
  {e \in events : /\ e.check_in_type = "cron"
                  /\ e.digest \in CompleteDigests(events, e.identifier)}

\* The events the second loop of deduplicateCron splices out of the array.
Surplus(events) ==
  {e \in events : /\ e.check_in_type = "cron"
                  /\ e.digest \in CompleteDigests(events, e.identifier)
                  /\ KeepDigest(events, e.identifier) # e.digest}

DeduplicateCron(events) == events \ Surplus(events)
=============================================================================
