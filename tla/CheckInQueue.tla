---------------------------- MODULE CheckInQueue ----------------------------
(***************************************************************************)
(* The array behind the scheduler's queue, step by step: the filter and    *)
(* push of addEvent (src/src/check_in/scheduler.ts) and the two loops of   *)
(* deduplicateCron (src/src/check_in/event.ts), the second of which        *)
(* splices the array it walks over.  CheckInEvents gives both operations   *)
(* as operators on sets; this module shows that the loops compute them.    *)
(* Indices count from 1.                                                   *)
(***************************************************************************)
EXTENDS CheckInEvents, SequencesExt

CONSTANT MaxEvents  \* bound: events pushed before the queue is thinned

ASSUME MaxEventsAssumption == MaxEvents \in Nat

VARIABLES
  phase,             \* "queueing", then the two loops, then "done"
  nextId,            \* number of the next event
  events,            \* the array
  i,                 \* the index of the loop that runs
  digests,           \* start_digests and finish_digests, by kind
  complete_digests,  \* digests of complete pairs, by identifier
  keep_digest,       \* the pair to keep, by identifier
  queued             \* history: the queue before thinning, as a set

maps == <<digests, complete_digests, keep_digest>>
vars == <<phase, nextId, events, i, maps, queued>>

Init ==
  /\ phase = "queueing"
  /\ nextId = 1
  /\ events = <<>>
  /\ i = 1
  /\ digests = [k \in Kinds |-> [id \in Identifiers |-> {}]]
  /\ complete_digests = [id \in Identifiers |-> {}]
  /\ keep_digest = [id \in Identifiers |-> "undefined"]
  /\ queued = {}

\* Slip: the new event takes the place of the one it makes redundant.
PushInPlace(event) ==
  /\ phase = "queueing"
  /\ nextId <= MaxEvents
  /\ nextId' = nextId + 1
  /\ events' = IF \E e \in ToSet(events) : IsRedundant(e, event)
               THEN [n \in DOMAIN events |->
                       IF IsRedundant(events[n], event) THEN event ELSE events[n]]
               ELSE Append(events, event)
  /\ queued' = AddEvent(queued, event)
  /\ UNCHANGED <<phase, i, maps>>

\* Array.filter() that lets those in kept pass.
Filter(existing, kept) ==
  LET filtered[n \in 0..Len(existing)] ==
        IF n = 0 THEN <<>>
        ELSE IF existing[n] \in kept THEN Append(filtered[n - 1], existing[n])
        ELSE filtered[n - 1] IN
  filtered[Len(existing)]

\* addEvent(event)
Push(event) ==
  LET kept == {e \in ToSet(events) : ~IsRedundant(e, event)} IN
  /\ phase = "queueing"
  /\ nextId <= MaxEvents
  /\ nextId' = nextId + 1
  /\ events' = Append(Filter(events, kept), event)
  /\ queued' = AddEvent(queued, event)
  /\ UNCHANGED <<phase, i, maps>>

\* deduplicateCron(events) is called and makes its maps.
Deduplicate ==
  /\ phase = "queueing"
  /\ phase' = "scan"
  /\ UNCHANGED <<nextId, events, i, maps, queued>>

\* The two halves of a pair are looked for in each other's map.
OtherKind(kind) == IF kind = "start" THEN "finish" ELSE "start"

\* One turn of the first loop for a cron event.
ScanEvent(event) ==
  /\ digests' = [digests EXCEPT ![event.kind][event.identifier] =
                                   @ \cup {event.digest}]
  /\ IF event.digest \in digests[OtherKind(event.kind)][event.identifier]
     THEN /\ complete_digests' = [complete_digests EXCEPT
                                    ![event.identifier] = @ \cup {event.digest}]
          /\ keep_digest' = [keep_digest EXCEPT
                               ![event.identifier] = event.digest]
     ELSE UNCHANGED <<complete_digests, keep_digest>>

Scan ==
  /\ phase = "scan"
  /\ i <= Len(events)
  /\ i' = i + 1
  /\ IF events[i].check_in_type = "cron" THEN ScanEvent(events[i])
                                         ELSE UNCHANGED maps
  /\ UNCHANGED <<phase, nextId, events, queued>>

ScanEnds ==
  /\ phase = "scan"
  /\ i > Len(events)
  /\ phase' = "splice"
  /\ i' = 1
  /\ UNCHANGED <<nextId, events, maps, queued>>

\* The event belongs to a complete pair that is not the one to keep.
IsSurplus(event) ==
  /\ event.check_in_type = "cron"
  /\ event.digest \in complete_digests[event.identifier]
  /\ keep_digest[event.identifier] # event.digest

\* Slip: i-- is missing, and the event behind a spliced one is passed over.
SpliceSkipping ==
  /\ phase = "splice"
  /\ i <= Len(events)
  /\ i' = i + 1
  /\ events' = IF IsSurplus(events[i]) THEN RemoveAt(events, i) ELSE events
  /\ UNCHANGED <<phase, nextId, maps, queued>>

\* Slip: the loop stays where it is after any turn.
SpliceStaying ==
  /\ phase = "splice"
  /\ i <= Len(events)
  /\ events' = IF IsSurplus(events[i]) THEN RemoveAt(events, i) ELSE events
  /\ UNCHANGED <<phase, nextId, i, maps, queued>>

\* One turn of the second loop: i-- makes up for the i++ after a splice.
Splice ==
  /\ phase = "splice"
  /\ i <= Len(events)
  /\ IF IsSurplus(events[i])
     THEN events' = RemoveAt(events, i) /\ UNCHANGED i
     ELSE i' = i + 1 /\ UNCHANGED events
  /\ UNCHANGED <<phase, nextId, maps, queued>>

SpliceEnds ==
  /\ phase = "splice"
  /\ i > Len(events)
  /\ phase' = "done"
  /\ UNCHANGED <<nextId, events, i, maps, queued>>

\* The caller transmits what is left.
Done == phase = "done" /\ UNCHANGED vars

Loops == Scan \/ ScanEnds \/ Splice \/ SpliceEnds

Next ==
  \/ \E event \in EventsNumbered(nextId) : Push(event)
  \/ Deduplicate
  \/ Loops
  \/ Done

Spec == Init /\ [][Next]_vars

\* Nothing can interrupt the loops once deduplicateCron is called.
FairSpec == Spec /\ WF_vars(Loops)

-----------------------------------------------------------------------------
\* The array lists events in the order in which they were constructed, each
\* once, before, during and after the loops; while queueing it is the set the
\* scheduler's model works with.
ArrayIsQueue ==
  /\ \A m, n \in DOMAIN events : m < n => events[m].id < events[n].id
  /\ phase \in {"queueing", "scan"} => ToSet(events) = queued

\* The loops compute DeduplicateCron.
LoopsDeduplicate ==
  phase = "done" => ToSet(events) = DeduplicateCron(queued)

\* deduplicateCron returns although it shortens the array under its index.
LoopsEnd == phase = "scan" ~> phase = "done"
=============================================================================
