--------------------------- MODULE CheckInProofs ---------------------------
(***************************************************************************)
(* Theorems about the check-ins, for every set of Cron instances and every *)
(* choice of the debounce times, the clock's steps and the bounds.  The    *)
(* operators of CheckInEvents come first, then CheckInScheduler, then the  *)
(* Client that uses it.  Each invariant is shown to be preserved action by *)
(* action; later ones use the earlier ones.                                *)
(***************************************************************************)
EXTENDS Client, WellFoundedInduction, TLAPS

-----------------------------------------------------------------------------
(* CheckInEvents: what a redundant event is, what addEvent leaves in the   *)
(* queue, and what deduplicateCron keeps.                                  *)

\* The numbers of the events of S tell them apart.
Distinct(S) == \A e, f \in S : e.id = f.id => e = f

\* Every event a factory method builds is an event.
LEMMA NumberedEvent ==
  ASSUME NEW n \in Nat, NEW event \in EventsNumbered(n)
  PROVE  event \in Events /\ event.id = n
BY CronIdentifierAssumption, HeartbeatsAssumption
   DEF EventsNumbered, CronEvent, HeartbeatEvent, Events, Kinds

\* isRedundant() holds of exactly the events that say the same.
LEMMA RedundantMeansSame ==
  ASSUME NEW e \in Events, NEW f \in Events
  PROVE  IsRedundant(e, f) <=> SameReport(e, f)
BY DEF IsRedundant, SameReport, Events

\* addEvent() replaces the events that say the same.
LEMMA AddEventReplaces ==
  ASSUME NEW S \in SUBSET Events, NEW event \in Events
  PROVE  AddEvent(S, event) = {e \in S : ~SameReport(e, event)} \cup {event}
BY RedundantMeansSame DEF AddEvent

\* A set of natural numbers with an upper bound has a greatest element.
LEMMA Greatest ==
  ASSUME NEW T \in SUBSET Nat, T # {}, NEW bound \in Nat,
         \A t \in T : t <= bound
  PROVE  \E m \in T : \A t \in T : t <= m
<1> DEFINE D == {bound - t : t \in T}
<1>1. \A t \in T : t \in Nat /\ bound - t \in Nat
  OBVIOUS
<1>2. D \subseteq Nat
  BY <1>1
<1>3. \A t \in T : bound - t \in D
  OBVIOUS
<1>4. \A c \in D : \E t \in T : c = bound - t
  OBVIOUS
<1>5. D # {}
  BY <1>3
<1> HIDE DEF D
<1>6. PICK d \in D : \A c \in D : ~(<<c, d>> \in OpToRel(<, Nat))
  BY <1>2, <1>5, NatLessThanWellFounded, WFMin
<1>7. \A c \in D : ~(c < d)
  BY <1>2, <1>6 DEF OpToRel
<1>8. PICK m \in T : d = bound - m
  BY <1>4
<1>9. ASSUME NEW t \in T PROVE t <= m
  <2>1. ~(bound - t < bound - m)
    BY <1>3, <1>7, <1>8
  <2> QED
    BY <2>1, <1>1
<1> QED
  BY <1>9

\* Where some pair of a check-in is complete, one event completes last.
LEMMA LastCompleting ==
  ASSUME NEW S \in SUBSET Events, NEW bound \in Nat,
         \A e \in S : e.id < bound,
         NEW identifier, Completing(S, identifier) # {}
  PROVE  \E last \in Completing(S, identifier) :
           \A e \in Completing(S, identifier) : e.id <= last.id
<1> DEFINE C == Completing(S, identifier)
           T == {e.id : e \in C}
<1>1. C \subseteq S
  BY DEF Completing
<1>2. \A e \in C : e.id \in Nat /\ e.id <= bound
  BY <1>1 DEF Events
<1>3. T \in SUBSET Nat /\ T # {} /\ \A t \in T : t <= bound
  BY <1>2
<1>4. PICK m \in T : \A t \in T : t <= m
  BY <1>3, Greatest
<1> QED
  BY <1>4

\* KeepDigest is the digest of an event that completes a pair.
LEMMA KeptIsComplete ==
  ASSUME NEW S \in SUBSET Events, NEW bound \in Nat,
         \A e \in S : e.id < bound,
         NEW identifier, Completing(S, identifier) # {}
  PROVE  \E last \in Completing(S, identifier) :
           last.digest = KeepDigest(S, identifier)
BY LastCompleting DEF KeepDigest

\* An event that completes a pair is a cron event with its counterpart in S.
LEMMA CompletingIsPaired ==
  ASSUME NEW S \in SUBSET Events, NEW identifier,
         NEW e \in Completing(S, identifier)
  PROVE  /\ e \in S
         /\ e.check_in_type = "cron"
         /\ e.identifier = identifier
         /\ \E o \in S : IsCounterpart(e, o)
BY DEF Completing

\* Of a pair in S, the later event completes it.
LEMMA PairedIsCompleting ==
  ASSUME NEW S \in SUBSET Events, Distinct(S),
         NEW e \in S, IsPaired(e, S)
  PROVE  e.digest \in CompleteDigests(S, e.identifier)
<1>1. PICK o \in S : IsCounterpart(e, o)
  BY DEF IsPaired, IsCounterpart
<1>2. e.id \in Nat /\ o.id \in Nat /\ e.id # o.id
  BY <1>1 DEF Distinct, IsCounterpart, Events
<1>3. CASE o.id < e.id
  BY <1>1, <1>3 DEF IsPaired, CompleteDigests, Completing
<1>4. CASE e.id < o.id
  <2>1. IsCounterpart(o, e) /\ o.identifier = e.identifier
                            /\ o.digest = e.digest
    BY <1>1 DEF IsPaired, IsCounterpart
  <2>2. o \in Completing(S, e.identifier)
    BY <1>1, <1>4, <2>1 DEF Completing, IsCounterpart
  <2> QED
    BY <2>1, <2>2 DEF CompleteDigests
<1> QED
  BY <1>2, <1>3, <1>4

\* deduplicateCron keeps one complete run per check-in and all events that
\* belong to none.
THEOREM DeduplicateThins ==
  ASSUME NEW S \in SUBSET Events, Distinct(S), NEW bound \in Nat,
         \A e \in S : e.id < bound
  PROVE  Thins(DeduplicateCron(S), S)
<1> DEFINE kept == DeduplicateCron(S)
<1>1. kept \subseteq S
  BY DEF DeduplicateCron
<1>2. ASSUME NEW e \in S \ kept
      PROVE  /\ IsPaired(e, S)
             /\ \E p \in kept : /\ p.identifier = e.identifier
                               /\ p.digest # e.digest
                               /\ IsPaired(p, kept)
  <2> DEFINE id == e.identifier
  <2>1. /\ e \in S
        /\ e.check_in_type = "cron"
        /\ e.digest \in CompleteDigests(S, id)
        /\ KeepDigest(S, id) # e.digest
    BY DEF DeduplicateCron, Surplus
  <2>2. PICK x \in Completing(S, id) : x.digest = e.digest
    BY <2>1 DEF CompleteDigests
  <2>3. PICK y \in S : IsCounterpart(x, y)
    BY CompletingIsPaired
  <2>4. x \in S /\ x.check_in_type = "cron" /\ x.identifier = id
    BY CompletingIsPaired
  <2>5. IsPaired(e, S)
    BY <2>1, <2>2, <2>3, <2>4 DEF IsPaired, IsCounterpart
  <2>6. PICK last \in Completing(S, id) : last.digest = KeepDigest(S, id)
    BY <2>2, KeptIsComplete
  <2>7. PICK o \in S : IsCounterpart(last, o)
    BY CompletingIsPaired
  <2>8. last \in S /\ last.check_in_type = "cron" /\ last.identifier = id
    BY CompletingIsPaired
  <2>9. last \in kept /\ o \in kept
    BY <2>6, <2>7, <2>8 DEF DeduplicateCron, Surplus, IsCounterpart
  <2>10. IsPaired(last, kept)
    BY <2>7, <2>8, <2>9 DEF IsPaired, IsCounterpart
  <2> QED
    BY <2>1, <2>5, <2>6, <2>8, <2>9, <2>10
<1>3. ASSUME NEW e \in kept, IsPaired(e, kept)
      PROVE  e.digest = KeepDigest(S, e.identifier)
  <2>1. e \in S /\ IsPaired(e, S)
    BY <1>1, <1>3 DEF IsPaired
  <2>2. e.digest \in CompleteDigests(S, e.identifier)
    BY <2>1, PairedIsCompleting
  <2> QED
    BY <1>3, <2>2 DEF DeduplicateCron, Surplus, IsPaired
<1> HIDE DEF kept
<1>4. Thins(kept, S)
  BY <1>1, <1>2, <1>3 DEF Thins
<1> QED
  BY <1>4 DEF kept

-----------------------------------------------------------------------------
(* CheckInScheduler.                                                       *)

\* What RunWaker makes of the queue, whoever calls it.
Taken(flush) ==
  [scheduled |-> events, events |-> DeduplicateCron(events),
   at |-> now, flush |-> flush]

-----------------------------------------------------------------------------
(* A step changes the queue or the batches, or neither.                    *)

\* Time passes, the clock is set, a client is made, an event is refused, the
\* process ends.
Idle ==
  /\ now' \in {now, now + 1}
  /\ skew' = skew \/ skew' \in 0..MaxSkew
  /\ UNCHANGED <<queueVars, deliveryVars, nextId, accepted>>

\* schedule() accepts the event.
Queued(event) ==
  /\ nextId <= MaxEvents
  /\ event.id = nextId
  /\ ScheduleAccepted(event)
  /\ UNCHANGED <<now, skew, deliveryVars>>

LEMMA Steps ==
  ASSUME nextId \in Nat, [Next]_vars
  PROVE  \/ Idle
         \/ \E event \in Events : Queued(event)
         \/ Shutdown
         \/ WakerFires
         \/ \E snapshot \in awaiting : ShutdownResolves(snapshot)
         \/ \E batch \in pendingTransmissions, s \in Settlements :
              Settle(batch, s)
<1>1. CASE Tick
  BY <1>1 DEF Tick, Idle
<1>2. ASSUME NEW s \in 0..MaxSkew, StepWallClock(s) PROVE Idle
  BY <1>2 DEF StepWallClock, Idle
<1>3. ASSUME NEW active \in BOOLEAN, NewClient(active) PROVE Idle
  BY <1>3 DEF NewClient, Idle
<1>4. ASSUME NEW event \in EventsNumbered(nextId), Schedule(event)
      PROVE  Idle \/ (event \in Events /\ Queued(event))
  <2>1. event \in Events /\ event.id = nextId
    BY NumberedEvent
  <2> QED
    BY <1>4, <2>1 DEF Schedule, ScheduleRefused, Idle, Queued
<1>5. CASE UNCHANGED vars
  BY <1>5 DEF vars, Idle
<1> QED
  BY <1>1, <1>2, <1>3, <1>4, <1>5
     DEF Next, Runs, Exit, Exited, Idle, UserCalls, SomeShutdownResolves,
         SomeTransmissionSettles

-----------------------------------------------------------------------------
(* The queue: its events are accepted ones, each with a number of its own. *)

QueueInv ==
  /\ nextId \in Nat
  /\ events \subseteq accepted
  /\ accepted \subseteq Events
  /\ \A e \in accepted : e.id < nextId
  /\ Distinct(accepted)

LEMMA QueueInit == Init => QueueInv
BY DEF Init, QueueInv, Distinct

LEMMA QueueStep == QueueInv /\ [Next]_vars => QueueInv'
<1> SUFFICES ASSUME QueueInv, [Next]_vars PROVE QueueInv'
  OBVIOUS
<1> USE DEF QueueInv, queueVars
<1>1. CASE Idle
  BY <1>1 DEF Idle, Distinct
<1>2. ASSUME NEW event \in Events, Queued(event) PROVE QueueInv'
  <2>1. /\ event.id = nextId
        /\ nextId' = nextId + 1
        /\ accepted' = accepted \cup {event}
        /\ events' \subseteq events \cup {event}
    BY <1>2 DEF Queued, ScheduleAccepted, AddEvent
  <2>2. \A e \in accepted : e.id \in Nat
    BY DEF Events
  <2>3. Distinct(accepted')
    BY <2>1, <2>2 DEF Distinct
  <2> QED
    BY <2>1, <2>2, <2>3
<1>3. CASE Shutdown
  BY <1>3 DEF Shutdown, RunWaker, Distinct
<1>4. CASE WakerFires
  BY <1>4 DEF WakerFires, RunWaker, Distinct
<1>5. ASSUME NEW snapshot \in awaiting, ShutdownResolves(snapshot)
      PROVE  QueueInv'
  BY <1>5 DEF ShutdownResolves, Distinct
<1>6. ASSUME NEW batch \in pendingTransmissions, NEW s \in Settlements,
             Settle(batch, s)
      PROVE  QueueInv'
  BY <1>6 DEF Settle, Distinct
<1> QED
  BY <1>1, <1>2, <1>3, <1>4, <1>5, <1>6, Steps

\* The queue can be thinned: DeduplicateCron keeps what it should.
LEMMA QueueIsThinned ==
  ASSUME QueueInv PROVE Thins(DeduplicateCron(events), events)
<1>1. events \in SUBSET Events /\ Distinct(events)
  BY DEF QueueInv, Distinct
<1>2. nextId \in Nat /\ \A e \in events : e.id < nextId
  BY DEF QueueInv
<1> QED
  BY <1>1, <1>2, DeduplicateThins

\* A queue that holds an event is never thinned down to nothing.
LEMMA SomethingRemains ==
  ASSUME QueueInv, events # {} PROVE DeduplicateCron(events) # {}
BY QueueIsThinned DEF Thins

LEMMA NothingFromNothing == DeduplicateCron({}) = {}
BY DEF DeduplicateCron
-----------------------------------------------------------------------------
(* The timer and the queue                                                 *)

PhaseInv ==
  /\ waker \in Nat \cup {NoWaker}
  /\ now \in Nat
  /\ skew \in 0..MaxSkew
  /\ lastTransmission \in Nat \cup {Never}
  /\ isShuttingDown \in BOOLEAN
  /\ WakerArmed
  /\ isShuttingDown => events = {}

LEMMA PhaseInit == Init => PhaseInv
<1> SUFFICES ASSUME Init PROVE PhaseInv
  OBVIOUS
<1>1. 0 \in 0..MaxSkew
  BY SkewAssumption
<1>2. events = {} /\ waker = NoWaker /\ isShuttingDown = FALSE
  BY DEF Init
<1> QED
  BY <1>1, <1>2 DEF Init, PhaseInv, WakerArmed

\* The timer of a new debounce lies in the future.
LEMMA DebounceIsPositive ==
  ASSUME PhaseInv PROVE DebounceTime \in Nat \ {0}
BY DebounceAssumption, SkewAssumption
   DEF PhaseInv, DebounceTime, Larger, WallClock, Never

LEMMA PhaseStep == QueueInv /\ PhaseInv /\ [Next]_vars => PhaseInv'
<1> SUFFICES ASSUME QueueInv, PhaseInv, [Next]_vars PROVE PhaseInv'
  OBVIOUS
<1> USE DEF PhaseInv, WakerArmed, queueVars
<1>1. CASE Idle
  BY <1>1 DEF Idle
<1>2. ASSUME NEW event \in Events, Queued(event) PROVE PhaseInv'
  <2>1. events' # {}
    BY <1>2 DEF Queued, ScheduleAccepted, AddEvent
  <2>2. waker' \in Nat
    BY <1>2, DebounceIsPositive
       DEF Queued, ScheduleAccepted, ScheduleWaker, NoWaker
  <2> QED
    BY <1>2, <2>1, <2>2 DEF Queued, ScheduleAccepted, NoWaker
<1>3. CASE Shutdown
  BY <1>3, SkewAssumption DEF Shutdown, RunWaker, WallClock, NoWaker
<1>4. CASE WakerFires
  BY <1>4, SkewAssumption DEF WakerFires, RunWaker, WallClock, NoWaker
<1>5. ASSUME NEW snapshot \in awaiting, ShutdownResolves(snapshot)
      PROVE  PhaseInv'
  BY <1>5 DEF ShutdownResolves
<1>6. ASSUME NEW batch \in pendingTransmissions, NEW s \in Settlements,
             Settle(batch, s)
      PROVE  PhaseInv'
  BY <1>6 DEF Settle
<1> QED
  BY <1>1, <1>2, <1>3, <1>4, <1>5, <1>6, Steps DEF QueueInv

\* A timer is armed exactly while events are queued.
THEOREM TimerArmed == Spec => []WakerArmed
<1>1. Init => QueueInv /\ PhaseInv
  BY QueueInit, PhaseInit
<1>2. QueueInv /\ PhaseInv /\ [Next]_vars => QueueInv' /\ PhaseInv'
  BY QueueStep, PhaseStep
<1>3. PhaseInv => WakerArmed
  BY DEF PhaseInv
<1> QED
  BY <1>1, <1>2, <1>3, PTL DEF Spec

-----------------------------------------------------------------------------
(* Batches                                                                 *)

\* runWaker() hands over what is queued, if anything is.
LEMMA RunWakerTakesQueue ==
  ASSUME QueueInv, NEW flush, RunWaker(flush)
  PROVE  /\ events' = {} /\ waker' = NoWaker /\ lastTransmission' = WallClock
         /\ IF events = {} THEN UNCHANGED <<sent, pendingTransmissions>>
                           ELSE Transmit(Taken(flush))
<1>1. CASE events = {}
  BY <1>1, NothingFromNothing DEF RunWaker
<1>2. CASE events # {}
  BY <1>2, SomethingRemains DEF RunWaker, Taken
<1> QED
  BY <1>1, <1>2

LEMMA NewBatchIsTaken ==
  ASSUME QueueInv, NEW flush, RunWaker(flush), NEW b \in sent' \ sent
  PROVE  b.flush = flush /\ b.at = now
<1>1. b = Taken(flush)
  BY RunWakerTakesQueue DEF Transmit
<1> QED
  BY <1>1 DEF Taken

DeliveryInv ==
  /\ pendingTransmissions \subseteq sent
  /\ \A b \in sent : b.scheduled \subseteq accepted /\ b.scheduled # {}
  /\ SentOnce
  /\ BatchesThinned

LEMMA DeliveryInit == Init => DeliveryInv
BY DEF Init, DeliveryInv, SentOnce, BatchesThinned

\* The batch made of a queue has no event in common with an earlier one.
LEMMA TakenIsNew ==
  ASSUME QueueInv, DeliveryInv, events # {}, NEW flush
  PROVE  Taken(flush) \notin sent
BY DEF DeliveryInv, SentOnce, Taken

LEMMA TransmitDelivers ==
  ASSUME QueueInv, DeliveryInv, NEW flush, RunWaker(flush),
         accepted' = accepted
  PROVE  DeliveryInv'
<1> USE DEF DeliveryInv, SentOnce, BatchesThinned
<1>1. CASE events = {}
  BY <1>1, RunWakerTakesQueue
<1>2. CASE events # {}
  <2> DEFINE new == Taken(flush)
  <2>1. /\ events' = {}
        /\ sent' = sent \cup {new}
        /\ pendingTransmissions' = pendingTransmissions \cup {new}
    BY <1>2, RunWakerTakesQueue DEF Transmit
  <2>2. new.scheduled = events /\ new.events = DeduplicateCron(events)
    BY DEF Taken
  <2>3. Thins(new.events, new.scheduled)
    BY <2>2, QueueIsThinned
  <2>4. \A b \in sent : b.scheduled \cap new.scheduled = {}
    BY <2>2
  <2>5. new.scheduled \subseteq accepted /\ new.scheduled # {}
    BY <1>2, <2>2 DEF QueueInv
  <2> HIDE DEF new
  <2>6. SentOnce'
    BY <2>1, <2>4
  <2>7. BatchesThinned'
    BY <2>1, <2>3
  <2>8. (\A b \in sent : b.scheduled \subseteq accepted /\ b.scheduled # {})'
    BY <2>1, <2>5
  <2> QED
    BY <2>1, <2>6, <2>7, <2>8
<1> QED
  BY <1>1, <1>2

LEMMA DeliveryStep == QueueInv /\ DeliveryInv /\ [Next]_vars => DeliveryInv'
<1> SUFFICES ASSUME QueueInv, DeliveryInv, [Next]_vars PROVE DeliveryInv'
  OBVIOUS
<1> USE DEF DeliveryInv, SentOnce, BatchesThinned, queueVars, deliveryVars
<1>1. CASE Idle
  BY <1>1 DEF Idle
<1>2. ASSUME NEW event \in Events, Queued(event) PROVE DeliveryInv'
  <2>1. /\ UNCHANGED <<sent, pendingTransmissions>>
        /\ accepted' = accepted \cup {event}
        /\ events' \subseteq events \cup {event}
    BY <1>2 DEF Queued, ScheduleAccepted, AddEvent
  <2>2. event \notin accepted
    BY <1>2 DEF Queued, QueueInv, Events
  <2>3. \A b \in sent : event \notin b.scheduled
    BY <2>2
  <2> QED
    BY <2>1, <2>3
<1>3. CASE Shutdown
  BY <1>3, TransmitDelivers DEF Shutdown
<1>4. CASE WakerFires
  BY <1>4, TransmitDelivers DEF WakerFires
<1>5. ASSUME NEW snapshot \in awaiting, ShutdownResolves(snapshot)
      PROVE  DeliveryInv'
  BY <1>5 DEF ShutdownResolves
<1>6. ASSUME NEW batch \in pendingTransmissions, NEW s \in Settlements,
             Settle(batch, s)
      PROVE  DeliveryInv'
  BY <1>6 DEF Settle
<1> QED
  BY <1>1, <1>2, <1>3, <1>4, <1>5, <1>6, Steps DEF QueueInv

\* No event is transmitted twice, and every batch holds one complete run per
\* check-in at most and all events that belong to none.
THEOREM BatchesAreRight == Spec => [](SentOnce /\ BatchesThinned)
<1>1. Init => QueueInv /\ DeliveryInv
  BY QueueInit, DeliveryInit
<1>2. QueueInv /\ DeliveryInv /\ [Next]_vars => QueueInv' /\ DeliveryInv'
  BY QueueStep, DeliveryStep
<1>3. DeliveryInv => SentOnce /\ BatchesThinned
  BY DEF DeliveryInv
<1> QED
  BY <1>1, <1>2, <1>3, PTL DEF Spec

\* An event that was handed over is in no other batch.
THEOREM EventsSentOnce == Spec => []SentOnce
BY BatchesAreRight, PTL

-----------------------------------------------------------------------------
(* No event is lost                                                        *)

LEMMA NoneLostInit == Init => NoEventLost /\ QueueHoldsLatest
BY DEF Init, NoEventLost, QueueHoldsLatest

LEMMA NoneLostRunWaker ==
  ASSUME QueueInv, NoEventLost, NEW flush, RunWaker(flush),
         accepted' = accepted
  PROVE  NoEventLost'
<1>1. \A f \in events : \E b \in sent' : f \in b.scheduled
  BY RunWakerTakesQueue DEF Transmit, Taken
<1>2. sent \subseteq sent'
  BY RunWakerTakesQueue DEF Transmit
<1> QED
  BY <1>1, <1>2 DEF NoEventLost

LEMMA NoneLostStep ==
  QueueInv /\ NoEventLost /\ [Next]_vars => NoEventLost'
<1> SUFFICES ASSUME QueueInv, NoEventLost, [Next]_vars PROVE NoEventLost'
  OBVIOUS
<1> USE DEF queueVars, deliveryVars
<1>1. CASE Idle
  BY <1>1 DEF Idle, NoEventLost
<1>2. ASSUME NEW event \in Events, Queued(event) PROVE NoEventLost'
  <2>1. /\ sent' = sent
        /\ accepted' = accepted \cup {event}
        /\ events' = {e \in events : ~SameReport(e, event)} \cup {event}
    BY <1>2, AddEventReplaces DEF Queued, ScheduleAccepted, QueueInv
  <2>2. \A e \in accepted : e.id \in Nat /\ e.id < event.id
    BY <1>2 DEF Queued, QueueInv, Events
  <2>3. SameReport(event, event) /\ event.id >= event.id
    BY DEF SameReport, Events
  <2>4. ASSUME NEW e \in accepted
        PROVE  \E f \in accepted' :
                 /\ SameReport(e, f)
                 /\ f.id >= e.id
                 /\ f \in events' \/ \E b \in sent' : f \in b.scheduled
    <3>1. PICK f \in accepted :
            /\ SameReport(e, f)
            /\ f.id >= e.id
            /\ f \in events \/ \E b \in sent : f \in b.scheduled
      BY DEF NoEventLost
    <3>2. CASE f \in events /\ SameReport(f, event)
      <4>1. SameReport(e, event)
        BY <3>1, <3>2 DEF SameReport
      <4>2. event.id >= e.id
        BY <2>2 DEF Events
      <4> QED
        BY <2>1, <4>1, <4>2
    <3>3. CASE ~(f \in events /\ SameReport(f, event))
      BY <2>1, <3>1, <3>3
    <3> QED
      BY <3>2, <3>3
  <2> QED
    BY <2>1, <2>3, <2>4 DEF NoEventLost
<1>3. CASE Shutdown
  BY <1>3, NoneLostRunWaker DEF Shutdown
<1>4. CASE WakerFires
  BY <1>4, NoneLostRunWaker DEF WakerFires
<1>5. ASSUME NEW snapshot \in awaiting, ShutdownResolves(snapshot)
      PROVE  NoEventLost'
  BY <1>5 DEF ShutdownResolves, NoEventLost
<1>6. ASSUME NEW batch \in pendingTransmissions, NEW s \in Settlements,
             Settle(batch, s)
      PROVE  NoEventLost'
  BY <1>6 DEF Settle, NoEventLost
<1> QED
  BY <1>1, <1>2, <1>3, <1>4, <1>5, <1>6, Steps DEF QueueInv

LEMMA LatestStep ==
  QueueInv /\ QueueHoldsLatest /\ [Next]_vars => QueueHoldsLatest'
<1> SUFFICES ASSUME QueueInv, QueueHoldsLatest, [Next]_vars
             PROVE  QueueHoldsLatest'
  OBVIOUS
<1> USE DEF QueueHoldsLatest, queueVars
<1>1. CASE Idle
  BY <1>1 DEF Idle
<1>2. ASSUME NEW event \in Events, Queued(event) PROVE QueueHoldsLatest'
  <2>1. /\ accepted' = accepted \cup {event}
        /\ events' = {e \in events : ~SameReport(e, event)} \cup {event}
    BY <1>2, AddEventReplaces DEF Queued, ScheduleAccepted, QueueInv
  <2>2. \A e \in accepted : e.id \in Nat /\ e.id <= event.id
    BY <1>2 DEF Queued, QueueInv, Events
  <2>3. event.id <= event.id
    BY DEF Events
  <2> QED
    BY <2>1, <2>2, <2>3
<1>3. CASE Shutdown
  BY <1>3, RunWakerTakesQueue DEF Shutdown
<1>4. CASE WakerFires
  BY <1>4, RunWakerTakesQueue DEF WakerFires
<1>5. ASSUME NEW snapshot \in awaiting, ShutdownResolves(snapshot)
      PROVE  QueueHoldsLatest'
  BY <1>5 DEF ShutdownResolves
<1>6. ASSUME NEW batch \in pendingTransmissions, NEW s \in Settlements,
             Settle(batch, s)
      PROVE  QueueHoldsLatest'
  BY <1>6 DEF Settle
<1> QED
  BY <1>1, <1>2, <1>3, <1>4, <1>5, <1>6, Steps DEF QueueInv

\* Whatever was accepted, or a later event that says the same, is queued or
\* was handed over; the queue holds the latest of what says the same.
THEOREM NoneLost == Spec => [](NoEventLost /\ QueueHoldsLatest)
<1>1. Init => QueueInv /\ NoEventLost /\ QueueHoldsLatest
  BY QueueInit, NoneLostInit
<1>2. QueueInv /\ NoEventLost /\ QueueHoldsLatest /\ [Next]_vars
        => QueueInv' /\ NoEventLost' /\ QueueHoldsLatest'
  BY QueueStep, NoneLostStep, LatestStep
<1> QED
  BY <1>1, <1>2, PTL DEF Spec

\* Of events that say the same the queue holds the latest accepted, or none.
THEOREM LatestIsQueued == Spec => []QueueHoldsLatest
BY NoneLost, PTL

-----------------------------------------------------------------------------
(* Shutdown                                                                *)

\* After shutdown nothing is queued, so nothing is added to what the
\* unresolved promises wait for.
ShutdownInv ==
  /\ awaiting # {} \/ hasShutDown => isShuttingDown
  /\ hasShutDown => pendingTransmissions = {}
  /\ \A snapshot \in awaiting : pendingTransmissions \subseteq snapshot

LEMMA ShutdownInit == Init => ShutdownInv
BY DEF Init, ShutdownInv

LEMMA ShutdownStep ==
  QueueInv /\ PhaseInv /\ ShutdownInv /\ [Next]_vars => ShutdownInv'
<1> SUFFICES ASSUME QueueInv, PhaseInv, ShutdownInv, [Next]_vars
             PROVE  ShutdownInv'
  OBVIOUS
<1> USE DEF ShutdownInv, queueVars, deliveryVars
<1>1. CASE Idle
  BY <1>1 DEF Idle
<1>2. ASSUME NEW event \in Events, Queued(event) PROVE ShutdownInv'
  BY <1>2 DEF Queued, ScheduleAccepted
<1>3. CASE Shutdown
  <2>1. /\ awaiting' = awaiting \cup {pendingTransmissions'}
        /\ isShuttingDown' = TRUE
        /\ hasShutDown' = hasShutDown
        /\ RunWaker(TRUE)
    BY <1>3 DEF Shutdown
  <2>2. CASE isShuttingDown
    <3>1. pendingTransmissions' = pendingTransmissions
      BY <2>1, <2>2, RunWakerTakesQueue DEF PhaseInv
    <3> QED
      BY <2>1, <2>2, <3>1
  <2>3. CASE ~isShuttingDown
    BY <2>1, <2>3
  <2> QED
    BY <2>2, <2>3
<1>4. CASE WakerFires
  <2>1. ~isShuttingDown
    BY <1>4 DEF WakerFires, PhaseInv, WakerArmed
  <2> QED
    BY <1>4, <2>1 DEF WakerFires
<1>5. ASSUME NEW snapshot \in awaiting, ShutdownResolves(snapshot)
      PROVE  ShutdownInv'
  <2>1. pendingTransmissions = {}
    BY <1>5 DEF ShutdownResolves
  <2> QED
    BY <1>5, <2>1 DEF ShutdownResolves
<1>6. ASSUME NEW batch \in pendingTransmissions, NEW s \in Settlements,
             Settle(batch, s)
      PROVE  ShutdownInv'
  BY <1>6 DEF Settle
<1> QED
  BY <1>1, <1>2, <1>3, <1>4, <1>5, <1>6, Steps DEF QueueInv

\* When a call of shutdown() has returned, nothing is queued or in flight.
THEOREM ShutdownIsComplete == Spec => []ShutdownDelivers
<1>1. Init => QueueInv /\ PhaseInv /\ ShutdownInv
  BY QueueInit, PhaseInit, ShutdownInit
<1>2. QueueInv /\ PhaseInv /\ ShutdownInv /\ [Next]_vars
        => QueueInv' /\ PhaseInv' /\ ShutdownInv'
  BY QueueStep, PhaseStep, ShutdownStep
<1>3. PhaseInv /\ ShutdownInv => ShutdownDelivers
  BY DEF PhaseInv, ShutdownInv, ShutdownDelivers
<1> QED
  BY <1>1, <1>2, <1>3, PTL DEF Spec

LEMMA StoppedStaysSilent ==
  QueueInv /\ PhaseInv /\ [Next]_vars => (isShuttingDown => sent' = sent)
<1> SUFFICES ASSUME QueueInv, PhaseInv, [Next]_vars, isShuttingDown
             PROVE  sent' = sent
  OBVIOUS
<1>1. events = {} /\ waker = NoWaker
  BY DEF PhaseInv, WakerArmed
<1>2. CASE Shutdown
  BY <1>1, <1>2, RunWakerTakesQueue DEF Shutdown
<1>3. ~WakerFires /\ \A event \in Events : ~Queued(event)
  BY <1>1 DEF WakerFires, Queued, ScheduleAccepted
<1> QED
  BY <1>2, <1>3, Steps
     DEF QueueInv, Idle, ShutdownResolves, Settle, deliveryVars

\* Once stopped, the scheduler sends nothing more.
THEOREM StoppedIsSilent == Spec => NothingAfterShutdown
<1>1. Init => QueueInv /\ PhaseInv
  BY QueueInit, PhaseInit
<1>2. QueueInv /\ PhaseInv /\ [Next]_vars => QueueInv' /\ PhaseInv'
  BY QueueStep, PhaseStep
<1>3. QueueInv /\ PhaseInv /\ [Next]_vars
        => [isShuttingDown => sent' = sent]_vars
  BY StoppedStaysSilent
<1> QED
  BY <1>1, <1>2, <1>3, PTL DEF Spec, NothingAfterShutdown

-----------------------------------------------------------------------------
(* Timing                                                                  *)

\* The noted time of the last transmission is at least that of every batch and
\* ahead of the present by what the wall clock was stepped at most; a timer is
\* due no earlier than the long debounce after it, less those steps.
TimeInv ==
  /\ \A c \in sent : /\ c.at \in Nat
                      /\ c.at <= now
                      /\ lastTransmission # Never
                      /\ c.at <= lastTransmission
  /\ lastTransmission # Never => lastTransmission <= now + MaxSkew
  /\ waker # NoWaker /\ lastTransmission # Never =>
       waker >= lastTransmission + BetweenDebounce - MaxSkew

LEMMA TimeInit == Init => TimeInv
BY DEF Init, TimeInv

\* What debounceTime() is between.
LEMMA DebounceBounds ==
  ASSUME PhaseInv, TimeInv
  PROVE  /\ DebounceTime <= BetweenDebounce + MaxSkew
         /\ lastTransmission # Never =>
              now + DebounceTime
                >= lastTransmission + BetweenDebounce - MaxSkew
<1>1. skew \in Nat /\ skew <= MaxSkew
  BY SkewAssumption DEF PhaseInv
<1>2. CASE lastTransmission = Never
  BY <1>2, DebounceAssumption, SkewAssumption DEF DebounceTime
<1>3. CASE lastTransmission # Never
  BY <1>1, <1>3, DebounceAssumption, SkewAssumption
     DEF PhaseInv, TimeInv, DebounceTime, Larger, WallClock
<1> QED
  BY <1>2, <1>3

LEMMA TimeRunWaker ==
  ASSUME QueueInv, PhaseInv, TimeInv, NEW flush, RunWaker(flush), now' = now
  PROVE  TimeInv'
<1>1. skew \in Nat /\ skew <= MaxSkew /\ now \in Nat
  BY SkewAssumption DEF PhaseInv
<1>2. /\ lastTransmission' = now + skew
      /\ waker' = NoWaker
      /\ \A c \in sent' : c \in sent \/ c.at = now
  BY RunWakerTakesQueue DEF WallClock, Transmit, Taken
<1>3. lastTransmission' # Never /\ lastTransmission' <= now + MaxSkew
  BY <1>1, <1>2, SkewAssumption DEF Never
<1>4. \A c \in sent' : c.at \in Nat /\ c.at <= now /\ c.at <= now + skew
  BY <1>1, <1>2 DEF TimeInv
<1> QED
  BY <1>2, <1>3, <1>4 DEF TimeInv

LEMMA StillBelow ==
  ASSUME NEW a \in Nat, NEW b \in Nat, NEW c \in Nat, NEW m \in Nat,
         a <= b + m, c >= b
  PROVE  a <= c + m
OBVIOUS

LEMMA TimeStep == QueueInv /\ PhaseInv /\ TimeInv /\ [Next]_vars => TimeInv'
<1> SUFFICES ASSUME QueueInv, PhaseInv, TimeInv, [Next]_vars PROVE TimeInv'
  OBVIOUS
<1> USE DEF queueVars, deliveryVars
<1>1. CASE Idle
  <2>1. UNCHANGED <<sent, lastTransmission, waker>>
    BY <1>1 DEF Idle
  <2>2. now \in Nat /\ now' \in Nat /\ now' >= now
    BY <1>1 DEF Idle, PhaseInv
  <2>3. ASSUME lastTransmission # Never
        PROVE  lastTransmission <= now' + MaxSkew
    <3>1. lastTransmission \in Nat /\ lastTransmission <= now + MaxSkew
      BY <2>3 DEF TimeInv, PhaseInv
    <3>2. MaxSkew \in Nat
      BY SkewAssumption
    <3> QED
      BY <2>2, <3>1, <3>2, StillBelow
  <2>4. \A c \in sent : c.at <= now'
    BY <2>2 DEF TimeInv
  <2> QED
    BY <2>1, <2>3, <2>4 DEF TimeInv
<1>2. ASSUME NEW event \in Events, Queued(event) PROVE TimeInv'
  <2>1. /\ UNCHANGED <<now, sent, lastTransmission>>
        /\ waker' = IF waker = NoWaker THEN now + DebounceTime ELSE waker
    BY <1>2 DEF Queued, ScheduleAccepted, ScheduleWaker
  <2> QED
    BY <2>1, DebounceBounds DEF TimeInv
<1>3. CASE Shutdown
  BY <1>3, TimeRunWaker DEF Shutdown
<1>4. CASE WakerFires
  BY <1>4, TimeRunWaker DEF WakerFires
<1>5. ASSUME NEW snapshot \in awaiting, ShutdownResolves(snapshot)
      PROVE  TimeInv'
  BY <1>5 DEF ShutdownResolves, TimeInv
<1>6. ASSUME NEW batch \in pendingTransmissions, NEW s \in Settlements,
             Settle(batch, s)
      PROVE  TimeInv'
  BY <1>6 DEF Settle, TimeInv
<1> QED
  BY <1>1, <1>2, <1>3, <1>4, <1>5, <1>6, Steps DEF QueueInv

LEMMA SpacedStep ==
  QueueInv /\ PhaseInv /\ TimeInv /\ [Next]_vars =>
    \A b \in sent' \ sent : b.flush \/
      \A c \in sent : b.at - c.at >= BetweenDebounce - MaxSkew
<1> SUFFICES ASSUME QueueInv, PhaseInv, TimeInv, [Next]_vars,
                    NEW b \in sent' \ sent, ~b.flush, NEW c \in sent
             PROVE  b.at - c.at >= BetweenDebounce - MaxSkew
  OBVIOUS
<1>1. CASE Shutdown
  BY <1>1, NewBatchIsTaken DEF Shutdown
<1>2. CASE WakerFires
  <2>1. waker # NoWaker /\ now >= waker /\ b.at = now
    BY <1>2, NewBatchIsTaken DEF WakerFires
  <2>2. /\ waker \in Nat /\ now \in Nat /\ lastTransmission \in Nat
        /\ waker >= lastTransmission + BetweenDebounce - MaxSkew
        /\ c.at \in Nat /\ c.at <= lastTransmission
    BY <2>1 DEF TimeInv, PhaseInv
  <2> QED
    BY <2>1, <2>2, DebounceAssumption, SkewAssumption
<1> QED
  BY <1>1, <1>2, Steps
     DEF QueueInv, Idle, Queued, ShutdownResolves, Settle, deliveryVars

LEMMA DeadlineStep ==
  QueueInv /\ PhaseInv /\ TimeInv /\ [Next]_vars =>
    (events' # {} =>
       IF events = {} THEN waker' <= now + BetweenDebounce + MaxSkew
                      ELSE waker' = waker)
<1> SUFFICES ASSUME QueueInv, PhaseInv, TimeInv, [Next]_vars, events' # {}
             PROVE  IF events = {}
                    THEN waker' <= now + BetweenDebounce + MaxSkew
                    ELSE waker' = waker
  OBVIOUS
<1>1. ASSUME NEW event \in Events, Queued(event)
      PROVE  IF events = {}
             THEN waker' <= now + BetweenDebounce + MaxSkew
             ELSE waker' = waker
  <2>1. waker' = IF waker = NoWaker THEN now + DebounceTime ELSE waker
    BY <1>1 DEF Queued, ScheduleAccepted, ScheduleWaker
  <2>2. now \in Nat /\ DebounceTime \in Nat
    BY DebounceIsPositive DEF PhaseInv
  <2>3. now + DebounceTime <= now + BetweenDebounce + MaxSkew
    BY <2>2, DebounceBounds, DebounceAssumption, SkewAssumption
  <2> QED
    BY <2>1, <2>3 DEF PhaseInv, WakerArmed
<1>2. CASE UNCHANGED <<events, waker>>
  BY <1>2, DebounceAssumption, SkewAssumption
     DEF PhaseInv, WakerArmed, NoWaker
<1>3. ~Shutdown /\ ~WakerFires
  BY RunWakerTakesQueue DEF Shutdown, WakerFires
<1> QED
  BY <1>1, <1>2, <1>3, Steps
     DEF QueueInv, Idle, ShutdownResolves, Settle, queueVars

LEMMA TimeHolds == Spec => [](QueueInv /\ PhaseInv /\ TimeInv)
<1>1. Init => QueueInv /\ PhaseInv /\ TimeInv
  BY QueueInit, PhaseInit, TimeInit
<1>2. QueueInv /\ PhaseInv /\ TimeInv /\ [Next]_vars
        => QueueInv' /\ PhaseInv' /\ TimeInv'
  BY QueueStep, PhaseStep, TimeStep
<1> QED
  BY <1>1, <1>2, PTL DEF Spec

\* Transmissions by the timer keep the long debounce, but for the steps of the
\* wall clock.
THEOREM DebounceIsKept == Spec => TransmissionsSpaced
<1>1. QueueInv /\ PhaseInv /\ TimeInv /\ [Next]_vars
        => [\A b \in sent' \ sent : b.flush \/
              \A c \in sent : b.at - c.at >= BetweenDebounce - MaxSkew]_vars
  BY SpacedStep
<1> QED
  BY <1>1, TimeHolds, PTL DEF Spec, TransmissionsSpaced

\* No event waits longer for the timer than the long debounce and the steps of
\* the wall clock, and none that comes later makes it wait again.
THEOREM DeadlineIsKept == Spec => DeadlineKept
<1>1. QueueInv /\ PhaseInv /\ TimeInv /\ [Next]_vars
        => [events' # {} =>
              IF events = {} THEN waker' <= now + BetweenDebounce + MaxSkew
                             ELSE waker' = waker]_vars
  BY DeadlineStep
<1> QED
  BY <1>1, TimeHolds, PTL DEF Spec, DeadlineKept

-----------------------------------------------------------------------------
(* The log                                                                 *)

\* The batch b has one entry in the log.
LoggedOnce(b) ==
  \E entry \in logged :
    /\ entry.batch = b
    /\ \A other \in logged : other.batch = b => other = entry

LogInv ==
  /\ \A b \in (sent \ pendingTransmissions) \ unhandled : LoggedOnce(b)
  /\ \A entry \in logged : /\ entry.batch \in sent \ pendingTransmissions
                           /\ entry.batch \notin unhandled
  /\ unhandled \subseteq sent \ pendingTransmissions

LEMMA LogInit == Init => LogInv
BY DEF Init, LogInv

\* An outcome is logged as one thing, or its rejection is left unhandled.
LEMMA OneLevel ==
  ASSUME NEW s \in Settlements, s # "type error"
  PROVE  \E level \in {"trace", "error"} : LogLevels(s) = {level}
BY SettlementsAssumption DEF LogLevels

LEMMA LogRunWaker ==
  ASSUME QueueInv, DeliveryInv, LogInv, NEW flush, RunWaker(flush),
         UNCHANGED outcomeVars
  PROVE  LogInv'
<1> USE DEF LogInv, LoggedOnce, outcomeVars
<1>1. CASE events = {}
  BY <1>1, RunWakerTakesQueue
<1>2. CASE events # {}
  <2>1. /\ sent' = sent \cup {Taken(flush)}
        /\ pendingTransmissions' = pendingTransmissions \cup {Taken(flush)}
        /\ Taken(flush) \notin sent
    BY <1>2, RunWakerTakesQueue, TakenIsNew DEF Transmit
  <2>2. sent' \ pendingTransmissions' = sent \ pendingTransmissions
    BY <2>1 DEF DeliveryInv
  <2> QED
    BY <2>2
<1> QED
  BY <1>1, <1>2

LEMMA LogStep ==
  QueueInv /\ DeliveryInv /\ LogInv /\ [Next]_vars => LogInv'
<1> SUFFICES ASSUME QueueInv, DeliveryInv, LogInv, [Next]_vars PROVE LogInv'
  OBVIOUS
<1> USE DEF LogInv, queueVars, deliveryVars, outcomeVars
<1>1. CASE Idle
  BY <1>1 DEF Idle, LoggedOnce
<1>2. ASSUME NEW event \in Events, Queued(event) PROVE LogInv'
  BY <1>2 DEF Queued, LoggedOnce
<1>3. CASE Shutdown
  BY <1>3, LogRunWaker DEF Shutdown
<1>4. CASE WakerFires
  BY <1>4, LogRunWaker DEF WakerFires
<1>5. ASSUME NEW snapshot \in awaiting, ShutdownResolves(snapshot)
      PROVE  LogInv'
  BY <1>5 DEF ShutdownResolves, LoggedOnce
<1>6. ASSUME NEW batch \in pendingTransmissions, NEW s \in Settlements,
             Settle(batch, s)
      PROVE  LogInv'
  <2>1. /\ sent' = sent
        /\ pendingTransmissions' = pendingTransmissions \ {batch}
        /\ batch \in sent
    BY <1>6 DEF Settle, DeliveryInv
  <2>2. sent' \ pendingTransmissions'
          = (sent \ pendingTransmissions) \cup {batch}
    BY <2>1
  <2>3. CASE s = "type error"
    <3>1. logged' = logged /\ unhandled' = unhandled \cup {batch}
      BY <1>6, <2>3 DEF Settle, LogLevels
    <3> QED
      BY <2>1, <2>2, <3>1 DEF LoggedOnce
  <2>4. CASE s # "type error"
    <3>1. PICK level \in {"trace", "error"} : LogLevels(s) = {level}
      BY <2>4, OneLevel
    <3> DEFINE new == [batch |-> batch, level |-> level]
    <3>2. logged' = logged \cup {new} /\ unhandled' = unhandled
      BY <1>6, <2>4, <3>1 DEF Settle
    <3>3. new.batch = batch
      OBVIOUS
    <3> HIDE DEF new
    <3>4. \A entry \in logged' : entry.batch \in sent' \ pendingTransmissions'
      BY <2>2, <3>2, <3>3
    <3>5. unhandled' \subseteq sent' \ pendingTransmissions'
      BY <2>2, <3>2
    <3>6. ASSUME NEW b \in (sent \ pendingTransmissions) \ unhandled
          PROVE  LoggedOnce(b)'
      <4>1. b # batch
        OBVIOUS
      <4>2. PICK entry \in logged :
              /\ entry.batch = b
              /\ \A other \in logged : other.batch = b => other = entry
        BY DEF LoggedOnce
      <4> QED
        BY <3>2, <3>3, <4>1, <4>2 DEF LoggedOnce
    <3>7. LoggedOnce(batch)'
      BY <3>2, <3>3 DEF LoggedOnce
    <3>8. \A entry \in logged' : entry.batch \notin unhandled'
      BY <3>2, <3>3
    <3> QED
      BY <2>2, <3>2, <3>4, <3>5, <3>6, <3>7, <3>8
  <2> QED
    BY <2>3, <2>4
<1> QED
  BY <1>1, <1>2, <1>3, <1>4, <1>5, <1>6, Steps DEF QueueInv

\* However transmissions end, each of them is logged once when it has, unless
\* its rejection is left unhandled: then nothing is.
THEOREM OutcomesAreLogged == Spec => []OutcomeLogged
<1>1. Init => QueueInv /\ DeliveryInv /\ LogInv
  BY QueueInit, DeliveryInit, LogInit
<1>2. QueueInv /\ DeliveryInv /\ LogInv /\ [Next]_vars
        => QueueInv' /\ DeliveryInv' /\ LogInv'
  BY QueueStep, DeliveryStep, LogStep
<1>3. LogInv => OutcomeLogged
  <2> SUFFICES ASSUME LogInv, NEW b \in sent
               PROVE  LET entries == {entry \in logged : entry.batch = b} IN
                      IF b \in pendingTransmissions \cup unhandled
                      THEN entries = {}
                      ELSE \E entry \in entries : entries = {entry}
    BY DEF OutcomeLogged
  <2>1. CASE b \in pendingTransmissions \cup unhandled
    BY <2>1 DEF LogInv
  <2>2. CASE b \notin pendingTransmissions \cup unhandled
    <3>1. PICK entry \in logged :
            /\ entry.batch = b
            /\ \A other \in logged : other.batch = b => other = entry
      BY <2>2 DEF LogInv, LoggedOnce
    <3>2. {other \in logged : other.batch = b} = {entry}
      BY <3>1
    <3> QED
      BY <2>2, <3>1, <3>2
  <2> QED
    BY <2>1, <2>2
<1> QED
  BY <1>1, <1>2, <1>3, PTL DEF Spec

-----------------------------------------------------------------------------
(* Types                                                                   *)

LEMMA SentGrows == ASSUME [Next]_vars PROVE sent \subseteq sent'
BY DEF Next, Runs, Exit, Exited, UserCalls, Tick, StepWallClock, NewClient,
       Schedule, Shutdown, RunWaker, Transmit, WakerFires,
       SomeShutdownResolves, ShutdownResolves, SomeTransmissionSettles, Settle,
       vars, deliveryVars

LEMMA TypeInit == Init => TypeOK
<1> SUFFICES ASSUME Init PROVE TypeOK
  OBVIOUS
<1>1. 0 \in 0..MaxSkew /\ 1 \in 1..(MaxEvents + 1)
  BY SkewAssumption, BoundsAssumption
<1> QED
  BY <1>1 DEF Init, TypeOK

LEMMA TakenIsBatch ==
  ASSUME QueueInv, TypeOK, events # {}, NEW flush \in BOOLEAN
  PROVE  Taken(flush) \in Batches
<1>1. DeduplicateCron(events) \in (SUBSET Events) \ {{}}
  BY SomethingRemains DEF TypeOK, DeduplicateCron
<1> QED
  BY <1>1 DEF Taken, TypeOK, Batches

LEMMA TypeRunWaker ==
  ASSUME QueueInv, TypeOK, NEW flush \in BOOLEAN, RunWaker(flush)
  PROVE  /\ sent \subseteq sent' /\ sent' \subseteq Batches
         /\ pendingTransmissions' \subseteq sent'
         /\ lastTransmission' \in Nat
<1>1. lastTransmission' \in Nat
  BY RunWakerTakesQueue, SkewAssumption DEF TypeOK, WallClock
<1>2. CASE events = {}
  BY <1>1, <1>2, RunWakerTakesQueue DEF TypeOK
<1>3. CASE events # {}
  BY <1>1, <1>3, RunWakerTakesQueue, TakenIsBatch DEF TypeOK, Transmit
<1> QED
  BY <1>2, <1>3

LEMMA TypeStep == QueueInv /\ PhaseInv /\ TypeOK /\ [Next]_vars => TypeOK'
<1> SUFFICES ASSUME QueueInv, PhaseInv, PhaseInv', TypeOK, [Next]_vars
             PROVE  TypeOK'
  BY PhaseStep
<1>1. now' \in Nat /\ skew' \in 0..MaxSkew /\ waker' \in Nat \cup {NoWaker}
       /\ lastTransmission' \in Nat \cup {Never} /\ isShuttingDown' \in BOOLEAN
  BY DEF PhaseInv
<1>2. isActive' \in BOOLEAN /\ isRunning' \in BOOLEAN
  BY DEF TypeOK, Next, Runs, Exit, Exited, vars, Tick, StepWallClock,
         UserCalls, NewClient, Schedule, Shutdown, WakerFires,
         SomeShutdownResolves, ShutdownResolves, SomeTransmissionSettles,
         Settle
<1>3. nextId' \in 1..(MaxEvents + 1) /\ events' \subseteq Events
       /\ accepted' \subseteq Events
  <2>1. ASSUME NEW event \in Events, Queued(event)
        PROVE  nextId' \in 1..(MaxEvents + 1) /\ events' \subseteq Events
                 /\ accepted' \subseteq Events
    BY <2>1, BoundsAssumption DEF Queued, ScheduleAccepted, AddEvent, TypeOK
  <2>2. WakerFires \/ Shutdown => events' = {} /\ UNCHANGED <<nextId, accepted>>
    BY DEF WakerFires, Shutdown, RunWaker
  <2> QED
    BY <2>1, <2>2, Steps
       DEF TypeOK, QueueInv, Idle, ShutdownResolves, Settle, queueVars
<1>4. /\ sent' \subseteq Batches
      /\ pendingTransmissions' \subseteq sent'
      /\ awaiting' \subseteq SUBSET sent'
      /\ hasShutDown' \in BOOLEAN
  <2> USE DEF TypeOK, deliveryVars
  <2>1. CASE Idle
    BY <2>1 DEF Idle
  <2>2. ASSUME NEW event \in Events, Queued(event)
        PROVE  UNCHANGED <<sent, pendingTransmissions, awaiting, hasShutDown>>
    BY <2>2 DEF Queued
  <2>3. CASE Shutdown
    BY <2>3, TypeRunWaker DEF Shutdown
  <2>4. CASE WakerFires
    BY <2>4, TypeRunWaker DEF WakerFires
  <2>5. ASSUME NEW snapshot \in awaiting, ShutdownResolves(snapshot)
        PROVE  /\ UNCHANGED <<sent, pendingTransmissions>>
               /\ awaiting' \subseteq awaiting
               /\ hasShutDown' = TRUE
    BY <2>5 DEF ShutdownResolves
  <2>6. ASSUME NEW batch \in pendingTransmissions, NEW s \in Settlements,
               Settle(batch, s)
        PROVE  /\ UNCHANGED <<sent, awaiting, hasShutDown>>
               /\ pendingTransmissions' \subseteq sent
    BY <2>6 DEF Settle
  <2> QED
    BY <2>1, <2>2, <2>3, <2>4, <2>5, <2>6, Steps DEF QueueInv
<1>5. /\ unhandled' \subseteq sent'
      /\ logged' \subseteq [batch : sent', level : {"trace", "error"}]
  <2>1. /\ sent \subseteq sent' /\ pendingTransmissions \subseteq sent
        /\ unhandled \subseteq sent
        /\ logged \subseteq [batch : sent, level : {"trace", "error"}]
    BY SentGrows DEF TypeOK
  <2>2. CASE UNCHANGED <<unhandled, logged>>
    BY <2>1, <2>2
  <2>3. ASSUME NEW batch \in pendingTransmissions, NEW s \in Settlements,
               Settle(batch, s)
        PROVE  /\ unhandled' \subseteq sent'
               /\ logged' \subseteq [batch : sent', level : {"trace", "error"}]
    <3>1. LogLevels(s) \subseteq {"trace", "error"}
      BY SettlementsAssumption DEF LogLevels
    <3>2. /\ unhandled' \subseteq unhandled \cup {batch}
          /\ logged' = logged \cup {[batch |-> batch, level |-> l] :
                                      l \in LogLevels(s)}
      BY <2>3 DEF Settle
    <3>3. batch \in sent'
      BY <2>1
    <3>4. unhandled' \subseteq sent'
      BY <2>1, <3>2, <3>3
    <3>5. {[batch |-> batch, level |-> l] : l \in LogLevels(s)}
            \subseteq [batch : sent', level : {"trace", "error"}]
      BY <3>1, <3>3
    <3>6. [batch : sent, level : {"trace", "error"}]
            \subseteq [batch : sent', level : {"trace", "error"}]
      BY <2>1
    <3> QED
      BY <2>1, <3>2, <3>4, <3>5, <3>6
  <2>4. \/ UNCHANGED <<unhandled, logged>>
        \/ \E batch \in pendingTransmissions, s \in Settlements :
             Settle(batch, s)
    BY Steps
       DEF QueueInv, Idle, Queued, Shutdown, WakerFires, ShutdownResolves,
           deliveryVars, outcomeVars
  <2> QED
    BY <2>2, <2>3, <2>4
<1> QED
  BY <1>1, <1>2, <1>3, <1>4, <1>5 DEF TypeOK

\* Every variable has its type in every reachable state.
THEOREM TypeCorrect == Spec => []TypeOK
<1>1. Init => QueueInv /\ PhaseInv /\ TypeOK
  BY QueueInit, PhaseInit, TypeInit
<1>2. QueueInv /\ PhaseInv /\ TypeOK /\ [Next]_vars
        => QueueInv' /\ PhaseInv' /\ TypeOK'
  BY QueueStep, PhaseStep, TypeStep
<1> QED
  BY <1>1, <1>2, PTL DEF Spec

-----------------------------------------------------------------------------
(* The scheduler implements the outbox                                     *)

LEMMA OutboxStart == Init => Outbox!Init
BY DEF Init, Outbox!Init

\* runWaker() posts a queue that is not empty.
LEMMA OutboxPosts ==
  ASSUME QueueInv, events # {}, NEW flush, RunWaker(flush)
  PROVE  Outbox!PostAll
<1> DEFINE new == Taken(flush)
<1>1. events' = {} /\ sent' = sent \cup {new}
  BY RunWakerTakesQueue DEF Transmit
<1>2. new.events = DeduplicateCron(events)
  BY DEF Taken
<1>3. Outbox!Thins(new.events, events)
  BY <1>2, QueueIsThinned DEF Thins, IsPaired, Outbox!Thins, Outbox!IsPaired
<1>4. new.events \in SUBSET events
  BY <1>2, QueueIsThinned DEF Thins
<1> HIDE DEF new
<1>5. {b.events : b \in sent'} = {b.events : b \in sent} \cup {new.events}
  BY <1>1
<1> QED
  BY <1>1, <1>3, <1>4, <1>5 DEF Outbox!PostAll

LEMMA OutboxStep ==
  QueueInv /\ PhaseInv /\ [Next]_vars => [Outbox!Next]_(Outbox!vars)
<1> SUFFICES ASSUME QueueInv, PhaseInv, [Next]_vars
             PROVE  Outbox!Next \/ UNCHANGED Outbox!vars
  OBVIOUS
<1> USE DEF Outbox!Next, Outbox!vars, queueVars, deliveryVars
<1>1. CASE Idle
  BY <1>1 DEF Idle
<1>2. ASSUME NEW event \in Events, Queued(event) PROVE Outbox!Accept
  <2>1. /\ ~isShuttingDown
        /\ UNCHANGED <<sent, isShuttingDown>>
        /\ events' = {e \in events : ~SameReport(e, event)} \cup {event}
    BY <1>2, AddEventReplaces DEF Queued, ScheduleAccepted, QueueInv
  <2>2. \A e \in events : e.id < event.id
    BY <1>2 DEF Queued, QueueInv
  <2> QED
    BY <2>1, <2>2 DEF Outbox!Accept, Outbox!SameReport, SameReport
<1>3. CASE Shutdown
  <2>1. isShuttingDown' = TRUE /\ RunWaker(TRUE)
    BY <1>3 DEF Shutdown
  <2>2. CASE events = {}
    BY <2>1, <2>2, RunWakerTakesQueue DEF Outbox!Close, PhaseInv
  <2>3. CASE events # {}
    BY <2>1, <2>3, OutboxPosts DEF Outbox!Close, PhaseInv
  <2> QED
    BY <2>2, <2>3
<1>4. CASE WakerFires
  <2>1. events # {} /\ ~isShuttingDown
    BY <1>4 DEF WakerFires, PhaseInv, WakerArmed
  <2> QED
    BY <1>4, <2>1, OutboxPosts DEF WakerFires, Outbox!Post
<1>5. ASSUME NEW snapshot \in awaiting, ShutdownResolves(snapshot)
      PROVE  UNCHANGED Outbox!vars
  BY <1>5 DEF ShutdownResolves
<1>6. ASSUME NEW batch \in pendingTransmissions, NEW s \in Settlements,
             Settle(batch, s)
      PROVE  UNCHANGED Outbox!vars
  BY <1>6 DEF Settle
<1> QED
  BY <1>1, <1>2, <1>3, <1>4, <1>5, <1>6, Steps DEF QueueInv

\* Every behaviour of the scheduler is one of the outbox.
THEOREM SchedulerImplementsOutbox == Spec => ImplementsOutbox
<1>1. Init => QueueInv /\ PhaseInv /\ Outbox!Init
  BY QueueInit, PhaseInit, OutboxStart
<1>2. QueueInv /\ PhaseInv /\ [Next]_vars => QueueInv' /\ PhaseInv'
  BY QueueStep, PhaseStep
<1>3. QueueInv /\ PhaseInv /\ [Next]_vars => [Outbox!Next]_(Outbox!vars)
  BY OutboxStep
<1> QED
  BY <1>1, <1>2, <1>3, PTL DEF Spec, ImplementsOutbox, Outbox!Spec

-----------------------------------------------------------------------------
(* Client: it uses the scheduler as a scheduler is specified, so that what *)
(* is proved of the scheduler holds with any number of clients, jobs and   *)
(* calls of stop(); and the agent stops last.                              *)

LEMMA EventIsNumbered ==
  /\ \A n, c, k : c \in Crons /\ k \in Kinds => CronEvent(n, c, k) \in EventsNumbered(n)
  /\ \A n, i : i \in Heartbeats => HeartbeatEvent(n, i) \in EventsNumbered(n)
BY DEF EventsNumbered

\* The job on top of the stack is one of a Cron instance.
StackInv == stack \in Seq(Crons)

LEMMA CallsAreScheduled ==
  ASSUME StackInv, isRunning, UNCHANGED isRunning, Calls \/ JobEnds
  PROVE  [Next]_vars
<1> USE DEF Runs
<1>1. ASSUME NEW outcome, Construct(outcome) PROVE [Next]_vars
  <2>1. (outcome \notin EarlyReturns) \in BOOLEAN
    OBVIOUS
  <2> QED
    BY <1>1, <2>1 DEF Construct, Next, UserCalls
<1>2. ASSUME NEW i \in DOMAIN clients, Stop(i) PROVE [Next]_vars
  BY <1>2 DEF Stop, Next, UserCalls
<1>3. ASSUME NEW c \in Crons, CronCalls(c) \/ CronAlone(c) PROVE [Next]_vars
  BY <1>3, EventIsNumbered DEF CronCalls, CronAlone, Kinds, Next, UserCalls
<1>4. ASSUME NEW i \in Heartbeats, NEW b, Heartbeat(i, b) PROVE [Next]_vars
  BY <1>4, EventIsNumbered DEF Heartbeat, Next, UserCalls
<1>5. CASE JobReturns
  <2>1. Top \in Crons
    BY <1>5 DEF JobReturns, Free, Top, StackInv
  <2> QED
    BY <1>5, <2>1, EventIsNumbered DEF JobReturns, Kinds, Next, UserCalls
<1>6. CASE JobReturnsPromise \/ JobThrows
  BY <1>6 DEF JobReturnsPromise, JobThrows
<1> QED
  BY <1>1, <1>2, <1>3, <1>4, <1>5, <1>6 DEF Calls, JobEnds

\* Every step of the client is one of the scheduler, or none to it.
LEMMA ClientStep == StackInv /\ [ClientNext]_allVars => [Next]_vars
<1> SUFFICES ASSUME StackInv, [ClientNext]_allVars PROVE [Next]_vars
  OBVIOUS
<1>1. ASSUME isRunning, UNCHANGED isRunning, Calls \/ JobEnds PROVE [Next]_vars
  BY <1>1, CallsAreScheduled
<1>2. CASE Runs(TimePasses)
  BY <1>2 DEF TimePasses, Next, Runs
<1>3. ASSUME isRunning, UNCHANGED isRunning,
             NEW c \in Crons, JobResolves(c) \/ JobRejects(c)
      PROVE  [Next]_vars
  BY <1>3, EventIsNumbered
     DEF JobResolves, JobRejects, Kinds, Next, UserCalls, Runs
<1>4. ASSUME NEW i \in Heartbeats, Runs(IntervalFires(i)) PROVE [Next]_vars
  BY <1>4, EventIsNumbered DEF IntervalFires, Next, UserCalls, Runs
<1>5. CASE Runs(SchedulerRuns)
  BY <1>5 DEF SchedulerRuns, Next, Runs
<1>6. ASSUME isRunning, UNCHANGED isRunning,
             NEW snapshot \in awaiting, Flushed(snapshot)
      PROVE  [Next]_vars
  BY <1>6 DEF Flushed, Next, SomeShutdownResolves, Runs
<1>7. ASSUME NEW call \in stops,
             SdkStops(call) \/ SdkFails(call) \/ StopResumes(call)
      PROVE  [Next]_vars
  BY <1>7 DEF SdkStops, SdkFails, StopResumes
<1>8. CASE ProcessEnds \/ UNCHANGED allVars
  BY <1>8 DEF ProcessEnds, Next, allVars
<1> QED
  BY <1>1, <1>2, <1>3, <1>4, <1>5, <1>6, <1>7, <1>8
     DEF ClientNext, Runs, SomeJobSettles, StopContinues

LEMMA StackStep == StackInv /\ [ClientNext]_allVars => StackInv'
<1> SUFFICES ASSUME StackInv, [ClientNext]_allVars PROVE StackInv'
  OBVIOUS
<1> USE DEF StackInv
<1>1. ASSUME NEW c \in Crons, CronCalls(c) PROVE StackInv'
  BY <1>1 DEF CronCalls
<1>2. ASSUME ~Free, Pop PROVE StackInv'
  BY <1>2 DEF Free, Pop
<1>3. CASE JobEnds
  BY <1>2, <1>3 DEF JobEnds, JobReturns, JobReturnsPromise, JobThrows
<1>4. CASE UNCHANGED stack
  BY <1>4
<1> QED
  BY <1>1, <1>3, <1>4
     DEF ClientNext, Runs, ProcessEnds, Calls, SomeJobSettles, StopContinues,
         SchedulerRuns, TimePasses, allVars, jobVars, Construct, Stop,
         CronAlone, Heartbeat, JobResolves, JobRejects, IntervalFires,
         SdkStops, SdkFails, StopResumes, Flushed

\* The composition implements the scheduler: clients that come and go, jobs
\* that are called by jobs and calls of stop() side by side use it as it
\* expects.
THEOREM ClientImplementsScheduler == ClientSpec => ImplementsScheduler
<1>1. ClientInit => Init /\ StackInv
  BY DEF ClientInit, StackInv
<1>2. StackInv /\ [ClientNext]_allVars => StackInv' /\ [Next]_vars
  BY StackStep, ClientStep
<1> QED
  BY <1>1, <1>2, PTL DEF ClientSpec, ImplementsScheduler, Spec

-----------------------------------------------------------------------------
(* The agent stops last                                                    *)

\* A call of stop() that has seen the flush, or its SDK, be done is right.
StopInv ==
  /\ clients \in Seq([active : BOOLEAN, probes : BOOLEAN,
                      sdk : {"none", "running", "down"}])
  /\ \A s \in stops :
       /\ s = [id |-> s.id, client |-> s.client, flush |-> s.flush,
               sdk |-> s.sdk, flushed |-> s.flushed]
       /\ s.client \in DOMAIN clients
       /\ s.flushed => hasShutDown
       /\ s.sdk \in {"none", "down"} => clients[s.client].sdk \in {"none", "down"}

\* What has been shut down stays so.
LEMMA HasShutDownStays ==
  ASSUME [Next]_vars, hasShutDown PROVE hasShutDown'
BY DEF Next, Runs, Exit, Exited, UserCalls, Tick, StepWallClock, NewClient,
       Schedule, Shutdown, WakerFires, SomeShutdownResolves, ShutdownResolves,
       SomeTransmissionSettles, Settle, vars, deliveryVars

\* Clients are added, and an SDK that is down, or that is none, stays so.
LEMMA StopInvStays ==
  ASSUME StopInv, stops' \subseteq stops, hasShutDown => hasShutDown',
         clients' \in Seq([active : BOOLEAN, probes : BOOLEAN,
                           sdk : {"none", "running", "down"}]),
         Len(clients) <= Len(clients'),
         \A i \in DOMAIN clients :
           clients[i].sdk \in {"none", "down"} => clients'[i].sdk \in {"none", "down"}
  PROVE  StopInv'
<1>1. DOMAIN clients \subseteq DOMAIN clients'
  BY DEF StopInv
<1>2. ASSUME NEW s \in stops'
      PROVE  /\ s = [id |-> s.id, client |-> s.client, flush |-> s.flush,
                     sdk |-> s.sdk, flushed |-> s.flushed]
             /\ s.client \in DOMAIN clients'
             /\ s.flushed => hasShutDown'
             /\ s.sdk \in {"none", "down"} => clients'[s.client].sdk \in {"none", "down"}
  BY <1>1, <1>2 DEF StopInv
<1> QED
  BY <1>2 DEF StopInv

LEMMA ElementOf ==
  ASSUME NEW C, NEW cs \in Seq(C), NEW i \in DOMAIN cs PROVE cs[i] \in C
OBVIOUS

\* A call of stop() is changed in one field.
LEMMA CallChanged ==
  ASSUME NEW s, NEW v,
         s = [id |-> s.id, client |-> s.client, flush |-> s.flush,
              sdk |-> s.sdk, flushed |-> s.flushed]
  PROVE  LET new == [s EXCEPT !.flushed = v] IN
         new = [id |-> new.id, client |-> new.client, flush |-> new.flush,
                sdk |-> new.sdk, flushed |-> new.flushed]
OBVIOUS

\* One client of the sequence is changed.
LEMMA ReplaceOne ==
  ASSUME NEW C, NEW cs \in Seq(C), NEW i \in DOMAIN cs, NEW c \in C
  PROVE  /\ [cs EXCEPT ![i] = c] \in Seq(C)
         /\ DOMAIN [cs EXCEPT ![i] = c] = DOMAIN cs
         /\ [cs EXCEPT ![i] = c][i] = c
         /\ \A j \in DOMAIN cs : j # i => [cs EXCEPT ![i] = c][j] = cs[j]
OBVIOUS

LEMMA StopInvConstruct ==
  ASSUME StopInv, NEW outcome, Construct(outcome), hasShutDown => hasShutDown'
  PROVE  StopInv'
<1> DEFINE new == [active |-> outcome \notin EarlyReturns,
                   probes |-> outcome \notin EarlyReturns,
                   sdk |-> IF outcome = "with SDK" THEN "running" ELSE "none"]
<1>1. clients' = Append(clients, new) /\ stops' = stops
  BY DEF Construct
<1>2. new \in [active : BOOLEAN, probes : BOOLEAN, sdk : {"none", "running", "down"}]
  OBVIOUS
<1> HIDE DEF new
<1>3. /\ clients' \in Seq([active : BOOLEAN, probes : BOOLEAN,
                           sdk : {"none", "running", "down"}])
      /\ Len(clients) <= Len(clients')
      /\ \A i \in DOMAIN clients : clients'[i] = clients[i]
  BY <1>1, <1>2 DEF StopInv
<1> QED
  BY <1>1, <1>3, StopInvStays

LEMMA StopInvStop ==
  ASSUME StopInv, NEW i \in DOMAIN clients, Stop(i), hasShutDown => hasShutDown'
  PROVE  StopInv'
<1> DEFINE call == [id |-> stopCalls', client |-> i, flush |-> pendingTransmissions',
                    sdk |-> IF clients[i].sdk = "none" THEN "none" ELSE "stopping",
                    flushed |-> FALSE]
<1>1. /\ clients' = [clients EXCEPT ![i].probes = FALSE]
      /\ stops' = stops \cup {call}
  BY DEF Stop
<1>2. /\ clients' \in Seq([active : BOOLEAN, probes : BOOLEAN,
                           sdk : {"none", "running", "down"}])
      /\ DOMAIN clients' = DOMAIN clients
      /\ \A j \in DOMAIN clients : clients'[j].sdk = clients[j].sdk
  <2> DEFINE C == [active : BOOLEAN, probes : BOOLEAN, sdk : {"none", "running", "down"}]
             quiet == [clients[i] EXCEPT !.probes = FALSE]
  <2>1. clients \in Seq(C)
    BY DEF StopInv
  <2>0. clients[i] \in C
    BY <2>1, ElementOf
  <2>2. quiet \in C /\ quiet.sdk = clients[i].sdk
    BY <2>0
  <2>3. clients' = [clients EXCEPT ![i] = quiet]
    BY <1>1
  <2> HIDE DEF C, quiet
  <2>4. /\ clients' \in Seq(C) /\ DOMAIN clients' = DOMAIN clients
        /\ clients'[i] = quiet
        /\ \A j \in DOMAIN clients : j # i => clients'[j] = clients[j]
    BY <2>1, <2>2, <2>3, ReplaceOne
  <2> QED
    BY <2>2, <2>4 DEF C
<1>3. /\ call = [id |-> call.id, client |-> call.client, flush |-> call.flush,
                 sdk |-> call.sdk, flushed |-> call.flushed]
      /\ call.client = i /\ ~call.flushed
      /\ call.sdk \in {"none", "down"} => clients[i].sdk = "none"
  OBVIOUS
<1> HIDE DEF call
<1> QED
  BY <1>1, <1>2, <1>3 DEF StopInv

LEMMA StopInvSdk ==
  ASSUME StopInv, NEW call \in stops, SdkStops(call), hasShutDown => hasShutDown'
  PROVE  StopInv'
<1> DEFINE down == [call EXCEPT !.sdk = "down"]
<1>1. /\ clients' = [clients EXCEPT ![call.client].sdk = "down"]
      /\ stops' = (stops \ {call}) \cup {down}
  BY DEF SdkStops
<1>2. call = [id |-> call.id, client |-> call.client, flush |-> call.flush,
              sdk |-> call.sdk, flushed |-> call.flushed]
  BY DEF StopInv
<1>3. /\ down = [id |-> down.id, client |-> down.client, flush |-> down.flush,
                 sdk |-> down.sdk, flushed |-> down.flushed]
      /\ down.client = call.client /\ down.flushed = call.flushed
  BY <1>2
<1> HIDE DEF down
<1>4. call.client \in DOMAIN clients
  BY DEF StopInv
<1>5. /\ clients' \in Seq([active : BOOLEAN, probes : BOOLEAN,
                           sdk : {"none", "running", "down"}])
      /\ DOMAIN clients' = DOMAIN clients
      /\ clients'[call.client].sdk = "down"
      /\ \A j \in DOMAIN clients : clients'[j].sdk \in {clients[j].sdk, "down"}
  <2> DEFINE C == [active : BOOLEAN, probes : BOOLEAN, sdk : {"none", "running", "down"}]
             i == call.client
             stopped == [clients[i] EXCEPT !.sdk = "down"]
  <2>1. clients \in Seq(C) /\ i \in DOMAIN clients
    BY <1>4 DEF StopInv
  <2>0. clients[i] \in C
    BY <2>1, ElementOf
  <2>2. stopped \in C /\ stopped.sdk = "down"
    BY <2>0
  <2>3. clients' = [clients EXCEPT ![i] = stopped]
    BY <1>1
  <2> HIDE DEF C, stopped
  <2>4. /\ clients' \in Seq(C) /\ DOMAIN clients' = DOMAIN clients
        /\ clients'[i] = stopped
        /\ \A j \in DOMAIN clients : j # i => clients'[j] = clients[j]
    BY <2>1, <2>2, <2>3, ReplaceOne
  <2> QED
    BY <2>2, <2>4 DEF C
<1> QED
  BY <1>1, <1>3, <1>4, <1>5 DEF StopInv

LEMMA StopInvFlushed ==
  ASSUME StopInv, NEW snapshot, Flushed(snapshot)
  PROVE  StopInv'
<1> DEFINE after(s) == IF s.flush = snapshot THEN [s EXCEPT !.flushed = TRUE] ELSE s
<1>1. /\ stops' = {after(s) : s \in stops}
      /\ clients' = clients /\ hasShutDown'
  BY DEF Flushed, ShutdownResolves
<1>2. ASSUME NEW s \in stops
      PROVE  /\ after(s) = [id |-> after(s).id, client |-> after(s).client,
                            flush |-> after(s).flush, sdk |-> after(s).sdk,
                            flushed |-> after(s).flushed]
             /\ after(s).client = s.client /\ after(s).sdk = s.sdk
  <2>1. s = [id |-> s.id, client |-> s.client, flush |-> s.flush,
             sdk |-> s.sdk, flushed |-> s.flushed]
    BY DEF StopInv
  <2> DEFINE new == [s EXCEPT !.flushed = TRUE]
  <2>2. new = [id |-> new.id, client |-> new.client, flush |-> new.flush,
               sdk |-> new.sdk, flushed |-> new.flushed]
    BY <2>1, CallChanged, Zenon
  <2>5. new.client = s.client
    BY <2>1
  <2>6. new.sdk = s.sdk
    BY <2>1
  <2>3. CASE s.flush = snapshot
    <3>1. after(s) = new
      BY <2>3
    <3> HIDE DEF after, new
    <3> QED
      BY <2>2, <2>5, <2>6, <3>1
  <2>4. CASE s.flush # snapshot
    BY <2>1, <2>4
  <2> QED
    BY <2>3, <2>4
<1> HIDE DEF after
<1> QED
  BY <1>1, <1>2 DEF StopInv

LEMMA StopInvStep ==
  ASSUME StopInv, StackInv, [ClientNext]_allVars PROVE StopInv'
<1>1. hasShutDown => hasShutDown'
  BY ClientStep, HasShutDownStays
<1>2. ASSUME clients' = clients, stops' \subseteq stops PROVE StopInv'
  BY <1>1, <1>2, StopInvStays DEF StopInv
<1>3. CASE Calls
  BY <1>1, <1>2, <1>3, StopInvConstruct, StopInvStop
     DEF Calls, CronCalls, CronAlone, Heartbeat, clientVars
<1>4. CASE StopContinues
  BY <1>1, <1>2, <1>4, StopInvSdk, StopInvFlushed
     DEF StopContinues, SdkFails, StopResumes
<1> QED
  BY <1>2, <1>3, <1>4
     DEF ClientNext, Runs, ProcessEnds, TimePasses, JobEnds, JobReturns,
         JobReturnsPromise, JobThrows, SomeJobSettles, JobResolves, JobRejects,
         IntervalFires, SchedulerRuns, allVars, clientVars

\* The agent is stopped by a call of stop() whose SDK is down and after the
\* scheduler has delivered everything.
LEMMA AgentStep ==
  ASSUME StopInv, ShutdownDelivers, [ClientNext]_allVars, agent, ~agent'
  PROVE  /\ events = {} /\ pendingTransmissions = {}
         /\ \E call \in stops \ stops' :
              clients[call.client].sdk \in {"none", "down"}
<1>1. PICK call \in stops : StopResumes(call)
  BY DEF ClientNext, Runs, ProcessEnds, TimePasses, Calls, Construct, Stop,
         CronCalls, CronAlone, Heartbeat, JobEnds, JobReturns,
         JobReturnsPromise, JobThrows, SomeJobSettles, JobResolves, JobRejects,
         IntervalFires, SchedulerRuns, StopContinues, SdkStops, SdkFails,
         Flushed, allVars, clientVars
<1>2. hasShutDown /\ clients[call.client].sdk \in {"none", "down"}
  BY <1>1 DEF StopResumes, StopInv
<1>3. call \in stops \ stops'
  BY <1>1 DEF StopResumes
<1> QED
  BY <1>2, <1>3 DEF ShutdownDelivers

\* With any number of clients and of calls of stop(), the agent goes down when
\* nothing is queued or in flight and the SDK of that client is down.
THEOREM AgentIsStoppedLast == ClientSpec => AgentStopsLast
<1>1. ClientInit => Init /\ StackInv /\ StopInv
  BY DEF ClientInit, StackInv, StopInv
<1>2. StackInv /\ StopInv /\ [ClientNext]_allVars => StackInv' /\ StopInv'
  BY StackStep, StopInvStep
<1>3. ClientSpec => []ShutdownDelivers
  BY ClientImplementsScheduler, ShutdownIsComplete, PTL DEF ImplementsScheduler
<1>4. StopInv /\ ShutdownDelivers /\ [ClientNext]_allVars
        => [agent /\ ~agent' =>
              /\ events = {} /\ pendingTransmissions = {}
              /\ \E call \in stops \ stops' :
                   clients[call.client].sdk \in {"none", "down"}]_allVars
  BY AgentStep
<1> QED
  BY <1>1, <1>2, <1>3, <1>4, PTL DEF ClientSpec, AgentStopsLast

-----------------------------------------------------------------------------
(* What is reported of cron jobs                                           *)

\* Why an event may be refused although some were accepted before.
Gone == isShuttingDown \/ \E i \in DOMAIN clients : ~clients[i].active

\* Each job on the stack runs, and is there once.
JobsInv ==
  /\ jobs \in [Crons -> {"new", "running", "awaited", "succeeded", "failed"}]
  /\ \A i \in 1..Len(stack) : jobs[stack[i]] = "running"
  /\ \A i, j \in 1..Len(stack) : i # j => stack[i] # stack[j]

\* The reports of one run follow its job.
ReportsOf(c) ==
  /\ Reported(c, "finish") => jobs[c] = "succeeded"
  /\ jobs[c] = "new" => ~Reported(c, "start")
  /\ Reported(c, "start") /\ jobs[c] = "succeeded" => Reported(c, "finish") \/ Gone

ReportInv ==
  /\ isActive \/ accepted = {} \/ Gone
  /\ \A c \in Crons : ReportsOf(c)

\* A client is active or inactive for good, and no client goes away.
LEMMA ActiveStays ==
  ASSUME StopInv, [ClientNext]_allVars, NEW i \in DOMAIN clients
  PROVE  i \in DOMAIN clients' /\ clients'[i].active = clients[i].active
<1> DEFINE C == [active : BOOLEAN, probes : BOOLEAN, sdk : {"none", "running", "down"}]
<1>1. clients \in Seq(C)
  BY DEF StopInv
<1>2. ASSUME NEW outcome, Construct(outcome)
      PROVE  i \in DOMAIN clients' /\ clients'[i].active = clients[i].active
  <2> DEFINE new == [active |-> outcome \notin EarlyReturns,
                     probes |-> outcome \notin EarlyReturns,
                     sdk |-> IF outcome = "with SDK" THEN "running" ELSE "none"]
  <2>1. clients' = Append(clients, new)
    BY <1>2 DEF Construct
  <2> HIDE DEF new
  <2> QED
    BY <1>1, <2>1
<1>3. ASSUME NEW j \in DOMAIN clients, Stop(j)
      PROVE  i \in DOMAIN clients' /\ clients'[i].active = clients[i].active
  BY <1>1, <1>3, ElementOf DEF Stop
<1>4. ASSUME NEW call \in stops, SdkStops(call)
      PROVE  i \in DOMAIN clients' /\ clients'[i].active = clients[i].active
  BY <1>1, <1>4, ElementOf DEF SdkStops
<1>5. CASE clients' = clients
  BY <1>5
<1> QED
  BY <1>2, <1>3, <1>4, <1>5
     DEF ClientNext, Runs, ProcessEnds, TimePasses, Calls, CronCalls,
         CronAlone, Heartbeat, JobEnds, JobReturns, JobReturnsPromise,
         JobThrows, SomeJobSettles, JobResolves, JobRejects, IntervalFires,
         SchedulerRuns, StopContinues, SdkFails, Flushed, StopResumes, allVars,
         clientVars

LEMMA GoneStays ==
  ASSUME StopInv, StackInv, [ClientNext]_allVars, Gone PROVE Gone'
<1>1. isShuttingDown => isShuttingDown'
  BY ClientStep
     DEF Next, Runs, Exit, Exited, UserCalls, Tick, StepWallClock, NewClient,
         Schedule, ScheduleAccepted, ScheduleRefused, Shutdown, WakerFires,
         SomeShutdownResolves, ShutdownResolves, SomeTransmissionSettles,
         Settle, vars, queueVars
<1> QED
  BY <1>1, ActiveStays DEF Gone

\* What the scheduler does with an event.
LEMMA Accepts ==
  ASSUME NEW event, Schedule(event)
  PROVE  /\ isActive' = isActive
         /\ \/ accepted' = accepted /\ (~isActive \/ isShuttingDown)
            \/ accepted' = accepted \cup {event} /\ isActive
BY DEF Schedule, ScheduleRefused, ScheduleAccepted

LEMMA CronReported ==
  ASSUME NEW n, NEW c, NEW k, accepted' = accepted \cup {CronEvent(n, c, k)},
         NEW d, NEW m
  PROVE  Reported(d, m)' <=> Reported(d, m) \/ (d = c /\ m = k)
<1> DEFINE new == CronEvent(n, c, k)
<1>1. new.check_in_type = "cron" /\ new.digest = c /\ new.kind = k
  BY DEF CronEvent
<1> HIDE DEF new
<1> QED
  BY <1>1 DEF Reported, new

LEMMA HeartbeatReported ==
  ASSUME NEW n, NEW i, accepted' = accepted \cup {HeartbeatEvent(n, i)},
         NEW d, NEW m
  PROVE  Reported(d, m)' <=> Reported(d, m)
<1> DEFINE new == HeartbeatEvent(n, i)
<1>1. new.check_in_type # "cron"
  BY DEF HeartbeatEvent
<1>2. accepted' = accepted \cup {new}
  OBVIOUS
<1> HIDE DEF new
<1> QED
  BY <1>1, <1>2 DEF Reported

\* A step that neither reports a cron job nor changes one.
LEMMA ReportsStay ==
  ASSUME ReportInv, Gone => Gone', jobs' = jobs,
         \A c \in Crons, k \in Kinds : Reported(c, k)' <=> Reported(c, k)
  PROVE  \A c \in Crons : ReportsOf(c)'
BY DEF ReportInv, ReportsOf, Kinds

\* A heartbeat is sent, or refused.
LEMMA HeartbeatStep ==
  ASSUME ReportInv, Gone => Gone', jobs' = jobs, clients' = clients,
         NEW i, Schedule(HeartbeatEvent(nextId, i))
  PROVE  ReportInv'
<1>1. \A c \in Crons, k \in Kinds : Reported(c, k)' <=> Reported(c, k)
  <2>1. CASE accepted' = accepted
    BY <2>1 DEF Reported
  <2>2. CASE accepted' = accepted \cup {HeartbeatEvent(nextId, i)}
    BY <2>2, HeartbeatReported
  <2> QED
    BY <2>1, <2>2, Accepts
<1>2. isActive' \/ accepted' = {} \/ Gone'
  BY Accepts DEF ReportInv
<1> QED
  BY <1>1, <1>2, ReportsStay DEF ReportInv

\* A job begins, or has succeeded, and that is reported, or the report is
\* refused.
LEMMA CronStep ==
  ASSUME ReportInv, JobsInv, Gone => Gone', clients' = clients,
         NEW c \in Crons, NEW k \in Kinds, Schedule(CronEvent(nextId, c, k)),
         jobs' = [jobs EXCEPT ![c] = IF k = "start" THEN "running" ELSE "succeeded"],
         k = "start" => jobs[c] = "new"
  PROVE  ReportInv'
<1>1. isActive' \/ accepted' = {} \/ Gone'
  BY Accepts DEF ReportInv
<1>2. jobs'[c] = (IF k = "start" THEN "running" ELSE "succeeded")
  BY DEF JobsInv
<1>3. ASSUME NEW d \in Crons, d # c PROVE ReportsOf(d)'
  <2>1. jobs'[d] = jobs[d]
    BY <1>3 DEF JobsInv
  <2>2. \A m \in Kinds : Reported(d, m)' <=> Reported(d, m)
    <3>1. CASE accepted' = accepted
      BY <3>1 DEF Reported
    <3>2. CASE accepted' = accepted \cup {CronEvent(nextId, c, k)}
      BY <1>3, <3>2, CronReported
    <3> QED
      BY <3>1, <3>2, Accepts
  <2> QED
    BY <2>1, <2>2 DEF ReportInv, ReportsOf, Kinds
<1>4. ReportsOf(c)'
  <2>1. CASE accepted' = accepted /\ (~isActive \/ isShuttingDown)
    <3>1. \A m \in Kinds : Reported(c, m)' <=> Reported(c, m)
      BY <2>1 DEF Reported
    <3>2. Gone \/ accepted = {}
      BY <2>1 DEF ReportInv, Gone
    <3>3. accepted = {} => ~Reported(c, "start")
      BY DEF Reported
    <3> QED
      BY <1>2, <3>1, <3>2, <3>3 DEF ReportInv, ReportsOf, Kinds
  <2>2. CASE accepted' = accepted \cup {CronEvent(nextId, c, k)}
    <3>1. \A m \in Kinds : Reported(c, m)' <=> Reported(c, m) \/ m = k
      BY <2>2, CronReported
    <3> QED
      BY <1>2, <3>1 DEF ReportInv, ReportsOf, Kinds
  <2> QED
    BY <2>1, <2>2, Accepts
<1> QED
  BY <1>1, <1>3, <1>4 DEF ReportInv

\* A job hands on a promise or fails, and nothing is reported.
LEMMA UnreportedStep ==
  ASSUME ReportInv, JobsInv, Gone => Gone', NEW c \in Crons,
         NEW outcome \in {"awaited", "failed"},
         jobs[c] \in {"running", "awaited"},
         jobs' = [jobs EXCEPT ![c] = outcome],
         UNCHANGED <<isActive, accepted>>
  PROVE  ReportInv'
<1>1. \A d \in Crons : jobs'[d] = IF d = c THEN outcome ELSE jobs[d]
  BY DEF JobsInv
<1>2. \A d \in Crons, m \in Kinds : Reported(d, m)' <=> Reported(d, m)
  BY DEF Reported
<1> QED
  BY <1>1, <1>2 DEF ReportInv, ReportsOf, Kinds

LEMMA ReportStep ==
  ASSUME ReportInv, JobsInv, StackInv, StopInv, [ClientNext]_allVars
  PROVE  ReportInv'
<1>1. Gone => Gone'
  BY GoneStays
<1>2. ASSUME UNCHANGED <<accepted, jobs, isActive>> PROVE ReportInv'
  <2>1. \A c \in Crons, k \in Kinds : Reported(c, k)' <=> Reported(c, k)
    BY <1>2 DEF Reported
  <2> QED
    BY <1>1, <1>2, <2>1, ReportsStay DEF ReportInv
<1>3. ASSUME NEW outcome, Construct(outcome) PROVE ReportInv'
  <2> DEFINE new == [active |-> outcome \notin EarlyReturns,
                     probes |-> outcome \notin EarlyReturns,
                     sdk |-> IF outcome = "with SDK" THEN "running" ELSE "none"]
  <2>1. /\ jobs' = jobs /\ accepted' = accepted
        /\ isActive' = new.active
        /\ clients' = Append(clients, new)
    BY <1>3 DEF Construct, NewClient, jobVars
  <2>2. clients \in Seq([active : BOOLEAN, probes : BOOLEAN,
                         sdk : {"none", "running", "down"}])
    BY DEF StopInv
  <2>5. new.active \in BOOLEAN
    OBVIOUS
  <2> HIDE DEF new
  <2>3. isActive' \/ Gone'
    <3>1. clients'[Len(clients')].active = isActive'
      BY <2>1, <2>2
    <3>2. Len(clients') \in DOMAIN clients'
      BY <2>1, <2>2
    <3> QED
      BY <3>1, <3>2 DEF Gone
  <2>4. \A c \in Crons, k \in Kinds : Reported(c, k)' <=> Reported(c, k)
    BY <2>1 DEF Reported
  <2> QED
    BY <1>1, <2>1, <2>3, <2>4, ReportsStay DEF ReportInv
<1>4. ASSUME NEW c \in Crons, CronCalls(c) \/ CronAlone(c) PROVE ReportInv'
  BY <1>1, <1>4, CronStep DEF CronCalls, CronAlone, clientVars, Kinds
<1>5. CASE JobReturns
  <2>1. Top \in Crons
    BY <1>5 DEF JobReturns, Free, Top, StackInv
  <2> QED
    BY <1>1, <1>5, <2>1, CronStep DEF JobReturns, clientVars, Kinds
<1>6. CASE JobReturnsPromise \/ JobThrows
  <2>1. Top \in Crons /\ jobs[Top] = "running"
    BY <1>6 DEF JobReturnsPromise, JobThrows, Free, Top, StackInv, JobsInv
  <2> QED
    BY <1>1, <1>6, <2>1, UnreportedStep DEF JobReturnsPromise, JobThrows, vars
<1>7. ASSUME NEW c \in Crons, JobResolves(c) PROVE ReportInv'
  BY <1>1, <1>7, CronStep DEF JobResolves, clientVars, Kinds
<1>8. ASSUME NEW c \in Crons, JobRejects(c) PROVE ReportInv'
  BY <1>1, <1>8, UnreportedStep DEF JobRejects, vars
<1>9. ASSUME NEW i, (\E b : Heartbeat(i, b)) \/ IntervalFires(i) PROVE ReportInv'
  BY <1>1, <1>9, HeartbeatStep DEF Heartbeat, IntervalFires, clientVars, jobVars
<1>10. CASE TimePasses \/ SchedulerRuns \/ ProcessEnds
  BY <1>2, <1>10
     DEF ProcessEnds, Exit, TimePasses, Tick, StepWallClock, SchedulerRuns,
         WakerFires, SomeTransmissionSettles, Settle, jobVars
<1>11. CASE StopContinues
  BY <1>2, <1>11
     DEF StopContinues, SdkStops, SdkFails, StopResumes, Flushed,
         ShutdownResolves, vars, jobVars
<1>12. ASSUME NEW i \in DOMAIN clients, Stop(i) PROVE ReportInv'
  BY <1>2, <1>12 DEF Stop, Shutdown, jobVars
<1>13. CASE UNCHANGED allVars
  BY <1>2, <1>13 DEF allVars, vars, jobVars
<1> QED
  BY <1>3, <1>4, <1>5, <1>6, <1>7, <1>8, <1>9, <1>10, <1>11, <1>12, <1>13
     DEF ClientNext, Runs, ProcessEnds, Calls, JobEnds, SomeJobSettles

LEMMA LastTaken ==
  ASSUME NEW S, NEW s \in Seq(S), s # <<>>
  PROVE  /\ Len(s) \in Nat \ {0} /\ s[Len(s)] \in S
         /\ Len(SubSeq(s, 1, Len(s) - 1)) = Len(s) - 1
         /\ \A i \in 1..(Len(s) - 1) :
              SubSeq(s, 1, Len(s) - 1)[i] = s[i] /\ s[i] \in S
<1>1. Len(s) \in Nat \ {0}
  OBVIOUS
<1>2. \A i \in 1..Len(s) : s[i] \in S
  OBVIOUS
<1>3. PICK n \in Nat : Len(s) = n + 1
  BY <1>1
<1>4. /\ Len(SubSeq(s, 1, n)) = n
      /\ \A i \in 1..n : SubSeq(s, 1, n)[i] = s[i]
  BY <1>3
<1>5. Len(s) - 1 = n
  BY <1>3
<1> QED
  BY <1>1, <1>2, <1>3, <1>4, <1>5

LEMMA JobsStep ==
  ASSUME JobsInv, StackInv, [ClientNext]_allVars PROVE JobsInv'
<1> USE DEF JobsInv, StackInv
<1>1. ASSUME NEW c \in Crons, CronCalls(c) PROVE JobsInv'
  <2>1. jobs[c] = "new" /\ jobs' = [jobs EXCEPT ![c] = "running"]
    BY <1>1 DEF CronCalls
  <2>2. stack' = Append(stack, c)
    BY <1>1 DEF CronCalls
  <2>3. \A i \in 1..Len(stack) : stack[i] # c
    BY <2>1
  <2>4. /\ Len(stack') = Len(stack) + 1 /\ stack'[Len(stack) + 1] = c
        /\ \A i \in 1..Len(stack) : stack'[i] = stack[i] /\ stack[i] \in Crons
    BY <2>2
  <2> QED
    BY <2>1, <2>3, <2>4
<1>2. ASSUME ~Free, Pop, NEW outcome \in {"awaited", "succeeded", "failed"},
             jobs' = [jobs EXCEPT ![Top] = outcome]
      PROVE  JobsInv'
  <2>1. /\ Len(stack) \in Nat \ {0} /\ Top = stack[Len(stack)] /\ Top \in Crons
        /\ Len(stack') = Len(stack) - 1
        /\ \A i \in 1..(Len(stack) - 1) : stack'[i] = stack[i] /\ stack[i] \in Crons
    BY <1>2, LastTaken DEF Free, Pop, Top
  <2>2. \A i \in 1..(Len(stack) - 1) : stack[i] # Top
    BY <2>1
  <2>3. jobs' \in [Crons -> {"new", "running", "awaited", "succeeded", "failed"}]
    BY <1>2
  <2>4. \A d \in Crons : d # Top => jobs'[d] = jobs[d]
    BY <1>2
  <2>5. 1..Len(stack') \subseteq 1..Len(stack) /\ 1..Len(stack') = 1..(Len(stack) - 1)
    BY <2>1
  <2>6. \A i \in 1..Len(stack') : jobs'[stack'[i]] = "running"
    BY <2>1, <2>2, <2>4, <2>5
  <2>7. \A i, j \in 1..Len(stack') : i # j => stack'[i] # stack'[j]
    BY <2>1, <2>5
  <2> QED
    BY <2>3, <2>6, <2>7
<1>3. CASE JobEnds
  BY <1>2, <1>3 DEF JobEnds, JobReturns, JobReturnsPromise, JobThrows
<1>4. ASSUME NEW c \in Crons, NEW outcome \in {"succeeded", "failed"},
             jobs[c] # "running", jobs' = [jobs EXCEPT ![c] = outcome],
             stack' = stack
      PROVE  JobsInv'
  <2>1. \A d \in Crons : d # c => jobs'[d] = jobs[d]
    BY <1>4
  <2>2. \A i \in 1..Len(stack) : stack[i] \in Crons /\ stack[i] # c
    BY <1>4
  <2>3. jobs' \in [Crons -> {"new", "running", "awaited", "succeeded", "failed"}]
    BY <1>4
  <2> QED
    BY <1>4, <2>1, <2>2, <2>3
<1>5. ASSUME NEW c \in Crons, CronAlone(c) \/ JobResolves(c) \/ JobRejects(c)
      PROVE  JobsInv'
  BY <1>4, <1>5 DEF CronAlone, JobResolves, JobRejects
<1>6. CASE UNCHANGED <<jobs, stack>>
  BY <1>6
<1> QED
  BY <1>1, <1>3, <1>5, <1>6
     DEF ClientNext, Runs, ProcessEnds, Calls, SomeJobSettles, StopContinues,
         SchedulerRuns, TimePasses, allVars, jobVars, Construct, Stop,
         Heartbeat, IntervalFires, SdkStops, SdkFails, StopResumes, Flushed

\* Whatever clients come and go and however jobs end: a run is reported as
\* finished only when its job has succeeded, and always when it has and was
\* reported as started, unless AppSignal was stopped or is inactive by then.
THEOREM ReportsAreTruthful == ClientSpec => []CronReportsTruthful
<1>1. ClientInit => StackInv /\ StopInv /\ JobsInv /\ ReportInv
  BY DEF ClientInit, Init, StackInv, StopInv, JobsInv, ReportInv, ReportsOf,
         Reported
<1>2. StackInv /\ StopInv /\ JobsInv /\ ReportInv /\ [ClientNext]_allVars
        => StackInv' /\ StopInv' /\ JobsInv' /\ ReportInv'
  BY StackStep, StopInvStep, JobsStep, ReportStep
<1>3. ReportInv => CronReportsTruthful
  BY DEF ReportInv, ReportsOf, CronReportsTruthful, Gone
<1> QED
  BY <1>1, <1>2, <1>3, PTL DEF ClientSpec

-----------------------------------------------------------------------------
(* Types                                                                   *)

StopRecords(Clients, Sent) ==
  [id : 1..MaxStops, client : Clients, flush : SUBSET Sent,
   sdk : {"none", "stopping", "down"}, flushed : BOOLEAN]

TypedInv ==
  /\ agent \in BOOLEAN
  /\ stops \subseteq StopRecords(DOMAIN clients, sent)
  /\ stopCalls \in 0..MaxStops
  /\ continuous \subseteq Heartbeats

LEMMA RecordsGrow ==
  ASSUME NEW C, NEW D, C \subseteq D, NEW S, NEW T, S \subseteq T
  PROVE  StopRecords(C, S) \subseteq StopRecords(D, T)
BY DEF StopRecords

LEMMA RecordChanged ==
  ASSUME NEW C, NEW S, NEW s \in StopRecords(C, S)
  PROVE  /\ [s EXCEPT !.flushed = TRUE] \in StopRecords(C, S)
         /\ [s EXCEPT !.sdk = "down"] \in StopRecords(C, S)
BY DEF StopRecords

LEMMA TypedStep ==
  ASSUME TypedInv, StopInv, StackInv, [ClientNext]_allVars, TypeOK'
  PROVE  TypedInv'
<1>1. sent \subseteq sent' /\ pendingTransmissions' \subseteq sent'
  BY ClientStep, SentGrows DEF TypeOK
<1>2. DOMAIN clients \subseteq DOMAIN clients'
  BY ActiveStays
<1>3. StopRecords(DOMAIN clients, sent) \subseteq StopRecords(DOMAIN clients', sent')
  BY <1>1, <1>2, RecordsGrow
<1>4. ASSUME stops' \subseteq stops, stopCalls' = stopCalls, agent' \in BOOLEAN,
             continuous' \subseteq Heartbeats
      PROVE  TypedInv'
  BY <1>3, <1>4 DEF TypedInv
<1>5. ASSUME NEW i \in DOMAIN clients, Stop(i) PROVE TypedInv'
  <2> DEFINE call == [id |-> stopCalls', client |-> i, flush |-> pendingTransmissions',
                      sdk |-> IF clients[i].sdk = "none" THEN "none" ELSE "stopping",
                      flushed |-> FALSE]
  <2>1. /\ stops' = stops \cup {call} /\ agent' = agent /\ continuous' = continuous
        /\ stopCalls < MaxStops /\ stopCalls' = stopCalls + 1
    BY <1>5 DEF Stop, jobVars
  <2>2. stopCalls' \in 1..MaxStops
    BY <2>1, ClientBoundsAssumption DEF TypedInv
  <2>3. call \in StopRecords(DOMAIN clients', sent')
    BY <1>1, <1>2, <2>2 DEF StopRecords
  <2> HIDE DEF call
  <2> QED
    BY <1>3, <2>1, <2>2, <2>3 DEF TypedInv
<1>6. ASSUME NEW call \in stops, SdkStops(call) PROVE TypedInv'
  <2>1. /\ stops' = (stops \ {call}) \cup {[call EXCEPT !.sdk = "down"]}
        /\ UNCHANGED <<agent, stopCalls, continuous>>
    BY <1>6 DEF SdkStops, jobVars
  <2>2. [call EXCEPT !.sdk = "down"] \in StopRecords(DOMAIN clients, sent)
    BY RecordChanged DEF TypedInv
  <2> QED
    BY <1>3, <2>1, <2>2 DEF TypedInv
<1>7. ASSUME NEW snapshot, Flushed(snapshot) PROVE TypedInv'
  <2>1. /\ stops' = {IF s.flush = snapshot THEN [s EXCEPT !.flushed = TRUE]
                     ELSE s : s \in stops}
        /\ UNCHANGED <<agent, stopCalls, continuous>>
    BY <1>7 DEF Flushed, jobVars
  <2>2. \A old \in stops :
          [old EXCEPT !.flushed = TRUE] \in StopRecords(DOMAIN clients, sent)
    BY RecordChanged DEF TypedInv
  <2> QED
    BY <1>3, <2>1, <2>2 DEF TypedInv
<1>8. ASSUME NEW outcome, Construct(outcome) PROVE TypedInv'
  BY <1>4, <1>8 DEF Construct, jobVars, TypedInv
<1>9. ASSUME NEW i \in Heartbeats, NEW b, Heartbeat(i, b) PROVE TypedInv'
  BY <1>4, <1>9 DEF Heartbeat, clientVars, TypedInv
<1>10. CASE UNCHANGED <<clientVars, continuous>>
  BY <1>4, <1>10 DEF clientVars, TypedInv
<1>11. ASSUME NEW call \in stops, SdkFails(call) \/ StopResumes(call)
       PROVE  TypedInv'
  BY <1>4, <1>11 DEF SdkFails, StopResumes, jobVars, TypedInv
<1> QED
  BY <1>5, <1>6, <1>7, <1>8, <1>9, <1>10, <1>11
     DEF ClientNext, Runs, ProcessEnds, TimePasses, Calls, CronCalls,
         CronAlone, JobEnds, JobReturns, JobReturnsPromise, JobThrows,
         SomeJobSettles, JobResolves, JobRejects, IntervalFires, SchedulerRuns,
         StopContinues, allVars, jobVars

\* The type of every variable of the clients, their calls of stop() and the
\* jobs.
THEOREM ClientTyped == ClientSpec => []ClientTypeOK
<1>1. ClientInit => StackInv /\ StopInv /\ JobsInv /\ TypedInv
  <2>1. ClientInit => StackInv /\ StopInv /\ JobsInv
    BY DEF ClientInit, StackInv, StopInv, JobsInv
  <2>2. ASSUME ClientInit PROVE TypedInv
    <3>1. stopCalls \in 0..MaxStops
      BY <2>2, ClientBoundsAssumption DEF ClientInit
    <3> QED
      BY <2>2, <3>1 DEF ClientInit, TypedInv
  <2> QED
    BY <2>1, <2>2
<1>2. StackInv /\ StopInv /\ JobsInv /\ TypedInv /\ TypeOK'
        /\ [ClientNext]_allVars
        => StackInv' /\ StopInv' /\ JobsInv' /\ TypedInv'
  BY StackStep, StopInvStep, JobsStep, TypedStep
<1>3. ClientSpec => []TypeOK
  BY ClientImplementsScheduler, TypeCorrect, PTL DEF ImplementsScheduler
<1>4. StackInv /\ StopInv /\ JobsInv /\ TypedInv => ClientTypeOK
  BY DEF StackInv, StopInv, JobsInv, TypedInv, ClientTypeOK, StopRecords
<1> QED
  BY <1>1, <1>2, <1>3, <1>4, PTL DEF ClientSpec
=============================================================================
