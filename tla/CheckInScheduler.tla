-------------------------- MODULE CheckInScheduler --------------------------
(***************************************************************************)
(* The check-in scheduler of src/src/check_in/scheduler.ts: events are     *)
(* queued by user calls, a debounce timer (the waker) hands the queue to   *)
(* the transmitter, and shutdown() flushes it and awaits the transmissions *)
(* that are in flight.                                                     *)
(*                                                                         *)
(* JavaScript runs one callback at a time, so every public call and every  *)
(* timer or promise callback is one action.  Between them anything may     *)
(* interleave.  Time is counted in ticks of the short debounce.            *)
(* Nothing here keeps the process alive: it may end between any two steps, *)
(* and what is queued or in flight by then is lost with it.                *)
(***************************************************************************)
EXTENDS CheckInEvents, Integers, FiniteSets

CONSTANTS InitialDebounce,  \* INITIAL_DEBOUNCE_MILLISECONDS
          BetweenDebounce,  \* BETWEEN_TRANSMISSIONS_DEBOUNCE_MILLISECONDS
          MaxSkew,          \* how far ahead the wall clock may be stepped
          Settlements,      \* the ways in which a transmission may settle
          MaxAwaited,       \* bound: shutdown() promises unresolved at once
          MaxEvents,        \* bound: events accepted from user calls
          Horizon           \* bound: how long time runs with no timer armed

ASSUME DebounceAssumption ==
  /\ InitialDebounce \in Nat \ {0}
  /\ BetweenDebounce \in Nat
  /\ InitialDebounce <= BetweenDebounce
ASSUME SkewAssumption == MaxSkew \in Nat
ASSUME SettlementsAssumption ==
  /\ Settlements # {}
  /\ Settlements \subseteq
       {"2xx", "other status", "request error", "type error"}
ASSUME BoundsAssumption ==
  MaxAwaited \in Nat /\ MaxEvents \in Nat /\ Horizon \in Nat

VARIABLES
  isRunning,             \* has the process not ended yet?
  now,                   \* the monotonic clock the timers run on
  skew,                  \* what the wall clock is ahead of it by
  isActive,              \* Client.client exists and is active
  nextId,                \* number of the next event queued
  events,                \* this.events
  waker,                 \* instant the waker is due, or NoWaker
  lastTransmission,      \* this.lastTransmission, or Never
  isShuttingDown,        \* this.isShuttingDown
  pendingTransmissions,  \* batches whose promise is in the pending set
  awaiting,              \* what each unresolved shutdown() waits for
  accepted,              \* history: every event that was queued
  sent,                  \* history: every batch handed to the transmitter
  unhandled,             \* batches whose promise rejected with no handler
  logged,                \* history: how the outcome of a batch was logged
  hasShutDown            \* history: some shutdown() promise has resolved

queueVars == <<events, waker, lastTransmission, isShuttingDown>>
outcomeVars == <<unhandled, logged>>
deliveryVars == <<pendingTransmissions, awaiting, sent, outcomeVars, hasShutDown>>
vars == <<isRunning, now, skew, isActive, nextId, queueVars, deliveryVars,
          accepted>>

NoWaker == -1        \* this.waker === undefined
Never == -1          \* this.lastTransmission === undefined

\* One call of transmit(): the queue it was taken from, what remained of it,
\* when it was made, and whether shutdown() made it.
Batches == [scheduled : SUBSET Events, events : (SUBSET Events) \ {{}},
            at : Nat, flush : BOOLEAN]

\* Date.now()
WallClock == now + skew

Larger(a, b) == IF a >= b THEN a ELSE b

\* Slip: the time elapsed is added to the pause.
DebounceTimeAdding ==
  IF lastTransmission = Never
  THEN InitialDebounce
  ELSE Larger(InitialDebounce,
              BetweenDebounce + (WallClock - lastTransmission))

\* debounceTime(lastTransmission)
DebounceTime ==
  IF lastTransmission = Never
  THEN InitialDebounce
  ELSE Larger(InitialDebounce,
              BetweenDebounce - (WallClock - lastTransmission))

Init ==
  /\ isRunning = TRUE
  /\ now = 0
  /\ skew = 0
  /\ isActive = FALSE
  /\ nextId = 1
  /\ events = {}
  /\ waker = NoWaker
  /\ lastTransmission = Never
  /\ isShuttingDown = FALSE
  /\ pendingTransmissions = {}
  /\ awaiting = {}
  /\ accepted = {}
  /\ sent = {}
  /\ unhandled = {}
  /\ logged = {}
  /\ hasShutDown = FALSE

-----------------------------------------------------------------------------
(* The environment: time and the client behind Client.client.              *)

\* Time may outrun a due timer: the event loop can be busy.  A timer that is
\* armed always gets the time it needs, whatever the horizon.
Tick ==
  /\ now < Horizon \/ (waker # NoWaker /\ now < waker)
  /\ now' = now + 1
  /\ UNCHANGED <<skew, isActive, nextId, queueVars, deliveryVars, accepted>>

\* The wall clock is set forwards or back; timers do not notice.
StepWallClock(s) ==
  /\ skew # s
  /\ skew' = s
  /\ UNCHANGED <<now, isActive, nextId, queueVars, deliveryVars, accepted>>

\* A client is constructed; it is active if its configuration is valid.
NewClient(active) ==
  /\ isActive' = active
  /\ UNCHANGED <<now, skew, nextId, queueVars, deliveryVars, accepted>>

-----------------------------------------------------------------------------
(* Scheduler.schedule                                                      *)

\* Slip: only the first transmission gets a timer.
ScheduleWakerOnce ==
  waker' = IF waker = NoWaker /\ lastTransmission = Never
           THEN now + DebounceTime
           ELSE waker

\* scheduleWaker: an armed timer is kept as it is.
ScheduleWaker ==
  waker' = IF waker = NoWaker THEN now + DebounceTime ELSE waker

\* Both early returns of schedule() drop the event with a debug message; its
\* number is as good as never used.
ScheduleRefused ==
  /\ ~isActive \/ isShuttingDown
  /\ UNCHANGED <<nextId, queueVars, accepted>>

ScheduleAccepted(event) ==
  /\ isActive
  /\ ~isShuttingDown
  /\ events' = AddEvent(events, event)
  /\ ScheduleWaker
  /\ accepted' = accepted \cup {event}
  /\ nextId' = nextId + 1
  /\ UNCHANGED <<lastTransmission, isShuttingDown>>

Schedule(event) ==
  /\ nextId <= MaxEvents
  /\ ScheduleRefused \/ ScheduleAccepted(event)
  /\ UNCHANGED <<now, skew, isActive, deliveryVars>>

-----------------------------------------------------------------------------
(* Scheduler.runWaker and Scheduler.transmit                               *)

\* transmit(): the request is made at once and its promise is added to the
\* set of pending ones.
Transmit(batch) ==
  /\ sent' = sent \cup {batch}
  /\ pendingTransmissions' = pendingTransmissions \cup {batch}

\* Slip: the queue is not emptied.
RunWakerKeepsQueue(flush) ==
  LET remaining == DeduplicateCron(events) IN
  /\ lastTransmission' = WallClock
  /\ waker' = NoWaker
  /\ events' = remaining
  /\ IF remaining # {}
     THEN Transmit([scheduled |-> events, events |-> remaining,
                    at |-> now, flush |-> flush])
     ELSE UNCHANGED <<sent, pendingTransmissions>>

\* Slip: waker still refers to the timer that has fired.
RunWakerKeepsTimer(flush) ==
  LET remaining == DeduplicateCron(events) IN
  /\ lastTransmission' = WallClock
  /\ events' = {}
  /\ UNCHANGED waker
  /\ IF remaining # {}
     THEN Transmit([scheduled |-> events, events |-> remaining,
                    at |-> now, flush |-> flush])
     ELSE UNCHANGED <<sent, pendingTransmissions>>

\* Slip: the time of the transmission is not noted.
RunWakerKeepsTime(flush) ==
  LET remaining == DeduplicateCron(events) IN
  /\ waker' = NoWaker
  /\ events' = {}
  /\ UNCHANGED lastTransmission
  /\ IF remaining # {}
     THEN Transmit([scheduled |-> events, events |-> remaining,
                    at |-> now, flush |-> flush])
     ELSE UNCHANGED <<sent, pendingTransmissions>>

RunWaker(flush) ==
  LET remaining == DeduplicateCron(events) IN
  /\ lastTransmission' = WallClock
  /\ waker' = NoWaker
  /\ events' = {}
  /\ IF remaining # {}
     THEN Transmit([scheduled |-> events, events |-> remaining,
                    at |-> now, flush |-> flush])
     ELSE UNCHANGED <<sent, pendingTransmissions>>

WakerFires ==
  /\ waker # NoWaker
  /\ now >= waker
  /\ RunWaker(FALSE)
  /\ UNCHANGED <<now, skew, isActive, nextId, isShuttingDown, awaiting,
                 accepted, outcomeVars,
                 hasShutDown>>

\* Slip: the snapshot is taken before the queue is flushed.
ShutdownFlushesLast ==
  /\ Cardinality(awaiting) < MaxAwaited
  /\ isShuttingDown' = TRUE
  /\ awaiting' = awaiting \cup {pendingTransmissions}
  /\ RunWaker(TRUE)
  /\ UNCHANGED <<now, skew, isActive, nextId, accepted, outcomeVars,
                 hasShutDown>>

\* Slip: the queue is dropped with its timer.
ShutdownDropsQueue ==
  /\ Cardinality(awaiting) < MaxAwaited
  /\ isShuttingDown' = TRUE
  /\ waker' = NoWaker
  /\ events' = {}
  /\ awaiting' = awaiting \cup {pendingTransmissions}
  /\ UNCHANGED <<now, skew, isActive, nextId, lastTransmission,
                 pendingTransmissions, accepted, sent, outcomeVars, hasShutDown>>

\* shutdown() up to its await: allSettled() takes a snapshot of the set.
Shutdown ==
  /\ Cardinality(awaiting) < MaxAwaited
  /\ isShuttingDown' = TRUE
  /\ RunWaker(TRUE)
  /\ awaiting' = awaiting \cup {pendingTransmissions'}
  /\ UNCHANGED <<now, skew, isActive, nextId, accepted, outcomeVars,
                 hasShutDown>>

\* Every promise in the snapshot has settled, so shutdown() returns.
ShutdownResolves(snapshot) ==
  /\ snapshot \cap pendingTransmissions = {}
  /\ awaiting' = awaiting \ {snapshot}
  /\ hasShutDown' = TRUE
  /\ UNCHANGED <<now, skew, isActive, nextId, queueVars,
                 pendingTransmissions, accepted, sent, outcomeVars>>

-----------------------------------------------------------------------------
(* The promise chain of transmit().                                        *)

\* Slip: any response counts as a success, and the error of a failing request
\* is dropped.
LogLevelsOfResponses(settlement) ==
  IF settlement \in {"2xx", "other status"} THEN {"trace"} ELSE {}

\* What the then() and catch() handlers log.  A failing request rejects the
\* promise of Transmitter.transmit() with { error }, but an endpoint to which
\* no request can be made with a bare TypeError: new URL(), or request(), throws
\* inside the promise's executor.  Destructuring { error } from that gives
\* undefined, so the catch() handler throws before logging.
LogLevels(settlement) ==
  CASE settlement = "2xx"           -> {"trace"}
    [] settlement = "other status"  -> {"error"}
    [] settlement = "request error" -> {"error"}
    [] settlement = "type error"    -> {}

\* The pending set forgets the promise either way.  The promise that finally()
\* derives from one that rejects has no handler: Node.js ends the process for
\* it, once the callbacks of settled promises have run, unless the application
\* listens for 'unhandledRejection'.
Settle(batch, settlement) ==
  /\ pendingTransmissions' = pendingTransmissions \ {batch}
  /\ unhandled' = IF settlement = "type error" THEN unhandled \cup {batch}
                                               ELSE unhandled
  /\ logged' = logged \cup {[batch |-> batch, level |-> l] :
                              l \in LogLevels(settlement)}
  /\ UNCHANGED <<now, skew, isActive, nextId, queueVars, awaiting, accepted,
                 sent, hasShutDown>>

-----------------------------------------------------------------------------
UserCalls ==
  \/ \E active \in BOOLEAN : NewClient(active)
  \/ \E event \in EventsNumbered(nextId) : Schedule(event)
  \/ Shutdown

SomeShutdownResolves == \E snapshot \in awaiting : ShutdownResolves(snapshot)

SomeTransmissionSettles ==
  \E batch \in pendingTransmissions, s \in Settlements : Settle(batch, s)

\* A step taken by the process.
Runs(step) == isRunning /\ step /\ UNCHANGED isRunning

\* The process ends: the application calls process.exit(), an exception or a
\* rejection goes unhandled, or nothing keeps the event loop alive.  An armed
\* waker does not: it is unref()'d, "users must call Appsignal.stop() to
\* gracefully await the transmission of scheduled events" (scheduler.ts).
Exit ==
  /\ isRunning
  /\ isRunning' = FALSE
  /\ UNCHANGED <<now, skew, isActive, nextId, queueVars, deliveryVars, accepted>>

Exited == ~isRunning /\ UNCHANGED vars

Next ==
  \/ Runs(Tick)
  \/ \E s \in 0..MaxSkew : Runs(StepWallClock(s))
  \/ Runs(UserCalls)
  \/ Runs(WakerFires)
  \/ Runs(SomeShutdownResolves)
  \/ Runs(SomeTransmissionSettles)
  \/ Exit
  \/ Exited

Spec == Init /\ [][Next]_vars

\* For as long as the process runs, time goes on and the event loop runs due
\* timers and the continuations of settled promises.  That every request ends
\* in a whole response or an error is an assumption on the network: the code
\* sets no timeout, and a response that is cut off settles nothing.
Fairness ==
  /\ WF_vars(Runs(Tick))
  /\ WF_vars(Runs(WakerFires))
  /\ WF_vars(Runs(SomeShutdownResolves))
  /\ WF_vars(Runs(SomeTransmissionSettles))

FairSpec == Spec /\ Fairness
-----------------------------------------------------------------------------
(* Safety                                                                  *)

\* The type of every variable.  No batch is empty: runWaker() may find nothing
\* to send at shutdown, and then sends nothing.
TypeOK ==
  /\ isRunning \in BOOLEAN
  /\ now \in Nat
  /\ skew \in 0..MaxSkew
  /\ isActive \in BOOLEAN
  /\ nextId \in 1..(MaxEvents + 1)
  /\ events \subseteq Events
  /\ waker \in Nat \cup {NoWaker}
  /\ lastTransmission \in Nat \cup {Never}
  /\ isShuttingDown \in BOOLEAN
  /\ pendingTransmissions \subseteq sent
  /\ awaiting \subseteq SUBSET sent
  /\ accepted \subseteq Events
  /\ sent \subseteq Batches
  /\ unhandled \subseteq sent
  /\ logged \subseteq [batch : sent, level : {"trace", "error"}]
  /\ hasShutDown \in BOOLEAN

\* A timer is armed exactly while events are queued: an event without a timer
\* would sit in the queue until somebody else schedules one.
WakerArmed == events # {} <=> waker # NoWaker

\* Of the accepted events with the same content the queue holds the youngest
\* if any: "Remove redundant events, keeping the newly added one, which should
\* be the one with the most recent timestamp" (scheduler.ts, addEvent).
QueueHoldsLatest ==
  \A e \in events, f \in accepted : SameReport(e, f) => f.id <= e.id

\* Whatever was accepted is still queued or was part of a queue that was
\* transmitted, itself or as a later event with the same content.
NoEventLost ==
  \A e \in accepted : \E f \in accepted :
    /\ SameReport(e, f)
    /\ f.id >= e.id
    /\ f \in events \/ \E b \in sent : f \in b.scheduled

\* No event is handed to the transmitter twice, nor queued once it was.
SentOnce ==
  \A b \in sent :
    /\ b.scheduled \cap events = {}
    /\ \A c \in sent : b # c => b.scheduled \cap c.scheduled = {}

\* A batch is the queue it was made from but for surplus runs: "for each
\* identifier, only send one complete pair of start and finish events ... but
\* keep any other start or finish events that don't have a matching pair"
\* (event.ts, deduplicateCron).
BatchesThinned == \A b \in sent : Thins(b.events, b.scheduled)

\* When a shutdown() promise has resolved, nothing is queued and nothing is in
\* flight, whatever was scheduled or sent while it was waiting.
ShutdownDelivers == hasShutDown => events = {} /\ pendingTransmissions = {}

\* The outcome of a request is logged once it has one, and as one thing.  The
\* exception are the rejections that are left unhandled: of those nothing is
\* logged, although the batch is gone.
OutcomeLogged ==
  \A b \in sent :
    LET entries == {entry \in logged : entry.batch = b} IN
    IF b \in pendingTransmissions \cup unhandled
    THEN entries = {}
    ELSE \E entry \in entries : entries = {entry}

\* Once stopped, the scheduler sends nothing more.
NothingAfterShutdown == [][isShuttingDown => sent' = sent]_vars

\* The timer never hands over a batch earlier than the long debounce after any
\* other batch, less what the wall clock was stepped by meanwhile.
TransmissionsSpaced ==
  [][\A b \in sent' \ sent : b.flush \/
       \A c \in sent : b.at - c.at >= BetweenDebounce - MaxSkew]_vars

\* The first event to enter an empty queue sets the date of its transmission,
\* at most the long debounce away plus what the wall clock was stepped by; a
\* burst of further events does not put it off.
DeadlineKept ==
  [][events' # {} =>
       IF events = {} THEN waker' <= now + BetweenDebounce + MaxSkew
                      ELSE waker' = waker]_vars

\* The scheduler does what the outbox promises.
Outbox == INSTANCE CheckInOutbox
            WITH queued <- events,
                 posted <- {b.events : b \in sent},
                 closed <- isShuttingDown

ImplementsOutbox == Outbox!Spec

-----------------------------------------------------------------------------
(* Liveness                                                                *)

\* Every queued event leaves the queue, unless the process ends: no further
\* event and no call of shutdown() is needed for it.
QueueDrains ==
  \A n \in 1..MaxEvents :
    (\E e \in events : e.id = n)
      ~> (\A e \in events : e.id # n) \/ ~isRunning
=============================================================================
