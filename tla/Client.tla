------------------------------- MODULE Client -------------------------------
(***************************************************************************)
(* The client of src/src/client.ts and the check-in functions of           *)
(* src/src/check_in/ around the check-in scheduler: applications construct *)
(* clients, report jobs and heartbeats, and stop.                          *)
(*                                                                         *)
(* There is one scheduler, one agent and one Client.client in a process,   *)
(* and as many clients as the application constructs.  A job that is       *)
(* handed to cron() runs on the stack: until it returns, nothing but what  *)
(* it calls itself can happen.                                             *)
(***************************************************************************)
EXTENDS CheckInScheduler, Sequences

CONSTANTS MaxClients,  \* bound: clients constructed
          MaxStops     \* bound: calls of stop()

ASSUME ClientBoundsAssumption == MaxClients \in Nat /\ MaxStops \in Nat

VARIABLES
  clients,     \* every client constructed; the last is Client.client
  agent,       \* does the agent run?
  stops,       \* the calls of stop() that await something
  stopCalls,   \* history: how many calls of stop() were made
  jobs,        \* what became of the job of each Cron instance
  stack,       \* the jobs that run now, each called by the one before
  continuous   \* the identifiers with a continuous heartbeat

clientVars == <<clients, agent, stops, stopCalls>>
jobVars == <<jobs, stack, continuous>>
allVars == <<vars, clientVars, jobVars>>

ClientInit ==
  /\ Init
  /\ clients = <<>>
  /\ agent = FALSE
  /\ stops = {}
  /\ stopCalls = 0
  /\ jobs = [c \in Crons |-> "new"]
  /\ stack = <<>>
  /\ continuous = {}

\* Callbacks of timers and promises wait for the stack to unwind.
Free == stack = <<>>

-----------------------------------------------------------------------------
(* Client                                                                  *)

\* Where the constructor may return early: nothing is started in any of them.
EarlyReturns == {"diagnosing", "invalid configuration", "extension not loaded"}

\* Slip: every client begins with the scheduler as it is when it is loaded.
ConstructResets(outcome) ==
  LET active == outcome \notin EarlyReturns IN
  /\ Len(clients) < MaxClients
  /\ clients' = Append(clients, [active |-> active, probes |-> active,
                  sdk |-> IF outcome = "with SDK" THEN "running" ELSE "none"])
  /\ agent' = (agent \/ active)
  /\ isActive' = active
  /\ isShuttingDown' = FALSE
  /\ UNCHANGED <<now, skew, nextId, events, waker, lastTransmission,
                 deliveryVars, accepted, stops, stopCalls, jobVars>>

\* The constructor: the new client replaces the one before, which is not
\* stopped: its probes and its SDK go on.
Construct(outcome) ==
  LET active == outcome \notin EarlyReturns IN
  /\ Len(clients) < MaxClients
  /\ clients' = Append(clients, [active |-> active, probes |-> active,
                  sdk |-> IF outcome = "with SDK" THEN "running" ELSE "none"])
  /\ agent' = (agent \/ active)
  /\ NewClient(active)
  /\ UNCHANGED <<stops, stopCalls, jobVars>>

\* stop() up to its await.  Without an SDK there is nothing to wait for but
\* the scheduler, which is that of every other client as well.
Stop(i) ==
  /\ stopCalls < MaxStops
  /\ stopCalls' = stopCalls + 1
  /\ clients' = [clients EXCEPT ![i].probes = FALSE]
  /\ Shutdown
  /\ stops' = stops \cup
       {[id |-> stopCalls', client |-> i, flush |-> pendingTransmissions',
         sdk |-> IF clients[i].sdk = "none" THEN "none" ELSE "stopping",
         flushed |-> FALSE]}
  /\ UNCHANGED <<agent, jobVars>>

\* External: NodeSDK.shutdown() resolves once the spans are exported.
SdkStops(call) ==
  /\ Free
  /\ call.sdk = "stopping"
  /\ clients' = [clients EXCEPT ![call.client].sdk = "down"]
  /\ stops' = (stops \ {call}) \cup {[call EXCEPT !.sdk = "down"]}
  /\ UNCHANGED <<vars, agent, stopCalls, jobVars>>

\* Or it rejects: so does stop(), at once, and the agent is left running.
SdkFails(call) ==
  /\ Free
  /\ call.sdk = "stopping"
  /\ stops' = stops \ {call}
  /\ UNCHANGED <<vars, clients, agent, stopCalls, jobVars>>

\* Slip: shutdown() is waited for by the first call only.
FlushedFirst(snapshot) ==
  /\ Free
  /\ ShutdownResolves(snapshot)
  /\ stops' = {IF s.flush = snapshot /\ s.id = 1 THEN [s EXCEPT !.flushed = TRUE]
               ELSE s : s \in stops}
  /\ UNCHANGED <<clients, agent, stopCalls, jobVars>>

\* scheduler.shutdown() has resolved for the calls that wait for this snapshot.
Flushed(snapshot) ==
  /\ Free
  /\ ShutdownResolves(snapshot)
  /\ stops' = {IF s.flush = snapshot THEN [s EXCEPT !.flushed = TRUE] ELSE s :
                 s \in stops}
  /\ UNCHANGED <<clients, agent, stopCalls, jobVars>>

\* Slip: Promise.race() in the place of Promise.all().
StopResumesRace(call) ==
  /\ Free
  /\ call.flushed \/ call.sdk \in {"none", "down"}
  /\ agent' = FALSE
  /\ stops' = stops \ {call}
  /\ UNCHANGED <<vars, clients, stopCalls, jobVars>>

\* The rest of stop(): extension.stop().
StopResumes(call) ==
  /\ Free
  /\ call.flushed /\ call.sdk \in {"none", "down"}
  /\ agent' = FALSE
  /\ stops' = stops \ {call}
  /\ UNCHANGED <<vars, clients, stopCalls, jobVars>>

-----------------------------------------------------------------------------
(* checkIn.cron and checkIn.heartbeat                                      *)

\* Bound: no job begins whose events could not all be numbered.
Unfinished == {c \in Crons : jobs[c] \in {"running", "awaited"}}
Room(n) == nextId + Cardinality(Unfinished) + n <= MaxEvents + 1

\* cron(identifier, fn): "start" is scheduled and fn is called.
CronCalls(c) ==
  /\ jobs[c] = "new"
  /\ Room(2)
  /\ Schedule(CronEvent(nextId, c, "start"))
  /\ jobs' = [jobs EXCEPT ![c] = "running"]
  /\ stack' = Append(stack, c)
  /\ UNCHANGED <<clientVars, continuous>>

\* cron(identifier): what is reported has already happened.
CronAlone(c) ==
  /\ jobs[c] = "new"
  /\ Room(1)
  /\ Schedule(CronEvent(nextId, c, "finish"))
  /\ jobs' = [jobs EXCEPT ![c] = "succeeded"]
  /\ UNCHANGED <<clientVars, stack, continuous>>

Top == stack[Len(stack)]

Pop == stack' = SubSeq(stack, 1, Len(stack) - 1)

\* fn has returned something that is no instance of Promise.  A thenable that
\* is none counts as succeeded at once, whatever becomes of it.
JobReturns ==
  /\ ~Free
  /\ Schedule(CronEvent(nextId, Top, "finish"))
  /\ jobs' = [jobs EXCEPT ![Top] = "succeeded"]
  /\ Pop
  /\ UNCHANGED <<clientVars, continuous>>

\* fn has returned a promise.
JobReturnsPromise ==
  /\ ~Free
  /\ jobs' = [jobs EXCEPT ![Top] = "awaited"]
  /\ Pop
  /\ UNCHANGED <<vars, clientVars, continuous>>

\* fn throws, and cron() with it: whoever called cron() may catch that.
JobThrows ==
  /\ ~Free
  /\ jobs' = [jobs EXCEPT ![Top] = "failed"]
  /\ Pop
  /\ UNCHANGED <<vars, clientVars, continuous>>

\* The promise resolves.
JobResolves(c) ==
  /\ Free
  /\ jobs[c] = "awaited"
  /\ Schedule(CronEvent(nextId, c, "finish"))
  /\ jobs' = [jobs EXCEPT ![c] = "succeeded"]
  /\ UNCHANGED <<clientVars, stack, continuous>>

\* Slip: finish() is called whichever way the promise settles.
JobRejectsFinally(c) ==
  /\ Free
  /\ jobs[c] = "awaited"
  /\ Schedule(CronEvent(nextId, c, "finish"))
  /\ jobs' = [jobs EXCEPT ![c] = "failed"]
  /\ UNCHANGED <<clientVars, stack, continuous>>

\* The promise rejects.
JobRejects(c) ==
  /\ Free
  /\ jobs[c] = "awaited"
  /\ jobs' = [jobs EXCEPT ![c] = "failed"]
  /\ UNCHANGED <<vars, clientVars, stack, continuous>>

\* heartbeat(): one that is continuous is repeated by an interval, whether or
\* not the identifier has one already.
Heartbeat(identifier, isContinuous) ==
  /\ Room(1)
  /\ Schedule(HeartbeatEvent(nextId, identifier))
  /\ continuous' = IF isContinuous THEN continuous \cup {identifier} ELSE continuous
  /\ UNCHANGED <<clientVars, jobs, stack>>

\* An interval calls heartbeat(), for as long as the process runs.  When that
\* is, between two calls of a long interval, is left open.
IntervalFires(identifier) ==
  /\ Free
  /\ identifier \in continuous
  /\ Room(1)
  /\ Schedule(HeartbeatEvent(nextId, identifier))
  /\ UNCHANGED <<clientVars, jobVars>>

-----------------------------------------------------------------------------
Calls ==
  \/ \E outcome \in EarlyReturns \cup {"without SDK", "with SDK"} : Construct(outcome)
  \/ \E i \in DOMAIN clients : Stop(i)
  \/ \E c \in Crons : CronCalls(c) \/ CronAlone(c)
  \/ \E i \in Heartbeats, b \in BOOLEAN : Heartbeat(i, b)

JobEnds == JobReturns \/ JobReturnsPromise \/ JobThrows

SomeJobSettles == \E c \in Crons : JobResolves(c) \/ JobRejects(c)

StopContinues ==
  \/ \E call \in stops : SdkStops(call) \/ SdkFails(call) \/ StopResumes(call)
  \/ \E snapshot \in awaiting : Flushed(snapshot)

\* The steps of the scheduler that nobody calls.
SchedulerRuns ==
  /\ Free
  /\ WakerFires \/ SomeTransmissionSettles
  /\ UNCHANGED <<clientVars, jobVars>>

TimePasses ==
  /\ Tick \/ \E s \in 0..MaxSkew : StepWallClock(s)
  /\ UNCHANGED <<clientVars, jobVars>>

\* The process may end while a job is on the stack or stop() awaits something.
ProcessEnds == Exit /\ UNCHANGED <<clientVars, jobVars>>

ClientNext ==
  \/ Runs(TimePasses)
  \/ Runs(Calls)
  \/ Runs(JobEnds)
  \/ Runs(SomeJobSettles)
  \/ \E i \in Heartbeats : Runs(IntervalFires(i))
  \/ Runs(SchedulerRuns)
  \/ Runs(StopContinues)
  \/ ProcessEnds

ClientSpec == ClientInit /\ [][ClientNext]_allVars

\* For as long as the process runs: jobs on the stack return, the event loop
\* runs what is due, and requests and the SDK answer one way or another, which
\* is an assumption: neither has a timeout in this code.  A job whose promise
\* never settles is its own business.
ClientFairness ==
  /\ WF_allVars(Runs(TimePasses))
  /\ WF_allVars(Runs(JobEnds))
  /\ WF_allVars(Runs(SchedulerRuns))
  /\ WF_allVars(Runs(StopContinues))

FairClientSpec == ClientSpec /\ ClientFairness
-----------------------------------------------------------------------------
(* Safety                                                                  *)

\* The type of the variables of this module.
ClientTypeOK ==
  /\ clients \in Seq([active : BOOLEAN, probes : BOOLEAN,
                      sdk : {"none", "running", "down"}])
  /\ agent \in BOOLEAN
  /\ stops \subseteq [id : 1..MaxStops, client : DOMAIN clients,
                      flush : SUBSET sent, sdk : {"none", "stopping", "down"},
                      flushed : BOOLEAN]
  /\ stopCalls \in 0..MaxStops
  /\ jobs \in [Crons -> {"new", "running", "awaited", "succeeded", "failed"}]
  /\ stack \in Seq(Crons)
  /\ continuous \subseteq Heartbeats

\* Whatever clients and jobs do, in whatever order, the scheduler they share
\* behaves as one that is used on its own: it stays shut down, for instance,
\* when another client is constructed.
ImplementsScheduler == Spec

\* The agent is stopped after everything that was to reach it or the check-in
\* endpoint has: the call of stop() has seen the queue flushed, the requests
\* settled and the SDK of its client shut down.
AgentStopsLast ==
  [][agent /\ ~agent' =>
       /\ events = {} /\ pendingTransmissions = {}
       /\ \E call \in stops \ stops' :
            clients[call.client].sdk \in {"none", "down"}]_allVars

\* This kind of event of the run c was queued.
Reported(c, kind) ==
  \E e \in accepted :
    e.check_in_type = "cron" /\ e.digest = c /\ e.kind = kind

\* A run is reported as finished only when its job has succeeded.  A run that
\* was reported as started and has succeeded is reported as finished, unless
\* AppSignal was stopped or replaced by a client that is not active meanwhile.
CronReportsTruthful ==
  \A c \in Crons :
    /\ Reported(c, "finish") => jobs[c] = "succeeded"
    /\ Reported(c, "start") /\ jobs[c] = "succeeded" =>
         \/ Reported(c, "finish")
         \/ isShuttingDown
         \/ \E i \in DOMAIN clients : ~clients[i].active

-----------------------------------------------------------------------------
(* Liveness                                                                *)

\* Every call of stop() settles, also when several wait for one flush, for one
\* SDK, or for requests that fail, unless the process ends before: a rejection
\* left unhandled by one of those requests may end it.
StopSettles ==
  \A n \in 1..MaxStops :
    (\E s \in stops : s.id = n) ~> (\A s \in stops : s.id # n) \/ ~isRunning
=============================================================================
