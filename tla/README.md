# TLA+ models of AppSignal for Node.js

Models, model-checking runs and machine-checked proofs about the code of this
repository (`src/src`, `src/scripts`, `src/script`). Every definition is
translated from the source; `PROJECT.json` names the lines under `map`, the
runs, the mutants that show each property can fail, the hazards and the findings.

    tlc -workers 2 -config Client.cfg MCClient.tla
    tlapm CheckInProofs.tla

## 1. Inventory

JavaScript runs one callback at a time, so a public call, a timer callback and
the continuation of a promise are the atomic steps everywhere. All interleaving
is between them: user code, timers, sockets, streams, promise reactions, and the
wall clock, which is not the clock the timers run on. The process may end
between any two steps: by `process.exit()`, by an exception or a rejection that
nobody handles, or because nothing keeps the event loop alive. An armed waker of
the scheduler does not, as it is `unref()`'d (`scheduler.ts:99-102`).

| component | state | operations | called by / calls | what is hard |
|---|---|---|---|---|
| check-in scheduler (`check_in/scheduler.ts`) | queue, waker timer, last transmission, shutting-down flag, pending promises | schedule, runWaker, transmit, shutdown, allSettled | check-in API, `Client.stop` / events, transmitter, internal logger | debounce on a clock that is stepped, events around shutdown, snapshot of pending promises, rejections of different shapes, one of them unhandled, a process that does not wait for the timer |
| check-in events (`check_in/event.ts`) | none | factories, isRedundant, deduplicateCron | scheduler | splicing an array under a loop, which run of a cron is surplus |
| check-in API (`check_in/index.ts`, `cron.ts`, `heartbeat.ts`) | continuous heartbeat intervals | cron, heartbeat | user / scheduler | nested and asynchronous jobs, jobs that fail, jobs that end after stop() |
| transmitter (`transmitter.ts`) | count of redirects on a shared callback | transmit, downloadStream, request | scheduler, diagnose, installer / sockets | redirect loops, method changes, cut responses, errors of earlier requests |
| minutely probes (`probes/index.ts`) | map of interval timers, listeners, runner | register, unregister, clear, stop | user, client / timers | timers that fire after their probe is gone |
| client (`client.ts`) | global client, active flag, SDK, metrics | constructor, stop, logger | user / everything | branches of the start, partial failure of stop(), several clients, several calls of stop() |
| configuration (`config.ts`, `config/`) | data, sources, private environment | constructor, validation | client, diagnose | precedence, environment left from an earlier client |
| extension (`extension.ts`, `extension_wrapper.ts`, `ext/`) | native agent; stubs if not loaded | start, stop, diagnose, log, spans, metrics | client, diagnose, loggers, metrics, spans | loading failure |
| loggers (`logger.ts`, `winston_transport.ts`, `pino_transport.ts`) | threshold, group, streams, worker | log | user / extension | stream callbacks, inactive client, three scales of levels |
| internal logger (`internal_logger.ts`) | level | error ... trace | everything | none |
| metrics (`metrics.ts`), no-ops (`noops/`) | probes | gauges, counters | user / extension, probes | none |
| span processor and helpers (`span_processor.ts`, `helpers.ts`) | active span (in the context) | onEnd, setError, sendError | OpenTelemetry, user / extension | nested spans, asynchronous work, errors thrown in callbacks |
| duplicate API detection (`otel_api_copies.ts`, `script/`) | said-once flag | warning, checks of a tree | client, developers | which copy wins, when a copy is loaded |
| installer (`scripts/extension/`) | report, files that outlive the process | download, verify, extract, build, report | npm / transmitter | mirrors that fail, streams cut off, a run that is killed |
| diagnose (`diagnose.ts`, `cli/diagnose.ts`) | report, environment, readline | load, validate, generate, ask, send | user / configuration, transmitter, extension | a client file that starts things, consent, parts that fail on their own |
| demo, utils, V8 probe, instrumentation hooks | none or local | pure | | none |

What makes each correct:

- scheduler: no accepted event is lost or sent twice; a timer is armed exactly
  while something waits; batches are thinned and never wrongly; after shutdown
  nothing starts and, once it returned, nothing is in flight; transmissions are
  spaced and, while the process runs, no event waits beyond its debounce; each
  outcome that is handled is logged once;
- events: of the complete runs of one cron one survives, and everything that
  belongs to no complete run;
- client and check-in API: a run of a job is reported as finished exactly when it
  succeeded; stop() ends the agent after what was scheduled is delivered, and
  settles; several clients use the one scheduler as it is meant to be used;
- transmitter: redirects are bounded, never send the body again once the method
  is GET, and the promise settles;
- probes: what is registered is called again and again, nothing else is;
- configuration and diagnose: the agent that is diagnosed has the configuration
  that is shown; nothing leaves the machine without consent; AppSignal is not
  started by the client file while it is loaded; a failing part does not take the
  tool down;
- installer: what is unpacked has been verified, a report is true to what
  happened, a success can be loaded, every mirror is tried, every run ends;
- logging: entries arrive once and in order, and an error stays an error;
- tracing: errors end up on the span they belong to and are reported; a tree
  that passes the check of this repository discards no span.

## 2. Plan

Done: the check-in core, the transmitter, the probes; the client over the
scheduler; configuration and diagnose; the installer; logging; tracing and the
checks of installed trees; with the proofs of section 5. Left, most useful first:

1. `Delivery`: the scheduler with `Transmitter` calls in place of its abstract
   settlements, to show that the outcomes `Settlements` may have are
   exactly the ones the transmitter has.
2. Abstract specifications of the installer ("a directory holds a verified
   build, or none") and of tracing ("an error has one span"), and their refinements.
3. Type correctness of `Diagnose`, `Logging` and `Tracing` as theorems of their
   own, beside the invariants that carry the others.
4. Request bodies with their length in bytes.

Abstract specifications that exist: `CheckInOutbox` (what a user of the scheduler
may rely on), `ProbeTable` (what a user of the probes may rely on), and
`CheckInScheduler` itself, which `Client` implements.

## 3. Modules

| module | models | state and actions |
|---|---|---|
| `CheckInEvents` | `event.ts`, `Scheduler.addEvent` | operators on sets of events. An event carries the number of its construction, events are only appended and both operations filter, so the order of the array is the order of the numbers |
| `CheckInQueue` | the same code as loops over the array | `Push` is addEvent, `Scan` and `Splice` are one turn of each loop; checked and proved to compute the operators of `CheckInEvents` |
| `CheckInScheduler` | `scheduler.ts` | `ScheduleAccepted`, `ScheduleRefused`, `WakerFires`, `Shutdown`, `ShutdownResolves`, `Settle`; the environment is `Tick`, `StepWallClock`, `NewClient`; `Exit` is the end of the process, and every other step is one it takes while it runs (`Runs`) |
| `CheckInOutbox` | its abstract specification | accept, post all, close; no timers, no requests |
| `Client` | `client.ts` and the check-in API around `CheckInScheduler`, which it EXTENDS | `Construct`, `Stop`, `SdkStops`, `SdkFails`, `Flushed`, `StopResumes`; `CronCalls`, `CronAlone`, `JobReturns`, `JobReturnsPromise`, `JobThrows`, `JobResolves`, `JobRejects`; `Heartbeat`, `IntervalFires`; `ProcessEnds`. `stack` holds the jobs that run now: nothing else happens until they return |
| `Transmitter` | `transmitter.ts`, one call | `Start`, `Redirect`, `Response`, `ResponseEnds`, `ResponseCut`, `RequestError`, `EarlierRequestError` |
| `Probes` | `probes/index.ts` | `Register`, `Unregister`, `Clear`, `Stop`, `Fire` (an interval timer), `Tick` |
| `ProbeTable` | its abstract specification | a table of functions, each called again in time |
| `Configuration` | `config.ts`, `config/` | operators only: defaults, the system, the environment, options, their precedence, the validation, the path of the log file, the private environment |
| `Diagnose` | `diagnose.ts`, `cli/diagnose.ts` over `Configuration` | `Load` (sets `_APPSIGNAL_DIAGNOSE`, the variable `diagnosing`, and begins to load the client file), `ConstructClient` (one client of that file), `Configure` (deletes the variable, and all up to the first promise), `LateClient`, `Validated`, `ValidatedPathGone`, `Answer`, `StdinEnds`, `SendAnswered`, `RedirectThrows`, `ResponseCut` |
| `Installer` | `scripts/extension/` | `Run`, then one action per callback (mirror, redirect, stream, file, checksum, tar, node-gyp, report), `RemoveFile`, which nobody awaits, and `Killed`; the directory outlives the run |
| `Logging` | `logger.ts`, both transports | `GetLogger`, `LoggerLogs`, `WinstonLogs`, `TransportWrites`, `PinoLogs`, `sendLogs` |
| `Tracing` | `helpers.ts`, `span_processor.ts`, `otel_api_copies.ts`, `src/script` | `Load` (a copy of the API), `Construct`, `StartSpan`, `SpanDiscarded`, `EndSpan`, `Leave`, `StartWork`, `Resume`, `setError`, `sendError`, `sendErrorDropped`, `Finally` |
| `MC*` | | the small sets TLC uses |
| `*Proofs` | | theorems and their lemmas |

Names follow the code (`isShuttingDown`, `lastTransmission`, `pendingTransmissions`,
`MAX_REDIRECTS`, `sendLogs`). Definitions whose comment begins with "Slip:" are
plausible mistakes in the code that the mutants of `PROJECT.json` put in place of
the real definition; nothing else uses them. Variables marked "history" record
what happened for the properties; no guard reads them, but for the counters that
a bound in a guard limits.

How they compose. `Client` conjoins its own variables to those of the scheduler:
each of its actions is an action of the scheduler with the bookkeeping of clients
and jobs, or leaves the scheduler alone. That is the refinement
`ImplementsScheduler`, so that every theorem about the scheduler holds for any
number of clients and jobs. `Diagnose` calls the operators of `Configuration`;
what it asks of the transmitter is an outcome (answered with something, refused,
no URL, a protocol that there is no request for, cut off, a redirect that throws),
the outcomes that `Transmitter` shows there are. `Installer`
uses the outcomes of `downloadStream()` in the same way.

Abstractions: request bodies, digests, hostnames and log texts are not
represented; an event's digest is the Cron instance that drew it (collisions of
eight random bytes are ignored); a response is a status, the redirect header and
how it ends; time is counted in small units. The chain of promise reactions in
`transmit()` is one step, as no user code runs in between. How a transmission may
settle is the constant `Settlements`: a status of 2xx, another one, `{ error }`, or
the bare error of an endpoint to which no request can be made. The last leaves a
rejection unhandled (`unhandled`); Node.js then ends the process, unless the
application listens for it, so `Settle` is followed by any other step or by `Exit`.
What has a guarantee of ending is stated for a process that runs. In `Probes` a timer
that Node.js frees may be reused by a later call, as its identity is not visible.
In `Configuration` an option is its type and its text; an option of the system or
of the environment is converted as the code converts it ("0" and "" are what they
are there). In `Installer` an archive is absent, partial, corrupt or whole, and
what is unpacked records for which triple. In `Logging` an entry is its level and
its group. In `Tracing` an installed package is its path, the name and the version of its
package.json (an alias of npm makes path and name differ), a span is the
provider's copy and its exceptions, and the
OpenTelemetry API and SDK, external, are modelled by the rule that a copy with a
higher minor version does not see the provider.

## 4. Runs

| run | bounds | what it shows |
|---|---|---|
| `scheduler_queue` | two Cron instances of one check-in and its heartbeat, four events, equal debounces, one shutdown() at a time, requests that succeed | timer armed iff something is queued; the queue holds the latest of each report; none lost; none sent twice; batches are rightly thinned; the scheduler implements `CheckInOutbox` |
| `scheduler_time` | one heartbeat, three events, debounces 1 and 3, wall clock stepped by one in both directions, two shutdown() calls at once, requests that fail or reject unhandled, with fairness | `TransmissionsSpaced`, `DeadlineKept`; once shutdown() returned nothing is queued or in flight; each outcome is logged once, those of unhandled rejections excepted; every queue is sent, unless the process ends |
| `queue_loops` | two instances of one cron, one of another, a heartbeat; five calls in any order | the loops compute the set operators, leave the queue thinned and end |
| `client` | a cron and a heartbeat, two events, two clients, two calls of stop(), requests that succeed, an SDK that may fail to shut down | finishes are reported exactly for jobs that succeeded; the composition implements the scheduler; the agent stops last; every stop() settles, unless the process ends |
| `transmitter` | both calls, the real limit of 20, one status of each kind, every kind of header | the redirect limit; the call settles unless a response is cut or a redirect throws |
| `probes` | two names, two functions, three timers, a minute of two units, lateness one | the map is right, every registered probe is called in time, and calls are those of `ProbeTable` |
| `installer` | seven kinds of host, six sets of overrides, two mirrors, two runs in one directory | `ReportTellsTruth`, `RemoteInstallLoads`, `NothingUnverified`, `GivesUpLast`, `InstallEnds`, with every callback failing or the process killed anywhere |
| `diagnose` | six client files (no client, one, two, or a late one) in four placements, four environments and four hosts (endpoints that are requestable, no URL, or of another protocol), all flags and answers | `SentWithConsent`, `AgentAgrees`, `StartedOnlyLate`, `FailuresSurvived`, `DiagnoseEnds` |
| `logging` | a level all loggers know and one of Winston alone, one of Pino and an absent one, three entries, two clients | `OnceInOrder`, `ErrorsStayErrors`, `WinstonFlows` |
| `tracing` | seven trees (one API, two that differ in the minor version with either on top, the newer nested in a library or in this package, two that differ in the patch; an OpenTelemetry package in two versions, allowed or not, hoisted, nowhere at the top, or under an alias; another package in two versions), two clients, two spans, two errors | `CheckedTreesReport`, `DuplicatesAccounted`, `ErrorsWhereTheyBelong`, `SentErrorsReported` |
| `tracing_duplicates`, `probes_minutely` | | the findings below |

Why the bounds are enough. A redundant event is one of a pair. A run of a
cron is surplus when another one of it is complete, which takes the two events of
each of two runs: `scheduler_queue` has four events, and `queue_loops` five, for
one more that belongs to no complete run. A longer queue only repeats these, and
the theorems hold for any number. The other runs of the scheduler have no surplus
and need fewer events: three for a debounce, two for what clients and stop() do to
a batch that has left and one that has not. Three transmissions suffice
for a debounce before, between and after; two simultaneous shutdown() or stop()
calls have snapshots that are equal, nested and empty. Two clients are one that
is replaced and one that replaces it, in either order of stop(). Two names make
one probe interfere with another, three timers let one name have two and the
other one. Two mirrors are a first that fails and a last; two runs are an
interrupted one and the one that finds its files, on the same host or another; a
build that cannot begin leaves the build of the run before, one that begins does not.
The client files have no client, one, two that set different options (the second
inherits what the first wrote), and a late one. Two spans nest; two errors are in
one span, in two, or one within the callback of the other. Three log entries are
one in the hands of the transport, one behind it and one of another source.
`MaxEvents`, `Horizon`, `MaxAwaited`, `MaxClients`, `MaxStops`, `MaxRuns`,
`MaxEntries`, `MaxSpans`, `MaxErrors` and the set `TimerIds` are the bounds in the
guards; the theorems hold for every value of them.

Deadlock is checked where the code never stops: where a call is over, the queue
is done or the process of the scheduler has ended, the module has an explicit
stuttering action. `client`, `installer`,
`diagnose`, `logging` and `tracing` have a bounded application or a process that
exits, which really stops; their liveness properties say what must have happened
before it does.

Fairness.

- `scheduler_time`: as long as the process runs, time passes, a due timer and the
  reactions of a settled promise run (the event loop is not blocked for ever), and
  each transmission settles. The last is an assumption about the network and not a
  promise of the code, which sets no timeout on a request: `ResponseCut` in
  `Transmitter` is the case where it fails, and then shutdown() waits for ever.
  That the process runs is no assumption of fairness: the waker is `unref()`'d,
  the comment next to it says that users must call stop() to have the last events
  sent, and `QueueDrains` promises nothing when the process ends.
- `client`: the same, jobs on the stack return (a job that does not blocks the
  whole process), and the SDK answers its shutdown, with success or not. A job
  whose promise never settles is allowed.
- `transmitter`: each request is answered in some way, an error or a cut
  connection included. `queue_loops`: a loop goes on. `probes` needs none.
- `installer`: one of the callbacks the process waits for comes, or the process
  is left with nothing to wait for and exits.
- `diagnose`: validation and sending are answered, refused, cut off, or end in a
  redirect that throws. Nothing makes the client file return or the user answer
  the question.
- `logging`: streams and the worker go on while they can. `tracing`: functions
  that were called return or throw. Applications owe nothing else.

## 5. Proofs

All theorems hold for every value of the constants, under the assumptions named
in the modules (a positive short debounce no longer than the long one, a skew
within `MaxSkew`, distinct marker values, finite installed trees in which a path
leads to one package).

- `CheckInProofs`, in three parts.
  About `CheckInEvents`, `DeduplicateThins`: the digest kept for a check-in is
  that of its last completing event, which is one side of a complete run; what is
  removed is complete and of another run. The argument needs a greatest element
  of the finite set of numbers (`Greatest`).
  About `CheckInScheduler`, one inductive invariant per question, each using the
  ones before.
  `QueueInv` (events are numbered below `nextId`, without doubles) makes a new
  event the youngest, and gives `LatestIsQueued`. `PhaseInv` (a timer iff a
  queue; none after shutdown) gives `TimerArmed` and that a queue that was taken
  is never taken again. `DeliveryInv` (what was sent had been accepted, is
  disjoint and thinned) gives `BatchesAreRight` and `EventsSentOnce`; `NoneLost`
  is inductive with it. `ShutdownInv` (the pending set is within every snapshot
  awaited, and empty once shutdown has returned) gives `ShutdownIsComplete`:
  without the snapshots, a shutdown() that returns late would say nothing about
  the batches of the others. `TimeInv` relates the timer to the last transmission
  up to `MaxSkew`, which the plain properties do not: from it follow
  `DebounceIsKept` and `DeadlineIsKept`. `LogInv` (only batches that ended are
  logged, and those left unhandled are not) gives `OutcomesAreLogged`.
  `StoppedIsSilent` and `TypeCorrect` follow.
  `SchedulerImplementsOutbox` maps `RunWaker` to a post or a close and every
  other action to an accept or a stutter.
  About `Client`, `ClientImplementsScheduler` maps every step to one of the
  scheduler; it needs `StackInv`, that the jobs on the stack are Cron instances,
  since those that return schedule their finish. `AgentIsStoppedLast` combines
  `StopInv` (a call of stop() that was flushed saw a shutdown() return) with
  `ShutdownIsComplete` of the scheduler, through the refinement.
  `ReportsAreTruthful` uses `JobsInv` (the jobs on the stack run, and none is on it
  twice) and `ReportInv` (what was accepted of a run against its job); that
  AppSignal is gone, once it is, stays so. `ClientTyped` follows from `TypedInv`.
- `CheckInQueueProofs`: `ArrayIsTheQueue` and `LoopsLeaveWhatTheyShould`. The
  properties look at the end of the loops; `IInv` says what holds at each turn.
  `Scanning`: the maps describe the events passed so far (`MapsDescribe`), where
  the digest to keep is that of the event that completed a pair last; a turn adds
  an event that is younger than all of them, so it completes pairs for itself and
  for no other (`CompletingGrows`). `Splicing`: what was passed is not surplus and
  what was cut is. A splice takes one element and keeps the order (`Removed`),
  which is why `i--` is enough. `EveryTurnCounts`: a splice shortens the array and
  every other turn moves on, so the number of turns left falls.
- `TransmitterProofs`: `ChainIsBounded`, from `ChainInv`: as many requests as
  redirects followed plus one while the call waits, and a last method that is GET
  as soon as one is. `CallIsTyped` and `EveryAnswerCounts` (the requests that may
  still be made fall with each answer) rest on it; `NoSilentEnd` is inductive as
  it stands and says that a call that is over was settled, cut off, or thrown.
- `ProbesProofs`: `ProbesTyped`, `MapIsRight`, `NoProbeStarves` from `ProbeInv`.
  Its part `Armed` bounds the sum of the time since the last call and the time
  left of the timer in the map, which timers left behind can only make smaller.
  `ProbesImplementTable` is the refinement.
- `InstallerProofs`: one invariant `IInv` for `InstallerTyped`, `OnlyVerified`,
  `ReportIsTrue`, `SuccessLoads` and `AllMirrorsAsked`. `Staged` says what the
  directory holds at each callback (after extraction: files for this host's
  triple), `Reported` what the report may say at that point, and `Asked` that the
  mirrors asked and those left are together `MIRRORS`. The properties alone are
  about the end of a run and say nothing of the callback before it.
  `EveryCallbackCounts` is about the callbacks a run may still wait for: a mirror
  that fails leaves one fewer to ask, and each later stage comes once.
- `DiagnoseProofs`: one invariant `IInv` for `SentWithConsentHolds`,
  `AgentAgreesHolds`, `StartedOnlyLateHolds` and `FailuresSurvivedHolds`.
  `Guarded` says that `_APPSIGNAL_DIAGNOSE` is set at every client that the file
  constructs while it is loaded and at none after that, which is what
  `StartedOnlyLate` rests on: every such client asks for the variable, and a client
  that is constructed later starts AppSignal when it is valid. `Constructed` says
  that the environment is as the last client of the file left it; that needs
  `WrittenOver`, that a configuration overwrites whatever the ones before have set
  of its options, and `WrittenTells`. The report is made some promises after the
  configuration was read, and the agent reads its own from the environment:
  `Loaded` says that neither changes in between unless a late client comes,
  `Reported` that the report is of that configuration, `Unsent` that nothing leaves
  before the question and that the question is not put to a user who has declined.
  `LastSource` says that the merged value of an option is that of its last source.
  `Met` and `Unanswered` relate what came of validating and sending to where the
  tool is: past a stage it has come to an end of it, and only a failure in `Fatal`
  leads to "crashed".
- `LoggingProofs`: `EntriesInOrder` and `ErrorsReported`. `OrderInv` says that
  what waits in the stream or for the worker is increasing and later than all the
  agent was given of that source, which the property does not; `GivenInv` that all
  of it was logged. For `ErrorsReported`, `ErrorsInv` adds which levels each
  logger accepts, and `WinstonSeverityKept` that the tables that override one
  another make of no error less than one and of nothing else an error.
- `TracingProofs`: `CheckedTreesLoseNothing` from `ApiInv` (in a tree with one
  version of the API, whatever is loaded is compatible with the provider);
  `CheckAccountsForDuplicates`, about the checks of `src/script` for any tree, with
  aliases or without: it needs that without aliases only one version of a package
  is at the top, the baseline (`TopIsBaseline`), so that of two versions one is
  nested off the baseline and was looked up in the allow list
  (`OffBaselineAllowed`);
  `ErrorsReportedOnce` and `ErrorsAreHeld` from `TraceInv`. The errors of a span
  are those thrown in its contexts, in order (`ErrorsSet`); a context of
  `sendError()` is of a span that is open and runs one function (`ContextsInv`),
  so no error is added to a span that was reported, and `Finally` does not report
  one again. `Filtered` says what `onEnd()` keeps. `ErrorsAreHeld` needs `Held` as
  well: a span that has ended was given to the agent, and one that an error was
  sent with is open only while its `sendError()` is on the stack.

The one recursive function that is proved about (`Filter`) is reasoned about
without an induction theorem that takes an operator: `Induction` is about a set of numbers
that has zero and the successor of each, from the least element that
`NatLessThanWellFounded` gives its complement; with it the function that `CHOOSE`
picks exists for every length (`FiltersExist`). Models that are
proved about use such functions and sets in place of `SelectSeq` and `@@`, which
the provers cannot open.

Every invariant that a run checks is proved, and so are the refinements. Only
model-checked: the liveness properties (`QueueDrains`, `StopSettles`,
`SettlesUnlessCut`, `LoopsEnd`, `InstallEnds`, `DiagnoseEnds`, `WinstonFlows`,
`SentErrorsReported`), since fairness and ENABLED are beyond the prover, and the
two properties of the findings, which do not hold. Of four of them what does not
depend on fairness is proved: the turns of the loops, the answers to a call and
the callbacks of the installer are numbered by a measure that only falls
(`EveryTurnCounts`, `EveryAnswerCounts`, `EveryCallbackCounts`), a call does not
end in silence (`NoSilentEnd`), and an error that was sent waits for nothing but
the return of its function (`ErrorsAreHeld`).

## 6. Findings

- `tracing_duplicates`: the copies of `@opentelemetry/api` that are loaded are
  looked at only while a client is constructed. A copy that is loaded later, as a
  dependency may be, has its spans discarded without the warning that CHANGELOG.md
  announces.
- `probes_minutely`: registering a name again leaves its old timer running, so the
  new function is called twice a minute; unregister(), clear() and stop() no
  longer find that timer. Since a timer only emits the name, none but the
  registered function is ever called (`ImplementsProbeTable` holds).

Seen while modelling; the models contain each of these, and the properties that
would not hold because of one name it as an exception:

- the flush of shutdown() ignores the debounce, so two heartbeats of one name may
  be sent within the ten seconds CHANGELOG.md speaks of (`scheduler.ts:45`);
- a transmission to an endpoint that is no URL rejects with a bare error; the
  handler destructures `{ error }` from it and throws, so nothing is logged
  (`scheduler.ts:140`), and the promise that `finally()` derives for the pending
  set rejects with no handler, which ends the application unless it listens for
  unhandled rejections (`scheduler.ts:28`);
- the redirect header is compared with its case, so the redirect page is
  downloaded when a server spells it `location` (`transmitter.ts:187`), and a
  redirect to a path throws in the response callback: no request, and a promise
  that never settles (`transmitter.ts:165`); within diagnose, that ends the tool
  before it has printed its report, or before it reads what became of it;
- when the SDK fails to shut down, stop() rejects and leaves the agent running,
  although its comment says to call it "to make sure the agent is stopped as well";
  stop() of a client that was replaced stops the agent of the newer one
  (`client.ts:245`, `client.ts:195`);
- the Winston transport does not call the callback for an entry it drops, and
  its stream stalls from then on (`winston_transport.ts:65`); a logger that is
  asked for before the client stays a no-op (`client.ts:142`);
- a client that the client file constructs after it was loaded starts AppSignal
  within diagnose, and its key may be the one the report is sent under
  (`diagnose.ts:233`);
- the check of an installed tree groups copies by the name in package.json and
  takes those at its top for the baseline: with an alias of npm two versions of a
  package can be there, neither is nested in a dependency, and the check passes
  without a look at its allow list (`otel_packages.js:121`);
- FreeBSD on arm64 passes the checks of the installer and has no triple, so the
  run ends with an exception and no report (`extension.js:225`).

## 7. Not modelled

`PROJECT.json` lists every component with the reason.

- The native extension is a closed library behind N-API glue; what the callers
  see of the wrapper (is it loaded, diagnose, log) is in the modules that call it.
- The metrics, the V8 heap probe, the internal logger, the demo, the utilities and
  the instrumentation hooks keep no state or only convert values. The prebuild
  script calls the functions of the installer in a row.
- Of the report of diagnose, what is read about host, library and paths is I/O
  without a decision; the wording of everything that is printed is left out.
- In the transmitter the query string, the body with its length and the
  certificate file are left out. The configuration of instrumentations and
  exporters is data for OpenTelemetry.
