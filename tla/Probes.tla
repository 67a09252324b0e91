------------------------------- MODULE Probes -------------------------------
(***************************************************************************)
(* The minutely probes of src/src/probes/index.ts: Probes, the runner that *)
(* keeps one interval timer and one listener per name, and the runner that *)
(* does nothing, put in its place by stop().                               *)
(*                                                                         *)
(* A timer emits the name it was made for, and the emitter looks up who    *)
(* listens then.  register() of a name that is taken drops the old timer   *)
(* from the map without clearing it.                                       *)
(***************************************************************************)
EXTENDS Integers

CONSTANTS Names, Fns, NoFn,
          TimerIds, NoTimer,  \* the timers Node.js can hand out (a bound)
          NoName,             \* the owner of a timer that is not running
          Minute,             \* 60 * 1000
          MaxLate             \* how late the event loop runs a timer, at most

ASSUME ProbesAssumption ==
  /\ Minute \in Nat \ {0}
  /\ MaxLate \in Nat
  /\ NoFn \notin Fns
  /\ NoTimer \notin TimerIds
  /\ NoName \notin Names

VARIABLES
  running,   \* Probes.#running
  runner,    \* Probes.#probes: "base" or "noop"
  timers,    \* BaseProbeRunner.#timers
  listener,  \* the listener of each event of the emitter
  owner,     \* the name each running timer emits
  left,      \* the time until it does
  since,     \* history: time since a probe was registered or called
  called     \* history: the function called last since then, or NoFn

vars == <<running, runner, timers, listener, owner, left, since, called>>

NoTimers == [n \in Names |-> NoTimer]
NoListeners == [n \in Names |-> NoFn]
Unborn == [n \in Names |-> 0]

IsLive(id) == owner[id] # NoName

\* new Probes({ run })
Init ==
  /\ \/ running = TRUE /\ runner = "base"
     \/ running = FALSE /\ runner = "noop"
  /\ timers = NoTimers
  /\ listener = NoListeners
  /\ owner = [id \in TimerIds |-> NoName]
  /\ left = [id \in TimerIds |-> 0]
  /\ since = Unborn
  /\ called = NoListeners

-----------------------------------------------------------------------------
\* setInterval()
StartTimer(id, name) ==
  /\ ~IsLive(id)
  /\ owner' = [owner EXCEPT ![id] = name]
  /\ left' = [left EXCEPT ![id] = Minute]

\* clearInterval() of a set of timers
StopTimers(ids) ==
  /\ owner' = [id \in TimerIds |-> IF id \in ids THEN NoName ELSE owner[id]]
  /\ left' = [id \in TimerIds |-> IF id \in ids THEN 0 ELSE left[id]]

\* on(name, fn) after removeAllListeners(name), or the latter alone
Listen(name, fn) ==
  /\ listener' = [listener EXCEPT ![name] = fn]
  /\ since' = [since EXCEPT ![name] = 0]
  /\ called' = [called EXCEPT ![name] = NoFn]

\* Slip: the old timer is cleared after the map holds the new one.
RegisterClearingNew(name, fn, id) ==
  /\ runner = "base"
  /\ ~IsLive(id)
  /\ UNCHANGED <<owner, left>>
  /\ timers' = [timers EXCEPT ![name] = id]
  /\ Listen(name, fn)
  /\ UNCHANGED <<running, runner>>

Register(name, fn, id) ==
  /\ runner = "base"
  /\ StartTimer(id, name)
  /\ timers' = [timers EXCEPT ![name] = id]
  /\ Listen(name, fn)
  /\ UNCHANGED <<running, runner>>

\* Slip: the listener stays when the timer is cleared.
UnregisterKeepsListener(name) ==
  /\ timers[name] # NoTimer
  /\ StopTimers({timers[name]})
  /\ timers' = [timers EXCEPT ![name] = NoTimer]
  /\ since' = [since EXCEPT ![name] = 0]
  /\ called' = [called EXCEPT ![name] = NoFn]
  /\ UNCHANGED <<running, runner, listener>>

Unregister(name) ==
  /\ timers[name] # NoTimer
  /\ StopTimers({timers[name]})
  /\ timers' = [timers EXCEPT ![name] = NoTimer]
  /\ Listen(name, NoFn)
  /\ UNCHANGED <<running, runner>>

\* Slip: the map keeps the timers that were cleared.
ClearRunnerKeepsMap ==
  /\ StopTimers({timers[n] : n \in Names})
  /\ listener' = NoListeners
  /\ since' = Unborn
  /\ called' = NoListeners
  /\ UNCHANGED timers

\* BaseProbeRunner.clear(); it does nothing to an empty runner, so it stands
\* for NoopProbeRunner.clear() too.
ClearRunner ==
  /\ StopTimers({timers[n] : n \in Names})
  /\ timers' = NoTimers
  /\ listener' = NoListeners
  /\ since' = Unborn
  /\ called' = NoListeners

Clear == ClearRunner /\ UNCHANGED <<running, runner>>

Stop ==
  /\ ClearRunner
  /\ running' = FALSE
  /\ runner' = "noop"

-----------------------------------------------------------------------------
\* The callback of setInterval: emit(name).  Node.js starts the interval anew
\* when it runs the callback.
Fire(id) ==
  /\ IsLive(id)
  /\ left[id] <= 0
  /\ left' = [left EXCEPT ![id] = Minute]
  /\ LET name == owner[id] IN
       IF listener[name] = NoFn
       THEN UNCHANGED <<since, called>>
       ELSE /\ called' = [called EXCEPT ![name] = listener[name]]
            /\ since' = [since EXCEPT ![name] = 0]
  /\ UNCHANGED <<running, runner, timers, listener, owner>>

Tick ==
  /\ \A id \in TimerIds : IsLive(id) => left[id] > -MaxLate
  /\ left' = [id \in TimerIds |-> IF IsLive(id) THEN left[id] - 1 ELSE left[id]]
  /\ since' = [n \in Names |->
                 IF listener[n] = NoFn THEN since[n] ELSE since[n] + 1]
  /\ UNCHANGED <<running, runner, timers, listener, owner, called>>

Next ==
  \/ \E n \in Names, f \in Fns, id \in TimerIds : Register(n, f, id)
  \/ \E n \in Names : Unregister(n)
  \/ Clear
  \/ Stop
  \/ \E id \in TimerIds : Fire(id)
  \/ Tick

Spec == Init /\ [][Next]_vars

-----------------------------------------------------------------------------
(* Properties                                                              *)

TypeOK ==
  /\ running \in BOOLEAN
  /\ runner \in {"base", "noop"}
  /\ timers \in [Names -> TimerIds \cup {NoTimer}]
  /\ listener \in [Names -> Fns \cup {NoFn}]
  /\ owner \in [TimerIds -> Names \cup {NoName}]
  /\ left \in [TimerIds -> (-MaxLate)..Minute]
  /\ since \in [Names -> Nat]
  /\ called \in [Names -> Fns \cup {NoFn}]

\* What count reports is what is registered: a name is in the map exactly while
\* a function listens to it, and its timer runs and emits that name.  After a
\* long sequence of calls that reuse names, unregister() must still stop the
\* timer of the probe it removes and no other.
CountIsRight ==
  \A n \in Names :
    /\ timers[n] = NoTimer <=> listener[n] = NoFn
    /\ timers[n] # NoTimer => owner[timers[n]] = n

\* A registered probe is called once a minute at least, up to the lateness of
\* the event loop, whatever is registered, unregistered or cleared besides.
CalledInTime ==
  \A n \in Names : listener[n] # NoFn => since[n] <= Minute + MaxLate

\* What count reports as registered
Registered ==
  [n \in Names |-> IF timers[n] = NoTimer THEN NoFn ELSE listener[n]]

Table == INSTANCE ProbeTable WITH registered <- Registered,
                                  Patience <- Minute + MaxLate

\* Timers that were left behind are not observable as calls of a probe that was
\* overwritten, unregistered, cleared or stopped, and a stopped Probes takes no
\* new ones (probes.test.ts: "does not register or call a newly registered
\* probe").
ImplementsProbeTable == Table!TableSpec

\* "calling a user-defined function every minute" (metrics.ts, probes()): a
\* probe that was called is not called again before a minute has passed.
CalledMinutely ==
  [][\A id \in TimerIds :
       Fire(id) /\ called[owner[id]] # NoFn => since[owner[id]] >= Minute]_vars
=============================================================================
