---------------------------- MODULE ProbesProofs ----------------------------
(***************************************************************************)
(* Theorems about Probes for every set of names, functions and timers, and *)
(* for every minute and lateness.                                          *)
(***************************************************************************)
EXTENDS Probes, TLAPS

\* A timer in the map will fire within a minute of the registration or the last
\* call of its probe; a timer left behind can only make that call earlier.
Armed ==
  \A n \in Names : listener[n] # NoFn => since[n] + left[timers[n]] <= Minute

ProbeInv == TypeOK /\ CountIsRight /\ Armed

\* A stopped Probes is empty, and stays so.
StopInv ==
  /\ running = (runner = "base")
  /\ runner = "noop" => timers = NoTimers

LEMMA ProbeInit == Init => ProbeInv /\ StopInv
<1> SUFFICES ASSUME Init PROVE ProbeInv /\ StopInv
  OBVIOUS
<1>1. 0 \in (-MaxLate)..Minute
  BY ProbesAssumption
<1>2. TypeOK
  BY <1>1 DEF Init, TypeOK, NoTimers, NoListeners, Unborn
<1>3. CountIsRight /\ Armed
  BY DEF Init, CountIsRight, Armed, NoTimers, NoListeners
<1>4. StopInv
  BY DEF Init, StopInv
<1> QED
  BY <1>2, <1>3, <1>4 DEF ProbeInv

LEMMA RegisterStep ==
  ASSUME ProbeInv, NEW n \in Names, NEW f \in Fns, NEW id \in TimerIds,
         Register(n, f, id)
  PROVE  ProbeInv'
<1>1. /\ owner' = [owner EXCEPT ![id] = n] /\ left' = [left EXCEPT ![id] = Minute]
      /\ timers' = [timers EXCEPT ![n] = id]
      /\ listener' = [listener EXCEPT ![n] = f]
      /\ since' = [since EXCEPT ![n] = 0]
      /\ called' = [called EXCEPT ![n] = NoFn]
      /\ UNCHANGED <<running, runner>> /\ owner[id] = NoName
  BY DEF Register, StartTimer, Listen, IsLive
<1>2. Minute \in (-MaxLate)..Minute
  BY ProbesAssumption
<1>3. TypeOK'
  BY <1>1, <1>2 DEF ProbeInv, TypeOK
<1>4. ASSUME NEW m \in Names, m # n
      PROVE  /\ timers'[m] = timers[m] /\ listener'[m] = listener[m]
             /\ since'[m] = since[m]
             /\ timers[m] # NoTimer => /\ timers[m] \in TimerIds \ {id}
                                       /\ owner'[timers[m]] = owner[timers[m]]
                                       /\ left'[timers[m]] = left[timers[m]]
  BY <1>1, <1>4, ProbesAssumption DEF ProbeInv, TypeOK, CountIsRight
<1>5. /\ timers'[n] = id /\ listener'[n] = f /\ since'[n] = 0
      /\ owner'[id] = n /\ left'[id] = Minute
  BY <1>1 DEF ProbeInv, TypeOK
<1>6. CountIsRight'
  BY <1>4, <1>5, ProbesAssumption DEF ProbeInv, CountIsRight
<1>7. Armed'
  <2>1. 0 + Minute <= Minute
    BY ProbesAssumption
  <2> QED
    BY <1>4, <1>5, <2>1 DEF ProbeInv, Armed, CountIsRight
<1> QED
  BY <1>3, <1>6, <1>7 DEF ProbeInv

LEMMA UnregisterStep ==
  ASSUME ProbeInv, NEW n \in Names, Unregister(n)
  PROVE  ProbeInv'
<1>1. /\ timers[n] \in TimerIds
      /\ owner' = [i \in TimerIds |-> IF i = timers[n] THEN NoName ELSE owner[i]]
      /\ left' = [i \in TimerIds |-> IF i = timers[n] THEN 0 ELSE left[i]]
      /\ timers' = [timers EXCEPT ![n] = NoTimer]
      /\ listener' = [listener EXCEPT ![n] = NoFn]
      /\ since' = [since EXCEPT ![n] = 0]
      /\ called' = [called EXCEPT ![n] = NoFn]
      /\ UNCHANGED <<running, runner>>
  BY DEF Unregister, StopTimers, Listen, ProbeInv, TypeOK
<1>2. 0 \in (-MaxLate)..Minute
  BY ProbesAssumption
<1>3. TypeOK'
  BY <1>1, <1>2 DEF ProbeInv, TypeOK
<1>4. ASSUME NEW m \in Names, m # n
      PROVE  /\ timers'[m] = timers[m] /\ listener'[m] = listener[m]
             /\ since'[m] = since[m]
             /\ timers[m] # NoTimer => /\ owner'[timers[m]] = owner[timers[m]]
                                       /\ left'[timers[m]] = left[timers[m]]
  <2>1. ASSUME timers[m] # NoTimer
        PROVE  timers[m] \in TimerIds /\ timers[m] # timers[n]
    BY <1>1, <1>4, <2>1, ProbesAssumption DEF ProbeInv, TypeOK, CountIsRight
  <2> QED
    BY <1>1, <1>4, <2>1 DEF ProbeInv, TypeOK
<1>5. timers'[n] = NoTimer /\ listener'[n] = NoFn
  BY <1>1 DEF ProbeInv, TypeOK
<1> QED
  BY <1>3, <1>4, <1>5 DEF ProbeInv, CountIsRight, Armed

LEMMA ClearStep ==
  ASSUME ProbeInv, ClearRunner, running' \in BOOLEAN,
         runner' \in {"base", "noop"}
  PROVE  ProbeInv'
<1>1. 0 \in (-MaxLate)..Minute
  BY ProbesAssumption
<1>2. TypeOK'
  BY <1>1 DEF ProbeInv, TypeOK, ClearRunner, StopTimers, NoTimers, NoListeners,
              Unborn
<1> QED
  BY <1>2 DEF ProbeInv, ClearRunner, CountIsRight, Armed, NoTimers, NoListeners

LEMMA FireStep ==
  ASSUME ProbeInv, NEW id \in TimerIds, Fire(id)
  PROVE  ProbeInv'
<1> DEFINE name == owner[id]
<1>1. /\ left' = [left EXCEPT ![id] = Minute] /\ left[id] <= 0
      /\ name \in Names
      /\ UNCHANGED <<running, runner, timers, listener, owner>>
  BY DEF Fire, IsLive, ProbeInv, TypeOK
<1>2. Minute \in (-MaxLate)..Minute
  BY ProbesAssumption
<1>3. \/ UNCHANGED <<since, called>> /\ listener[name] = NoFn
      \/ /\ called' = [called EXCEPT ![name] = listener[name]]
         /\ since' = [since EXCEPT ![name] = 0]
  BY DEF Fire
<1>4. TypeOK'
  BY <1>1, <1>2, <1>3 DEF ProbeInv, TypeOK
<1>5. CountIsRight'
  BY <1>1 DEF ProbeInv, CountIsRight
<1>6. ASSUME NEW m \in Names, listener[m] # NoFn
      PROVE  since'[m] + left'[timers[m]] <= Minute
  <2>1. /\ timers[m] \in TimerIds /\ owner[timers[m]] = m
        /\ since[m] \in Nat /\ left[timers[m]] \in (-MaxLate)..Minute
        /\ since[m] + left[timers[m]] <= Minute
    BY <1>6 DEF ProbeInv, TypeOK, CountIsRight, Armed
  <2>2. CASE m = name
    <3>1. since'[m] = 0
      BY <1>3, <1>6, <2>2 DEF ProbeInv, TypeOK
    <3>2. left'[timers[m]] \in (-MaxLate)..Minute
      BY <1>4, <1>1, <2>1 DEF TypeOK
    <3> QED
      BY <3>1, <3>2, ProbesAssumption
  <2>3. CASE m # name
    <3>1. since'[m] = since[m] /\ left'[timers[m]] = left[timers[m]]
      BY <1>1, <1>3, <2>1, <2>3 DEF ProbeInv, TypeOK
    <3> QED
      BY <2>1, <3>1
  <2> QED
    BY <2>2, <2>3
<1> QED
  BY <1>1, <1>4, <1>5, <1>6 DEF ProbeInv, Armed

LEMMA TickStep ==
  ASSUME ProbeInv, Tick
  PROVE  ProbeInv'
<1>1. ASSUME NEW id \in TimerIds
      PROVE  left'[id] \in (-MaxLate)..Minute
  <2>1. left[id] \in (-MaxLate)..Minute /\ MaxLate \in Nat /\ Minute \in Nat
    BY ProbesAssumption DEF ProbeInv, TypeOK
  <2>2. CASE IsLive(id)
    <3>1. left'[id] = left[id] - 1 /\ left[id] > -MaxLate
      BY <2>2 DEF Tick
    <3> QED
      BY <2>1, <3>1
  <2>3. CASE ~IsLive(id)
    BY <2>1, <2>3 DEF Tick
  <2> QED
    BY <2>2, <2>3
<1>2. ASSUME NEW n \in Names
      PROVE  since'[n] \in Nat
  BY DEF Tick, ProbeInv, TypeOK
<1>3. TypeOK'
  BY <1>1, <1>2 DEF Tick, ProbeInv, TypeOK
<1>4. CountIsRight'
  BY DEF Tick, ProbeInv, CountIsRight
<1>5. ASSUME NEW n \in Names, listener[n] # NoFn
      PROVE  since'[n] + left'[timers[n]] <= Minute
  <2>1. /\ timers[n] \in TimerIds /\ IsLive(timers[n])
        /\ since[n] \in Nat /\ left[timers[n]] \in (-MaxLate)..Minute
        /\ since[n] + left[timers[n]] <= Minute
    BY <1>5, ProbesAssumption
       DEF ProbeInv, TypeOK, CountIsRight, Armed, IsLive
  <2>2. since'[n] = since[n] + 1 /\ left'[timers[n]] = left[timers[n]] - 1
    BY <1>5, <2>1 DEF Tick
  <2> QED
    BY <2>1, <2>2, ProbesAssumption
<1> QED
  BY <1>3, <1>4, <1>5 DEF ProbeInv, Armed, Tick

LEMMA ProbeStep == ProbeInv /\ [Next]_vars => ProbeInv'
<1> SUFFICES ASSUME ProbeInv, [Next]_vars PROVE ProbeInv'
  OBVIOUS
<1>1. ASSUME Clear \/ Stop
      PROVE  ProbeInv'
  BY <1>1, ClearStep DEF Clear, Stop, ProbeInv, TypeOK
<1>2. CASE UNCHANGED vars
  BY <1>2 DEF ProbeInv, TypeOK, CountIsRight, Armed, vars
<1> QED
  BY <1>1, <1>2, RegisterStep, UnregisterStep, FireStep, TickStep DEF Next

LEMMA StopStep == StopInv /\ [Next]_vars => StopInv'
BY DEF StopInv, Next, Register, Unregister, Clear, Stop, ClearRunner, Fire,
       Tick, vars, NoTimers

LEMMA ArmedMeansInTime == ProbeInv => CalledInTime
<1> SUFFICES ASSUME ProbeInv, NEW n \in Names, listener[n] # NoFn
             PROVE  since[n] <= Minute + MaxLate
  BY DEF CalledInTime
<1>1. /\ timers[n] \in TimerIds
      /\ since[n] \in Nat /\ left[timers[n]] \in (-MaxLate)..Minute
      /\ since[n] + left[timers[n]] <= Minute
  BY DEF ProbeInv, TypeOK, CountIsRight, Armed
<1> QED
  BY <1>1, ProbesAssumption

\* Every variable keeps its type.
THEOREM ProbesTyped == Spec => []TypeOK
BY ProbeInit, ProbeStep, PTL DEF Spec, ProbeInv

\* The map, the listeners and the timers they stand for agree.
THEOREM MapIsRight == Spec => []CountIsRight
BY ProbeInit, ProbeStep, PTL DEF Spec, ProbeInv

\* No registered probe waits longer than a minute and the event loop's lateness.
THEOREM NoProbeStarves == Spec => []CalledInTime
BY ProbeInit, ProbeStep, ArmedMeansInTime, PTL DEF Spec

-----------------------------------------------------------------------------
LEMMA TableOfInit == Init => Table!TableInit
BY ProbesAssumption
   DEF Init, Table!TableInit, Table!Nothing, Table!Zero, Registered,
       NoTimers, NoListeners, Unborn

LEMMA TableOfStep ==
  ASSUME ProbeInv, ProbeInv', StopInv, [Next]_vars
  PROVE  [Table!TableNext]_Table!tableVars
<1>1. Registered = listener /\ Registered' = listener'
  BY DEF ProbeInv, TypeOK, CountIsRight, Registered
<1> USE DEF Table!Put
<1>2. ASSUME NEW n \in Names, NEW f \in Fns, NEW id \in TimerIds,
             Register(n, f, id)
      PROVE  Table!TableRegister(n, f)
  BY <1>1, <1>2 DEF Register, Listen, StopInv, Table!TableRegister
<1>3. ASSUME NEW n \in Names, Unregister(n)
      PROVE  Table!TableUnregister(n)
  BY <1>1, <1>3 DEF Unregister, Listen, Table!TableUnregister
<1>4. ASSUME Clear \/ Stop
      PROVE  Table!TableClear
  BY <1>1, <1>4 DEF Clear, Stop, ClearRunner, NoListeners, Unborn,
                    Table!TableClear, Table!Nothing, Table!Zero
<1>5. ASSUME NEW id \in TimerIds, Fire(id)
      PROVE  \/ Table!TableCall(owner[id])
             \/ UNCHANGED Table!tableVars
  BY <1>1, <1>5 DEF Fire, Table!TableCall, Table!tableVars
<1>6. ASSUME NEW id \in TimerIds, Fire(id)
      PROVE  owner[id] \in Names
  BY <1>6 DEF Fire, IsLive, ProbeInv, TypeOK
<1>7. ASSUME Tick
      PROVE  Table!Pass
  <2>1. ASSUME NEW n \in Names, listener[n] # NoFn
        PROVE  since[n] < Minute + MaxLate
    <3>1. /\ timers[n] \in TimerIds /\ IsLive(timers[n])
          /\ since[n] \in Nat /\ left[timers[n]] \in (-MaxLate)..Minute
          /\ since[n] + left[timers[n]] <= Minute
      BY <2>1, ProbesAssumption
         DEF ProbeInv, TypeOK, CountIsRight, Armed, IsLive
    <3>2. left[timers[n]] > -MaxLate
      BY <1>7, <3>1 DEF Tick
    <3> QED
      BY <3>1, <3>2, ProbesAssumption
  <2>2. since' = [n \in Names |->
                    IF listener[n] # NoFn THEN since[n] + 1 ELSE since[n]]
    BY <1>7 DEF Tick
  <2> QED
    BY <1>1, <1>7, <2>1, <2>2 DEF Tick, Table!Pass
<1>8. CASE UNCHANGED vars
  BY <1>1, <1>8 DEF vars, Table!tableVars
<1> QED
  BY <1>2, <1>3, <1>4, <1>5, <1>6, <1>7, <1>8 DEF Next, Table!TableNext

\* The runner with its timers, those left behind included, is the table.
THEOREM ProbesImplementTable == Spec => ImplementsProbeTable
<1>1. Spec => [](ProbeInv /\ StopInv)
  BY ProbeInit, ProbeStep, StopStep, PTL DEF Spec
<1> QED
  BY <1>1, TableOfInit, TableOfStep, PTL
     DEF Spec, ImplementsProbeTable, Table!TableSpec
=============================================================================
