----------------------------- MODULE ProbeTable -----------------------------
(***************************************************************************)
(* What the minutely probes promise: a table of functions, one per name,   *)
(* each called again before Patience has passed, and none called that the  *)
(* table does not hold.  How the calls are timed is left open.             *)
(***************************************************************************)
EXTENDS Naturals

CONSTANTS Names, Fns, NoFn, Patience

VARIABLES registered,  \* the function registered under each name, or NoFn
          since,       \* time since it was registered or last called
          called,      \* the function called last since then, or NoFn
          running      \* false once the probes are stopped

tableVars == <<registered, since, called, running>>

Nothing == [n \in Names |-> NoFn]
Zero == [n \in Names |-> 0]

TableInit ==
  /\ registered = Nothing
  /\ since = Zero
  /\ called = Nothing
  /\ running \in BOOLEAN

Put(name, fn) ==
  /\ registered' = [registered EXCEPT ![name] = fn]
  /\ since' = [since EXCEPT ![name] = 0]
  /\ called' = [called EXCEPT ![name] = NoFn]
  /\ UNCHANGED running

TableRegister(name, fn) == running /\ Put(name, fn)

TableUnregister(name) == Put(name, NoFn)

TableClear ==
  /\ registered' = Nothing
  /\ since' = Zero
  /\ called' = Nothing
  /\ running' \in {running, FALSE}

TableCall(name) ==
  /\ registered[name] # NoFn
  /\ called' = [called EXCEPT ![name] = registered[name]]
  /\ since' = [since EXCEPT ![name] = 0]
  /\ UNCHANGED <<registered, running>>

\* Time passes, but not beyond the patience of a registered probe.
Pass ==
  /\ \A n \in Names : registered[n] # NoFn => since[n] < Patience
  /\ since' = [n \in Names |->
                 IF registered[n] # NoFn THEN since[n] + 1 ELSE since[n]]
  /\ UNCHANGED <<registered, called, running>>

TableNext ==
  \/ \E n \in Names, f \in Fns : TableRegister(n, f)
  \/ \E n \in Names : TableUnregister(n) \/ TableCall(n)
  \/ TableClear
  \/ Pass

TableSpec == TableInit /\ [][TableNext]_tableVars
=============================================================================
