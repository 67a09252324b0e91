------------------------ MODULE CheckInQueueProofs ------------------------
(***************************************************************************)
(* Theorems about CheckInQueue, for every set of Cron instances and a      *)
(* queue of any length: the array is the set that CheckInEvents thins, and *)
(* the two loops of deduplicateCron leave what its operator leaves.        *)
(***************************************************************************)
EXTENDS CheckInQueue, Integers, WellFoundedInduction, TLAPS

-----------------------------------------------------------------------------
(* The inductive invariant                                                 *)

\* The numbers of the events of S tell them apart.
Distinct(S) == \A e, f \in S : e.id = f.id => e = f

\* The events of q were constructed in their order.
InOrder(q) == \A m, n \in DOMAIN q : m < n => q[m].id < q[n].id

TypeInv ==
  /\ nextId \in Nat
  /\ events \in Seq(Events)
  /\ i \in 1..(Len(events) + 1)
  /\ digests \in [Kinds -> [Identifiers -> SUBSET Crons]]
  /\ complete_digests \in [Identifiers -> SUBSET Crons]
  /\ keep_digest \in [Identifiers -> Crons \cup {"undefined"}]

ArrayInOrder ==
  /\ InOrder(events)
  /\ \A e \in ToSet(events) : e.id < nextId

\* The events of S that report one side of a run of a check-in.
Reports(S, kind, identifier) ==
  {e \in S : /\ e.check_in_type = "cron"
             /\ e.kind = kind
             /\ e.identifier = identifier}

\* The maps of the first loop hold what it finds in the events of S.
MapsDescribe(S, sides, complete, keep) ==
  \A identifier \in Identifiers :
    /\ \A kind \in Kinds :
         sides[kind][identifier] = {e.digest : e \in Reports(S, kind, identifier)}
    /\ complete[identifier] = CompleteDigests(S, identifier)
    /\ Completing(S, identifier) # {} =>
         \E last \in Completing(S, identifier) :
           /\ \A e \in Completing(S, identifier) : e.id <= last.id
           /\ keep[identifier] = last.digest

\* The events that the loop has passed.
Passed == {events[n] : n \in 1..(i - 1)}

Queueing ==
  phase = "queueing" =>
    i = 1 /\ MapsDescribe({}, digests, complete_digests, keep_digest)

Scanning ==
  phase = "scan" =>
    MapsDescribe(Passed, digests, complete_digests, keep_digest)

\* Before the array is cut it holds what was queued.
Uncut == phase \in {"queueing", "scan"} => ToSet(events) = queued

\* What the second loop has passed stays; what it cuts is surplus.
Splicing ==
  phase \in {"splice", "done"} =>
    /\ Distinct(queued)
    /\ MapsDescribe(queued, digests, complete_digests, keep_digest)
    /\ ToSet(events) \subseteq queued
    /\ DeduplicateCron(queued) \subseteq ToSet(events)
    /\ Passed \cap Surplus(queued) = {}
    /\ phase = "done" => i > Len(events)

IInv ==
  /\ TypeInv
  /\ phase \in {"queueing", "scan", "splice", "done"}
  /\ ArrayInOrder
  /\ Queueing
  /\ Scanning
  /\ Uncut
  /\ queued \subseteq Events
  /\ Splicing
-----------------------------------------------------------------------------
(* The array: what filter(), push() and splice() leave of it               *)

\* A set of numbers that has zero, and the successor of each, has them all.
LEMMA Induction ==
  ASSUME NEW S \in SUBSET Nat, 0 \in S, \A n \in S : n + 1 \in S
  PROVE  S = Nat
<1>1. SUFFICES ASSUME Nat \ S # {} PROVE FALSE
  OBVIOUS
<1>2. PICK m \in Nat \ S : \A n \in Nat \ S : ~(<<n, m>> \in OpToRel(<, Nat))
  BY <1>1, NatLessThanWellFounded, WFMin
<1>3. \A n \in Nat \ S : ~(n < m)
  BY <1>2 DEF OpToRel
<1>4. m # 0 /\ m - 1 \in Nat
  OBVIOUS
<1>5. m - 1 \in S
  BY <1>3, <1>4
<1>6. (m - 1) + 1 \in S
  BY <1>5
<1> QED
  BY <1>6

\* F is what is kept of the first n of the array.
IsFilter(F, array, kept, n) ==
  F = [m \in 0..n |->
         IF m = 0 THEN <<>>
         ELSE IF array[m] \in kept THEN Append(F[m - 1], array[m])
         ELSE F[m - 1]]

LEMMA FiltersExist ==
  ASSUME NEW array, NEW kept, NEW n \in Nat
  PROVE  \E F : IsFilter(F, array, kept, n)
<1> DEFINE Grown(q, l) == IF array[l] \in kept THEN Append(q, array[l]) ELSE q
           S == {m \in Nat : \E F : IsFilter(F, array, kept, m)}
<1>1. 0 \in S
  <2> DEFINE F == [m \in 0..0 |-> <<>>]
  <2>1. IsFilter(F, array, kept, 0)
    BY DEF IsFilter
  <2> QED
    BY <2>1
<1>2. ASSUME NEW m \in S PROVE m + 1 \in S
  <2>1. PICK F : IsFilter(F, array, kept, m)
    OBVIOUS
  <2> DEFINE G == [l \in 0..(m + 1) |->
                     IF l = m + 1 THEN Grown(F[m], m + 1) ELSE F[l]]
  <2>2. G = [l \in 0..(m + 1) |-> IF l = 0 THEN <<>> ELSE Grown(G[l - 1], l)]
    <3>1. ASSUME NEW l \in 0..(m + 1)
          PROVE  G[l] = IF l = 0 THEN <<>> ELSE Grown(G[l - 1], l)
      <4>1. CASE l = m + 1
        <5>1. G[l - 1] = F[m] /\ l # 0
          BY <4>1
        <5>2. G[l] = Grown(F[m], m + 1)
          BY <4>1
        <5> HIDE DEF G
        <5> QED
          BY <5>1, <5>2, <4>1
      <4>2. CASE l # m + 1
        <5>1. l \in 0..m
          BY <4>2
        <5>2. F[l] = IF l = 0 THEN <<>> ELSE Grown(F[l - 1], l)
          BY <5>1, <2>1 DEF IsFilter
        <5>3. G[l] = F[l] /\ (l # 0 => G[l - 1] = F[l - 1])
          BY <5>1
        <5> HIDE DEF G
        <5> QED
          BY <5>2, <5>3
      <4> QED
        BY <4>1, <4>2
    <3>2. G = [l \in 0..(m + 1) |-> G[l]]
      OBVIOUS
    <3> HIDE DEF G
    <3> QED
      BY <3>1, <3>2
  <2> HIDE DEF G
  <2>3. IsFilter(G, array, kept, m + 1)
    BY <2>2 DEF IsFilter
  <2> QED
    BY <2>3
<1> HIDE DEF S
<1>3. S = Nat
  <2>1. S \in SUBSET Nat
    BY DEF S
  <2> QED
    BY <1>1, <1>2, <2>1, Induction
<1> QED
  BY <1>3 DEF S

\* One more at the end of what is in order.
LEMMA OneMore ==
  ASSUME NEW q \in Seq(Events), InOrder(q),
         NEW event \in Events, \A e \in ToSet(q) : e.id < event.id
  PROVE  /\ Append(q, event) \in Seq(Events)
         /\ InOrder(Append(q, event))
         /\ ToSet(Append(q, event)) = ToSet(q) \cup {event}
<1> DEFINE longer == Append(q, event)
<1>1. /\ Len(q) \in Nat /\ DOMAIN q = 1..Len(q)
      /\ longer \in Seq(Events)
      /\ DOMAIN longer = 1..(Len(q) + 1)
      /\ \A m \in 1..Len(q) : longer[m] = q[m]
      /\ longer[Len(q) + 1] = event
  OBVIOUS
<1> HIDE DEF longer
<1>2. \A m \in DOMAIN q : q[m] \in ToSet(q)
  BY DEF ToSet
<1>3. ASSUME NEW m \in DOMAIN longer, NEW n \in DOMAIN longer, m < n
      PROVE  longer[m].id < longer[n].id
  <2>1. m \in DOMAIN q /\ longer[m] = q[m]
    BY <1>1, <1>3
  <2>2. CASE n \in DOMAIN q
    BY <1>1, <1>3, <2>1, <2>2 DEF InOrder
  <2>3. CASE n = Len(q) + 1
    BY <1>1, <1>2, <2>1, <2>3
  <2> QED
    BY <1>1, <2>2, <2>3
<1>4. ToSet(longer) = ToSet(q) \cup {event}
  BY <1>1 DEF ToSet
<1> QED
  BY <1>1, <1>3, <1>4 DEF longer, InOrder

\* Filtering keeps the order, and of the events those that are to be kept.
LEMMA Filtered ==
  ASSUME NEW array \in Seq(Events), InOrder(array), NEW kept
  PROVE  /\ Filter(array, kept) \in Seq(Events)
         /\ InOrder(Filter(array, kept))
         /\ ToSet(Filter(array, kept)) = ToSet(array) \cap kept
<1> DEFINE n == Len(array)
           F == CHOOSE F : IsFilter(F, array, kept, n)
           Part(m) == {array[l] : l \in 1..m}
           Good(m) == /\ F[m] \in Seq(Events) /\ InOrder(F[m])
                      /\ ToSet(F[m]) = Part(m) \cap kept
           S == {m \in Nat : m <= n => Good(m)}
<1>1. n \in Nat /\ DOMAIN array = 1..n /\ \A m \in 1..n : array[m] \in Events
  OBVIOUS
<1>2. IsFilter(F, array, kept, n)
  BY <1>1, FiltersExist
<1>3. Filter(array, kept) = F[n]
  BY DEF IsFilter, Filter
<1> HIDE DEF F, n
<1>4. F[0] = <<>>
  BY <1>1, <1>2 DEF IsFilter
<1>5. 0 \in S
  <2>1. F[0] \in Seq(Events) /\ InOrder(F[0])
    BY <1>4 DEF InOrder
  <2>2. ToSet(F[0]) = {} /\ Part(0) = {}
    BY <1>4 DEF ToSet
  <2> HIDE DEF Part
  <2> QED
    BY <2>1, <2>2
<1>6. ASSUME NEW m \in S PROVE m + 1 \in S
  <2> HIDE DEF Good
  <2>1. SUFFICES ASSUME m + 1 <= n PROVE Good(m + 1)
    BY <1>6
  <2>2. m \in Nat /\ m + 1 \in 1..n /\ m + 1 \in 0..n /\ (m + 1) - 1 = m
    BY <1>1, <1>6, <2>1
  <2>3. Good(m)
    BY <1>1, <1>6, <2>1, <2>2
  <2> USE DEF Good
  <2>4. F[m + 1] = IF array[m + 1] \in kept THEN Append(F[m], array[m + 1])
                                            ELSE F[m]
    <3>1. F[m + 1] = IF m + 1 = 0 THEN <<>>
                     ELSE IF array[m + 1] \in kept
                     THEN Append(F[(m + 1) - 1], array[m + 1])
                     ELSE F[(m + 1) - 1]
      BY <2>2, <1>2, Zenon DEF IsFilter
    <3>2. m + 1 # 0
      BY <2>2
    <3> QED
      BY <2>2, <3>1, <3>2, Zenon
  <2>5. Part(m + 1) = Part(m) \cup {array[m + 1]}
    BY <2>2
  <2>6. ASSUME NEW l \in 1..m PROVE array[l].id < array[m + 1].id
    <3>1. l \in DOMAIN array /\ m + 1 \in DOMAIN array /\ l < m + 1
      BY <1>1, <2>2
    <3> QED
      BY <3>1 DEF InOrder
  <2>7. array[m + 1] \in Events
    BY <1>1, <2>2
  <2>8. \A e \in ToSet(F[m]) : e.id < array[m + 1].id
    BY <2>3, <2>6
  <2> HIDE DEF Part
  <2>9. CASE array[m + 1] \in kept
    <3> DEFINE q == F[m]
               event == array[m + 1]
    <3>1. q \in Seq(Events) /\ InOrder(q) /\ ToSet(q) = Part(m) \cap kept
      BY <2>3
    <3>2. event \in Events /\ \A e \in ToSet(q) : e.id < event.id
      BY <2>7, <2>8
    <3>3. F[m + 1] = Append(q, event) /\ Part(m + 1) = Part(m) \cup {event}
      BY <2>4, <2>5, <2>9, Zenon
    <3>4. event \in kept
      BY <2>9
    <3> HIDE DEF q, event
    <3>5. /\ Append(q, event) \in Seq(Events)
          /\ InOrder(Append(q, event))
          /\ ToSet(Append(q, event)) = ToSet(q) \cup {event}
      BY <3>1, <3>2, OneMore, Zenon
    <3> QED
      BY <3>1, <3>3, <3>4, <3>5
  <2>10. CASE array[m + 1] \notin kept
    BY <2>3, <2>4, <2>5, <2>10
  <2> QED
    BY <2>9, <2>10
<1>7. n \in S
  <2> HIDE DEF S
  <2>1. S \in SUBSET Nat
    BY DEF S
  <2> QED
    BY <1>1, <1>5, <1>6, <2>1, Induction
<1>8. Part(n) = ToSet(array)
  BY <1>1 DEF ToSet
<1> QED
  BY <1>1, <1>3, <1>7, <1>8

\* splice(i, 1) keeps the order and takes one element.
LEMMA Removed ==
  ASSUME NEW q \in Seq(Events), InOrder(q), NEW at \in 1..Len(q)
  PROVE  /\ RemoveAt(q, at) \in Seq(Events)
         /\ Len(RemoveAt(q, at)) = Len(q) - 1
         /\ \A m \in 1..(at - 1) : RemoveAt(q, at)[m] = q[m]
         /\ InOrder(RemoveAt(q, at))
         /\ ToSet(RemoveAt(q, at)) = ToSet(q) \ {q[at]}
<1> DEFINE shorter == RemoveAt(q, at)
           last == Len(q)
           before == SubSeq(q, 1, at - 1)
           after == SubSeq(q, at + 1, Len(q))
<1>1. last \in Nat \ {0} /\ DOMAIN q = 1..last /\ at \in 1..last
  OBVIOUS
<1>2. /\ before \in Seq(Events) /\ Len(before) = at - 1
      /\ \A m \in 1..(at - 1) : before[m] = q[m]
  OBVIOUS
<1>3. /\ after \in Seq(Events) /\ Len(after) = last - at
      /\ \A m \in 1..(last - at) : after[m] = q[at + m]
  OBVIOUS
<1>4. shorter = before \o after
  BY DEF RemoveAt
<1> HIDE DEF shorter, before, after, last
<1>5. /\ shorter \in Seq(Events)
      /\ Len(shorter) = last - 1 /\ DOMAIN shorter = 1..(last - 1)
      /\ \A m \in 1..(at - 1) : shorter[m] = q[m]
      /\ \A m \in at..(last - 1) : shorter[m] = q[m + 1]
  <2>1. shorter \in Seq(Events) /\ Len(shorter) = (at - 1) + (last - at)
    <3>1. before \in Seq(Events) /\ after \in Seq(Events)
      BY <1>2, <1>3
    <3>2. before \o after \in Seq(Events)
      BY <3>1
    <3>3. Len(before \o after) = Len(before) + Len(after)
      BY <3>1
    <3> QED
      BY <1>2, <1>3, <1>4, <3>2, <3>3
  <2>2. Len(shorter) = last - 1 /\ DOMAIN shorter = 1..(last - 1)
    BY <1>1, <2>1
  <2>3. ASSUME NEW m \in 1..(at - 1) PROVE shorter[m] = q[m]
    BY <1>1, <1>2, <1>3, <1>4, <2>3
  <2>4. ASSUME NEW m \in at..(last - 1) PROVE shorter[m] = q[m + 1]
    <3> DEFINE l == m - (at - 1)
    <3>1. l \in 1..(last - at) /\ at + l = m + 1 /\ m = Len(before) + l
      BY <1>1, <1>2, <2>4
    <3>2. shorter[m] = after[l]
      BY <1>1, <1>2, <1>3, <1>4, <3>1
    <3> QED
      BY <1>3, <3>1, <3>2
  <2> QED
    BY <2>1, <2>2, <2>3, <2>4
<1>6. InOrder(shorter)
  <2> DEFINE Was(m) == IF m < at THEN m ELSE m + 1
  <2>1. \A m \in DOMAIN shorter : Was(m) \in DOMAIN q /\ shorter[m] = q[Was(m)]
    BY <1>1, <1>5
  <2>2. \A m, n \in DOMAIN shorter : m < n => Was(m) < Was(n)
    BY <1>1, <1>5
  <2> HIDE DEF Was
  <2> QED
    BY <2>1, <2>2 DEF InOrder
<1>7. ASSUME NEW m \in 1..last, m # at PROVE q[m] \in ToSet(shorter)
  <2>1. CASE m < at
    BY <1>1, <1>5, <2>1 DEF ToSet
  <2>2. CASE m > at
    <3>1. m - 1 \in DOMAIN shorter /\ shorter[m - 1] = q[m]
      BY <1>1, <1>5, <2>2
    <3> QED
      BY <3>1 DEF ToSet
  <2> QED
    BY <1>1, <1>7, <2>1, <2>2
<1>8. ASSUME NEW m \in DOMAIN shorter
      PROVE  \E l \in 1..last : l # at /\ shorter[m] = q[l]
  BY <1>1, <1>5
<1>9. ASSUME NEW m \in 1..last, m # at PROVE q[m] # q[at]
  <2>1. q[m].id # q[at].id
    <3>1. q[m] \in Events /\ q[at] \in Events
      BY <1>1
    <3>2. m < at => q[m].id < q[at].id
      BY <1>1 DEF InOrder
    <3>3. at < m => q[at].id < q[m].id
      BY <1>1 DEF InOrder
    <3>4. q[m].id \in Nat /\ q[at].id \in Nat
      BY <3>1 DEF Events
    <3> QED
      BY <1>1, <1>9, <3>2, <3>3, <3>4
  <2> QED
    BY <2>1
<1>10. ToSet(shorter) = ToSet(q) \ {q[at]}
  <2>1. ASSUME NEW e \in ToSet(shorter) PROVE e \in ToSet(q) /\ e # q[at]
    <3>1. PICK m \in DOMAIN shorter : e = shorter[m]
      BY DEF ToSet
    <3>2. PICK l \in 1..last : l # at /\ e = q[l]
      BY <1>8, <3>1
    <3> QED
      BY <1>1, <1>9, <3>2 DEF ToSet
  <2>2. ASSUME NEW e \in ToSet(q), e # q[at] PROVE e \in ToSet(shorter)
    <3>1. PICK m \in 1..last : e = q[m]
      BY <1>1 DEF ToSet
    <3> QED
      BY <1>7, <2>2, <3>1
  <2> QED
    BY <2>1, <2>2
<1> QED
  BY <1>5, <1>6, <1>10 DEF shorter, last
-----------------------------------------------------------------------------
(* The maps: what one turn of the first loop makes of them, and what the   *)
(* second loop reads in them.                                              *)

\* Every event a factory method builds is an event.
LEMMA NumberedEvent ==
  ASSUME NEW n \in Nat, NEW event \in EventsNumbered(n)
  PROVE  event \in Events /\ event.id = n
BY CronIdentifierAssumption, HeartbeatsAssumption
   DEF EventsNumbered, CronEvent, HeartbeatEvent, Events, Kinds

\* What an event has, of either type.
LEMMA EventFields ==
  ASSUME NEW e \in Events
  PROVE  /\ e.id \in Nat
         /\ e.identifier \in Identifiers
         /\ e.check_in_type = "cron" =>
              e.kind \in Kinds /\ OtherKind(e.kind) \in Kinds
                /\ OtherKind(e.kind) # e.kind /\ e.digest \in Crons
BY DEF Events, Kinds, OtherKind

\* The pair of a check-in that e completes if it comes after the events of S.
Completed(e, S, identifier) ==
  {x \in {e} : /\ x.check_in_type = "cron"
               /\ x.identifier = identifier
               /\ \E o \in S : IsCounterpart(x, o)}

\* The last event of all completes a pair if its counterpart is there; it
\* completes none for the events before it.
LEMMA CompletingGrows ==
  ASSUME NEW S \in SUBSET Events, NEW e \in Events,
         \A f \in S : f.id < e.id, NEW identifier
  PROVE  Completing(S \cup {e}, identifier) =
           Completing(S, identifier) \cup Completed(e, S, identifier)
<1>1. \A x \in S \cup {e} : x.id \in Nat /\ ~(e.id < x.id)
  BY EventFields
<1>2. ASSUME NEW x \in Completing(S \cup {e}, identifier)
      PROVE  \/ x \in Completing(S, identifier)
             \/ /\ x = e /\ x.check_in_type = "cron" /\ x.identifier = identifier
                /\ \E o \in S : IsCounterpart(x, o)
  <2>1. PICK o \in S \cup {e} : IsCounterpart(x, o) /\ o.id < x.id
    BY DEF Completing
  <2>2. x \in S \cup {e} /\ x.check_in_type = "cron" /\ x.identifier = identifier
    BY DEF Completing
  <2>3. o \in S
    BY <1>1, <2>1, <2>2
  <2> QED
    BY <2>1, <2>2, <2>3 DEF Completing
<1>3. Completing(S, identifier) \subseteq Completing(S \cup {e}, identifier)
  BY DEF Completing
<1>4. ASSUME e.check_in_type = "cron", e.identifier = identifier,
             NEW o \in S, IsCounterpart(e, o)
      PROVE  e \in Completing(S \cup {e}, identifier)
  BY <1>4 DEF Completing
<1> QED
  BY <1>2, <1>3, <1>4 DEF Completed

\* The counterpart is in the other map exactly if the loop has passed it.
LEMMA OtherSide ==
  ASSUME NEW S \in SUBSET Events, NEW e \in Events, e.check_in_type = "cron",
         NEW sides, NEW complete, NEW keep, MapsDescribe(S, sides, complete, keep)
  PROVE  e.digest \in sides[OtherKind(e.kind)][e.identifier]
           <=> \E o \in S : IsCounterpart(e, o)
<1>1. /\ e.identifier \in Identifiers /\ e.kind \in Kinds
      /\ OtherKind(e.kind) \in Kinds
  BY EventFields
<1>2. sides[OtherKind(e.kind)][e.identifier]
        = {o.digest : o \in Reports(S, OtherKind(e.kind), e.identifier)}
  BY <1>1 DEF MapsDescribe
<1>3. ASSUME NEW o \in S, o.check_in_type = "cron"
      PROVE  o.kind = OtherKind(e.kind) <=> o.kind # e.kind
  <2>1. o.kind \in Kinds
    BY <1>3, EventFields
  <2> QED
    BY <1>1, <2>1 DEF Kinds, OtherKind
<1> QED
  BY <1>2, <1>3 DEF Reports, IsCounterpart

Sides == [Kinds -> [Identifiers -> SUBSET Crons]]

\* One set of maps after another in the turn for e.
Turn(e, sides, complete, keep, sides2, complete2, keep2) ==
  /\ sides2 = [sides EXCEPT ![e.kind][e.identifier] = @ \cup {e.digest}]
  /\ IF e.digest \in sides[OtherKind(e.kind)][e.identifier]
     THEN /\ complete2 = [complete EXCEPT ![e.identifier] = @ \cup {e.digest}]
          /\ keep2 = [keep EXCEPT ![e.identifier] = e.digest]
     ELSE complete2 = complete /\ keep2 = keep

\* A turn for a cron event.
LEMMA ScanTurn ==
  ASSUME NEW S \in SUBSET Events, NEW e \in Events, e.check_in_type = "cron",
         \A f \in S : f.id < e.id,
         NEW sides \in Sides,
         NEW complete \in [Identifiers -> SUBSET Crons],
         NEW keep \in [Identifiers -> Crons \cup {"undefined"}],
         MapsDescribe(S, sides, complete, keep),
         NEW sides2, NEW complete2, NEW keep2,
         Turn(e, sides, complete, keep, sides2, complete2, keep2)
  PROVE  /\ sides2 \in Sides
         /\ complete2 \in [Identifiers -> SUBSET Crons]
         /\ keep2 \in [Identifiers -> Crons \cup {"undefined"}]
         /\ MapsDescribe(S \cup {e}, sides2, complete2, keep2)
<1> DEFINE T == S \cup {e}
           own == e.identifier
           isPair == \E o \in S : IsCounterpart(e, o)
<1>1. /\ own \in Identifiers /\ e.kind \in Kinds /\ e.digest \in Crons
      /\ e.id \in Nat
  BY EventFields
<1>2. e.digest \in sides[OtherKind(e.kind)][own] <=> isPair
  BY OtherSide
<1>3. sides2 \in Sides
  BY <1>1 DEF Sides, Turn
<1>4. /\ complete2 \in [Identifiers -> SUBSET Crons]
      /\ keep2 \in [Identifiers -> Crons \cup {"undefined"}]
  BY <1>1 DEF Turn
<1>5. ASSUME NEW identifier \in Identifiers, NEW kind \in Kinds
      PROVE  sides2[kind][identifier]
               = {f.digest : f \in Reports(T, kind, identifier)}
  <2>1. sides[kind][identifier] = {f.digest : f \in Reports(S, kind, identifier)}
    BY DEF MapsDescribe
  <2>2. CASE kind = e.kind /\ identifier = own
    <3>1. sides2[kind][identifier] = sides[kind][identifier] \cup {e.digest}
      BY <1>1, <2>2 DEF Sides, Turn
    <3>2. Reports(T, kind, identifier) = Reports(S, kind, identifier) \cup {e}
      BY <2>2 DEF Reports
    <3> QED
      BY <2>1, <3>1, <3>2
  <2>3. CASE ~(kind = e.kind /\ identifier = own)
    <3>1. sides2[kind][identifier] = sides[kind][identifier]
      BY <1>1, <2>3 DEF Sides, Turn
    <3>2. Reports(T, kind, identifier) = Reports(S, kind, identifier)
      BY <2>3 DEF Reports
    <3> QED
      BY <2>1, <3>1, <3>2
  <2> QED
    BY <2>2, <2>3
<1>6. ASSUME NEW identifier \in Identifiers
      PROVE  /\ complete2[identifier] = CompleteDigests(T, identifier)
             /\ Completing(T, identifier) # {} =>
                  \E last \in Completing(T, identifier) :
                    /\ \A f \in Completing(T, identifier) : f.id <= last.id
                    /\ keep2[identifier] = last.digest
  <2>1. /\ complete[identifier] = CompleteDigests(S, identifier)
        /\ Completing(S, identifier) # {} =>
             \E last \in Completing(S, identifier) :
               /\ \A f \in Completing(S, identifier) : f.id <= last.id
               /\ keep[identifier] = last.digest
    BY DEF MapsDescribe
  <2>2. Completing(T, identifier)
          = Completing(S, identifier) \cup Completed(e, S, identifier)
    BY CompletingGrows, Zenon
  <2>3. CASE identifier = own /\ isPair
    <3>1. Completing(T, identifier) = Completing(S, identifier) \cup {e}
      <4>1. Completed(e, S, identifier) = {e}
        BY <2>3 DEF Completed
      <4> QED
        BY <2>2, <4>1
    <3>2. complete2[identifier] = complete[identifier] \cup {e.digest}
      BY <1>1, <1>2, <2>3 DEF Turn
    <3>3. keep2[identifier] = e.digest
      BY <1>1, <1>2, <2>3 DEF Turn
    <3>4. \A f \in Completing(T, identifier) : f.id <= e.id
      <4>1. \A f \in S : f.id \in Nat /\ f.id <= e.id
        BY <1>1, EventFields
      <4> QED
        BY <1>1, <4>1 DEF Completing
    <3> QED
      BY <2>1, <3>1, <3>2, <3>3, <3>4 DEF CompleteDigests
  <2>4. CASE ~(identifier = own /\ isPair)
    <3>1. Completing(T, identifier) = Completing(S, identifier)
      <4>1. Completed(e, S, identifier) = {}
        BY <2>4 DEF Completed
      <4> QED
        BY <2>2, <4>1
    <3>2. complete2[identifier] = complete[identifier]
      BY <1>1, <1>2, <2>4 DEF Turn
    <3>3. keep2[identifier] = keep[identifier]
      BY <1>1, <1>2, <2>4 DEF Turn
    <3> QED
      BY <2>1, <3>1, <3>2, <3>3 DEF CompleteDigests
  <2> QED
    BY <2>3, <2>4
<1> QED
  BY <1>3, <1>4, <1>5, <1>6 DEF MapsDescribe

\* A heartbeat is nothing to the maps.
LEMMA HeartbeatTurn ==
  ASSUME NEW S \in SUBSET Events, NEW e \in Events, e.check_in_type # "cron",
         \A f \in S : f.id < e.id,
         NEW sides, NEW complete, NEW keep, MapsDescribe(S, sides, complete, keep)
  PROVE  MapsDescribe(S \cup {e}, sides, complete, keep)
<1>1. ASSUME NEW identifier
      PROVE  Completing(S \cup {e}, identifier) = Completing(S, identifier)
  <2>1. Completing(S \cup {e}, identifier)
          = Completing(S, identifier) \cup Completed(e, S, identifier)
    BY CompletingGrows, Zenon
  <2>2. Completed(e, S, identifier) = {}
    BY DEF Completed
  <2> QED
    BY <2>1, <2>2
<1>2. \A kind, identifier : Reports(S \cup {e}, kind, identifier)
                             = Reports(S, kind, identifier)
  BY DEF Reports
<1> QED
  BY <1>1, <1>2 DEF MapsDescribe, CompleteDigests

\* What the second loop reads in the maps is what CheckInEvents calls surplus.
LEMMA SurplusFound ==
  ASSUME NEW S \in SUBSET Events, Distinct(S), NEW e \in S,
         MapsDescribe(S, digests, complete_digests, keep_digest)
  PROVE  IsSurplus(e) <=> e \in Surplus(S)
<1> DEFINE own == e.identifier
           C == Completing(S, own)
<1>1. own \in Identifiers
  BY EventFields
<1>2. complete_digests[own] = CompleteDigests(S, own)
  BY <1>1 DEF MapsDescribe
<1>3. ASSUME e.digest \in CompleteDigests(S, own)
      PROVE  keep_digest[own] = KeepDigest(S, own)
  <2>1. C # {}
    BY <1>3 DEF CompleteDigests
  <2>2. PICK last \in C : /\ \A f \in C : f.id <= last.id
                          /\ keep_digest[own] = last.digest
    BY <1>1, <2>1 DEF MapsDescribe
  <2> DEFINE chosen == CHOOSE l \in C : \A f \in C : f.id <= l.id
  <2>3. chosen \in C /\ \A f \in C : f.id <= chosen.id
    BY <2>2
  <2>4. KeepDigest(S, own) = chosen.digest
    BY DEF KeepDigest
  <2> HIDE DEF chosen
  <2>5. chosen \in S /\ last \in S
    BY <2>2, <2>3 DEF Completing
  <2>6. chosen.id = last.id
    <3>1. chosen.id \in Nat /\ last.id \in Nat
      BY <2>5, EventFields
    <3>2. chosen.id <= last.id /\ last.id <= chosen.id
      BY <2>2, <2>3
    <3> QED
      BY <3>1, <3>2
  <2> QED
    BY <2>2, <2>4, <2>5, <2>6 DEF Distinct
<1> QED
  BY <1>2, <1>3 DEF IsSurplus, Surplus
-----------------------------------------------------------------------------
(* The invariant, action by action                                         *)

LEMMA InitOK == Init => IInv
<1> SUFFICES ASSUME Init PROVE IInv
  OBVIOUS
<1>1. TypeInv
  BY DEF Init, TypeInv
<1>2. ToSet(events) = {} /\ InOrder(events)
  BY DEF Init, ToSet, InOrder
<1>3. MapsDescribe({}, digests, complete_digests, keep_digest)
  BY DEF Init, MapsDescribe, Reports, CompleteDigests, Completing
<1> QED
  BY <1>1, <1>2, <1>3
     DEF Init, IInv, ArrayInOrder, Queueing, Scanning, Uncut, Splicing

\* The array of a queue in order tells its events apart.
LEMMA OrderIsDistinct ==
  ASSUME NEW q \in Seq(Events), InOrder(q)
  PROVE  Distinct(ToSet(q))
<1> SUFFICES ASSUME NEW e \in ToSet(q), NEW f \in ToSet(q), e.id = f.id
             PROVE  e = f
  BY DEF Distinct
<1>1. PICK m \in DOMAIN q : e = q[m]
  BY DEF ToSet
<1>2. PICK n \in DOMAIN q : f = q[n]
  BY DEF ToSet
<1>3. q[m] \in Events /\ q[n] \in Events /\ m \in Nat /\ n \in Nat
  OBVIOUS
<1>4. e.id \in Nat /\ f.id \in Nat
  BY <1>1, <1>2, <1>3, EventFields
<1>5. ~(m < n) /\ ~(n < m)
  BY <1>1, <1>2, <1>4 DEF InOrder
<1> QED
  BY <1>1, <1>2, <1>3, <1>5

LEMMA PushOK ==
  ASSUME IInv, NEW event \in EventsNumbered(nextId), Push(event)
  PROVE  IInv'
<1> DEFINE kept == {e \in ToSet(events) : ~IsRedundant(e, event)}
           rest == Filter(events, kept)
<1>1. /\ events \in Seq(Events) /\ InOrder(events) /\ nextId \in Nat
      /\ \A e \in ToSet(events) : e.id < nextId
      /\ phase = "queueing" /\ i = 1 /\ queued = ToSet(events)
      /\ MapsDescribe({}, digests, complete_digests, keep_digest)
  BY DEF IInv, TypeInv, ArrayInOrder, Queueing, Uncut, Push
<1>2. event \in Events /\ event.id = nextId
  BY <1>1, NumberedEvent
<1>3. rest \in Seq(Events) /\ InOrder(rest) /\ ToSet(rest) = ToSet(events) \cap kept
  BY <1>1, Filtered, Zenon
<1>4. /\ events' = Append(rest, event) /\ nextId' = nextId + 1
      /\ queued' = AddEvent(queued, event)
      /\ UNCHANGED <<phase, i, maps>>
  BY DEF Push
<1>5. ToSet(rest) = kept
  BY <1>3
<1>6. \A e \in ToSet(rest) : e.id < event.id
  BY <1>1, <1>2, <1>5
<1> HIDE DEF rest
<1>7. /\ events' \in Seq(Events) /\ InOrder(events')
      /\ ToSet(events') = ToSet(rest) \cup {event}
  BY <1>2, <1>3, <1>4, <1>6, OneMore, Zenon
<1>8. ToSet(events') = queued' /\ queued' \subseteq Events
  BY <1>1, <1>2, <1>4, <1>5, <1>7 DEF AddEvent, IInv
<1>9. \A e \in ToSet(events') : e.id < nextId'
  <2>1. \A e \in ToSet(rest) : e.id \in Nat
    BY <1>1, <1>5, <1>8, EventFields DEF IInv
  <2> QED
    BY <1>1, <1>2, <1>4, <1>6, <1>7, <2>1
<1>10. TypeInv'
  <2>1. i' \in 1..(Len(events') + 1)
    BY <1>1, <1>4, <1>7
  <2> QED
    BY <1>1, <1>4, <1>7, <2>1 DEF IInv, TypeInv, maps
<1>11. Queueing'
  BY <1>1, <1>4 DEF Queueing, maps
<1> QED
  BY <1>1, <1>4, <1>7, <1>8, <1>9, <1>10, <1>11
     DEF IInv, ArrayInOrder, Scanning, Uncut, Splicing

LEMMA DeduplicateOK ==
  ASSUME IInv, Deduplicate PROVE IInv'
<1>1. /\ phase = "queueing" /\ phase' = "scan" /\ i = 1
      /\ UNCHANGED <<nextId, events, i, maps, queued>>
      /\ MapsDescribe({}, digests, complete_digests, keep_digest)
  BY DEF Deduplicate, IInv, Queueing
<1>2. Passed' = {}
  BY <1>1 DEF Passed
<1>3. Scanning'
  BY <1>1, <1>2 DEF Scanning, maps
<1>4. TypeInv'
  BY <1>1 DEF IInv, TypeInv, maps
<1> QED
  BY <1>1, <1>3, <1>4 DEF IInv, ArrayInOrder, Queueing, Uncut, Splicing

\* What the loop has passed comes before what it is at.
LEMMA PassedBefore ==
  ASSUME TypeInv, InOrder(events), i <= Len(events)
  PROVE  /\ i \in DOMAIN events /\ events[i] \in Events
         /\ events[i] \in ToSet(events)
         /\ Passed \subseteq ToSet(events)
         /\ Passed \in SUBSET Events
         /\ \A f \in Passed : f.id < events[i].id
         /\ Passed \cup {events[i]} = {events[n] : n \in 1..i}
<1>1. /\ events \in Seq(Events) /\ i \in 1..Len(events) /\ Len(events) \in Nat
      /\ DOMAIN events = 1..Len(events)
  BY DEF TypeInv
<1>2. \A n \in 1..(i - 1) : n \in DOMAIN events /\ n < i
  BY <1>1
<1>3. \A n \in DOMAIN events : events[n] \in Events
  BY <1>1
<1>4. \A n \in 1..i : n \in 1..(i - 1) \/ n = i
  BY <1>1
<1>5. 1..(i - 1) \subseteq 1..i /\ i \in 1..i
  BY <1>1
<1> QED
  BY <1>1, <1>2, <1>3, <1>4, <1>5 DEF Passed, ToSet, InOrder

LEMMA ScanOK ==
  ASSUME IInv, Scan PROVE IInv'
<1> DEFINE e == events[i]
           S == Passed
<1>1. /\ phase = "scan" /\ i <= Len(events) /\ i' = i + 1
      /\ UNCHANGED <<phase, nextId, events, queued>>
  BY DEF Scan
<1>2. /\ TypeInv /\ InOrder(events)
      /\ MapsDescribe(S, digests, complete_digests, keep_digest)
  BY <1>1 DEF IInv, ArrayInOrder, Scanning
<1>3. /\ i \in Nat /\ e \in Events /\ S \in SUBSET Events
      /\ \A f \in S : f.id < e.id
      /\ S \cup {e} = {events[n] : n \in 1..i}
  BY <1>1, <1>2, PassedBefore DEF TypeInv
<1>4. Passed' = S \cup {e}
  <2>1. i' - 1 = i
    BY <1>1, <1>3
  <2> QED
    BY <1>1, <1>3, <2>1 DEF Passed
<1>5. /\ digests \in Sides
      /\ complete_digests \in [Identifiers -> SUBSET Crons]
      /\ keep_digest \in [Identifiers -> Crons \cup {"undefined"}]
  BY <1>2 DEF TypeInv, Sides
<1>6. i' \in 1..(Len(events') + 1)
  BY <1>1, <1>2 DEF TypeInv
<1> HIDE DEF e, S
<1>7. /\ digests' \in Sides
      /\ complete_digests' \in [Identifiers -> SUBSET Crons]
      /\ keep_digest' \in [Identifiers -> Crons \cup {"undefined"}]
      /\ MapsDescribe(S \cup {e}, digests', complete_digests', keep_digest')
  <2>1. CASE e.check_in_type = "cron"
    <3>1. ScanEvent(e)
      BY <2>1 DEF Scan, e
    <3>2. Turn(e, digests, complete_digests, keep_digest,
               digests', complete_digests', keep_digest')
      BY <3>1 DEF ScanEvent, Turn
    <3> QED
      BY <1>2, <1>3, <1>5, <2>1, <3>2, ScanTurn, Zenon
  <2>2. CASE e.check_in_type # "cron"
    <3>1. UNCHANGED maps
      BY <2>2 DEF Scan, e
    <3> QED
      BY <1>2, <1>3, <1>5, <2>2, <3>1, HeartbeatTurn DEF maps
  <2> QED
    BY <2>1, <2>2
<1>8. TypeInv'
  BY <1>1, <1>2, <1>6, <1>7 DEF TypeInv, Sides
<1>9. Scanning'
  BY <1>4, <1>7 DEF Scanning
<1> QED
  BY <1>1, <1>8, <1>9 DEF IInv, ArrayInOrder, Queueing, Uncut, Splicing

LEMMA ScanEndsOK ==
  ASSUME IInv, ScanEnds PROVE IInv'
<1>1. /\ phase = "scan" /\ i > Len(events) /\ phase' = "splice" /\ i' = 1
      /\ UNCHANGED <<nextId, events, maps, queued>>
  BY DEF ScanEnds
<1>2. /\ events \in Seq(Events) /\ InOrder(events) /\ ToSet(events) = queued
      /\ i \in 1..(Len(events) + 1)
      /\ MapsDescribe(Passed, digests, complete_digests, keep_digest)
  BY <1>1 DEF IInv, TypeInv, ArrayInOrder, Scanning, Uncut
<1>3. Passed = queued
  <2>1. i - 1 = Len(events) /\ DOMAIN events = 1..Len(events)
    BY <1>1, <1>2
  <2> QED
    BY <1>2, <2>1 DEF Passed, ToSet
<1>4. Distinct(queued)
  BY <1>2, OrderIsDistinct, Zenon
<1>5. Passed' = {}
  BY <1>1 DEF Passed
<1>6. DeduplicateCron(queued) \subseteq ToSet(events)
  BY <1>2 DEF DeduplicateCron
<1>7. Splicing'
  <2>1. MapsDescribe(queued, digests, complete_digests, keep_digest)
    BY <1>2, <1>3
  <2> QED
    BY <1>1, <1>2, <1>4, <1>5, <1>6, <2>1 DEF Splicing, maps
<1>8. TypeInv'
  <2>1. i' \in 1..(Len(events') + 1)
    BY <1>1, <1>2
  <2> QED
    BY <1>1, <2>1 DEF IInv, TypeInv, maps
<1> QED
  BY <1>1, <1>7, <1>8 DEF IInv, ArrayInOrder, Queueing, Scanning, Uncut

LEMMA SpliceOK ==
  ASSUME IInv, Splice PROVE IInv'
<1> DEFINE e == events[i]
           keptOnes == DeduplicateCron(queued)
<1>1. /\ phase = "splice" /\ i <= Len(events)
      /\ UNCHANGED <<phase, nextId, maps, queued>>
  BY DEF Splice
<1>2. /\ TypeInv /\ InOrder(events) /\ events \in Seq(Events)
      /\ i \in 1..Len(events) /\ Len(events) \in Nat
  BY <1>1 DEF IInv, TypeInv, ArrayInOrder
<1>3. /\ Distinct(queued) /\ ToSet(events) \subseteq queued /\ queued \subseteq Events
      /\ MapsDescribe(queued, digests, complete_digests, keep_digest)
      /\ keptOnes \subseteq ToSet(events)
      /\ Passed \cap Surplus(queued) = {}
      /\ \A f \in ToSet(events) : f.id < nextId
  BY <1>1 DEF IInv, Splicing, ArrayInOrder
<1>4. e \in queued /\ Passed \cup {e} = {events[n] : n \in 1..i}
  BY <1>1, <1>2, <1>3, PassedBefore
<1>5. IsSurplus(e) <=> e \in Surplus(queued)
  BY <1>3, <1>4, SurplusFound
<1>6. CASE IsSurplus(e)
  <2>1. events' = RemoveAt(events, i) /\ i' = i
    BY <1>6 DEF Splice
  <2>2. /\ events' \in Seq(Events) /\ Len(events') = Len(events) - 1
        /\ \A m \in 1..(i - 1) : events'[m] = events[m]
        /\ InOrder(events')
        /\ ToSet(events') = ToSet(events) \ {e}
    BY <1>2, <2>1, Removed
  <2>3. Passed' = Passed
    BY <2>1, <2>2 DEF Passed
  <2>4. keptOnes \subseteq ToSet(events')
    BY <1>3, <1>5, <1>6, <2>2 DEF DeduplicateCron
  <2>5. i' \in 1..(Len(events') + 1)
    BY <1>2, <2>1, <2>2
  <2>6. TypeInv'
    BY <1>1, <1>2, <2>2, <2>5 DEF TypeInv, maps
  <2>7. ArrayInOrder'
    BY <1>1, <1>3, <2>2 DEF ArrayInOrder
  <2>8. Splicing'
    <3> HIDE DEF e
    <3> QED
      BY <1>1, <1>3, <2>2, <2>3, <2>4 DEF Splicing, maps
  <2> QED
    BY <1>1, <1>3, <2>6, <2>7, <2>8 DEF IInv, Queueing, Scanning, Uncut
<1>7. CASE ~IsSurplus(e)
  <2>1. events' = events /\ i' = i + 1
    BY <1>7 DEF Splice
  <2>2. Passed' = Passed \cup {e}
    <3>1. i' - 1 = i
      BY <1>2, <2>1
    <3> QED
      BY <1>4, <2>1, <3>1 DEF Passed
  <2>3. Passed' \cap Surplus(queued) = {}
    BY <1>3, <1>5, <1>7, <2>2
  <2>4. TypeInv'
    <3>1. i' \in 1..(Len(events') + 1)
      BY <1>2, <2>1
    <3> QED
      BY <1>1, <1>2, <2>1, <3>1 DEF TypeInv, maps
  <2>5. Splicing'
    BY <1>1, <1>3, <2>1, <2>3 DEF Splicing, maps
  <2> QED
    BY <1>1, <1>3, <2>1, <2>4, <2>5
       DEF IInv, ArrayInOrder, Queueing, Scanning, Uncut
<1> QED
  BY <1>6, <1>7

LEMMA SpliceEndsOK ==
  ASSUME IInv, SpliceEnds PROVE IInv'
<1>1. /\ phase = "splice" /\ i > Len(events) /\ phase' = "done"
      /\ UNCHANGED <<nextId, events, i, maps, queued>>
  BY DEF SpliceEnds
<1>2. Passed' = Passed
  BY <1>1 DEF Passed
<1>3. Splicing'
  BY <1>1, <1>2 DEF IInv, Splicing, maps
<1>4. TypeInv'
  BY <1>1 DEF IInv, TypeInv, maps
<1> QED
  BY <1>1, <1>3, <1>4 DEF IInv, ArrayInOrder, Queueing, Scanning, Uncut

LEMMA NextOK ==
  ASSUME IInv, [Next]_vars PROVE IInv'
<1>1. CASE UNCHANGED vars
  <2>1. Passed' = Passed
    BY <1>1 DEF vars, Passed
  <2> QED
    BY <1>1, <2>1 DEF vars, maps, IInv, TypeInv, ArrayInOrder, Queueing, Scanning,
                      Uncut, Splicing
<1>2. CASE Next
  <2>1. CASE Done
    BY <1>1, <2>1 DEF Done
  <2> QED
    BY <1>2, <2>1, PushOK, DeduplicateOK, ScanOK, ScanEndsOK, SpliceOK, SpliceEndsOK
       DEF Next, Loops
<1> QED
  BY <1>1, <1>2

THEOREM Invariance == Spec => []IInv
BY InitOK, NextOK, PTL DEF Spec

-----------------------------------------------------------------------------
(* The theorems                                                            *)

\* The array behind the queue (scheduler.ts, addEvent; event.ts,
\* deduplicateCron) lists what is queued in the order of construction, whatever
\* is pushed and at every turn of the loops.
THEOREM ArrayIsTheQueue == Spec => []ArrayIsQueue
<1>1. IInv => ArrayIsQueue
  BY DEF IInv, ArrayInOrder, InOrder, Uncut, ArrayIsQueue
<1> QED
  BY <1>1, Invariance, PTL

\* The second loop of deduplicateCron, which splices the array it walks over,
\* passes over nothing and cuts what is surplus and nothing else: the set that
\* CheckInEvents!DeduplicateCron leaves, for a queue of any length.
THEOREM LoopsLeaveWhatTheyShould == Spec => []LoopsDeduplicate
<1>1. IInv => LoopsDeduplicate
  <2> SUFFICES ASSUME IInv, phase = "done"
               PROVE  ToSet(events) = DeduplicateCron(queued)
    BY DEF LoopsDeduplicate
  <2>1. /\ i > Len(events) /\ i \in 1..(Len(events) + 1) /\ events \in Seq(Events)
        /\ ToSet(events) \subseteq queued
        /\ DeduplicateCron(queued) \subseteq ToSet(events)
        /\ Passed \cap Surplus(queued) = {}
    BY DEF IInv, TypeInv, Splicing
  <2>2. Passed = ToSet(events)
    <3>1. i - 1 = Len(events) /\ DOMAIN events = 1..Len(events)
      BY <2>1
    <3> QED
      BY <3>1 DEF Passed, ToSet
  <2> QED
    BY <2>1, <2>2 DEF DeduplicateCron
<1> QED
  BY <1>1, Invariance, PTL

\* The turns that the loops take at most: the first loop, the second over what
\* may be left, and the two ends.
TurnsLeft ==
  CASE phase = "scan" -> 2 * Len(events) + 3 - i
    [] phase = "splice" -> Len(events) + 2 - i
    [] OTHER -> 0

\* The loops of deduplicateCron come to an end although the second stays where
\* it is after a splice: every turn leaves less to do.
THEOREM EveryTurnCounts ==
  Spec => [](TurnsLeft \in Nat) /\ [][Loops => TurnsLeft' < TurnsLeft]_vars
<1>1. IInv => /\ TurnsLeft \in Nat
             /\ events \in Seq(Events) /\ Len(events) \in Nat
             /\ i \in 1..(Len(events) + 1)
  BY DEF IInv, TypeInv, TurnsLeft
<1>2. IInv /\ [Next]_vars => [Loops => TurnsLeft' < TurnsLeft]_vars
  <2> SUFFICES ASSUME IInv, IInv', Loops
               PROVE  TurnsLeft' < TurnsLeft
    BY NextOK
  <2> DEFINE long == Len(events)
  <2>1. /\ long \in Nat /\ i \in 1..(long + 1) /\ events \in Seq(Events)
    BY <1>1
  <2>2. CASE Scan
    <3>1. i' = i + 1 /\ Len(events') = long /\ phase = "scan" /\ phase' = "scan"
      BY <2>2 DEF Scan
    <3> QED
      BY <2>1, <3>1 DEF TurnsLeft
  <2>3. CASE ScanEnds
    <3>1. /\ i > long /\ i' = 1 /\ Len(events') = long
          /\ phase = "scan" /\ phase' = "splice"
      BY <2>3 DEF ScanEnds
    <3> QED
      BY <2>1, <3>1 DEF TurnsLeft
  <2>4. CASE Splice
    <3>1. /\ i <= long /\ phase = "splice" /\ phase' = "splice"
      BY <2>4 DEF Splice
    <3>2. CASE IsSurplus(events[i])
      <4>1. i' = i /\ events' = RemoveAt(events, i)
        BY <2>4, <3>2 DEF Splice
      <4>2. InOrder(events) /\ i \in 1..Len(events)
        BY <2>1, <3>1 DEF IInv, ArrayInOrder
      <4>3. Len(events') = long - 1
        BY <2>1, <4>1, <4>2, Removed, Zenon
      <4> QED
        BY <2>1, <3>1, <4>1, <4>3 DEF TurnsLeft
    <3>3. CASE ~IsSurplus(events[i])
      <4>1. i' = i + 1 /\ Len(events') = long
        BY <2>4, <3>3 DEF Splice
      <4> QED
        BY <2>1, <3>1, <4>1 DEF TurnsLeft
    <3> QED
      BY <3>2, <3>3
  <2>5. CASE SpliceEnds
    <3>1. phase = "splice" /\ phase' = "done" /\ i > long
      BY <2>5 DEF SpliceEnds
    <3> QED
      BY <2>1, <3>1 DEF TurnsLeft
  <2> QED
    BY <2>2, <2>3, <2>4, <2>5 DEF Loops
<1> QED
  BY <1>1, <1>2, Invariance, PTL DEF Spec
=============================================================================
