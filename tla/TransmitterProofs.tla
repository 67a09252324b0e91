------------------------- MODULE TransmitterProofs -------------------------
(***************************************************************************)
(* Theorems about Transmitter for every redirect limit and every set of    *)
(* statuses and headers the servers may answer with.                       *)
(***************************************************************************)
EXTENDS Transmitter, Integers, TLAPS

\* The requests made so far are the first one and one per redirect followed;
\* the limit is reported only at the limit, and ends the call.
ChainInv ==
  /\ requests \in Seq({"GET", "POST"})
  /\ redirectCount \in 0..MAX_REDIRECTS
  /\ phase = "new" => requests = <<>> /\ redirectCount = 0
  /\ requests = <<>> => redirectCount = 0
  /\ phase \in {"waiting", "reading"} => Len(requests) = redirectCount + 1
  /\ Len(requests) \in {redirectCount, redirectCount + 1}
  /\ outcome = "max redirects" =>
       phase = "over" /\ Len(requests) = MAX_REDIRECTS + 1
  /\ StaysGet

LEMMA ChainInit == Init => ChainInv
<1> SUFFICES ASSUME Init PROVE ChainInv
  OBVIOUS
<1>1. 0 \in 0..MAX_REDIRECTS
  BY EnvironmentAssumption
<1>2. requests = <<>> /\ Len(requests) = 0 /\ DOMAIN requests = {}
  BY DEF Init
<1> QED
  BY <1>1, <1>2 DEF Init, ChainInv, StaysGet

\* A request added to the chain keeps the method GET if the chain has it.
LEMMA AppendStaysGet ==
  ASSUME ChainInv, requests # <<>>, NEW code
  PROVE  LET more == Append(requests, RedirectMethod(code)) IN
         /\ more \in Seq({"GET", "POST"})
         /\ Len(more) = Len(requests) + 1
         /\ \A m, n \in DOMAIN more :
              m < n /\ more[m] = "GET" => more[n] = "GET"
<1> DEFINE last == Len(requests)
           more == Append(requests, RedirectMethod(code))
<1>1. last \in Nat \ {0} /\ requests \in Seq({"GET", "POST"})
  <2>1. requests \in Seq({"GET", "POST"})
    BY DEF ChainInv
  <2> QED
    BY <2>1
<1>2. RedirectMethod(code) \in {"GET", "POST"}
  BY <1>1 DEF RedirectMethod, Method
<1>3. /\ more \in Seq({"GET", "POST"})
      /\ Len(more) = last + 1
      /\ more[last + 1] = RedirectMethod(code)
      /\ \A m \in 1..last : more[m] = requests[m]
  BY <1>1, <1>2
<1>4. \A m \in 1..last : requests[m] = "GET" => requests[last] = "GET"
  <2>1. \A m \in 1..last : m < last \/ m = last
    BY <1>1
  <2>2. last \in DOMAIN requests /\ DOMAIN requests = 1..last
    BY <1>1
  <2> QED
    BY <2>1, <2>2 DEF ChainInv, StaysGet
<1>5. ASSUME NEW m \in 1..(last + 1), NEW n \in 1..(last + 1), m < n,
             more[m] = "GET"
      PROVE  more[n] = "GET"
  <2> HIDE DEF last, more
  <2>1. m \in 1..last
    BY <1>1, <1>5
  <2>2. requests[m] = "GET"
    BY <1>3, <1>5, <2>1
  <2>3. CASE n \in 1..last
    <3>1. more[n] = requests[n] /\ n \in DOMAIN requests /\ m \in DOMAIN requests
      BY <1>1, <1>3, <2>1, <2>3 DEF last
    <3> QED
      BY <1>5, <2>2, <3>1 DEF ChainInv, StaysGet
  <2>4. CASE n = last + 1
    <3>1. RedirectMethod(code) = "GET"
      BY <1>4, <2>1, <2>2 DEF RedirectMethod, Method, last
    <3> QED
      BY <1>3, <2>4, <3>1
  <2> QED
    BY <1>1, <2>3, <2>4
<1>6. DOMAIN more = 1..(last + 1)
  BY <1>3, <1>1
<1> QED
  BY <1>3, <1>5, <1>6

LEMMA ChainStep == ChainInv /\ [Next]_vars => ChainInv'
<1> SUFFICES ASSUME ChainInv, [Next]_vars PROVE ChainInv'
  OBVIOUS
<1>1. CASE Start
  <2>1. CASE url = "valid"
    <3>1. /\ requests' = <<FirstMethod>> /\ phase' = "waiting"
          /\ UNCHANGED <<redirectCount, outcome>> /\ redirectCount = 0
          /\ phase = "new"
      BY <1>1, <2>1 DEF Start, ChainInv
    <3>2. FirstMethod \in {"GET", "POST"}
      BY DEF FirstMethod
    <3>3. /\ requests' \in Seq({"GET", "POST"})
          /\ Len(requests') = 1 /\ requests' # <<>>
          /\ DOMAIN requests' = {1}
      BY <3>1, <3>2
    <3>4. StaysGet'
      BY <3>3 DEF StaysGet
    <3>5. redirectCount' = 0 /\ 0 \in 0..MAX_REDIRECTS
      BY <3>1, EnvironmentAssumption
    <3>6. outcome # "max redirects"
      BY <3>1 DEF ChainInv
    <3>7. Len(requests') = redirectCount' + 1
      BY <3>3, <3>5
    <3>8. redirectCount' \in 0..MAX_REDIRECTS
      BY <3>5
    <3>9. phase' = "waiting" /\ outcome' # "max redirects"
      BY <3>1, <3>6
    <3> QED
      BY <3>3, <3>4, <3>7, <3>8, <3>9 DEF ChainInv
  <2>2. CASE url # "valid"
    BY <1>1, <2>2 DEF Start, ChainInv, StaysGet, SettleWith
  <2> QED
    BY <2>1, <2>2
<1>2. ASSUME NEW code \in Statuses, NEW l \in Locations, Redirect(code, l)
      PROVE  ChainInv'
  <2>1. Len(requests) = redirectCount + 1 /\ phase = "waiting"
    BY <1>2 DEF Redirect, ChainInv
  <2>2. redirectCount \in 0..MAX_REDIRECTS /\ MAX_REDIRECTS \in Nat
    BY EnvironmentAssumption DEF ChainInv
  <2>5. requests # <<>>
    <3>1. Len(requests) # 0
      BY <2>1, <2>2
    <3> QED
      BY <3>1
  <2>3. CASE LimitReached
    <3>1. redirectCount = MAX_REDIRECTS
      BY <2>2, <2>3 DEF LimitReached
    <3> QED
      BY <1>2, <2>1, <2>3, <3>1
         DEF Redirect, SettleWith, ChainInv, StaysGet
  <2>4. CASE ~LimitReached
    <3>1. /\ redirectCount' = redirectCount + 1
          /\ redirectCount' \in 0..MAX_REDIRECTS
          /\ outcome' = outcome
          /\ phase = "waiting"
      BY <1>2, <2>2, <2>4 DEF Redirect, Follow, LimitReached
    <3>2. CASE l = "absolute"
      <4>1. requests' = Append(requests, RedirectMethod(code))
              /\ phase' = phase
        BY <1>2, <2>4, <3>2 DEF Redirect, Follow
      <4>2. /\ requests' \in Seq({"GET", "POST"})
            /\ Len(requests') = Len(requests) + 1
            /\ StaysGet'
        BY <2>5, <4>1, AppendStaysGet DEF StaysGet
      <4>3. requests' # <<>> /\ Len(requests') = redirectCount' + 1
        BY <2>1, <2>2, <3>1, <4>2, <4>1
      <4> QED
        BY <3>1, <4>1, <4>2, <4>3 DEF ChainInv
    <3>3. CASE l # "absolute"
      <4>1. requests' = requests /\ phase' = "over"
        BY <1>2, <2>4, <3>3 DEF Redirect, Follow
      <4> QED
        BY <2>1, <2>2, <3>1, <4>1 DEF ChainInv, StaysGet
    <3> QED
      BY <3>2, <3>3
  <2> QED
    BY <2>3, <2>4
<1>3. CASE /\ UNCHANGED <<requests, redirectCount>>
           /\ \/ UNCHANGED <<phase, outcome>>
              \/ /\ phase \in {"waiting", "reading"}
                 /\ phase' \in {"waiting", "reading", "over"}
                 /\ outcome' # "max redirects" \/ outcome' = outcome
  BY <1>3 DEF ChainInv, StaysGet
<1>4. ASSUME NEW code \in Statuses, NEW l \in Locations, Response(code, l)
      PROVE  ChainInv'
  BY <1>3, <1>4 DEF Response, SettleWith
<1>5. ASSUME ResponseEnds \/ ResponseCut \/ RequestError
               \/ EarlierRequestError \/ Over \/ UNCHANGED vars
      PROVE  ChainInv'
  BY <1>3, <1>5 DEF ResponseEnds, ResponseCut, RequestError,
                    EarlierRequestError, Over, vars, SettleWith
<1> QED
  BY <1>1, <1>2, <1>4, <1>5 DEF Next, SomeAnswer

LEMMA CountBound ==
  ASSUME NEW limit \in Nat, NEW count \in 0..limit,
         NEW length \in {count, count + 1}
  PROVE  length <= limit + 1
OBVIOUS

\* The chain of requests is bounded, reports the limit at the limit only, and
\* never returns to POST, whatever the servers answer.
THEOREM ChainIsBounded == Spec => []RedirectLimit
<1>1. ChainInv => RedirectLimit
  <2> SUFFICES ASSUME ChainInv PROVE RedirectLimit
    OBVIOUS
  <2>1. redirectCount \in 0..MAX_REDIRECTS
          /\ Len(requests) \in {redirectCount, redirectCount + 1}
    BY DEF ChainInv
  <2>2. Len(requests) <= MAX_REDIRECTS + 1
    BY <2>1, EnvironmentAssumption, CountBound
  <2> QED
    BY <2>2 DEF ChainInv, RedirectLimit
<1> QED
  BY ChainInit, ChainStep, <1>1, PTL DEF Spec

-----------------------------------------------------------------------------
(* The end of a call                                                       *)

LEMMA ChainHolds == Spec => []ChainInv
BY ChainInit, ChainStep, PTL DEF Spec

\* The type of every variable.
THEOREM CallIsTyped == Spec => []TypeOK
<1>1. Init => TypeOK
  <2> SUFFICES ASSUME Init PROVE TypeOK
    OBVIOUS
  <2>1. requests \in Seq({"GET", "POST"}) /\ redirectCount \in 0..MAX_REDIRECTS
    BY ChainInit DEF ChainInv
  <2> QED
    BY <2>1 DEF Init, TypeOK
<1>2. TypeOK /\ ChainInv' /\ [Next]_vars => TypeOK'
  <2> SUFFICES ASSUME TypeOK, ChainInv', [Next]_vars PROVE TypeOK'
    OBVIOUS
  <2>1. requests' \in Seq({"GET", "POST"}) /\ redirectCount' \in 0..MAX_REDIRECTS
    BY DEF ChainInv
  <2>2. CASE Start
    BY <2>1, <2>2 DEF TypeOK, Start, SettleWith
  <2>3. ASSUME NEW code \in Statuses, NEW l \in Locations, Redirect(code, l)
        PROVE  TypeOK'
    BY <2>1, <2>3 DEF TypeOK, Redirect, Follow, SettleWith
  <2>4. ASSUME NEW code \in Statuses, NEW l \in Locations, Response(code, l)
        PROVE  TypeOK'
    BY <2>1, <2>4 DEF TypeOK, Response, SettleWith
  <2>5. CASE ResponseEnds \/ ResponseCut \/ RequestError \/ EarlierRequestError
    BY <2>1, <2>5
       DEF TypeOK, ResponseEnds, ResponseCut, RequestError, EarlierRequestError,
           SettleWith
  <2>6. CASE Over \/ UNCHANGED vars
    BY <2>6 DEF TypeOK, Over, vars
  <2> QED
    BY <2>2, <2>3, <2>4, <2>5, <2>6 DEF Next, SomeAnswer
<1> QED
  BY <1>1, <1>2, ChainHolds, PTL DEF Spec

\* When nothing of a call is left, its caller was told, or is one of those that
\* wait for ever: the response was cut off, or a redirect threw.
Told == phase = "over" => Settled \/ isCut \/ isThrown

\* No path through the redirects ends a call in silence, but for the two known
\* ones: what SettlesUnlessCut says of a call that gets answers.
THEOREM NoSilentEnd == Spec => []Told
<1>1. Init => Told
  BY DEF Init, Told
<1>2. Told /\ [Next]_vars => Told'
  <2> SUFFICES ASSUME Told, [Next]_vars PROVE Told'
    OBVIOUS
  <2>1. ASSUME NEW code \in Statuses, NEW l \in Locations, Redirect(code, l)
        PROVE  Told'
    BY <2>1 DEF Told, Redirect, Follow, SettleWith, Settled
  <2>2. ASSUME NEW code \in Statuses, NEW l \in Locations, Response(code, l)
        PROVE  Told'
    BY <2>2 DEF Told, Response, SettleWith, Settled
  <2>3. CASE Start \/ ResponseEnds \/ ResponseCut \/ RequestError
    BY <2>3 DEF Told, Start, ResponseEnds, ResponseCut, RequestError, SettleWith,
                Settled
  <2>4. CASE EarlierRequestError \/ Over \/ UNCHANGED vars
    BY <2>4 DEF Told, EarlierRequestError, Over, vars, SettleWith, Settled
  <2> QED
    BY <2>1, <2>2, <2>3, <2>4 DEF Next, SomeAnswer
<1> QED
  BY <1>1, <1>2, PTL DEF Spec

\* The answers a call can still take: one per redirect that is left, one to the
\* last request and the end of its body.
AnswersLeft ==
  CASE phase = "new" -> MAX_REDIRECTS + 3
    [] phase = "waiting" -> MAX_REDIRECTS + 2 - redirectCount
    [] phase = "reading" -> 1
    [] OTHER -> 0

\* Whatever the servers answer, redirects in a circle included, each answer
\* brings the call nearer to its end.
THEOREM EveryAnswerCounts ==
  Spec => [](AnswersLeft \in Nat)
            /\ [][Start \/ SomeAnswer => AnswersLeft' < AnswersLeft]_vars
<1>1. ChainInv => /\ AnswersLeft \in Nat
                 /\ redirectCount \in 0..MAX_REDIRECTS /\ MAX_REDIRECTS \in Nat
  <2> SUFFICES ASSUME ChainInv
               PROVE  /\ AnswersLeft \in Nat
                      /\ redirectCount \in 0..MAX_REDIRECTS
                      /\ MAX_REDIRECTS \in Nat
    OBVIOUS
  <2>1. redirectCount \in 0..MAX_REDIRECTS /\ MAX_REDIRECTS \in Nat
    BY EnvironmentAssumption DEF ChainInv
  <2> QED
    BY <2>1 DEF AnswersLeft
<1>2. ChainInv => [Start \/ SomeAnswer => AnswersLeft' < AnswersLeft]_vars
  <2> SUFFICES ASSUME ChainInv, Start \/ SomeAnswer
               PROVE  AnswersLeft' < AnswersLeft
    OBVIOUS
  <2>1. redirectCount \in 0..MAX_REDIRECTS /\ MAX_REDIRECTS \in Nat
    BY <1>1
  <2>2. CASE Start
    <3>1. /\ phase = "new" /\ phase' \in {"waiting", "over"}
          /\ redirectCount' = redirectCount
      BY <2>2 DEF Start
    <3> QED
      BY <2>1, <3>1 DEF AnswersLeft
  <2>3. ASSUME NEW code \in Statuses, NEW l \in Locations, Redirect(code, l)
        PROVE  AnswersLeft' < AnswersLeft
    <3>1. /\ phase = "waiting"
          /\ \/ phase' = "over"
             \/ phase' = "waiting" /\ redirectCount' = redirectCount + 1
      BY <2>3 DEF Redirect, Follow
    <3> QED
      BY <2>1, <3>1 DEF AnswersLeft
  <2>4. ASSUME NEW code \in Statuses, NEW l \in Locations, Response(code, l)
        PROVE  AnswersLeft' < AnswersLeft
    <3>1. phase = "waiting" /\ phase' \in {"over", "reading"}
      BY <2>4 DEF Response
    <3> QED
      BY <2>1, <3>1 DEF AnswersLeft
  <2>5. CASE ResponseEnds \/ ResponseCut \/ RequestError
    <3>1. phase \in {"waiting", "reading"} /\ phase' = "over"
      BY <2>5 DEF ResponseEnds, ResponseCut, RequestError
    <3> QED
      BY <2>1, <3>1 DEF AnswersLeft
  <2> QED
    BY <2>2, <2>3, <2>4, <2>5 DEF SomeAnswer
<1> QED
  BY <1>1, <1>2, ChainHolds, PTL DEF Spec
=============================================================================
