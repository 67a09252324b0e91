---------------------------- MODULE Transmitter ----------------------------
(***************************************************************************)
(* One call of Transmitter.transmit() or Transmitter.downloadStream()      *)
(* (src/src/transmitter.ts): the chain of requests that follows redirects, *)
(* and how the promise of the call settles.                                *)
(*                                                                         *)
(* The redirect count lives on the callback of the call, which every       *)
(* request of the chain shares, and so does onError: an error of an        *)
(* earlier request, whose unread response still holds a socket, reaches    *)
(* the same promise.                                                       *)
(***************************************************************************)
EXTENDS Naturals, Sequences

CONSTANTS MAX_REDIRECTS,  \* as in transmitter.ts
          Statuses,       \* the statuses servers answer with
          Locations,      \* what servers put in the header that redirects
          Urls            \* "valid" or not: what the call may be given

\* A Location header is missing, spelled in another case, or holds a URL or
\* a path.
ASSUME EnvironmentAssumption ==
  /\ MAX_REDIRECTS \in Nat
  /\ Statuses \subseteq 200..599
  /\ Locations \subseteq {"none", "location", "absolute", "relative"}
  /\ Urls \subseteq {"valid", "invalid"}

REDIRECT_STATUS_CODES == {301, 302, 303, 307, 308}
REDIRECT_GET_STATUS_CODES == {301, 302, 303}

VARIABLES
  call,           \* "transmit" or "downloadStream"
  url,            \* can the URL of the call be parsed?
  phase,          \* "new", "waiting", "reading" or "over"
  requests,       \* history: the method of every request made
  redirectCount,  \* callback[REDIRECT_COUNT]
  status,         \* of the response that reached the callback, or 0
  answer,         \* history: the Location that came with it
  outcome,        \* how the promise settled, or "pending"
  isCut,          \* history: did a response end early?
  isThrown        \* history: did a response callback throw?

vars == <<call, url, phase, requests, redirectCount, status, answer, outcome,
          isCut, isThrown>>

Settled == outcome # "pending"

\* resolve() and reject() of a promise that has settled do nothing.
SettleWith(result) == outcome' = IF Settled THEN outcome ELSE result

Method == requests[Len(requests)]

FirstMethod == IF call = "transmit" THEN "POST" ELSE "GET"

Init ==
  /\ call \in {"transmit", "downloadStream"}
  /\ url \in Urls
  /\ phase = "new"
  /\ requests = <<>>
  /\ redirectCount = 0
  /\ status = 0
  /\ answer = "none"
  /\ outcome = "pending"
  /\ isCut = FALSE
  /\ isThrown = FALSE

-----------------------------------------------------------------------------
\* request() for the URL of the call.  new URL() throws inside the promise's
\* executor, which rejects the promise with the error itself.
Start ==
  /\ phase = "new"
  /\ IF url = "valid"
     THEN /\ phase' = "waiting"
          /\ requests' = <<FirstMethod>>
          /\ UNCHANGED outcome
     ELSE /\ phase' = "over"
          /\ SettleWith("type error")
          /\ UNCHANGED requests
  /\ UNCHANGED <<call, url, redirectCount, status, answer, isCut, isThrown>>

\* Slip: the limit is one redirect further.
LimitReachedLate == redirectCount > MAX_REDIRECTS

LimitReached == redirectCount >= MAX_REDIRECTS

RedirectMethod(code) ==
  IF code \in REDIRECT_GET_STATUS_CODES THEN "GET" ELSE Method

\* A new request for the URL in the header.  A path is no URL: new URL()
\* throws in the response callback, where nothing catches it.
Follow(code, location) ==
  /\ redirectCount' = redirectCount + 1
  /\ IF location = "absolute"
     THEN /\ requests' = Append(requests, RedirectMethod(code))
          /\ UNCHANGED <<phase, isThrown>>
     ELSE /\ phase' = "over"
          /\ isThrown' = TRUE
          /\ UNCHANGED requests

\* Slip: the limit ends the chain and tells nobody.
RedirectUnreported(code, location) ==
  /\ phase = "waiting"
  /\ code \in REDIRECT_STATUS_CODES
  /\ location \in {"absolute", "relative"}
  /\ IF LimitReached
     THEN /\ phase' = "over"
          /\ UNCHANGED <<requests, redirectCount, isThrown>>
     ELSE Follow(code, location)
  /\ UNCHANGED <<call, url, status, answer, outcome, isCut>>

\* handleRedirectsCallback with a redirect; the header is looked up by its
\* exact name.
Redirect(code, location) ==
  /\ phase = "waiting"
  /\ code \in REDIRECT_STATUS_CODES
  /\ location \in {"absolute", "relative"}
  /\ IF LimitReached
     THEN /\ phase' = "over"
          /\ SettleWith("max redirects")
          /\ UNCHANGED <<requests, redirectCount, isThrown>>
     ELSE /\ Follow(code, location)
          /\ UNCHANGED outcome
  /\ UNCHANGED <<call, url, status, answer, isCut>>

\* handleRedirectsCallback passes any other response on: downloadStream()
\* settles at once, transmit() reads the body first.
Response(code, location) ==
  /\ phase = "waiting"
  /\ ~(code \in REDIRECT_STATUS_CODES /\ location \in {"absolute", "relative"})
  /\ status' = code
  /\ answer' = location
  /\ IF call = "downloadStream"
     THEN /\ phase' = "over"
          /\ SettleWith(IF code >= 400 THEN "status code" ELSE "stream")
     ELSE /\ phase' = "reading"
          /\ UNCHANGED outcome
  /\ UNCHANGED <<call, url, requests, redirectCount, isCut, isThrown>>

\* The "end" of the body: the promise resolves whatever the status is and
\* whether or not the body is JSON.
ResponseEnds ==
  /\ phase = "reading"
  /\ phase' = "over"
  /\ SettleWith("response")
  /\ UNCHANGED <<call, url, requests, redirectCount, status, answer, isCut,
                 isThrown>>

\* The server closes the connection in the middle of the body.  Only "data"
\* and "end" are listened to, so nothing happens.
ResponseCut ==
  /\ phase = "reading"
  /\ phase' = "over"
  /\ isCut' = TRUE
  /\ UNCHANGED <<call, url, requests, redirectCount, status, answer, outcome,
                 isThrown>>

\* The "error" event of the request under way, before or after its response.
RequestError ==
  /\ phase \in {"waiting", "reading"}
  /\ phase' = "over"
  /\ SettleWith("request error")
  /\ UNCHANGED <<call, url, requests, redirectCount, status, answer, isCut,
                 isThrown>>

\* The same of an earlier request of the chain; the chain goes on.
EarlierRequestError ==
  /\ phase \in {"waiting", "reading"}
  /\ Len(requests) > 1
  /\ SettleWith("request error")
  /\ UNCHANGED <<call, url, phase, requests, redirectCount, status, answer,
                 isCut, isThrown>>

SomeAnswer ==
  \/ \E code \in Statuses, l \in Locations : Redirect(code, l) \/ Response(code, l)
  \/ ResponseEnds
  \/ ResponseCut
  \/ RequestError

Over == phase = "over" /\ UNCHANGED vars

Next ==
  \/ Start
  \/ SomeAnswer
  \/ EarlierRequestError
  \/ Over

Spec == Init /\ [][Next]_vars

\* Every request is answered in some way, if only by an error.
FairSpec == Spec /\ WF_vars(Start) /\ WF_vars(SomeAnswer)

-----------------------------------------------------------------------------
(* Properties                                                              *)

TypeOK ==
  /\ call \in {"transmit", "downloadStream"}
  /\ url \in Urls
  /\ phase \in {"new", "waiting", "reading", "over"}
  /\ requests \in Seq({"GET", "POST"})
  /\ redirectCount \in 0..MAX_REDIRECTS
  /\ status \in Statuses \cup {0}
  /\ answer \in Locations \cup {"none"}
  /\ outcome \in {"pending", "response", "stream", "status code",
                  "request error", "max redirects", "type error"}
  /\ isCut \in BOOLEAN
  /\ isThrown \in BOOLEAN

\* Once a redirect turned the method into GET it stays GET: a 307 or 308 later
\* in the chain must not send the body again.
StaysGet ==
  \A m, n \in DOMAIN requests :
    m < n /\ requests[m] = "GET" => requests[n] = "GET"

\* A chain makes one request more than it follows redirects, gives up at the
\* limit and not before, and never returns to sending the body.
RedirectLimit ==
  /\ Len(requests) <= MAX_REDIRECTS + 1
  /\ outcome = "max redirects" => Len(requests) = MAX_REDIRECTS + 1
  /\ StaysGet

\* The call settles, redirect loops included, unless the response was cut off
\* or a redirect made the response callback throw.
SettlesUnlessCut == <>(Settled \/ isCut \/ isThrown)
=============================================================================
