------------------------------ MODULE Tracing ------------------------------
(***************************************************************************)
(* Spans and errors on their way to the agent: sendError() and setError()  *)
(* of src/src/helpers.ts, the span processor, and the copies of            *)
(* @opentelemetry/api a process loads (src/src/otel_api_copies.ts), which  *)
(* the checks under src/script look for in an installed tree.              *)
(*                                                                         *)
(* OpenTelemetry keeps one tracer provider for a process, under the        *)
(* version of the copy that registered it.  A copy with a higher minor     *)
(* version does not read it, and its spans are discarded.                  *)
(***************************************************************************)
EXTENDS Naturals, SequencesExt

CONSTANTS Trees,       \* the installed trees: sets of packages
          Api,         \* the name of @opentelemetry/api
          OpenTelemetry,  \* the names that begin with "@opentelemetry/"
          Allowed,     \* otel_duplicates_allowed.json: [package, cause]
          None,        \* no span, no version, no cause
          MaxClients,  \* bound: clients constructed
          MaxSpans,    \* bound: spans recorded
          MaxErrors    \* bound: errors set or sent

\* A path is not empty and leads to one package.  Its last directory may have
\* another name than the package, when that was installed under an alias.
ASSUME TreesAssumption ==
  \A packages \in Trees :
    /\ IsFiniteSet(packages)
    /\ \A p \in packages : /\ p.path \in Seq(STRING) \ {<<>>}
                           /\ \A i \in DOMAIN p.path : p.path[i] # None
                           /\ p.version \in Nat \X Nat \X Nat
    /\ \A p, q \in packages : p.path = q.path => p = q
ASSUME TracingBoundsAssumption ==
  MaxClients \in Nat /\ MaxSpans \in Nat /\ MaxErrors \in Nat

-----------------------------------------------------------------------------
(* otel_packages.js and check_otel_duplicates.js.  A package has the name   *)
(* and the version of its package.json, and its path: the directories it is *)
(* nested in, and its own last.                                             *)

\* findPackages(root), by the name in package.json.
findPackages(tree, name) == {p \in tree : p.name = name}

\* The names that findDuplicates() looks at.
Names(tree) == {p.name : p \in tree} \cap OpenTelemetry

Versions(copies) == {p.version : p \in copies}

\* Slip: only the major version is compared.
Major(version) == <<version[1]>>

\* The major and minor version: what the API compares.
Minor(version) == <<version[1], version[2]>>

\* The directory of the dependency a copy is nested in, or None at the top of
\* the tree.
causeOf(p) == IF Len(p.path) = 1 THEN None ELSE p.path[Len(p.path) - 1]

\* The version at the top of the tree, or None.  When aliases have put several
\* copies there, it is that of the first in the order of the directory.
Baseline(copies) ==
  IF \E p \in copies : causeOf(p) = None
  THEN (CHOOSE p \in copies : causeOf(p) = None).version
  ELSE None

\* Slip: a package that is nowhere at the top of the tree is left out.
findDuplicatesHoisted(tree) ==
  {p \in tree : LET base == Baseline(findPackages(tree, p.name)) IN
                /\ p.name \in OpenTelemetry
                /\ base # None /\ p.version # base /\ causeOf(p) # None}

\* findDuplicates(): of an OpenTelemetry package with more than one version, the
\* copies that are not the baseline, each with the dependency it is nested in.
findDuplicates(tree) ==
  UNION {LET copies == findPackages(tree, name) IN
         IF Cardinality(Versions(copies)) < 2 THEN {}
         ELSE {p \in copies : p.version # Baseline(copies) /\ causeOf(p) # None}
         : name \in Names(tree)}

\* Does the check pass as far as the API goes?  It is never allowed to differ.
checkApi(tree) ==
  LET copies == findPackages(tree, Api) IN
  /\ copies # {}
  /\ Cardinality({Minor(version) : version \in Versions(copies)}) < 2

\* check(root): a duplicate passes when the allow list has it with its cause.
check(tree) ==
  /\ checkApi(tree)
  /\ \A p \in findDuplicates(tree) :
       p.name # Api => [package |-> p.name, cause |-> causeOf(p)] \in Allowed

-----------------------------------------------------------------------------
VARIABLES
  tree,        \* what is installed
  loaded,      \* require.cache: the copies of the API that are loaded
  registered,  \* the version that registered the tracer provider, or None
  hasWarned,   \* hasWarned of otel_api_copies.ts
  built,       \* history: clients constructed
  spans,       \* the recorded spans, in order
  stack,       \* the running code: the contexts it is in, innermost last
  later,       \* the contexts of asynchronous work that is still to run
  thrown,      \* history: the errors set or sent, in order
  agent,       \* history: the spans the agent was given, with their errors
  dropped      \* history: the copies of which spans were discarded

apiVars == <<tree, loaded, registered, hasWarned, built, dropped>>
spanVars == <<spans, stack, later, thrown, agent>>
vars == <<apiVars, spanVars>>

Init ==
  /\ tree \in Trees
  /\ loaded = {}
  /\ registered = None
  /\ hasWarned = FALSE
  /\ built = 0
  /\ spans = <<>>
  /\ stack = <<>>
  /\ later = {}
  /\ thrown = <<>>
  /\ agent = <<>>
  /\ dropped = {}

-----------------------------------------------------------------------------
(* The copies of the API                                                   *)

\* The copy that this integration requires: the one nested in it if there is
\* one, and else the one at the top of the tree.
Own(p) ==
  LET nested == <<"@appsignal/nodejs", Api>> IN
  p.path = IF \E q \in tree : q.path = nested THEN nested ELSE <<Api>>

\* External: the application or a dependency requires its copy.
Load(p) ==
  /\ p \in findPackages(tree, Api) \ loaded
  /\ loaded' = loaded \cup {p}
  /\ UNCHANGED <<tree, registered, hasWarned, built, dropped, spanVars>>

\* duplicateOpenTelemetryApiWarning() of the copies loaded by now.
Duplicates == Cardinality({Minor(version) : version \in Versions(loaded)}) >= 2

\* An active client: initOpenTelemetry(), which registers the provider once,
\* and warnAboutDuplicateOpenTelemetryApi().
Construct ==
  /\ built < MaxClients
  /\ built' = built + 1
  /\ \E p \in loaded :
       Own(p) /\ registered' = IF registered = None THEN p.version ELSE registered
  /\ hasWarned' = (hasWarned \/ Duplicates)
  /\ UNCHANGED <<tree, loaded, dropped, spanVars>>

\* "a copy only reads that global when its own minor version is no higher than
\* the minor version that wrote it".
Reads(version) ==
  /\ registered # None
  /\ version[1] = registered[1]
  /\ version[2] <= registered[2]

-----------------------------------------------------------------------------
(* Spans: 0 is no span                                                     *)

Active == IF stack = <<>> THEN 0 ELSE Last(stack).span

\* Begins an active span with these errors.
Begin(parent, kind, errors) ==
  /\ spans' = Append(spans, [parent |-> parent, kind |-> kind, open |-> TRUE,
                             errors |-> errors])
  /\ stack' = Append(stack, [span |-> Len(spans) + 1, kind |-> kind])

\* An instrumentation runs code in a span, with the API it has loaded.
StartSpan(p) ==
  /\ p \in loaded
  /\ Reads(p.version)
  /\ Len(spans) < MaxSpans
  /\ Begin(Active, "library", <<>>)
  /\ UNCHANGED <<apiVars, later, thrown, agent>>

\* The tracer of a copy that cannot read the provider discards its spans.
SpanDiscarded(p) ==
  /\ p \in loaded
  /\ registered # None
  /\ ~Reads(p.version)
  /\ dropped' = dropped \cup {p}
  /\ UNCHANGED <<tree, loaded, registered, hasWarned, built, spanVars>>

\* Slip: only the last exception of a span is reported.
onEndLast(s) ==
  agent' = Append(agent, [span |-> s, errors |->
    IF spans[s].errors = <<>> THEN <<>> ELSE <<Last(spans[s].errors)>>])

\* errors.forEach() with a setError() of those that are kept.
Filter(errors, kept) ==
  LET filtered[i \in 0..Len(errors)] ==
        IF i = 0 THEN <<>>
        ELSE IF errors[i] \in kept THEN Append(filtered[i - 1], errors[i])
        ELSE filtered[i - 1] IN
  filtered[Len(errors)]

\* onEnd(): of the errors of the span, those with a stack trace.
onEnd(s) ==
  LET traced == {e \in DOMAIN thrown : thrown[e].stacktrace} IN
  agent' = Append(agent, [span |-> s, errors |-> Filter(spans[s].errors, traced)])

End(s) ==
  /\ spans' = [spans EXCEPT ![s].open = FALSE]
  /\ onEnd(s)

\* An instrumentation ends its span, in its code or long after it.
EndSpan(s) ==
  /\ spans[s].kind = "library"
  /\ spans[s].open
  /\ End(s)
  /\ UNCHANGED <<apiVars, stack, later, thrown>>

\* Code that ran in a span, or resumed in one, returns.
Leave ==
  /\ stack # <<>>
  /\ Last(stack).kind # "sendError"
  /\ stack' = Front(stack)
  /\ UNCHANGED <<apiVars, spans, later, thrown, agent>>

\* The running code starts asynchronous work, which keeps its context.
StartWork ==
  /\ Active # 0
  /\ later' = later \cup {Active}
  /\ UNCHANGED <<apiVars, spans, stack, thrown, agent>>

\* The work goes on once nothing else runs: its span may have ended.
Resume(s) ==
  /\ stack = <<>>
  /\ stack' = <<[span |-> s, kind |-> "resumed"]>>
  /\ later' = later \ {s}
  /\ UNCHANGED <<apiVars, spans, thrown, agent>>

-----------------------------------------------------------------------------
(* helpers.ts                                                              *)

Throw(sent, stacktrace, s) ==
  /\ Len(thrown) < MaxErrors
  /\ thrown' = Append(thrown, [sent |-> sent, stacktrace |-> stacktrace, span |-> s])

\* setError(error, span): recordException() on the span that is given, or else on
\* the active one, which does nothing to a span that has ended.  Without either
\* the error is dropped, as it is on a span that was discarded.
setError(stacktrace, given) ==
  LET s == IF given # 0 THEN given ELSE Active
      open == s # 0 /\ spans[s].open IN
  /\ Throw(FALSE, stacktrace, IF open THEN s ELSE 0)
  /\ spans' = IF open
              THEN [spans EXCEPT ![s].errors = Append(@, Len(thrown) + 1)]
              ELSE spans
  /\ UNCHANGED <<apiVars, stack, later, agent>>

\* sendError(error, fn): a root span with the error, in which fn runs.
sendError(stacktrace) ==
  /\ registered # None
  /\ Len(spans) < MaxSpans
  /\ Throw(TRUE, stacktrace, Len(spans) + 1)
  /\ Begin(0, "sendError", <<Len(thrown) + 1>>)
  /\ UNCHANGED <<apiVars, later, agent>>

\* The same without a provider: there is no active span to set the error on.
sendErrorDropped(stacktrace) ==
  /\ registered = None
  /\ Throw(TRUE, stacktrace, 0)
  /\ UNCHANGED <<apiVars, spans, stack, later, agent>>

\* Slip: the span is ended only when fn returns, not when it throws.
FinallyUnlessThrown ==
  /\ stack # <<>>
  /\ Last(stack).kind = "sendError"
  /\ stack' = Front(stack)
  /\ \/ End(Last(stack).span)
     \/ UNCHANGED <<spans, agent>>
  /\ UNCHANGED <<apiVars, later, thrown>>

\* fn returns or throws: span.end().
Finally ==
  /\ stack # <<>>
  /\ Last(stack).kind = "sendError"
  /\ stack' = Front(stack)
  /\ End(Last(stack).span)
  /\ UNCHANGED <<apiVars, later, thrown>>

-----------------------------------------------------------------------------
Next ==
  \/ \E p \in findPackages(tree, Api) : Load(p) \/ StartSpan(p) \/ SpanDiscarded(p)
  \/ Construct
  \/ \E s \in DOMAIN spans : EndSpan(s)
  \/ \E s \in later : Resume(s)
  \/ Leave
  \/ StartWork
  \/ \E stacktrace \in BOOLEAN :
       \/ \E given \in {0} \cup DOMAIN spans : setError(stacktrace, given)
       \/ sendError(stacktrace)
       \/ sendErrorDropped(stacktrace)
  \/ Finally

Spec == Init /\ [][Next]_vars

\* Code that was called returns or throws: nothing is owed but that.
FairSpec == Spec /\ WF_vars(Leave \/ Finally)

-----------------------------------------------------------------------------
\* A process of a tree that passes the check, even for the API alone, reports
\* every span and is never warned, whatever it loads and in what order.
CheckedTreesReport ==
  checkApi(tree) => dropped = {} /\ ~hasWarned

\* Is this copy on the allow list, with the dependency it is nested in?
IsAllowed(p) == [package |-> p.name, cause |-> causeOf(p)] \in Allowed

\* The copies that the check is about: of one OpenTelemetry package other than
\* the API, and of two versions.
Duplicated(p, q) ==
  p.name = q.name /\ p.name \in OpenTelemetry \ {Api} /\ p.version # q.version

\* Do aliases put two versions of the package at the top of the tree?
Aliased(name) ==
  \E p, q \in findPackages(tree, name) :
    causeOf(p) = None /\ causeOf(q) = None /\ p.version # q.version

\* When two copies of an OpenTelemetry package differ in their version, the check
\* fails unless the allow list has one of them with the dependency it is nested
\* in, or one of them is at the top of a tree that has several versions there.
DuplicatesAccounted ==
  check(tree) =>
    \A p, q \in tree :
      Duplicated(p, q) =>
        \/ IsAllowed(p) \/ IsAllowed(q)
        \/ None \in {causeOf(p), causeOf(q)} /\ Aliased(p.name)

\* A span is reported once, and with exactly the errors that were set on it while
\* it was open, because it was the active span or the one that was given, or that
\* were sent with it, in that order, if they have a stack trace: an error that is
\* sent is not one of the request around it, and asynchronous work adds none to a
\* span that has ended.
ErrorsWhereTheyBelong ==
  /\ \A j, k \in DOMAIN agent : agent[j].span = agent[k].span => j = k
  /\ \A k \in DOMAIN agent :
       LET errors == agent[k].errors IN
       /\ ToSet(errors) = {e \in DOMAIN thrown :
                             thrown[e].span = agent[k].span /\ thrown[e].stacktrace}
       /\ \A i, j \in DOMAIN errors : i < j => errors[i] < errors[j]

\* An error that is sent when there is a provider and that has a stack trace is
\* reported, whatever fn does.
SentErrorsReported ==
  \A e \in 1 .. MaxErrors :
    (e \in DOMAIN thrown /\ thrown[e].sent /\ thrown[e].stacktrace /\ thrown[e].span # 0)
      ~> \E k \in DOMAIN agent : e \in Range(agent[k].errors)

\* "Warn when your application loads more than one version of
\* @opentelemetry/api" (CHANGELOG.md): nothing is discarded without a warning.
DiscardedAfterWarning == dropped # {} => hasWarned
=============================================================================
