------------------------------ MODULE Diagnose ------------------------------
(***************************************************************************)
(* The diagnose tool: bin/diagnose, cli/diagnose.ts and diagnose.ts over   *)
(* the configuration, the extension and the transmitter.                   *)
(*                                                                         *)
(* The tool loads the client file of the application to learn its          *)
(* configuration, has the push API key validated, has the agent diagnose   *)
(* itself from the environment of the process, prints what it found, and   *)
(* sends it when the user agrees.  The file is the application's: it may   *)
(* construct several clients, none, or one after it was loaded.            *)
(***************************************************************************)
EXTENDS Configuration, SequencesExt

CONSTANTS Processes,  \* the processes the tool may be: see ProcessesAssumption
          Paths,      \* where Configuration.clientFilePaths() looks, in order
          URLs,       \* the strings that new URL() can parse
          Requestable,  \* those with the protocol http: or https:
          None        \* nothing, undefined

ASSUME ProcessesAssumption ==
  \A p \in Processes :
    /\ p.argv \subseteq {"--no-send-report", "--send-report"}
    /\ p.custom \in DOMAIN p.files \cup {None}   \* the argument of --config
    \* The clients a file constructs while it is loaded and after that.
    /\ \A f \in DOMAIN p.files : \A part \in {"clients", "late"} :
         p.files[f][part] \in Seq(ToSet(p.files[f][part]))
    /\ DOMAIN p.env \subseteq ENV_TO_KEY_MAPPING
    /\ p.onHeroku \in BOOLEAN
    /\ p.isLoaded \in BOOLEAN                    \* Extension.isLoaded

ASSUME PathsAssumption == Paths \in Seq(ToSet(Paths))

ASSUME URLsAssumption == Requestable \subseteq URLs

\* No configuration of a client that a file constructs is None, and no answer.
ASSUME NoneAssumption ==
  /\ \A p \in Processes : \A f \in DOMAIN p.files : \A part \in {"clients", "late"} :
       None \notin {Sources("production", p.onHeroku, p.env, options) :
                       options \in ToSet(p.files[f][part])}
  /\ None \notin {"", "y", "Y"}

VARIABLES
  pc,          \* what the tool waits for, or how it ended
  process,     \* the process: arguments, environment, files
  diagnosing,  \* is process.env._APPSIGNAL_DIAGNOSE set?
  loading,     \* the clients that the file has yet to construct
  client,      \* the configuration of Client.client, or None
  config,      \* DiagnoseTool.#config
  privateEnv,  \* the variables of PRIVATE_ENV_MAPPING, by option
  made,        \* history: how many configurations were made
  late,        \* the clients the application constructs later, and has yet to
  started,     \* has extension.start() been called?
  report,      \* the data of generate()
  readline,    \* is standard input being read?
  answer,      \* history: what the user answered
  met,         \* history: what came of validating and of sending
  sent         \* history: the report that was sent, and under which key

fileVars == <<diagnosing, loading>>
clientVars == <<client, privateEnv, made, started>>
toolVars == <<process, config, report>>
endVars == <<readline, answer, met, sent>>
vars == <<pc, fileVars, clientVars, toolVars, late, endVars>>

-----------------------------------------------------------------------------
\* new Configuration(options)
ConfigurationOf(options) ==
  Sources("production", process.onHeroku, process.env, options)

WrittenAfter(privateEnv0, options) ==
  WritePrivateConfig(privateEnv0, Merge(ConfigurationOf(options)), process.writable)

NoOptions == <<>>

\* Does the constructor of Client get as far as extension.start()?
Starts(options) ==
  ~diagnosing /\ IsValid(Merge(ConfigurationOf(options))) /\ process.isLoaded

\* The constructor of Client: its configuration is written to the environment,
\* and the client takes the place of the one before.
Construct(options) ==
  /\ client' = ConfigurationOf(options)
  /\ privateEnv' = WrittenAfter(privateEnv, options)
  /\ made' = made + 1
  /\ started' = (started \/ Starts(options))

\* The usual places in which there is a client file.
Existing == {i \in DOMAIN Paths : Paths[i] \in DOMAIN process.files}

\* clientFilePath(): a file that is named is loaded whether it exists or not,
\* and a file that does not exist constructs nothing.
ClientFile ==
  IF process.custom # None THEN process.files[process.custom]
  ELSE IF Existing = {} THEN [clients |-> <<>>, late |-> <<>>]
  ELSE process.files[Paths[Min(Existing)]]

Init ==
  /\ pc = "started"
  /\ process \in Processes
  /\ diagnosing = FALSE
  /\ loading = ClientFile.clients
  /\ client = None
  /\ config = None
  /\ privateEnv = <<>>
  /\ made = 0
  /\ late = ClientFile.late
  /\ started = FALSE
  /\ report = None
  /\ readline = FALSE
  /\ answer = None
  /\ met = {}
  /\ sent = None

\* getConfigObject() begins to load the client file, if there is one, with
\* _APPSIGNAL_DIAGNOSE set.
Load ==
  /\ pc = "started"
  /\ pc' = "loading"
  /\ diagnosing' = (process.custom # None \/ Existing # {})
  /\ UNCHANGED <<loading, clientVars, toolVars, late, endVars>>

\* The file constructs a client.  One that throws has constructed some.
ConstructClient ==
  /\ pc = "loading"
  /\ loading # <<>>
  /\ Construct(Head(loading))
  /\ loading' = Tail(loading)
  /\ UNCHANGED <<pc, diagnosing, toolVars, late, endVars>>

\* Slip: the variable outlives the loading of the file.
ConfigureStillDiagnosing ==
  /\ pc = "loading"
  /\ loading = <<>>
  /\ pc' = "validating"
  /\ config' = IF client # None THEN client ELSE ConfigurationOf(NoOptions)
  /\ IF client # None THEN UNCHANGED <<privateEnv, made>>
     ELSE privateEnv' = WrittenAfter(privateEnv, NoOptions) /\ made' = made + 1
  /\ UNCHANGED <<fileVars, process, client, started, late, report, endVars>>

\* The rest of getConfigObject(), and generate() up to its first await: without
\* a client, the configuration is that of the environment.
Configure ==
  /\ pc = "loading"
  /\ loading = <<>>
  /\ pc' = "validating"
  /\ diagnosing' = FALSE
  /\ config' = IF client # None THEN client ELSE ConfigurationOf(NoOptions)
  /\ IF client # None THEN UNCHANGED <<privateEnv, made>>
     ELSE privateEnv' = WrittenAfter(privateEnv, NoOptions) /\ made' = made + 1
  /\ UNCHANGED <<loading, process, client, started, late, report, endVars>>

\* A client that is constructed in a callback, after the file was loaded.
LateClient ==
  /\ late # <<>>
  /\ pc \notin {"started", "loading", "crashed"}
  /\ Construct(Head(late))
  /\ late' = Tail(late)
  /\ UNCHANGED <<pc, fileVars, toolVars, endVars>>

-----------------------------------------------------------------------------
Endpoint == Read(Merge(config), "endpoint").text

\* The outcome of validatePushApiKey(), rejected or not.  An endpoint that no
\* URL can be made of is a TypeError, and one of another protocol fails before
\* anything is sent.  See RedirectThrows for what it does not survive.
Verdicts ==
  CASE Endpoint \in Requestable -> {"valid", "invalid", "failed to validate"}
    [] Endpoint \in URLs \ Requestable -> {"failed to validate"}
    [] OTHER -> {"type error"}

\* extension.diagnose(): the agent has the environment of the process; the
\* stub of an extension that is not loaded diagnoses nothing.
AgentReport == IF process.isLoaded THEN privateEnv ELSE None

\* What generate() returns, and made is how it came about.
Report(verdict) ==
  [options |-> Merge(config), sources |-> config, agent |-> AgentReport,
   validation |-> verdict, made |-> made]

\* Slip: --send-report is looked at first.
FlagsSendFirst ==
  CASE "--send-report" \in process.argv -> "sending"
    [] "--no-send-report" \in process.argv /\ "--send-report" \notin process.argv -> "done"
    [] OTHER -> "asking"

\* What run() does when everything is printed.
Flags ==
  CASE "--no-send-report" \in process.argv -> "done"
    [] "--send-report" \in process.argv /\ "--no-send-report" \notin process.argv -> "sending"
    [] OTHER -> "asking"

\* optionsObject(): only the options that have a name in the report.
OptionsObject(options) ==
  [k \in DOMAIN options \cap JS_TO_RUBY_MAPPING |-> options[k]]

\* sendReport(): the transmitter is that of the client of the process, or of
\* the configuration of the environment.
Submit ==
  LET by == IF client = None THEN ConfigurationOf(NoOptions) ELSE client IN
  sent' = [report |-> [report' EXCEPT
                         !.options = OptionsObject(@),
                         !.sources = [n \in DOMAIN @ |-> OptionsObject(@[n])]],
           key |-> Read(Merge(by), "pushApiKey")]

\* Slip: nothing catches the rejection of validatePushApiKey().
ValidatedUncaught(verdict) ==
  /\ pc = "validating"
  /\ report' = Report(verdict)
  /\ pc' = IF verdict = "valid" THEN Flags ELSE "crashed"
  /\ readline' = (pc' = "asking")
  /\ IF pc' = "sending" THEN Submit ELSE UNCHANGED sent
  /\ met' = met \cup {<<pc, verdict>>}
  /\ UNCHANGED <<fileVars, clientVars, process, config, late, answer>>

\* The rest of generate(), and run() as far as the question.
Validated(verdict) ==
  /\ pc = "validating"
  /\ report' = Report(verdict)
  /\ pc' = Flags
  /\ readline' = (pc' = "asking")
  /\ IF pc' = "sending" THEN Submit ELSE UNCHANGED sent
  /\ met' = met \cup {<<pc, verdict>>}
  /\ UNCHANGED <<fileVars, clientVars, process, config, late, answer>>

\* A path that goes away between existsSync() and statSync() is reported as
\* one that exists and has no owner, and printPath() reads the owner.
ValidatedPathGone(verdict) ==
  /\ pc = "validating"
  /\ report' = Report(verdict)
  /\ pc' = "crashed"
  /\ met' = met \cup {<<pc, "path gone">>}
  /\ UNCHANGED <<fileVars, clientVars, process, config, late, readline, answer, sent>>

\* Slip: standard input is not closed after the answer.
AnswerLeftOpen(text) ==
  /\ pc = "asking"
  /\ answer' = text
  /\ pc' = IF text \in {"", "y", "Y"} THEN "sending" ELSE "done"
  /\ report' = report
  /\ IF pc' = "sending" THEN Submit ELSE UNCHANGED sent
  /\ UNCHANGED <<fileVars, clientVars, process, config, late, readline, met>>

\* Standard input is closed when the report is sent, or when it is not.
Answer(text) ==
  /\ pc = "asking"
  /\ answer' = text
  /\ pc' = IF text \in {"", "y", "Y"} THEN "sending" ELSE "done"
  /\ readline' = (pc' = "sending")
  /\ report' = report
  /\ IF pc' = "sending" THEN Submit ELSE UNCHANGED sent
  /\ UNCHANGED <<fileVars, clientVars, process, config, late, met>>

\* The end of standard input: the question is never answered.
StdinEnds ==
  /\ pc = "asking"
  /\ pc' = "done"
  /\ readline' = FALSE
  /\ UNCHANGED <<fileVars, clientVars, toolVars, late, answer, met, sent>>

\* APPSIGNAL_DIAGNOSE_ENDPOINT, or what is used in its place.
DiagnoseEndpoint ==
  IF process.diagnoseEndpoint = "" THEN "https://appsignal.com/diag"
                                   ELSE process.diagnoseEndpoint

\* How the transmission may end: a response of status 200 whose body is an
\* object or null, another status, a request that fails, or a URL that there is
\* no request for.  See RedirectThrows for the rest.
SendAnswers ==
  IF DiagnoseEndpoint \in Requestable
  THEN {"200 with a token", "200 with null", "other status", "request error"}
  ELSE {"type error"}

\* A body of null has no token, a TypeError no "error": the handler of the
\* first throws one, the handler of the second throws itself.
SendAnswered(outcome) ==
  /\ pc = "sending"
  /\ met' = met \cup {<<pc, outcome>>}
  /\ IF outcome \in {"200 with null", "type error"}
     THEN pc' = "crashed" /\ UNCHANGED readline
     ELSE pc' = "done" /\ readline' = FALSE
  /\ UNCHANGED <<fileVars, clientVars, toolVars, late, answer, sent>>

\* Is a request under way that a server may answer?
InFlight ==
  \/ pc = "validating" /\ Endpoint \in Requestable
  \/ pc = "sending" /\ DiagnoseEndpoint \in Requestable

\* A redirect to what there is no request for: that is found in the callback of
\* the response, and nothing catches what it throws there.
RedirectThrows ==
  /\ InFlight
  /\ pc' = "crashed"
  /\ met' = met \cup {<<pc, "redirect throws">>}
  /\ UNCHANGED <<fileVars, clientVars, toolVars, late, readline, answer, sent>>

\* A response that is cut off settles nothing.  The process ends when it has
\* nothing else to wait for.
ResponseCut ==
  /\ InFlight
  /\ pc' = "cut"
  /\ UNCHANGED <<fileVars, clientVars, toolVars, late, endVars>>

-----------------------------------------------------------------------------
SomeValidated == \E v \in Verdicts : Validated(v) \/ ValidatedPathGone(v)

SomeSendAnswered == \E outcome \in SendAnswers : SendAnswered(outcome)

Next ==
  \/ Load
  \/ ConstructClient
  \/ Configure
  \/ LateClient
  \/ pc = "validating" /\ SomeValidated
  \/ \E text \in {"", "y", "Y", "n", "yes"} : Answer(text)
  \/ StdinEnds
  \/ SomeSendAnswered
  \/ RedirectThrows
  \/ ResponseCut

Spec == Init /\ [][Next]_vars

\* The transmitter answers, is refused, or is cut off.  Nothing makes the file
\* of the application return, or the user answer.
FairSpec ==
  /\ Spec
  /\ WF_vars((pc = "validating" /\ SomeValidated) \/ RedirectThrows \/ ResponseCut)
  /\ WF_vars(SomeSendAnswered \/ RedirectThrows \/ ResponseCut)
-----------------------------------------------------------------------------
(* Safety                                                                  *)

\* Has the application constructed all of its clients in the file?
NoneLate == ClientFile.late = <<>>

\* A report leaves the machine when the user has asked for that, on the command
\* line or at the question, and never against --no-send-report; and it goes out
\* under the key of the configuration it shows, unless a late client took over.
SentWithConsent ==
  sent # None =>
    /\ "--no-send-report" \notin process.argv
    /\ "--send-report" \in process.argv \/ answer \in {"", "y", "Y"}
    /\ NoneLate => sent.key = Read(sent.report.options, "pushApiKey")

\* The options the agent should know of that have a value; zero counts as none.
Told(options) ==
  {k \in DOMAIN options \cap PRIVATE_ENV_MAPPING :
     options[k] \notin {Undefined, Str(""), EmptyList, Value("number", "0")}}

\* configurationKeySources(): the places of the sources an option is printed
\* with.
ConfigurationKeySources(sources, key) ==
  {i \in DOMAIN SourceNames : key \in DOMAIN sources[SourceNames[i]]}

\* The agent that is diagnosed has the configuration that is printed, unless a
\* late client changed it meanwhile: every option with a value has the value
\* shown for the last of its sources.  It has nothing else when no other
\* configuration was made in the process.
AgentAgrees ==
  report # None /\ process.isLoaded /\ NoneLate =>
    /\ \A k \in Told(report.options) :
         LET shown == Max(ConfigurationKeySources(report.sources, k)) IN
         /\ k \in DOMAIN report.agent
         /\ report.agent[k] = report.sources[SourceNames[shown]][k].text
    /\ report.made = 1 =>
         DOMAIN report.agent \ {"logFilePath"} = Told(report.options)

\* The clients that the application has constructed after its file was loaded.
ConstructedLate == {i \in DOMAIN ClientFile.late : i + Len(late) <= Len(ClientFile.late)}

\* _APPSIGNAL_DIAGNOSE is set for as long as the file is loaded and no longer:
\* no client that the file constructs starts AppSignal in the process of the
\* tool, and every valid one that is constructed after that does.
StartedOnlyLate ==
  started <=> /\ process.isLoaded
              /\ \E i \in ConstructedLate :
                   IsValid(Merge(ConfigurationOf(ClientFile.late[i])))

\* Did the user ask for the report to be sent, and did validating or sending
\* come to an end?
Asked == answer \in {"", "y", "Y"} \/ process.argv = {"--send-report"}
CameTo(stage) == \E m \in met : m[1] = stage

\* What the tool does not survive.
Fatal == {<<"validating", "path gone">>, <<"validating", "redirect throws">>,
          <<"sending", "redirect throws">>, <<"sending", "200 with null">>,
          <<"sending", "type error">>}

\* A missing client file, an endpoint that is no URL, a refused key, a request
\* that fails: the tool carries on, and neither shows less nor sends less.  It
\* falls over when a path goes away while it looks, when a redirect leads
\* nowhere, and when what answers the report cannot be made sense of.
FailuresSurvived ==
  /\ pc = "crashed" <=> met \cap Fatal # {}
  /\ pc = "done" => CameTo("validating") /\ (Asked => CameTo("sending"))

-----------------------------------------------------------------------------
(* Liveness                                                                *)

\* The tool comes to its question or to its end, and once the question was
\* answered it does not keep the terminal, unless the response is cut off.
DiagnoseEnds ==
  pc \in {"validating", "sending"} \/ answer # None
    ~> pc \in {"asking", "crashed", "cut"} \/ (pc = "done" /\ ~readline)
=============================================================================
