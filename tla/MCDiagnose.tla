----------------------------- MODULE MCDiagnose -----------------------------
(***************************************************************************)
(* Instances of Diagnose for TLC: an environment that sets some options,   *)
(* client files that construct none, one or two clients, or a late one.    *)
(***************************************************************************)
EXTENDS Diagnose

TheNumbers == {"0", "2"}

TheDirectory == "/var/log/app.log" :> "/var/log"

TheRequestable == {"https://push.appsignal.com", "https://appsignal.com/diag"}

TheURLs == TheRequestable \cup {"ftp://push", "ftp://diag"}

TwoPaths == <<"appsignal.cjs", "src/appsignal.cjs">>

Keyed ==
  "active" :> Bool("true") @@ "pushApiKey" :> Str("key")
    @@ "logPath" :> Str("/var/log/app.log")
    @@ "additionalInstrumentations" :> List("koa")

\* An empty option, a false one and one of no value; what is set twice.
Odd ==
  "hostname" :> Str("") @@ "sendParams" :> Bool("false")
    @@ "environment" :> Undefined @@ "pushApiKey" :> Str("odd")
    @@ "logPath" :> Str("/nowhere")

Files ==
  [clients : {<<>>, <<Keyed>>, <<Odd, Keyed>>, <<Keyed, Odd>>}, late : {<<>>}]
    \cup [clients : {<<>>, <<Odd>>}, late : {<<Keyed>>}]

EmptyFile == [clients |-> <<>>, late |-> <<>>]

\* No file, one in either place or in both, and one named by --config.
Placed(f) ==
  {[custom |-> None, files |-> <<>>],
   [custom |-> None, files |-> "src/appsignal.cjs" :> f],
   [custom |-> None,
    files |-> "appsignal.cjs" :> f @@ "src/appsignal.cjs" :> EmptyFile],
   [custom |-> "mine.cjs",
    files |-> "mine.cjs" :> f @@ "appsignal.cjs" :> EmptyFile]}

\* The environment: nothing, and something of each kind.
Environments ==
  {<<>>,
   "hostname" :> "web" @@ "active" :> "true" @@ "sendParams" :> "no"
     @@ "dnsServers" :> "8.8.8.8,8.8.4.4" @@ "cpuCount" :> "2"
     @@ "disableDefaultInstrumentations" :> "true" @@ "pushApiKey" :> "env",
   "cpuCount" :> "0" @@ "endpoint" :> "push" @@ "pushApiKey" :> ""
     @@ "disableDefaultInstrumentations" :> "redis,pg" @@ "active" :> "true",
   "endpoint" :> "ftp://push"}

\* The extension, the directories that can be written to, the endpoint that
\* APPSIGNAL_DIAGNOSE_ENDPOINT sets.
Hosts ==
  {<<TRUE, {"/var/log", "/tmp"}, "">>, <<TRUE, {}, "diag">>,
   <<FALSE, {"/tmp"}, "ftp://diag">>, <<FALSE, {"/tmp"}, "">>}

TheProcesses ==
  {[argv |-> argv, custom |-> p.custom, files |-> p.files, env |-> env,
    onHeroku |-> env = <<>>, isLoaded |-> h[1], writable |-> h[2],
    diagnoseEndpoint |-> h[3]] :
     argv \in SUBSET {"--no-send-report", "--send-report"},
     p \in UNION {Placed(f) : f \in Files}, env \in Environments, h \in Hosts}
=============================================================================
