--------------------------- MODULE Configuration ---------------------------
(***************************************************************************)
(* The configuration of src/src/config.ts and config/configmap.ts: where   *)
(* the value of an option comes from, what of it the agent is told through *)
(* the environment of the process, and when it lets AppSignal start.       *)
(*                                                                         *)
(* An option is called by its key.  What an environment variable holds is  *)
(* a string; a value is what the program keeps of one, with the type       *)
(* JavaScript gives it and the text String() makes of it.                  *)
(***************************************************************************)
EXTENDS TLC

CONSTANTS Numbers,   \* the strings that parseFloat() reads as a number
          Directory  \* the directory of a path whose last part has an extension

ASSUME NumbersAssumption == "" \notin Numbers

-----------------------------------------------------------------------------
(* config/configmap.ts                                                     *)

BOOL_KEYS ==
  {"active", "enableHostMetrics", "enableOpentelemetryHttp",
   "enableMinutelyProbes", "enableStatsd", "enableNginxMetrics",
   "filesWorldAccessible", "runningInContainer", "sendEnvironmentMetadata",
   "sendParams", "sendSessionData"}

\* "initializeOpentelemetrySdk" is listed here: it is read as it is written.
STRING_KEYS ==
  {"environment", "name", "bindAddress", "caFilePath", "hostname", "hostRole",
   "httpProxy", "initializeOpentelemetrySdk", "log", "logLevel", "logPath",
   "loggingEndpoint", "nginxPort", "opentelemetryPort", "endpoint",
   "pushApiKey", "statsdPort", "workingDirectoryPath", "revision"}

LIST_KEYS ==
  {"dnsServers", "filterParameters", "filterSessionData", "ignoreActions",
   "ignoreErrors", "ignoreLogs", "ignoreNamespaces", "requestHeaders"}

LIST_OR_BOOL_KEYS == {"disableDefaultInstrumentations"}

FLOAT_KEYS == {"cpuCount"}

\* Every option can be set by an environment variable.
ENV_TO_KEY_MAPPING ==
  BOOL_KEYS \cup STRING_KEYS \cup LIST_KEYS \cup LIST_OR_BOOL_KEYS \cup FLOAT_KEYS

\* The options the agent is told of.
PRIVATE_ENV_MAPPING ==
  ENV_TO_KEY_MAPPING \ {"disableDefaultInstrumentations", "logPath",
                        "enableMinutelyProbes", "initializeOpentelemetrySdk",
                        "requestHeaders"}

\* The options that have a name in the diagnose report.
JS_TO_RUBY_MAPPING == ENV_TO_KEY_MAPPING

-----------------------------------------------------------------------------
(* Values                                                                  *)

Value(type, text) == [type |-> type, text |-> text]

Bool(text) == Value("boolean", text)
Str(text) == Value("string", text)
List(text) == Value("list", text)   \* by what join(",") makes of it
Undefined == Value("undefined", "undefined")

EmptyList == List("")
Falsy == {Bool("false"), Str(""), Value("number", "0"), Undefined}

\* { ...below, ...above }: a key that is present above overrides, and its
\* value may well be undefined.
Spread(below, above) ==
  [key \in DOMAIN below \cup DOMAIN above |->
     IF key \in DOMAIN above THEN above[key] ELSE below[key]]

-----------------------------------------------------------------------------
(* Configuration.constructor and what it calls                             *)

\* _defaultValues()
Defaults(nodeEnv) ==
  LET ofType(keys, v) == [k \in keys |-> v] IN
  ofType({"active", "disableDefaultInstrumentations", "enableStatsd",
          "enableNginxMetrics"}, Bool("false"))
  @@ ofType({"enableHostMetrics", "enableOpentelemetryHttp",
             "enableMinutelyProbes", "filesWorldAccessible",
             "initializeOpentelemetrySdk", "sendEnvironmentMetadata",
             "sendParams", "sendSessionData"}, Bool("true"))
  @@ ofType(LIST_KEYS \ {"requestHeaders"}, EmptyList)
  @@ ("requestHeaders" :> List("accept,..."))
  @@ ("caFilePath" :> Str("cacert.pem"))
  @@ ("endpoint" :> Str("https://push.appsignal.com"))
  @@ ("loggingEndpoint" :> Str("https://appsignal-endpoint.net"))
  @@ ("environment" :> IF nodeEnv = "" THEN Str("development") ELSE Str(nodeEnv))
  @@ ("log" :> Str("file"))
  @@ ("opentelemetryPort" :> Str("8099"))

\* _systemValues()
SystemValues(onHeroku) ==
  IF onHeroku THEN "log" :> Str("stdout") ELSE <<>>

\* What _loadFromEnvironment() makes of the text of a variable: no value, when
\* it is empty or not of the type of the option.
Parse(key, text) ==
  CASE key \in STRING_KEYS -> IF text = "" THEN {} ELSE {Str(text)}
    [] key \in BOOL_KEYS -> IF text \in {"true", "false"} THEN {Bool(text)} ELSE {}
    [] key \in LIST_KEYS -> IF text = "" THEN {} ELSE {List(text)}
    [] key \in LIST_OR_BOOL_KEYS ->
         IF text \in {"true", "false"} THEN {Bool(text)}
         ELSE IF text = "" THEN {} ELSE {List(text)}
    [] key \in FLOAT_KEYS ->
         IF text \in Numbers THEN {Value("number", text)} ELSE {}

LoadFromEnvironment(processEnv) ==
  [key \in {k \in DOMAIN processEnv : Parse(k, processEnv[k]) # {}} |->
     CHOOSE v \in Parse(key, processEnv[key]) : TRUE]

\* The sources, in the order of the keys of the object.
SourceNames == <<"default", "system", "env", "initial">>

Sources(nodeEnv, onHeroku, processEnv, options) ==
  [default |-> Defaults(nodeEnv), system |-> SystemValues(onHeroku),
   env |-> LoadFromEnvironment(processEnv), initial |-> options]

\* Every source overrides those before it.
Merge(sources) ==
  Spread(Spread(Spread(sources.default, sources.system), sources.env),
         sources.initial)

\* An option nobody has set reads as undefined.
Read(data, key) == IF key \in DOMAIN data THEN data[key] ELSE Undefined

\* validationError().  White space around the key is left out of the model.
IsValid(data) ==
  /\ Read(data, "active") # Bool("false")
  /\ Read(data, "pushApiKey") \notin Falsy

\* logFilePath, by the directory that the file is in.
LogDirectory(data, writable) ==
  LET given == Read(data, "logPath")
      path == IF given.text \in DOMAIN Directory
              THEN Directory[given.text] ELSE given.text IN
  IF given \notin Falsy /\ path \in writable THEN {path}
  ELSE IF "/tmp" \in writable THEN {"/tmp"} ELSE {}

-----------------------------------------------------------------------------
(* writePrivateConfig                                                      *)

\* The options that are written: not the empty lists, nor what is falsy
\* without being a boolean.
Written(data) ==
  {k \in PRIVATE_ENV_MAPPING :
     LET v == Read(data, k) IN
     v # EmptyList /\ (v \notin Falsy \/ v.type = "boolean")}

\* The variable for the path of the log file, if there is a path.
LogFilePath(data, writable) ==
  LET directories == LogDirectory(data, writable) IN
  [k \in IF directories = {} THEN {} ELSE {"logFilePath"} |->
     CHOOSE d \in directories : TRUE]

\* Slip: what is false is skipped like anything else that is falsy.
WritePrivateConfigTruthy(privateEnv, data, writable) ==
  Spread(Spread(privateEnv, LogFilePath(data, writable)),
         [k \in {k \in Written(data) : data[k] \notin Falsy} |-> data[k].text])

\* Nothing is ever taken away: what an earlier configuration of the process
\* wrote stays, unless this one writes it too.  The variables that are called
\* after no option are left out, but for the path of the log file.
WritePrivateConfig(privateEnv, data, writable) ==
  Spread(Spread(privateEnv, LogFilePath(data, writable)),
         [k \in Written(data) |-> data[k].text])
=============================================================================
