---------------------------- MODULE DiagnoseProofs ----------------------------
(***************************************************************************)
(* What the diagnose tool sends and prints, proved for every process, every *)
(* set of client files and every number of clients that they construct.    *)
(* The inductive invariant ties what is read late -- the client, the       *)
(* environment of the agent, the report -- to the configuration of the     *)
(* client that was constructed last.                                       *)
(***************************************************************************)
EXTENDS Diagnose, WellFoundedInduction, TLAPS

\* The clients that are still to come are the last of those of the file.
LateOnes ==
  /\ late \in Seq(ToSet(ClientFile.late))
  /\ Len(late) <= Len(ClientFile.late)
  /\ \A i \in DOMAIN late :
       late[i] = ClientFile.late[Len(ClientFile.late) - Len(late) + i]
  /\ pc \in {"started", "loading"} => late = ClientFile.late

\* _APPSIGNAL_DIAGNOSE is set whenever the file may construct a client.
Guarded ==
  /\ loading \in Seq(ToSet(ClientFile.clients))
  /\ pc = "started" => loading = ClientFile.clients
  /\ pc = "loading" /\ loading # <<>> => diagnosing
  /\ pc \notin {"started", "loading"} => ~diagnosing

\* What a configuration has told the agent: every option that has a value, and
\* nothing but those when it was the only one.
Tells(told, configuration) ==
  /\ \A k \in Told(Merge(configuration)) :
       k \in DOMAIN told /\ told[k] = Merge(configuration)[k].text
  /\ made = 1 => DOMAIN told \ {"logFilePath"} = Told(Merge(configuration))

\* While the file is loaded the environment is as the last client has left it.
Constructed ==
  pc \in {"started", "loading"} =>
    /\ made \in Nat
    /\ client = None => privateEnv = <<>> /\ made = 0
    /\ client # None => /\ client = ConfigurationOf(client.initial)
                        /\ made > 0
                        /\ Tells(privateEnv, client)

\* What Configure reads is what the client has, as long as no late one replaces
\* it, and what the agent has been told.
Loaded ==
  pc \notin {"started", "loading"} =>
    /\ config = ConfigurationOf(config.initial)
    /\ NoneLate =>
         /\ config = IF client = None THEN ConfigurationOf(NoOptions) ELSE client
         /\ Tells(privateEnv, config)

\* The report is made once, from the configuration.
Reported ==
  /\ pc \in {"started", "loading", "validating"} => report = None
  /\ pc = "asking" \/ report # None =>
       /\ report = [options |-> Merge(config), sources |-> config,
                    agent |-> report.agent, validation |-> report.validation,
                    made |-> report.made]
       /\ NoneLate => report.agent = AgentReport /\ report.made = made

\* Nothing is sent before the question, and the question is not asked of a user
\* who has declined or agreed on the command line.
Unsent ==
  /\ pc \in {"started", "loading", "validating", "asking"} => sent = None
  /\ pc = "asking" => /\ "--no-send-report" \notin process.argv
                     /\ process.argv # {"--send-report"}

\* Nothing is met before the validation, and nothing fatal before the end.
Met ==
  /\ pc \in {"started", "loading", "validating"} => met = {}
  /\ pc = "asking" \/ pc = "sending" => CameTo("validating")

\* Validating comes before asking, and asking before an answer.
Unanswered ==
  pc \in {"started", "loading", "validating", "asking"} => answer \notin {"", "y", "Y"}

IInv ==
  /\ process \in Processes
  /\ LateOnes
  /\ Guarded
  /\ Constructed
  /\ Loaded
  /\ Reported
  /\ Unsent
  /\ Met
  /\ Unanswered
  /\ SentWithConsent
  /\ StartedOnlyLate
  /\ FailuresSurvived

-----------------------------------------------------------------------------
(* The client file                                                         *)

\* The least of a set of places.
LEMMA Least ==
  ASSUME NEW T \in SUBSET Nat, T # {}
  PROVE  Min(T) \in T
<1>1. PICK m \in T : \A n \in T : ~(<<n, m>> \in OpToRel(<, Nat))
  BY NatLessThanWellFounded, WFMin
<1>2. \A n \in T : ~(n < m)
  BY <1>1 DEF OpToRel
<1>3. \A n \in T : m <= n
  BY <1>2
<1> QED
  BY <1>3 DEF Min

\* The file that is loaded constructs sequences of clients, none of which has
\* the configuration None.
LEMMA FileParts ==
  ASSUME process \in Processes, NEW part \in {"clients", "late"}
  PROVE  /\ ClientFile[part] \in Seq(ToSet(ClientFile[part]))
         /\ \A options \in ToSet(ClientFile[part]) : ConfigurationOf(options) # None
<1>1. CASE \E f \in DOMAIN process.files : ClientFile = process.files[f]
  <2>1. PICK f \in DOMAIN process.files : ClientFile = process.files[f]
    BY <1>1
  <2>2. ClientFile[part] \in Seq(ToSet(ClientFile[part]))
    BY <2>1, ProcessesAssumption
  <2>3. ASSUME NEW options \in ToSet(ClientFile[part])
        PROVE  ConfigurationOf(options) # None
    BY <2>1, NoneAssumption DEF ConfigurationOf
  <2> QED
    BY <2>2, <2>3
<1>2. CASE process.custom = None /\ Existing = {}
  <2>1. ClientFile = [clients |-> <<>>, late |-> <<>>]
    BY <1>2 DEF ClientFile
  <2>2. ClientFile[part] = <<>>
    BY <2>1
  <2> QED
    BY <2>2 DEF ToSet
<1>3. CASE process.custom = None /\ Existing # {}
  <2>1. Existing \subseteq Nat
    BY PathsAssumption DEF Existing
  <2>2. Min(Existing) \in Existing
    BY <1>3, <2>1, Least
  <2> QED
    BY <1>1, <1>3, <2>2 DEF ClientFile, Existing
<1>4. CASE process.custom # None
  BY <1>1, <1>4, ProcessesAssumption DEF ClientFile
<1> QED
  BY <1>2, <1>3, <1>4

-----------------------------------------------------------------------------
(* What the agent is told                                                  *)

\* The options that are written are those that have a value to tell.
LEMMA ToldIsWritten ==
  ASSUME NEW data
  PROVE  Told(data) = Written(data)
<1>1. ASSUME NEW v
      PROVE  v \notin {Undefined, Str(""), EmptyList, Value("number", "0")}
               <=> v # EmptyList /\ (v \notin Falsy \/ v.type = "boolean")
  <2>1. Bool("false").type = "boolean" /\ Undefined.type # "boolean"
          /\ Str("").type # "boolean" /\ Value("number", "0").type # "boolean"
    BY DEF Bool, Undefined, Str, Value
  <2>2. EmptyList.type # "boolean"
    BY DEF EmptyList, List, Value
  <2> QED
    BY <2>1, <2>2, Zenon DEF Falsy
<1>2. Undefined \in Falsy /\ Undefined.type # "boolean"
  BY DEF Falsy, Undefined, Value
<1> QED
  BY <1>1, <1>2, Zenon DEF Told, Written, Read

\* A configuration writes every option it tells of over what was there.
LEMMA WrittenOver ==
  ASSUME NEW before, NEW data, NEW writable, NEW k \in Told(data)
  PROVE  /\ k \in DOMAIN WritePrivateConfig(before, data, writable)
         /\ WritePrivateConfig(before, data, writable)[k] = data[k].text
BY ToldIsWritten DEF WritePrivateConfig, Spread

\* Into an empty environment it writes nothing else but the path of the log.
LEMMA WrittenAlone ==
  ASSUME NEW data, NEW writable
  PROVE  DOMAIN WritePrivateConfig(<<>>, data, writable) \ {"logFilePath"} = Told(data)
<1>1. DOMAIN WritePrivateConfig(<<>>, data, writable)
        = DOMAIN LogFilePath(data, writable) \cup Told(data)
  BY ToldIsWritten DEF WritePrivateConfig, Spread
<1>2. DOMAIN LogFilePath(data, writable) \subseteq {"logFilePath"}
  BY DEF LogFilePath
<1>3. "logFilePath" \notin Told(data)
  BY DEF Told, PRIVATE_ENV_MAPPING, ENV_TO_KEY_MAPPING, BOOL_KEYS, STRING_KEYS,
         LIST_KEYS, LIST_OR_BOOL_KEYS, FLOAT_KEYS
<1> QED
  BY <1>1, <1>2, <1>3

\* The value of an option is the one in the last of its sources.
LEMMA LastSource ==
  ASSUME NEW sources, NEW k \in DOMAIN Merge(sources)
  PROVE  Merge(sources)[k]
           = sources[SourceNames[Max(ConfigurationKeySources(sources, k))]][k]
<1> DEFINE places == ConfigurationKeySources(sources, k)
           m == Max(places)
<1>1. /\ DOMAIN SourceNames = 1..4
      /\ SourceNames[1] = "default" /\ SourceNames[2] = "system"
      /\ SourceNames[3] = "env" /\ SourceNames[4] = "initial"
  BY DEF SourceNames
<1>2. /\ places \subseteq 1..4
      /\ 1 \in places <=> k \in DOMAIN sources.default
      /\ 2 \in places <=> k \in DOMAIN sources.system
      /\ 3 \in places <=> k \in DOMAIN sources.env
      /\ 4 \in places <=> k \in DOMAIN sources.initial
  BY <1>1 DEF ConfigurationKeySources
<1> HIDE DEF places
<1>3. places # {}
  BY <1>2 DEF Merge, Spread
<1>4. m \in places /\ \A i \in places : i <= m
  <2>1. \E i \in places : \A j \in places : j <= i
    <3>0. \A i \in places : i = 1 \/ i = 2 \/ i = 3 \/ i = 4
      BY <1>2
    <3>1. CASE 4 \in places
      BY <3>0, <3>1
    <3>2. CASE 4 \notin places /\ 3 \in places
      BY <3>0, <3>2
    <3>3. CASE 4 \notin places /\ 3 \notin places /\ 2 \in places
      BY <3>0, <3>3
    <3>4. CASE 4 \notin places /\ 3 \notin places /\ 2 \notin places
      BY <1>3, <3>0, <3>4
    <3> QED
      BY <3>1, <3>2, <3>3, <3>4
  <2> QED
    BY <2>1 DEF Max
<1> HIDE DEF m
<1>5. CASE m = 4
  BY <1>1, <1>2, <1>4, <1>5 DEF Merge, Spread, m, places
<1>6. CASE m = 3
  BY <1>1, <1>2, <1>4, <1>6 DEF Merge, Spread, m, places
<1>7. CASE m = 2
  BY <1>1, <1>2, <1>4, <1>7 DEF Merge, Spread, m, places
<1>8. CASE m = 1
  BY <1>1, <1>2, <1>4, <1>8 DEF Merge, Spread, m, places
<1> QED
  BY <1>2, <1>4, <1>5, <1>6, <1>7, <1>8

-----------------------------------------------------------------------------
(* The inductive invariant                                                 *)

THEOREM InitOK == Init => IInv
<1> SUFFICES ASSUME Init PROVE IInv
  OBVIOUS
<1>1. process \in Processes /\ pc = "started" /\ met = {} /\ answer = None
  BY DEF Init
<1>2. LateOnes /\ Guarded
  <2>1. /\ loading = ClientFile.clients /\ ClientFile.clients \in Seq(ToSet(ClientFile.clients))
        /\ late = ClientFile.late /\ ClientFile.late \in Seq(ToSet(ClientFile.late))
    BY <1>1, FileParts DEF Init
  <2> QED
    BY <1>1, <2>1 DEF LateOnes, Guarded
<1>3. Constructed /\ Loaded /\ Reported /\ Unsent /\ Met /\ SentWithConsent
  BY DEF Init, Constructed, Loaded, Reported, Unsent, Met, SentWithConsent
<1>4. Unanswered
  BY <1>1, NoneAssumption DEF Unanswered
<1>5. StartedOnlyLate
  <2>1. ~started /\ late = ClientFile.late
    BY DEF Init
  <2>2. ConstructedLate = {}
    BY <1>2, <2>1 DEF ConstructedLate, LateOnes
  <2> QED
    BY <2>1, <2>2 DEF StartedOnlyLate
<1>6. FailuresSurvived
  BY <1>1 DEF FailuresSurvived
<1> QED
  BY <1>1, <1>2, <1>3, <1>4, <1>5, <1>6 DEF IInv

\* A configuration that is written over what the one before has told.
LEMMA WrittenTells ==
  ASSUME NEW options,
         made \in Nat, made = 0 => privateEnv = <<>>,
         made' = made + 1, privateEnv' = WrittenAfter(privateEnv, options)
  PROVE  /\ \A k \in Told(Merge(ConfigurationOf(options))) :
              /\ k \in DOMAIN privateEnv'
              /\ privateEnv'[k] = Merge(ConfigurationOf(options))[k].text
         /\ made' = 1 => DOMAIN privateEnv' \ {"logFilePath"}
                           = Told(Merge(ConfigurationOf(options)))
<1> DEFINE data == Merge(ConfigurationOf(options))
<1>1. privateEnv' = WritePrivateConfig(privateEnv, data, process.writable)
  BY DEF WrittenAfter
<1> HIDE DEF data
<1>2. \A k \in Told(data) : k \in DOMAIN privateEnv' /\ privateEnv'[k] = data[k].text
  BY <1>1, WrittenOver
<1>3. ASSUME made' = 1 PROVE DOMAIN privateEnv' \ {"logFilePath"} = Told(data)
  <2>1. privateEnv' = WritePrivateConfig(<<>>, data, process.writable)
    BY <1>1, <1>3
  <2> QED
    BY <2>1, WrittenAlone
<1> QED
  BY <1>2, <1>3 DEF data

LEMMA LoadOK == IInv /\ Load => IInv'
<1> SUFFICES ASSUME IInv, Load PROVE IInv'
  OBVIOUS
<1> USE DEF IInv
<1>1. /\ pc = "started" /\ pc' = "loading"
      /\ diagnosing' = (process.custom # None \/ Existing # {})
      /\ UNCHANGED <<loading, process, late, started>>
      /\ UNCHANGED <<client, privateEnv, made, config, report>>
      /\ UNCHANGED <<readline, answer, met, sent>>
  BY DEF Load, clientVars, toolVars, endVars
<1>2. ClientFile' = ClientFile /\ NoneLate' = NoneLate
  BY <1>1 DEF ClientFile, Existing, NoneLate
<1>3. \A options : ConfigurationOf(options)' = ConfigurationOf(options)
  BY <1>1 DEF ConfigurationOf
<1>4. LateOnes'
  BY <1>1, <1>2 DEF LateOnes
<1>5. Guarded'
  <2>1. process.custom = None /\ Existing = {} => ClientFile.clients = <<>>
    BY DEF ClientFile
  <2> QED
    BY <1>1, <1>2, <2>1 DEF Guarded
<1>6. Constructed'
  BY <1>1, <1>3 DEF Constructed, Tells, Told
<1>7. Loaded' /\ Reported' /\ Unsent' /\ Met' /\ Unanswered' /\ SentWithConsent'
  BY <1>1, <1>2 DEF Loaded, Reported, Unsent, Met, Unanswered, SentWithConsent
<1>8. StartedOnlyLate'
  BY <1>1, <1>2, <1>3 DEF StartedOnlyLate, ConstructedLate, IsValid
<1>9. FailuresSurvived'
  BY <1>1 DEF FailuresSurvived, Met, Fatal
<1> QED
  BY <1>1, <1>4, <1>5, <1>6, <1>7, <1>8, <1>9

\* The environment of a process in which no configuration was made is empty.
LEMMA Unwritten ==
  ASSUME IInv, pc = "loading"
  PROVE  made \in Nat /\ (made = 0 => privateEnv = <<>>)
BY DEF IInv, Constructed

LEMMA ConstructClientOK == IInv /\ ConstructClient => IInv'
<1> SUFFICES ASSUME IInv, ConstructClient PROVE IInv'
  OBVIOUS
<1> USE DEF IInv
<1> DEFINE options == Head(loading)
<1>1. /\ pc = "loading" /\ pc' = "loading" /\ loading # <<>> /\ loading' = Tail(loading)
      /\ UNCHANGED <<process, diagnosing, late, config, report>>
      /\ UNCHANGED <<readline, answer, met, sent>>
  BY DEF ConstructClient, toolVars, endVars
<1>2. /\ client' = ConfigurationOf(options)
      /\ privateEnv' = WrittenAfter(privateEnv, options)
      /\ made' = made + 1
      /\ started' = (started \/ Starts(options))
  BY DEF ConstructClient, Construct
<1>3. ClientFile' = ClientFile /\ NoneLate' = NoneLate
  BY <1>1 DEF ClientFile, Existing, NoneLate
<1>4. \A o : ConfigurationOf(o)' = ConfigurationOf(o)
  BY <1>1 DEF ConfigurationOf
<1>5. LateOnes'
  BY <1>1, <1>3 DEF LateOnes
<1>6. Guarded'
  BY <1>1, <1>3 DEF Guarded
<1>7. options \in ToSet(ClientFile.clients)
  BY <1>1 DEF Guarded
<1>8. Constructed'
  <2>1. client'.initial = options
    BY <1>2 DEF ConfigurationOf, Sources
  <2>2. client' # None
    BY <1>2, <1>7, FileParts
  <2>3. made \in Nat /\ (made = 0 => privateEnv = <<>>)
    BY <1>1, Unwritten
  <2> DEFINE data == Merge(ConfigurationOf(options))
  <2>4. /\ \A k \in Told(data) : k \in DOMAIN privateEnv' /\ privateEnv'[k] = data[k].text
        /\ made' = 1 => DOMAIN privateEnv' \ {"logFilePath"} = Told(data)
    BY <1>2, <2>3, WrittenTells
  <2>5. Merge(client)' = data
    BY <1>2 DEF Merge
  <2> HIDE DEF data, options
  <2>6. Tells(privateEnv, client)'
    BY <2>4, <2>5 DEF Tells, Told
  <2> QED
    BY <1>2, <1>4, <2>1, <2>2, <2>3, <2>6 DEF Constructed
<1>9. Loaded' /\ Reported' /\ Unsent' /\ Met' /\ Unanswered' /\ SentWithConsent'
  BY <1>1, <1>3 DEF Loaded, Reported, Unsent, Met, Unanswered, SentWithConsent
<1>10. StartedOnlyLate'
  <2>1. ~Starts(options)
    BY <1>1 DEF Starts, Guarded
  <2> QED
    BY <1>1, <1>2, <1>3, <1>4, <2>1 DEF StartedOnlyLate, ConstructedLate, IsValid
<1>11. FailuresSurvived'
  BY <1>1 DEF FailuresSurvived, Met, Fatal
<1> QED
  BY <1>1, <1>5, <1>6, <1>8, <1>9, <1>10, <1>11

LEMMA ConfigureOK == IInv /\ Configure => IInv'
<1> SUFFICES ASSUME IInv, Configure PROVE IInv'
  OBVIOUS
<1> USE DEF IInv
<1>1. /\ pc = "loading" /\ pc' = "validating" /\ loading = <<>> /\ ~diagnosing'
      /\ UNCHANGED <<loading, process, client, started, late, report>>
      /\ UNCHANGED <<readline, answer, met, sent>>
  BY DEF Configure, endVars
<1>2. ClientFile' = ClientFile /\ NoneLate' = NoneLate
  BY <1>1 DEF ClientFile, Existing, NoneLate
<1>3. \A o : ConfigurationOf(o)' = ConfigurationOf(o)
  BY <1>1 DEF ConfigurationOf
<1>4. LateOnes'
  BY <1>1, <1>2 DEF LateOnes
<1>5. Guarded' /\ Constructed'
  BY <1>1, <1>2 DEF Guarded, Constructed
<1>6. Loaded'
  <2>1. CASE client # None
    <3>1. config' = client /\ UNCHANGED <<privateEnv, made>>
      BY <2>1 DEF Configure
    <3>2. client = ConfigurationOf(client.initial) /\ Tells(privateEnv, client)
      BY <1>1, <2>1 DEF Constructed
    <3>3. Tells(privateEnv, config)'
      BY <3>1, <3>2 DEF Tells, Told, Merge
    <3> QED
      BY <1>1, <1>3, <2>1, <3>1, <3>2, <3>3 DEF Loaded
  <2>2. CASE client = None
    <3>1. /\ config' = ConfigurationOf(NoOptions) /\ made' = made + 1
          /\ privateEnv' = WrittenAfter(privateEnv, NoOptions)
      BY <2>2 DEF Configure
    <3>2. config'.initial = NoOptions
      BY <3>1 DEF ConfigurationOf, Sources
    <3>3. made \in Nat /\ (made = 0 => privateEnv = <<>>)
      BY <1>1, Unwritten
    <3> DEFINE data == Merge(ConfigurationOf(NoOptions))
    <3>4. /\ \A k \in Told(data) : k \in DOMAIN privateEnv' /\ privateEnv'[k] = data[k].text
          /\ made' = 1 => DOMAIN privateEnv' \ {"logFilePath"} = Told(data)
      BY <3>1, <3>3, WrittenTells
    <3>5. Merge(config)' = data
      BY <3>1 DEF Merge
    <3> HIDE DEF data
    <3>6. Tells(privateEnv, config)'
      BY <3>4, <3>5 DEF Tells, Told
    <3> QED
      BY <1>1, <1>3, <2>2, <3>1, <3>2, <3>6 DEF Loaded
  <2> QED
    BY <2>1, <2>2
<1>7. Reported' /\ Unsent' /\ Met' /\ Unanswered' /\ SentWithConsent'
  BY <1>1, <1>2 DEF Reported, Unsent, Met, Unanswered, SentWithConsent
<1>8. StartedOnlyLate'
  BY <1>1, <1>2, <1>3 DEF StartedOnlyLate, ConstructedLate, IsValid
<1>9. FailuresSurvived'
  BY <1>1 DEF FailuresSurvived, Met, Fatal
<1> QED
  BY <1>1, <1>4, <1>5, <1>6, <1>7, <1>8, <1>9

LEMMA LateClientOK == IInv /\ LateClient => IInv'
<1> SUFFICES ASSUME IInv, LateClient PROVE IInv'
  OBVIOUS
<1> USE DEF IInv
<1> DEFINE options == Head(late)
           all == ClientFile.late
           k == Len(all) - Len(late) + 1
<1>1. /\ pc \notin {"started", "loading"} /\ pc' = pc /\ late # <<>> /\ late' = Tail(late)
      /\ UNCHANGED <<process, diagnosing, loading, config, report>>
      /\ UNCHANGED <<readline, answer, met, sent>>
  BY DEF LateClient, fileVars, toolVars, endVars
<1>2. started' = (started \/ Starts(options))
  BY DEF LateClient, Construct
<1>3. ClientFile' = ClientFile /\ NoneLate' = NoneLate
  BY <1>1 DEF ClientFile, Existing, NoneLate
<1>4. \A o : ConfigurationOf(o)' = ConfigurationOf(o)
  BY <1>1 DEF ConfigurationOf
<1>5. all \in Seq(ToSet(all)) /\ Len(all) \in Nat /\ late \in Seq(ToSet(all))
  BY FileParts DEF LateOnes
<1>6. ~NoneLate
  BY <1>1, <1>5 DEF LateOnes, NoneLate
<1>7. /\ Len(late') = Len(late) - 1 /\ late' \in Seq(ToSet(all))
      /\ \A i \in DOMAIN late' : late'[i] = late[i + 1] /\ i + 1 \in DOMAIN late
  BY <1>1, <1>5
<1>8. LateOnes'
  <2>1. ASSUME NEW i \in DOMAIN late' PROVE late'[i] = all[Len(all) - Len(late') + i]
    <3>1. late[i + 1] = all[Len(all) - Len(late) + (i + 1)]
      BY <1>7 DEF LateOnes
    <3>2. i \in Nat /\ Len(late) \in Nat /\ Len(all) \in Nat /\ Len(late') = Len(late) - 1
      BY <1>5, <1>7
    <3> HIDE DEF all
    <3>3. Len(all) - Len(late) + (i + 1) = Len(all) - Len(late') + i
      BY <3>2
    <3> QED
      BY <1>7, <3>1, <3>3
  <2>2. Len(late') <= Len(all)
    BY <1>5, <1>7 DEF LateOnes
  <2> QED
    BY <1>1, <1>3, <1>7, <2>1, <2>2 DEF LateOnes
<1>9. Guarded' /\ Constructed' /\ Loaded'
  BY <1>1, <1>3, <1>4, <1>6 DEF Guarded, Constructed, Loaded
<1>10. Reported' /\ Unsent' /\ Met' /\ Unanswered' /\ SentWithConsent'
  BY <1>1, <1>3, <1>6 DEF Reported, Unsent, Met, CameTo, Unanswered, SentWithConsent
<1>11. StartedOnlyLate'
  <2>1. options = all[k]
    <3>1. 1 \in DOMAIN late /\ options = late[1]
      BY <1>1, <1>5
    <3> QED
      BY <1>5, <3>1 DEF LateOnes
  <2>2. ConstructedLate' = ConstructedLate \cup {k}
    <3>1. DOMAIN all = 1..Len(all)
      BY <1>5
    <3>2. ConstructedLate' = {i \in 1..Len(all) : i + (Len(late) - 1) <= Len(all)}
      BY <1>3, <1>7, <3>1 DEF ConstructedLate
    <3>3. ConstructedLate = {i \in 1..Len(all) : i + Len(late) <= Len(all)}
      BY <3>1 DEF ConstructedLate
    <3>4. Len(late) \in 1..Len(all)
      BY <1>1, <1>5 DEF LateOnes
    <3> HIDE DEF all
    <3> QED
      BY <1>5, <3>2, <3>3, <3>4
  <2>3. Starts(options) <=> process.isLoaded /\ IsValid(Merge(ConfigurationOf(all[k])))
    BY <1>1, <2>1 DEF Starts, Guarded
  <2>4. \A o : IsValid(Merge(ConfigurationOf(o)))' <=> IsValid(Merge(ConfigurationOf(o)))
    BY <1>4 DEF IsValid, Read, Merge
  <2> HIDE DEF k, options
  <2> QED
    BY <1>1, <1>2, <1>3, <2>2, <2>3, <2>4 DEF StartedOnlyLate
<1>12. FailuresSurvived'
  BY <1>1 DEF FailuresSurvived, CameTo, Asked, Fatal
<1> QED
  BY <1>1, <1>8, <1>9, <1>10, <1>11, <1>12

\* What the other actions leave as these have made it.
LEMMA KeptAfterLoad ==
  ASSUME IInv, UNCHANGED <<fileVars, clientVars, process, config, late>>,
         pc' = pc \/ (pc \notin {"started", "loading"} /\ pc' \notin {"started", "loading"})
  PROVE  /\ process' \in Processes
         /\ LateOnes' /\ Guarded' /\ Constructed' /\ Loaded'
         /\ StartedOnlyLate'
<1>1. UNCHANGED <<loading, diagnosing, client, privateEnv, made, started>>
  BY DEF fileVars, clientVars
<1>2. ClientFile' = ClientFile /\ NoneLate' = NoneLate
  BY DEF ClientFile, Existing, NoneLate
<1>3. \A options : ConfigurationOf(options)' = ConfigurationOf(options)
  BY DEF ConfigurationOf
<1>4. LateOnes' /\ Guarded'
  BY <1>1, <1>2 DEF IInv, LateOnes, Guarded
<1>5. Constructed'
  BY <1>1, <1>3 DEF IInv, Constructed, Tells, Told, Merge
<1>6. Loaded'
  BY <1>1, <1>2, <1>3 DEF IInv, Loaded, Tells, Told, Merge
<1>7. StartedOnlyLate'
  BY <1>1, <1>2, <1>3 DEF IInv, StartedOnlyLate, ConstructedLate, IsValid
<1> QED
  BY <1>4, <1>5, <1>6, <1>7 DEF IInv

\* What Submit sends is the report, under the key of the configuration in it.
LEMMA SubmitSends ==
  ASSUME IInv, pc \notin {"started", "loading"},
         UNCHANGED process, UNCHANGED <<config, client>>, Submit,
         report' = [options |-> Merge(config), sources |-> config,
                    agent |-> report'.agent, validation |-> report'.validation,
                    made |-> report'.made],
         NoneLate
  PROVE  sent'.key = Read(sent'.report.options, "pushApiKey")
<1> DEFINE by == IF client = None THEN ConfigurationOf(NoOptions) ELSE client
<1>1. by = config
  BY DEF IInv, Loaded
<1>2. sent'.key = Read(Merge(config), "pushApiKey")
  BY <1>1 DEF Submit
<1>3. sent'.report.options = OptionsObject(Merge(config))
  <2>1. /\ {"options", "sources"} \subseteq DOMAIN report'
        /\ report'.options = Merge(config)
    OBVIOUS
  <2>2. sent'.report = [report' EXCEPT
                          !.options = OptionsObject(@),
                          !.sources = [n \in DOMAIN @ |-> OptionsObject(@[n])]]
    BY DEF Submit
  <2> QED
    BY <2>1, <2>2
<1>4. "pushApiKey" \in JS_TO_RUBY_MAPPING
  BY DEF JS_TO_RUBY_MAPPING, ENV_TO_KEY_MAPPING, STRING_KEYS
<1> QED
  BY <1>2, <1>3, <1>4 DEF OptionsObject, Read

LEMMA ValidatedOK ==
  ASSUME IInv, NEW verdict \in Verdicts, Validated(verdict)
  PROVE  IInv'
<1>1. pc = "validating" /\ pc' = Flags /\ report' = Report(verdict)
      /\ UNCHANGED <<fileVars, clientVars, process, config, late, answer>>
      /\ met' = met \cup {<<"validating", verdict>>}
  BY DEF Validated
<1>2. pc' \in {"done", "sending", "asking"}
  BY <1>1 DEF Flags
<1>3. /\ process' \in Processes
      /\ LateOnes' /\ Guarded' /\ Constructed' /\ Loaded' /\ StartedOnlyLate'
  BY <1>1, <1>2, KeptAfterLoad
<1>4. NoneLate' = NoneLate
  BY <1>1 DEF NoneLate, ClientFile, Existing
<1>5. Reported'
  BY <1>1, <1>2 DEF Reported, Report, AgentReport, clientVars
<1>6. sent = None /\ met = {} /\ answer \notin {"", "y", "Y"}
  BY <1>1 DEF IInv, Unsent, Met, Unanswered
<1>7. Unsent' /\ Unanswered'
  BY <1>1, <1>2, <1>6 DEF Unsent, Unanswered, Validated, Flags
<1>8. SentWithConsent'
  <2>1. CASE pc' = "sending"
    <3>1. "--no-send-report" \notin process.argv /\ "--send-report" \in process.argv
      BY <1>1, <2>1 DEF Flags
    <3>2. NoneLate => sent'.key = Read(sent'.report.options, "pushApiKey")
      BY <1>1, <2>1, SubmitSends DEF Validated, Report, clientVars
    <3> QED
      BY <1>1, <1>4, <3>1, <3>2 DEF SentWithConsent
  <2>2. CASE pc' # "sending"
    BY <1>6, <2>2 DEF SentWithConsent, Validated
  <2> QED
    BY <2>1, <2>2
<1>9. CameTo("validating")'
  <2>1. <<"validating", verdict>> \in met' /\ <<"validating", verdict>>[1] = "validating"
    BY <1>1
  <2> QED
    BY <2>1, Zenon DEF CameTo
<1>10. Met'
  BY <1>2, <1>9 DEF Met
<1>11. FailuresSurvived'
  <2>1. verdict \in {"valid", "invalid", "failed to validate", "type error"}
    BY DEF Verdicts
  <2>2. met' \cap Fatal = {}
    <3>1. <<"validating", verdict>> \notin Fatal
      BY <2>1 DEF Fatal
    <3>2. met' = {<<"validating", verdict>>}
      BY <1>1, <1>6
    <3> QED
      BY <3>1, <3>2
  <2>3. pc' = "done" => process.argv # {"--send-report"}
    BY <1>1 DEF Flags
  <2> QED
    BY <1>1, <1>2, <1>6, <1>9, <2>2, <2>3 DEF FailuresSurvived, Fatal, Asked
<1> QED
  BY <1>3, <1>5, <1>7, <1>8, <1>10, <1>11 DEF IInv

\* The end of the tool by what it does not survive.
LEMMA CrashOK ==
  ASSUME IInv, RedirectThrows \/ \E verdict : ValidatedPathGone(verdict)
  PROVE  IInv'
<1>1. /\ pc \in {"validating", "sending"} /\ pc' = "crashed"
      /\ UNCHANGED <<fileVars, clientVars, process, config, late, answer, sent>>
      /\ report' = report \/ \E verdict : report' = Report(verdict)
      /\ report' = report \/ pc = "validating"
      /\ met' \in {met \cup {<<pc, "redirect throws">>}, met \cup {<<"validating", "path gone">>}}
  BY DEF RedirectThrows, InFlight, ValidatedPathGone, toolVars
<1>2. /\ process' \in Processes
      /\ LateOnes' /\ Guarded' /\ Constructed' /\ Loaded' /\ StartedOnlyLate'
  BY <1>1, KeptAfterLoad
<1>3. NoneLate' = NoneLate
  BY <1>1 DEF NoneLate, ClientFile, Existing
<1>4. Reported'
  <2>1. CASE report' = report
    BY <1>1, <1>3, <2>1 DEF IInv, Reported, AgentReport, clientVars
  <2>2. CASE \E verdict : report' = Report(verdict)
    <3>1. PICK verdict : report' = Report(verdict)
      BY <2>2
    <3> QED
      BY <1>1, <3>1 DEF Reported, Report, AgentReport, clientVars
  <2> QED
    BY <1>1, <2>1, <2>2
<1>5. Unsent' /\ Met' /\ Unanswered'
  BY <1>1 DEF Unsent, Met, Unanswered
<1>6. SentWithConsent'
  <2>1. CASE pc = "validating"
    BY <1>1, <2>1 DEF IInv, Unsent, SentWithConsent
  <2>2. CASE pc = "sending"
    BY <1>1, <1>3, <2>2 DEF IInv, SentWithConsent
  <2> QED
    BY <1>1, <2>1, <2>2
<1>7. FailuresSurvived'
  <2>1. \E m \in met' : m \in Fatal
    BY <1>1 DEF Fatal
  <2> QED
    BY <1>1, <2>1 DEF FailuresSurvived, Fatal
<1> QED
  BY <1>2, <1>4, <1>5, <1>6, <1>7 DEF IInv

LEMMA AnswerOK ==
  ASSUME IInv, NEW text, Answer(text)
  PROVE  IInv'
<1>1. /\ pc = "asking" /\ pc' \in {"sending", "done"} /\ report' = report /\ answer' = text
      /\ UNCHANGED <<fileVars, clientVars, process, config, late, met>>
      /\ pc' = "sending" <=> text \in {"", "y", "Y"}
  BY DEF Answer
<1>2. /\ process' \in Processes
      /\ LateOnes' /\ Guarded' /\ Constructed' /\ Loaded' /\ StartedOnlyLate'
  BY <1>1, KeptAfterLoad
<1>3. NoneLate' = NoneLate
  BY <1>1 DEF NoneLate, ClientFile, Existing
<1>4. Reported'
  BY <1>1, <1>3 DEF IInv, Reported, AgentReport, clientVars
<1>5. Unsent' /\ Unanswered'
  BY <1>1 DEF Unsent, Unanswered
<1>6. "--no-send-report" \notin process.argv /\ sent = None
      /\ process.argv # {"--send-report"}
  BY <1>1 DEF IInv, Unsent
<1>7. SentWithConsent'
  <2>1. CASE pc' = "sending"
    <3>1. answer' \in {"", "y", "Y"}
      BY <1>1, <2>1
    <3>2. NoneLate => sent'.key = Read(sent'.report.options, "pushApiKey")
      BY <1>1, <2>1, SubmitSends DEF Answer, IInv, Reported, clientVars
    <3> QED
      BY <1>1, <1>3, <1>6, <3>1, <3>2 DEF SentWithConsent
  <2>2. CASE pc' # "sending"
    BY <1>6, <2>2 DEF SentWithConsent, Answer
  <2> QED
    BY <2>1, <2>2
<1>8. CameTo("validating")'
  BY <1>1 DEF IInv, Met, CameTo
<1>9. Met'
  BY <1>1, <1>8 DEF Met
<1>10. FailuresSurvived'
  BY <1>1, <1>6, <1>8 DEF IInv, FailuresSurvived, Fatal, Asked
<1> QED
  BY <1>2, <1>4, <1>5, <1>7, <1>9, <1>10 DEF IInv

\* The end of the tool changes nothing of what it has found and sent.
LEMMA EndOK ==
  ASSUME IInv, StdinEnds \/ ResponseCut \/ \E outcome \in SendAnswers : SendAnswered(outcome)
  PROVE  IInv'
<1>1. /\ pc \in {"validating", "asking", "sending"}
      /\ pc' \in {"done", "crashed", "cut"}
      /\ UNCHANGED <<fileVars, clientVars, process, config, late, report, answer, sent>>
  BY DEF StdinEnds, ResponseCut, InFlight, SendAnswered, toolVars, endVars
<1>2. /\ process' \in Processes
      /\ LateOnes' /\ Guarded' /\ Constructed' /\ Loaded' /\ StartedOnlyLate'
  BY <1>1, KeptAfterLoad
<1>3. NoneLate' = NoneLate
  BY <1>1 DEF NoneLate, ClientFile, Existing
<1>4. Reported' /\ Unsent' /\ Met' /\ Unanswered' /\ SentWithConsent'
  BY <1>1, <1>3
  DEF IInv, Reported, AgentReport, Unsent, Met, Unanswered, SentWithConsent, clientVars
<1>5. FailuresSurvived'
  <2>1. CASE StdinEnds
    <3>1. pc = "asking" /\ pc' = "done" /\ met' = met
      BY <2>1 DEF StdinEnds
    <3>2. "--no-send-report" \notin process.argv /\ ~Asked /\ CameTo("validating")
      BY <3>1 DEF IInv, Unsent, Met, Unanswered, Asked
    <3> QED
      BY <1>1, <3>1, <3>2 DEF IInv, FailuresSurvived, Asked, CameTo, Fatal
  <2>2. CASE ResponseCut
    <3>1. pc \in {"validating", "sending"} /\ pc' = "cut" /\ met' = met
      BY <2>2 DEF ResponseCut, InFlight, endVars
    <3> QED
      BY <3>1 DEF IInv, FailuresSurvived, Fatal
  <2>3. ASSUME NEW outcome \in SendAnswers, SendAnswered(outcome) PROVE FailuresSurvived'
    <3>1. pc = "sending" /\ met' = met \cup {<<"sending", outcome>>}
      BY <2>3 DEF SendAnswered
    <3>2. CameTo("validating")' /\ CameTo("sending")'
      <4>1. CameTo("validating")'
        BY <3>1 DEF IInv, Met, CameTo
      <4>2. <<"sending", outcome>> \in met' /\ <<"sending", outcome>>[1] = "sending"
        BY <3>1
      <4> QED
        BY <4>1, <4>2, Zenon DEF CameTo
    <3>3. outcome \in {"200 with a token", "200 with null", "other status",
                       "request error", "type error"}
      BY <2>3 DEF SendAnswers
    <3>4. met \cap Fatal = {}
      BY <3>1 DEF IInv, FailuresSurvived
    <3>5. <<"sending", outcome>> \in Fatal <=> outcome \in {"200 with null", "type error"}
      BY <3>3 DEF Fatal
    <3>6. met' \cap Fatal # {} <=> outcome \in {"200 with null", "type error"}
      BY <3>1, <3>4, <3>5
    <3>7. pc' = "crashed" <=> outcome \in {"200 with null", "type error"}
      BY <2>3 DEF SendAnswered
    <3> QED
      BY <3>2, <3>6, <3>7 DEF FailuresSurvived, Fatal
  <2> QED
    BY <2>1, <2>2, <2>3
<1> QED
  BY <1>2, <1>4, <1>5 DEF IInv

LEMMA StutterOK == IInv /\ UNCHANGED vars => IInv'
<1> SUFFICES ASSUME IInv, UNCHANGED vars PROVE IInv'
  OBVIOUS
<1>1. /\ pc' = pc /\ UNCHANGED <<fileVars, clientVars, process, config, late>>
      /\ UNCHANGED <<report, answer, met, sent>>
  BY DEF vars, toolVars, endVars
<1>2. /\ process' \in Processes
      /\ LateOnes' /\ Guarded' /\ Constructed' /\ Loaded' /\ StartedOnlyLate'
  BY <1>1, KeptAfterLoad
<1>3. NoneLate' = NoneLate
  BY <1>1 DEF NoneLate, ClientFile, Existing
<1>4. Reported' /\ Unsent' /\ Met' /\ Unanswered' /\ SentWithConsent' /\ FailuresSurvived'
  BY <1>1, <1>3 DEF IInv, Reported, AgentReport, Unsent, Met, CameTo, Unanswered,
                    SentWithConsent, FailuresSurvived, Fatal, Asked, clientVars
<1> QED
  BY <1>2, <1>4 DEF IInv

THEOREM NextOK == IInv /\ [Next]_vars => IInv'
<1> SUFFICES ASSUME IInv, [Next]_vars PROVE IInv'
  OBVIOUS
<1>1. CASE Load \/ ConstructClient \/ Configure
  BY <1>1, LoadOK, ConstructClientOK, ConfigureOK
<1>2. CASE LateClient
  BY <1>2, LateClientOK
<1>3. CASE SomeValidated \/ RedirectThrows
  BY <1>3, ValidatedOK, CrashOK DEF SomeValidated
<1>4. CASE \E text \in {"", "y", "Y", "n", "yes"} : Answer(text)
  BY <1>4, AnswerOK
<1>5. CASE StdinEnds \/ SomeSendAnswered \/ ResponseCut
  BY <1>5, EndOK DEF SomeSendAnswered
<1>6. CASE UNCHANGED vars
  BY <1>6, StutterOK
<1> QED
  BY <1>1, <1>2, <1>3, <1>4, <1>5, <1>6 DEF Next

THEOREM Invariance == Spec => []IInv
BY InitOK, NextOK, PTL DEF Spec
-----------------------------------------------------------------------------
(* What the tool promises                                                  *)

\* No report leaves the machine without the consent of the user, and it goes
\* out under the key of the configuration that it shows.
THEOREM SentWithConsentHolds == Spec => []SentWithConsent
<1>1. IInv => SentWithConsent
  BY DEF IInv
<1> QED
  BY <1>1, Invariance, PTL

\* The agent that is diagnosed runs under the configuration that is printed,
\* whatever clients the file of the application constructs.
THEOREM AgentAgreesHolds == Spec => []AgentAgrees
<1>1. IInv => AgentAgrees
  <2> SUFFICES ASSUME IInv, report # None, process.isLoaded, NoneLate
               PROVE  /\ \A k \in Told(report.options) :
                           LET shown == Max(ConfigurationKeySources(report.sources, k)) IN
                           /\ k \in DOMAIN report.agent
                           /\ report.agent[k] = report.sources[SourceNames[shown]][k].text
                      /\ report.made = 1 =>
                           DOMAIN report.agent \ {"logFilePath"} = Told(report.options)
    BY DEF AgentAgrees
  <2>1. /\ report.options = Merge(config) /\ report.sources = config
        /\ report.agent = privateEnv /\ report.made = made
    BY DEF IInv, Reported, AgentReport
  <2>2. pc \notin {"started", "loading"}
    BY DEF IInv, Reported
  <2>3. ASSUME NEW k \in Told(Merge(config))
        PROVE  /\ k \in DOMAIN privateEnv
               /\ privateEnv[k]
                    = config[SourceNames[Max(ConfigurationKeySources(config, k))]][k].text
    <3>1. k \in DOMAIN privateEnv /\ privateEnv[k] = Merge(config)[k].text
      BY <2>2 DEF IInv, Loaded, Tells
    <3>2. k \in DOMAIN Merge(config)
      BY DEF Told
    <3> QED
      BY <3>1, <3>2, LastSource
  <2>4. made = 1 => DOMAIN privateEnv \ {"logFilePath"} = Told(Merge(config))
    BY <2>2 DEF IInv, Loaded, Tells
  <2> QED
    BY <2>1, <2>3, <2>4
<1> QED
  BY <1>1, Invariance, PTL

\* No client that the file constructs while it is loaded starts AppSignal, and
\* every valid one that is constructed later does, wherever the file is and
\* however many clients there are.
THEOREM StartedOnlyLateHolds == Spec => []StartedOnlyLate
<1>1. IInv => StartedOnlyLate
  BY DEF IInv
<1> QED
  BY <1>1, Invariance, PTL

\* The tool falls over for the reasons it is known to and for no other, and when
\* it does not, no failure keeps it from validating, or from sending what it was
\* asked to send.
THEOREM FailuresSurvivedHolds == Spec => []FailuresSurvived
<1>1. IInv => FailuresSurvived
  BY DEF IInv
<1> QED
  BY <1>1, Invariance, PTL
=============================================================================
