------------------------------ MODULE Logging ------------------------------
(***************************************************************************)
(* How log entries reach the agent: the loggers of src/src/logger.ts that  *)
(* Client.logger() hands out, the Winston transport and the Pino           *)
(* transport.                                                              *)
(*                                                                         *)
(* A logger calls the extension at once.  The Winston transport is a       *)
(* stream behind the stream of the Winston logger: it takes one entry at a *)
(* time, keeps a few more, and makes the logger wait when it is full.  The *)
(* Pino transport reads its entries in a worker.                           *)
(***************************************************************************)
EXTENDS Naturals, Sequences

CONSTANTS Levels,       \* the levels entries are logged with, known or not
          PinoLevels,   \* the same for Pino: numbers
          None,         \* undefined, or no entry
          noopLogger,   \* the logger that drops what it is given
          MaxEntries,   \* bound: entries logged
          MaxClients    \* bound: clients constructed

ASSUME LevelsAssumption == None \notin Levels /\ noopLogger # None /\ PinoLevels \subseteq Nat
ASSUME LoggingBoundsAssumption == MaxEntries \in Nat /\ MaxClients \in Nat

VARIABLES
  client,     \* is Client.client active? None when there is none
  made,       \* history: clients constructed
  logger,     \* a logger the application keeps: its threshold, or noopLogger
  entries,    \* history: every entry logged, in order
  upstream,   \* Winston: the entries the transport has not been handed
  writing,    \* Winston: the entry whose callback was not called by log()
  worker,     \* Pino: the entries the worker has not read
  agent       \* history: what the extension was given, in order

vars == <<client, made, logger, entries, upstream, writing, worker, agent>>

-----------------------------------------------------------------------------
(* Severities                                                              *)

LOGGER_LEVEL_SEVERITY ==
  [trace |-> 1, debug |-> 2, info |-> 3, log |-> 4, warn |-> 5, error |-> 6]

NPM_LOGGER_LEVEL_SEVERITY ==
  [error |-> 6, warn |-> 5, info |-> 3, http |-> 3, verbose |-> 2, debug |-> 2,
   silly |-> 1]

SYSLOG_LOGGER_LEVEL_SEVERITY ==
  [emerg |-> 9, alert |-> 8, crit |-> 7, error |-> 6, warning |-> 5,
   notice |-> 4, info |-> 3, debug |-> 2]

UNKNOWN_SEVERITY == 0

\* severity() of logger.ts.
severity(level) ==
  IF level \in DOMAIN LOGGER_LEVEL_SEVERITY THEN LOGGER_LEVEL_SEVERITY[level]
                                            ELSE UNKNOWN_SEVERITY

\* { ...below, ...above }
Spread(below, above) ==
  [level \in DOMAIN below \cup DOMAIN above |->
     IF level \in DOMAIN above THEN above[level] ELSE below[level]]

\* Slip: the levels of syslog are not in the table.
WinstonSeverityOfNpm(level) ==
  LET table == Spread(LOGGER_LEVEL_SEVERITY, NPM_LOGGER_LEVEL_SEVERITY) IN
  IF level \in DOMAIN table THEN table[level] ELSE table["info"]

\* severity() of winston_transport.ts: the later tables override the earlier.
WinstonSeverity(level) ==
  LET table == Spread(Spread(LOGGER_LEVEL_SEVERITY, NPM_LOGGER_LEVEL_SEVERITY),
                      SYSLOG_LOGGER_LEVEL_SEVERITY) IN
  IF level \in DOMAIN table THEN table[level] ELSE table["info"]

\* getSeverity() of pino_transport.ts.
getSeverity(level) ==
  CASE level >= 50                -> severity("error")
    [] level >= 40 /\ level < 50  -> severity("warn")
    [] level >= 30 /\ level < 40  -> severity("info")
    [] level >= 20 /\ level < 30  -> severity("debug")
    [] level < 20                 -> severity("trace")

-----------------------------------------------------------------------------
Init ==
  /\ client = None
  /\ made = 0
  /\ logger = None
  /\ entries = <<>>
  /\ upstream = <<>>
  /\ writing = None
  /\ worker = <<>>
  /\ agent = <<>>

\* new Client(), which is Client.client from here on.
Construct(isActive) ==
  /\ made < MaxClients
  /\ made' = made + 1
  /\ client' = isActive
  /\ UNCHANGED <<logger, entries, upstream, writing, worker, agent>>

\* The application logs: n is the place of an entry among all it logs.
n == Len(entries) + 1

Issue(source, level, group) ==
  /\ Len(entries) < MaxEntries
  /\ entries' = Append(entries, [source |-> source, level |-> level,
                                 group |-> group, active |-> client])

\* extension.log() of an entry.
Sent(i, group, level) == Append(agent, [n |-> i, group |-> group, severity |-> level])

-----------------------------------------------------------------------------
(* logger.ts and Client.logger                                             *)

\* The threshold of new BaseLogger(client, group, level).
BaseLogger(level) ==
  IF severity(level) = UNKNOWN_SEVERITY THEN severity("info") ELSE severity(level)

\* Client.logger(group, level): without an active client, one that drops what
\* it is given and always will.
GetLogger(level) ==
  /\ logger = None
  /\ logger' = IF client = TRUE THEN BaseLogger(level) ELSE noopLogger
  /\ UNCHANGED <<client, made, entries, upstream, writing, worker, agent>>

\* trace() to error(), by way of sendLog().
LoggerLogs(level) ==
  /\ logger # None
  /\ level \in DOMAIN LOGGER_LEVEL_SEVERITY
  /\ Issue("logger", level, "logger")
  /\ agent' = IF logger = noopLogger \/ severity(level) < logger THEN agent
              ELSE Sent(n, "logger", severity(level))
  /\ UNCHANGED <<client, made, logger, upstream, writing, worker>>

-----------------------------------------------------------------------------
(* winston_transport.ts                                                    *)

\* The application logs with Winston.  A child logger may set a group, or
\* something that is not a string.
WinstonLogs(level, group) ==
  /\ Issue("winston", level, group)
  /\ upstream' = Append(upstream, n)
  /\ UNCHANGED <<client, made, logger, writing, worker, agent>>

\* The group of the entry if it has one, or the transport's.
SentByWinston(i) ==
  Sent(i, IF entries[i].group = None THEN "winston" ELSE entries[i].group,
       WinstonSeverity(entries[i].level))

\* Slip: the callback is never called.
logForgets(i) ==
  /\ writing' = i
  /\ agent' = IF client = TRUE THEN SentByWinston(i) ELSE agent

\* log(info, callback): what the agent is given, and whether the callback is
\* called.
log(i) ==
  IF client = TRUE THEN agent' = SentByWinston(i) /\ UNCHANGED writing
                   ELSE writing' = i /\ UNCHANGED agent

\* The stream hands the transport its next entry once log() has called back
\* for the one before.
TransportWrites ==
  /\ upstream # <<>>
  /\ writing = None
  /\ log(Head(upstream))
  /\ upstream' = Tail(upstream)
  /\ UNCHANGED <<client, made, logger, entries, worker>>

-----------------------------------------------------------------------------
(* pino_transport.ts                                                       *)

PinoLogs(level) ==
  /\ Issue("pino", level, "pino")
  /\ worker' = Append(worker, n)
  /\ UNCHANGED <<client, made, logger, upstream, writing, agent>>

\* The level of an entry without one is 0.
SentByPino(i) ==
  Sent(i, "pino",
       getSeverity(IF entries[i].level = None THEN 0 ELSE entries[i].level))

\* Slip: the newest entry first.
sendLogsNewest ==
  /\ worker # <<>>
  /\ agent' = SentByPino(worker[Len(worker)])
  /\ worker' = SubSeq(worker, 1, Len(worker) - 1)
  /\ UNCHANGED <<client, made, logger, entries, upstream, writing>>

\* The worker has an extension of its own, whatever the client.
sendLogs ==
  /\ worker # <<>>
  /\ agent' = SentByPino(Head(worker))
  /\ worker' = Tail(worker)
  /\ UNCHANGED <<client, made, logger, entries, upstream, writing>>

-----------------------------------------------------------------------------
Next ==
  \/ \E isActive \in BOOLEAN : Construct(isActive)
  \/ \E level \in Levels : GetLogger(level) \/ LoggerLogs(level)
  \/ \E level \in Levels, group \in {"child", None} : WinstonLogs(level, group)
  \/ \E level \in PinoLevels \cup {None} : PinoLogs(level)
  \/ TransportWrites
  \/ sendLogs

\* The application owes nothing; streams and the worker go on while they can.
Fairness == WF_vars(TransportWrites) /\ WF_vars(sendLogs)

Spec == Init /\ [][Next]_vars
FairSpec == Spec /\ Fairness

-----------------------------------------------------------------------------
IsSent(i) == \E k \in DOMAIN agent : agent[k].n = i

FromSource(source) ==
  {i \in DOMAIN entries : entries[i].source = source}

\* An entry reaches the agent at most once, and entries of one source in the
\* order they were logged, through streams, workers and changes of client.
OnceInOrder ==
  \A j, k \in DOMAIN agent :
    j < k /\ entries[agent[j].n].source = entries[agent[k].n].source
      => agent[j].n < agent[k].n

\* What is an error to the application is one to AppSignal, with the group it
\* was logged for, whichever way the entry takes: no table or default of the
\* three implementations makes it less.
ErrorsStayErrors ==
  \A k \in DOMAIN agent :
    LET e == entries[agent[k].n] IN
    /\ (IF e.source = "pino" THEN e.level # None /\ e.level >= 50
                            ELSE e.level \in {"error", "crit", "alert", "emerg"})
         <=> agent[k].severity >= severity("error")
    /\ agent[k].group = (IF e.group = None THEN e.source ELSE e.group)

\* While every entry so far was logged with an active client, Winston's
\* entries are sent, or the client is replaced by an inactive one.
WinstonFlows ==
  \A i \in 1 .. MaxEntries :
    (/\ i \in FromSource("winston")
     /\ \A j \in FromSource("winston") : j <= i => entries[j].active = TRUE)
      ~> (IsSent(i) \/ client # TRUE)
=============================================================================
