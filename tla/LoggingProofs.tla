--------------------------- MODULE LoggingProofs ---------------------------
(***************************************************************************)
(* The order in which entries reach the agent, and the severity and group  *)
(* they reach it with, for any number of entries and of clients, and any    *)
(* levels.                                                                 *)
(***************************************************************************)
EXTENDS Logging, Integers, TLAPS

\* What waits in a stream or for a worker: entries of one source, in the order
\* they were logged, all later than what the agent was given of it.
Waits(queue, numbers, given) ==
  /\ queue \in Seq(Nat)
  /\ \A i \in DOMAIN queue : queue[i] \in numbers
  /\ \A i, j \in DOMAIN queue : i < j => queue[i] < queue[j]
  /\ \A k \in DOMAIN given, i \in DOMAIN queue :
       given[k].n \in numbers => given[k].n < queue[i]

\* The agent was given entries that were logged.
GivenInv ==
  /\ Len(entries) \in Nat /\ DOMAIN entries = 1..Len(entries)
  /\ Len(agent) \in Nat /\ DOMAIN agent = 1..Len(agent)
  /\ \A k \in DOMAIN agent : agent[k].n \in DOMAIN entries

OrderInv ==
  /\ GivenInv
  /\ Waits(upstream, FromSource("winston"), agent)
  /\ Waits(worker, FromSource("pino"), agent)
  /\ OnceInOrder

LEMMA AppendIsLast ==
  ASSUME NEW s, NEW x, Len(s) \in Nat, DOMAIN s = 1..Len(s)
  PROVE  /\ Len(Append(s, x)) = Len(s) + 1
         /\ DOMAIN Append(s, x) = 1..(Len(s) + 1)
         /\ \A i \in 1..Len(s) : Append(s, x)[i] = s[i]
         /\ Append(s, x)[Len(s) + 1] = x
OBVIOUS

\* A log entry gets the next number and is one of its source.
LEMMA IssueNumbers ==
  ASSUME GivenInv, NEW source, NEW level, NEW group, Issue(source, level, group)
  PROVE  /\ n \in Nat /\ Len(entries') = n /\ DOMAIN entries' = 1..n
         /\ \A i \in DOMAIN entries : i \in Nat /\ i < n
         /\ DOMAIN entries' = DOMAIN entries \cup {n}
         /\ \A i \in DOMAIN entries : entries'[i] = entries[i]
         /\ entries'[n].source = source
<1> DEFINE e == [source |-> source, level |-> level, group |-> group,
                 active |-> client]
<1>1. entries' = Append(entries, e) /\ e.source = source
  BY DEF Issue
<1> HIDE DEF e
<1>2. /\ Len(entries') = Len(entries) + 1
      /\ DOMAIN entries' = 1..(Len(entries) + 1)
      /\ \A i \in 1..Len(entries) : entries'[i] = entries[i]
      /\ entries'[Len(entries) + 1] = e
  BY <1>1, AppendIsLast DEF GivenInv
<1> QED
  BY <1>1, <1>2 DEF GivenInv, n

LEMMA IssueSources ==
  ASSUME GivenInv, NEW source, NEW level, NEW group, Issue(source, level, group),
         NEW other
  PROVE  FromSource(other)' = FromSource(other) \cup (IF other = source THEN {n} ELSE {})
BY IssueNumbers DEF FromSource

\* The agent is given one entry more, which was logged.
LEMMA Gives ==
  ASSUME GivenInv, NEW i, NEW group, NEW level, agent' = Sent(i, group, level)
  PROVE  /\ Len(agent') = Len(agent) + 1 /\ DOMAIN agent' = 1..(Len(agent) + 1)
         /\ \A k \in DOMAIN agent : agent'[k] = agent[k]
         /\ agent'[Len(agent) + 1].n = i
<1> DEFINE e == [n |-> i, group |-> group, severity |-> level]
<1>1. agent' = Append(agent, e) /\ e.n = i
  BY DEF Sent
<1> HIDE DEF e
<1> QED
  BY <1>1, AppendIsLast DEF GivenInv

\* What waits goes on waiting in order while other entries are logged and the
\* agent is given none of its source.
LEMMA WaitsOn ==
  ASSUME NEW queue, NEW source, Waits(queue, FromSource(source), agent),
         FromSource(source) \subseteq FromSource(source)',
         \A k \in DOMAIN agent : agent[k].n \in FromSource(source)' =>
                                   agent[k].n \in FromSource(source),
         \A k \in DOMAIN agent' :
           \/ k \in DOMAIN agent /\ agent'[k] = agent[k]
           \/ agent'[k].n \notin FromSource(source)'
  PROVE  Waits(queue, FromSource(source)', agent')
BY DEF Waits

\* An entry is given to the agent that is the latest of its source so far.
LEMMA GivesInOrder ==
  ASSUME OrderInv, NEW i \in DOMAIN entries', NEW group, NEW level,
         agent' = Sent(i, group, level),
         DOMAIN entries \subseteq DOMAIN entries',
         \A e \in DOMAIN entries : entries'[e].source = entries[e].source,
         Len(entries') \in Nat, DOMAIN entries' = 1..Len(entries'),
         \A k \in DOMAIN agent :
           entries[agent[k].n].source = entries'[i].source => agent[k].n < i
  PROVE  GivenInv' /\ OnceInOrder'
<1>1. /\ Len(agent') = Len(agent) + 1 /\ DOMAIN agent' = 1..(Len(agent) + 1)
      /\ \A k \in DOMAIN agent : agent'[k] = agent[k]
      /\ agent'[Len(agent) + 1].n = i
  BY Gives DEF OrderInv
<1>2. GivenInv'
  BY <1>1 DEF OrderInv, GivenInv
<1>3. ASSUME NEW j \in DOMAIN agent', NEW k \in DOMAIN agent', j < k,
             entries'[agent'[j].n].source = entries'[agent'[k].n].source
      PROVE  agent'[j].n < agent'[k].n
  <2>1. j \in DOMAIN agent
    BY <1>1, <1>3 DEF OrderInv, GivenInv
  <2>2. CASE k \in DOMAIN agent
    BY <1>1, <1>3, <2>1, <2>2 DEF OrderInv, GivenInv, OnceInOrder
  <2>3. CASE k = Len(agent) + 1
    BY <1>1, <1>3, <2>1, <2>3 DEF OrderInv, GivenInv
  <2> QED
    BY <1>1, <2>2, <2>3 DEF OrderInv, GivenInv
<1> QED
  BY <1>2, <1>3 DEF OnceInOrder

\* The agent is given nothing.
LEMMA KeepsOrder ==
  ASSUME OrderInv, agent' = agent, DOMAIN entries \subseteq DOMAIN entries',
         \A e \in DOMAIN entries : entries'[e].source = entries[e].source,
         Len(entries') \in Nat, DOMAIN entries' = 1..Len(entries')
  PROVE  GivenInv' /\ OnceInOrder'
BY DEF OrderInv, GivenInv, OnceInOrder

\* An entry joins what waits.
LEMMA Joins ==
  ASSUME NEW queue \in Seq(Nat), NEW m \in Nat,
         \A i \in DOMAIN queue : queue[i] < m,
         \A i, j \in DOMAIN queue : i < j => queue[i] < queue[j]
  PROVE  /\ Append(queue, m) \in Seq(Nat)
         /\ \A i \in DOMAIN Append(queue, m) :
              \/ i \in DOMAIN queue /\ Append(queue, m)[i] = queue[i]
              \/ Append(queue, m)[i] = m
         /\ \A i, j \in DOMAIN Append(queue, m) :
              i < j => Append(queue, m)[i] < Append(queue, m)[j]
<1> DEFINE longer == Append(queue, m)
<1>1. /\ Len(queue) \in Nat /\ DOMAIN queue = 1..Len(queue)
      /\ longer \in Seq(Nat)
  OBVIOUS
<1>2. /\ DOMAIN longer = 1..(Len(queue) + 1)
      /\ \A i \in 1..Len(queue) : longer[i] = queue[i]
      /\ longer[Len(queue) + 1] = m
  BY <1>1, AppendIsLast
<1> HIDE DEF longer
<1> QED
  BY <1>1, <1>2 DEF longer

\* The first that waits is taken: it came before the others.
LEMMA Taken ==
  ASSUME NEW queue \in Seq(Nat), queue # <<>>,
         \A i, j \in DOMAIN queue : i < j => queue[i] < queue[j]
  PROVE  /\ Tail(queue) \in Seq(Nat)
         /\ 1 \in DOMAIN queue /\ Head(queue) = queue[1]
         /\ \A i \in DOMAIN Tail(queue) :
              i + 1 \in DOMAIN queue /\ Tail(queue)[i] = queue[i + 1]
         /\ \A i \in DOMAIN Tail(queue) : Head(queue) < Tail(queue)[i]
         /\ \A i, j \in DOMAIN Tail(queue) :
              i < j => Tail(queue)[i] < Tail(queue)[j]
<1> DEFINE rest == Tail(queue)
<1>1. /\ Len(queue) \in Nat /\ Len(queue) > 0 /\ DOMAIN queue = 1..Len(queue)
      /\ Head(queue) = queue[1]
  OBVIOUS
<1>2. /\ rest \in Seq(Nat) /\ DOMAIN rest = 1..Len(rest) /\ Len(rest) = Len(queue) - 1
      /\ \A i \in 1..Len(rest) : rest[i] = queue[i + 1]
  BY <1>1
<1> HIDE DEF rest
<1>3. \A i \in DOMAIN rest : i \in Nat /\ i + 1 \in DOMAIN queue /\ 1 < i + 1
  BY <1>1, <1>2
<1>4. \A i, j \in DOMAIN rest : i < j => rest[i] < rest[j]
  BY <1>1, <1>2, <1>3
<1> QED
  BY <1>1, <1>2, <1>3, <1>4 DEF rest

-----------------------------------------------------------------------------
LEMMA LoggerStep ==
  ASSUME OrderInv, NEW level, LoggerLogs(level) PROVE OrderInv'
<1>1. /\ Issue("logger", level, "logger")
      /\ UNCHANGED <<upstream, worker>>
      /\ agent' = agent \/ agent' = Sent(n, "logger", severity(level))
  BY DEF LoggerLogs
<1>2. /\ n \in Nat /\ Len(entries') = n /\ DOMAIN entries' = 1..n
      /\ \A i \in DOMAIN entries : i \in Nat /\ i < n
      /\ DOMAIN entries' = DOMAIN entries \cup {n}
      /\ \A i \in DOMAIN entries : entries'[i] = entries[i]
      /\ entries'[n].source = "logger"
  BY <1>1, IssueNumbers DEF OrderInv
<1>3. \A k \in DOMAIN agent : agent[k].n \in DOMAIN entries
  BY DEF OrderInv, GivenInv
<1>4. GivenInv' /\ OnceInOrder'
  <2>1. CASE agent' = agent
    BY <1>2, <2>1, KeepsOrder
  <2>2. CASE agent' = Sent(n, "logger", severity(level))
    <3>1. \A k \in DOMAIN agent : agent[k].n < n
      BY <1>2, <1>3
    <3>2. n \in DOMAIN entries'
      BY <1>2
    <3> QED
      BY <1>2, <2>2, <3>1, <3>2, GivesInOrder
  <2> QED
    BY <1>1, <2>1, <2>2
<1>5. \A s \in {"winston", "pino"} : FromSource(s)' = FromSource(s) /\ n \notin FromSource(s)
  BY <1>1, <1>2, IssueSources DEF OrderInv, FromSource
<1>6. \A k \in DOMAIN agent' :
        \/ k \in DOMAIN agent /\ agent'[k] = agent[k]
        \/ agent'[k].n = n
  <2>1. CASE agent' = agent
    BY <2>1
  <2>2. CASE agent' = Sent(n, "logger", severity(level))
    BY <2>2, Gives DEF OrderInv, GivenInv
  <2> QED
    BY <1>1, <2>1, <2>2
<1>7. Waits(upstream', FromSource("winston")', agent')
  BY <1>1, <1>5, <1>6, WaitsOn DEF OrderInv
<1>8. Waits(worker', FromSource("pino")', agent')
  BY <1>1, <1>5, <1>6, WaitsOn DEF OrderInv
<1> QED
  BY <1>4, <1>7, <1>8 DEF OrderInv

\* An entry is logged with Winston or Pino: it waits behind the others, and
\* what waits of the other source is none the worse for it.
LEMMA JoinsStep ==
  ASSUME OrderInv, NEW source, NEW level, NEW group, Issue(source, level, group),
         agent' = agent,
         NEW queue, Waits(queue, FromSource(source), agent),
         NEW others, NEW other, other # source,
         Waits(others, FromSource(other), agent)
  PROVE  /\ GivenInv' /\ OnceInOrder'
         /\ Waits(Append(queue, n), FromSource(source)', agent')
         /\ Waits(others, FromSource(other)', agent')
<1>1. /\ n \in Nat /\ Len(entries') = n /\ DOMAIN entries' = 1..n
      /\ \A i \in DOMAIN entries : i \in Nat /\ i < n
      /\ DOMAIN entries' = DOMAIN entries \cup {n}
      /\ \A i \in DOMAIN entries : entries'[i] = entries[i]
      /\ entries'[n].source = source
  BY IssueNumbers DEF OrderInv
<1>2. GivenInv' /\ OnceInOrder'
  BY <1>1, KeepsOrder
<1>3. \A k \in DOMAIN agent : agent[k].n \in DOMAIN entries
  BY DEF OrderInv, GivenInv
<1>4. /\ FromSource(source)' = FromSource(source) \cup {n}
      /\ FromSource(other)' = FromSource(other)
  BY IssueSources DEF OrderInv
<1>5. Waits(others, FromSource(other)', agent')
  BY <1>4, WaitsOn
<1>6. Waits(Append(queue, n), FromSource(source)', agent')
  <2>1. \A i \in DOMAIN queue : queue[i] < n
    BY <1>1 DEF Waits, FromSource
  <2>2. /\ Append(queue, n) \in Seq(Nat)
        /\ \A i \in DOMAIN Append(queue, n) :
             \/ i \in DOMAIN queue /\ Append(queue, n)[i] = queue[i]
             \/ Append(queue, n)[i] = n
        /\ \A i, j \in DOMAIN Append(queue, n) :
             i < j => Append(queue, n)[i] < Append(queue, n)[j]
    BY <1>1, <2>1, Joins DEF Waits
  <2> DEFINE longer == Append(queue, n)
  <2> HIDE DEF longer
  <2>3. \A i \in DOMAIN longer : longer[i] \in FromSource(source)'
    BY <1>4, <2>2 DEF Waits, longer
  <2>4. \A k \in DOMAIN agent, i \in DOMAIN longer :
          agent[k].n \in FromSource(source)' => agent[k].n < longer[i]
    BY <1>1, <1>3, <1>4, <2>2 DEF Waits, longer
  <2> QED
    BY <2>2, <2>3, <2>4 DEF Waits, longer
<1> QED
  BY <1>2, <1>5, <1>6

\* The first that waits is taken, and the agent is given it or not.
LEMMA TakenStep ==
  ASSUME OrderInv, entries' = entries,
         NEW queue, NEW source, Waits(queue, FromSource(source), agent),
         queue # <<>>,
         NEW group, NEW level,
         agent' = agent \/ agent' = Sent(Head(queue), group, level),
         NEW others, NEW other, other # source,
         Waits(others, FromSource(other), agent)
  PROVE  /\ GivenInv' /\ OnceInOrder'
         /\ Waits(Tail(queue), FromSource(source)', agent')
         /\ Waits(others, FromSource(other)', agent')
<1>1. /\ Tail(queue) \in Seq(Nat)
      /\ 1 \in DOMAIN queue /\ Head(queue) = queue[1]
      /\ \A i \in DOMAIN Tail(queue) :
           i + 1 \in DOMAIN queue /\ Tail(queue)[i] = queue[i + 1]
      /\ \A i \in DOMAIN Tail(queue) : Head(queue) < Tail(queue)[i]
      /\ \A i, j \in DOMAIN Tail(queue) : i < j => Tail(queue)[i] < Tail(queue)[j]
  BY Taken DEF Waits
<1> DEFINE m == Head(queue)
           rest == Tail(queue)
<1>2. m \in FromSource(source)
  BY <1>1 DEF Waits
<1> HIDE DEF m, rest
<1>3. /\ Len(entries) \in Nat /\ DOMAIN entries = 1..Len(entries)
      /\ \A k \in DOMAIN agent : agent[k].n \in DOMAIN entries
  BY DEF OrderInv, GivenInv
<1>4. GivenInv' /\ OnceInOrder'
  <2>1. CASE agent' = agent
    BY <1>3, <2>1, KeepsOrder
  <2>2. CASE agent' = Sent(m, group, level)
    <3>1. m \in DOMAIN entries' /\ entries[m].source = source
      BY <1>2 DEF FromSource
    <3>2. \A k \in DOMAIN agent :
            entries[agent[k].n].source = entries'[m].source => agent[k].n < m
      BY <1>1, <1>3, <3>1 DEF Waits, FromSource, m
    <3> QED
      BY <1>3, <2>2, <3>1, <3>2, GivesInOrder
  <2> QED
    BY <2>1, <2>2 DEF m
<1>5. \A s : FromSource(s)' = FromSource(s)
  BY DEF FromSource
<1>6. \A k \in DOMAIN agent' :
        \/ k \in DOMAIN agent /\ agent'[k] = agent[k]
        \/ agent'[k].n = m
  <2>1. CASE agent' = agent
    BY <2>1
  <2>2. CASE agent' = Sent(m, group, level)
    BY <2>2, Gives DEF OrderInv, GivenInv
  <2> QED
    BY <2>1, <2>2 DEF m
<1>7. Waits(others, FromSource(other)', agent')
  <2>1. m \notin FromSource(other)
    BY <1>2 DEF FromSource
  <2> QED
    BY <1>5, <1>6, <2>1, WaitsOn
<1>8. Waits(rest, FromSource(source)', agent')
  <2>1. \A i \in DOMAIN rest : rest[i] \in FromSource(source)
    BY <1>1 DEF Waits, rest
  <2>2. \A k \in DOMAIN agent', i \in DOMAIN rest :
          agent'[k].n \in FromSource(source) => agent'[k].n < rest[i]
    BY <1>1, <1>6 DEF Waits, rest, m
  <2>3. rest \in Seq(Nat) /\ \A i, j \in DOMAIN rest : i < j => rest[i] < rest[j]
    BY <1>1 DEF rest
  <2> QED
    BY <1>5, <2>1, <2>2, <2>3 DEF Waits
<1> QED
  BY <1>4, <1>7, <1>8 DEF rest

LEMMA OrderStep == OrderInv /\ [Next]_vars => OrderInv'
<1> SUFFICES ASSUME OrderInv, [Next]_vars PROVE OrderInv'
  OBVIOUS
<1>1. ASSUME NEW level, LoggerLogs(level) PROVE OrderInv'
  BY <1>1, LoggerStep
<1>2. ASSUME NEW level, NEW group, WinstonLogs(level, group) PROVE OrderInv'
  <2>1. /\ Issue("winston", level, group) /\ agent' = agent
        /\ upstream' = Append(upstream, n) /\ worker' = worker
    BY <1>2 DEF WinstonLogs
  <2> QED
    BY <2>1, JoinsStep DEF OrderInv
<1>3. ASSUME NEW level, PinoLogs(level) PROVE OrderInv'
  <2>1. /\ Issue("pino", level, "pino") /\ agent' = agent
        /\ worker' = Append(worker, n) /\ upstream' = upstream
    BY <1>3 DEF PinoLogs
  <2> QED
    BY <2>1, JoinsStep DEF OrderInv
<1>4. CASE TransportWrites
  <2>1. /\ upstream # <<>> /\ upstream' = Tail(upstream)
        /\ entries' = entries /\ worker' = worker
    BY <1>4 DEF TransportWrites
  <2>2. PICK g, l : agent' = agent \/ agent' = Sent(Head(upstream), g, l)
    BY <1>4 DEF TransportWrites, log, SentByWinston
  <2>3. /\ Waits(upstream, FromSource("winston"), agent)
        /\ Waits(worker, FromSource("pino"), agent)
    BY DEF OrderInv
  <2>4. /\ GivenInv' /\ OnceInOrder'
        /\ Waits(Tail(upstream), FromSource("winston")', agent')
        /\ Waits(worker, FromSource("pino")', agent')
    BY <2>1, <2>2, <2>3, TakenStep
  <2> QED
    BY <2>1, <2>4 DEF OrderInv
<1>5. CASE sendLogs
  <2>1. /\ worker # <<>> /\ worker' = Tail(worker)
        /\ entries' = entries /\ upstream' = upstream
        /\ \E g, l : agent' = Sent(Head(worker), g, l)
    BY <1>5 DEF sendLogs, SentByPino
  <2> QED
    BY <2>1, TakenStep DEF OrderInv
<1>6. CASE UNCHANGED <<entries, upstream, worker, agent>>
  BY <1>6 DEF OrderInv, GivenInv, OnceInOrder, FromSource
<1> QED
  BY <1>1, <1>2, <1>3, <1>4, <1>5, <1>6 DEF Next, Construct, GetLogger, vars

\* Through streams that stall, workers and changes of client, the agent is
\* given every entry at most once and those of one source in order.
THEOREM EntriesInOrder == Spec => []OnceInOrder
<1>1. Init => OrderInv
  BY DEF Init, OrderInv, GivenInv, Waits, OnceInOrder
<1>2. OrderInv => OnceInOrder
  BY DEF OrderInv
<1> QED
  BY <1>1, <1>2, OrderStep, PTL DEF Spec

-----------------------------------------------------------------------------
(* Severities and groups                                                   *)

\* What the agent is given of an entry says whether it is an error, and which
\* group it was logged for.
Faithful(e, given) ==
  /\ (IF e.source = "pino" THEN e.level # None /\ e.level >= 50
                          ELSE e.level \in {"error", "crit", "alert", "emerg"})
       <=> given.severity >= severity("error")
  /\ given.group = (IF e.group = None THEN e.source ELSE e.group)

\* The entries are those that the three sources log.
Logged(e) ==
  \/ e.source = "logger" /\ e.level \in DOMAIN LOGGER_LEVEL_SEVERITY /\ e.group = "logger"
  \/ e.source = "winston"
  \/ e.source = "pino" /\ e.level \in PinoLevels \cup {None} /\ e.group = "pino"

ErrorsInv ==
  /\ \A i \in DOMAIN entries : Logged(entries[i])
  /\ ErrorsStayErrors

LEMMA LoggerSeverity ==
  ASSUME NEW level \in DOMAIN LOGGER_LEVEL_SEVERITY
  PROVE  level \in {"error", "crit", "alert", "emerg"}
           <=> severity(level) >= severity("error")
BY DEF severity, LOGGER_LEVEL_SEVERITY

\* The tables override one another without making less of an error, and what
\* none of them has is no error.
LEMMA WinstonSeverityKept ==
  ASSUME NEW level
  PROVE  level \in {"error", "crit", "alert", "emerg"}
           <=> WinstonSeverity(level) >= severity("error")
<1>1. severity("error") = 6 /\ LOGGER_LEVEL_SEVERITY["info"] = 3
  BY DEF severity, LOGGER_LEVEL_SEVERITY
<1>2. WinstonSeverity(level) =
        IF level \in DOMAIN SYSLOG_LOGGER_LEVEL_SEVERITY
        THEN SYSLOG_LOGGER_LEVEL_SEVERITY[level]
        ELSE IF level \in DOMAIN NPM_LOGGER_LEVEL_SEVERITY
        THEN NPM_LOGGER_LEVEL_SEVERITY[level]
        ELSE IF level \in DOMAIN LOGGER_LEVEL_SEVERITY
        THEN LOGGER_LEVEL_SEVERITY[level]
        ELSE SYSLOG_LOGGER_LEVEL_SEVERITY["info"]
  <2>1. "info" \in DOMAIN SYSLOG_LOGGER_LEVEL_SEVERITY
    BY DEF SYSLOG_LOGGER_LEVEL_SEVERITY
  <2> QED
    BY <2>1 DEF WinstonSeverity, Spread
<1>3. CASE level \in DOMAIN SYSLOG_LOGGER_LEVEL_SEVERITY
  BY <1>1, <1>2, <1>3 DEF SYSLOG_LOGGER_LEVEL_SEVERITY
<1>4. CASE /\ level \notin DOMAIN SYSLOG_LOGGER_LEVEL_SEVERITY
           /\ level \in DOMAIN NPM_LOGGER_LEVEL_SEVERITY
  BY <1>1, <1>2, <1>4 DEF SYSLOG_LOGGER_LEVEL_SEVERITY, NPM_LOGGER_LEVEL_SEVERITY
<1>5. CASE /\ level \notin DOMAIN SYSLOG_LOGGER_LEVEL_SEVERITY
           /\ level \notin DOMAIN NPM_LOGGER_LEVEL_SEVERITY
           /\ level \in DOMAIN LOGGER_LEVEL_SEVERITY
  BY <1>1, <1>2, <1>5
  DEF SYSLOG_LOGGER_LEVEL_SEVERITY, NPM_LOGGER_LEVEL_SEVERITY, LOGGER_LEVEL_SEVERITY
<1>6. CASE /\ level \notin DOMAIN SYSLOG_LOGGER_LEVEL_SEVERITY
           /\ level \notin DOMAIN NPM_LOGGER_LEVEL_SEVERITY
           /\ level \notin DOMAIN LOGGER_LEVEL_SEVERITY
  BY <1>1, <1>2, <1>6 DEF SYSLOG_LOGGER_LEVEL_SEVERITY
<1> QED
  BY <1>3, <1>4, <1>5, <1>6

\* Whatever the level, it is one of the five ranges of Pino.
LEMMA PinoSeverity ==
  ASSUME NEW level \in Nat
  PROVE  level >= 50 <=> getSeverity(level) >= severity("error")
<1>1. /\ severity("error") = 6 /\ severity("warn") = 5 /\ severity("info") = 3
      /\ severity("debug") = 2 /\ severity("trace") = 1
  BY DEF severity, LOGGER_LEVEL_SEVERITY
<1>2. CASE level >= 50
  BY <1>1, <1>2 DEF getSeverity
<1>3. CASE level >= 40 /\ level < 50
  BY <1>1, <1>3 DEF getSeverity
<1>4. CASE level >= 30 /\ level < 40
  BY <1>1, <1>4 DEF getSeverity
<1>5. CASE level >= 20 /\ level < 30
  BY <1>1, <1>5 DEF getSeverity
<1>6. CASE level < 20
  BY <1>1, <1>6 DEF getSeverity
<1> QED
  BY <1>2, <1>3, <1>4, <1>5, <1>6

\* The agent is given nothing, or one entry as it was logged.
LEMMA ErrorsKept ==
  ASSUME OrderInv, ErrorsInv,
         DOMAIN entries \subseteq DOMAIN entries',
         \A i \in DOMAIN entries : entries'[i] = entries[i],
         \/ agent' = agent
         \/ \E given : agent' = Append(agent, given) /\ Faithful(entries'[given.n], given)
  PROVE  ErrorsStayErrors'
<1>1. \A k \in DOMAIN agent : agent[k].n \in DOMAIN entries
  BY DEF OrderInv, GivenInv
<1>2. \A k \in DOMAIN agent : Faithful(entries'[agent[k].n], agent[k])
  BY <1>1 DEF ErrorsInv, ErrorsStayErrors, Faithful
<1>3. SUFFICES \A k \in DOMAIN agent' : Faithful(entries'[agent'[k].n], agent'[k])
  BY DEF ErrorsStayErrors, Faithful
<1>4. CASE agent' = agent
  BY <1>2, <1>4
<1>5. ASSUME NEW given, agent' = Append(agent, given), Faithful(entries'[given.n], given)
      PROVE  \A k \in DOMAIN agent' : Faithful(entries'[agent'[k].n], agent'[k])
  <2>1. \A k \in DOMAIN agent' :
          \/ k \in DOMAIN agent /\ agent'[k] = agent[k]
          \/ agent'[k] = given
    <3>1. Len(agent) \in Nat /\ DOMAIN agent = 1..Len(agent)
      BY DEF OrderInv, GivenInv
    <3> DEFINE longer == Append(agent, given)
    <3>2. /\ DOMAIN longer = 1..(Len(agent) + 1)
          /\ \A k \in 1..Len(agent) : longer[k] = agent[k]
          /\ longer[Len(agent) + 1] = given
      BY <3>1, AppendIsLast
    <3>3. agent' = longer
      BY <1>5
    <3> HIDE DEF longer
    <3> QED
      BY <3>1, <3>2, <3>3
  <2> QED
    BY <1>2, <1>5, <2>1
<1> QED
  BY <1>4, <1>5

LEMMA ErrorsStep == OrderInv /\ ErrorsInv /\ [Next]_vars => ErrorsInv'
<1> SUFFICES ASSUME OrderInv, ErrorsInv, [Next]_vars PROVE ErrorsInv'
  OBVIOUS
<1>1. ASSUME NEW source, NEW level, NEW group, Issue(source, level, group),
             Logged([source |-> source, level |-> level, group |-> group,
                     active |-> client])
      PROVE  /\ \A i \in DOMAIN entries' : Logged(entries'[i])
             /\ DOMAIN entries \subseteq DOMAIN entries'
             /\ \A i \in DOMAIN entries : entries'[i] = entries[i]
             /\ entries'[n] = [source |-> source, level |-> level, group |-> group,
                               active |-> client]
  <2> DEFINE e == [source |-> source, level |-> level, group |-> group,
                   active |-> client]
  <2>1. entries' = Append(entries, e) /\ Logged(e)
    BY <1>1 DEF Issue
  <2> HIDE DEF e
  <2>2. /\ DOMAIN entries = 1..Len(entries) /\ Len(entries) \in Nat
        /\ DOMAIN entries' = 1..(Len(entries) + 1)
        /\ \A i \in 1..Len(entries) : entries'[i] = entries[i]
        /\ entries'[n] = e
    BY <2>1, AppendIsLast DEF OrderInv, GivenInv, n
  <2>3. \A i \in DOMAIN entries' : i \in DOMAIN entries \/ i = n
    BY <2>2 DEF n
  <2> QED
    BY <2>1, <2>2, <2>3 DEF ErrorsInv, e
<1>2. ASSUME NEW level, LoggerLogs(level) PROVE ErrorsInv'
  <2> DEFINE e == [source |-> "logger", level |-> level, group |-> "logger",
                   active |-> client]
             given == [n |-> n, group |-> "logger", severity |-> severity(level)]
  <2>1. level \in DOMAIN LOGGER_LEVEL_SEVERITY /\ Issue("logger", level, "logger")
    BY <1>2 DEF LoggerLogs
  <2>2. Logged(e)
    BY <2>1 DEF Logged
  <2>3. /\ \A i \in DOMAIN entries' : Logged(entries'[i])
        /\ DOMAIN entries \subseteq DOMAIN entries'
        /\ \A i \in DOMAIN entries : entries'[i] = entries[i]
        /\ entries'[n] = e
    BY <1>1, <2>1, <2>2
  <2>4. Faithful(e, given)
    BY <2>1, LoggerSeverity DEF Faithful
  <2>5. agent' = agent \/ agent' = Append(agent, given)
    BY <1>2 DEF LoggerLogs, Sent
  <2>6. given.n = n
    OBVIOUS
  <2> HIDE DEF e, given
  <2> QED
    BY <2>3, <2>4, <2>5, <2>6, ErrorsKept DEF ErrorsInv
<1>3. ASSUME NEW level, NEW group, WinstonLogs(level, group) PROVE ErrorsInv'
  <2>1. Issue("winston", level, group) /\ agent' = agent
    BY <1>3 DEF WinstonLogs
  <2>2. Logged([source |-> "winston", level |-> level, group |-> group,
                active |-> client])
    BY DEF Logged
  <2>3. /\ \A i \in DOMAIN entries' : Logged(entries'[i])
        /\ DOMAIN entries \subseteq DOMAIN entries'
        /\ \A i \in DOMAIN entries : entries'[i] = entries[i]
    BY <1>1, <2>1, <2>2
  <2> QED
    BY <2>1, <2>3, ErrorsKept DEF ErrorsInv
<1>4. ASSUME NEW level \in PinoLevels \cup {None}, PinoLogs(level) PROVE ErrorsInv'
  <2>1. Issue("pino", level, "pino") /\ agent' = agent
    BY <1>4 DEF PinoLogs
  <2>2. Logged([source |-> "pino", level |-> level, group |-> "pino",
                active |-> client])
    BY DEF Logged
  <2>3. /\ \A i \in DOMAIN entries' : Logged(entries'[i])
        /\ DOMAIN entries \subseteq DOMAIN entries'
        /\ \A i \in DOMAIN entries : entries'[i] = entries[i]
    BY <1>1, <2>1, <2>2
  <2> QED
    BY <2>1, <2>3, ErrorsKept DEF ErrorsInv
<1>5. CASE TransportWrites
  <2> DEFINE i == Head(upstream)
             given == [n |-> i, group |-> IF entries[i].group = None THEN "winston"
                                          ELSE entries[i].group,
                       severity |-> WinstonSeverity(entries[i].level)]
  <2>1. entries' = entries /\ (agent' = agent \/ agent' = Append(agent, given))
    BY <1>5 DEF TransportWrites, log, SentByWinston, Sent
  <2>2. i \in FromSource("winston")
    BY <1>5, Taken DEF OrderInv, Waits, TransportWrites
  <2>3. Faithful(entries[i], given)
    BY <2>2, WinstonSeverityKept DEF Faithful, FromSource
  <2>4. given.n = i
    OBVIOUS
  <2> HIDE DEF given, i
  <2> QED
    BY <2>1, <2>3, <2>4, ErrorsKept DEF ErrorsInv
<1>6. CASE sendLogs
  <2> DEFINE i == Head(worker)
             level == IF entries[i].level = None THEN 0 ELSE entries[i].level
             given == [n |-> i, group |-> "pino", severity |-> getSeverity(level)]
  <2>1. entries' = entries /\ agent' = Append(agent, given)
    BY <1>6 DEF sendLogs, SentByPino, Sent
  <2>2. i \in FromSource("pino")
    BY <1>6, Taken DEF OrderInv, Waits, sendLogs
  <2>3. /\ entries[i].source = "pino" /\ entries[i].group = "pino"
        /\ entries[i].level \in PinoLevels \cup {None}
    BY <2>2 DEF ErrorsInv, Logged, FromSource
  <2>4. level \in Nat /\ (level >= 50 <=> entries[i].level # None /\ entries[i].level >= 50)
    BY <2>3, LevelsAssumption
  <2>5. Faithful(entries[i], given)
    BY <2>3, <2>4, PinoSeverity DEF Faithful
  <2>6. given.n = i
    OBVIOUS
  <2> HIDE DEF given, i
  <2> QED
    BY <2>1, <2>5, <2>6, ErrorsKept DEF ErrorsInv
<1>7. CASE UNCHANGED <<entries, agent>>
  BY <1>7 DEF ErrorsInv, ErrorsStayErrors
<1> QED
  BY <1>2, <1>3, <1>4, <1>5, <1>6, <1>7 DEF Next, Construct, GetLogger, vars

\* No table, default or fallback of the three implementations makes less of an
\* error, more of what is none, or puts an entry into another group: for every
\* level that an entry can be logged with.
THEOREM ErrorsReported == Spec => []ErrorsStayErrors
<1>1. Init => OrderInv /\ ErrorsInv
  BY DEF Init, OrderInv, GivenInv, Waits, OnceInOrder, ErrorsInv, ErrorsStayErrors
<1>2. ErrorsInv => ErrorsStayErrors
  BY DEF ErrorsInv
<1> QED
  BY <1>1, <1>2, OrderStep, ErrorsStep, PTL DEF Spec
=============================================================================
