----------------------------- MODULE SerialProofs -----------------------------
(***************************************************************************)
(* Proofs of what the API promises while its requests come one at a time   *)
(* and no commit has been repeated: what a handler has read at one await   *)
(* is then still what the tables hold at the next.                         *)
(***************************************************************************)
EXTENDS ApiProofs

LEMMA MinutesTypes ==
  /\ \A p \in MonitoringPeriod : MonitoringMinutes(p) \in Nat
  /\ \A p \in MaintenancePeriod \ {"Never"} : MaintenanceMinutes(p) \in Nat
  BY StorageAssumption DEF MonitoringPeriod, MaintenancePeriod,
                           MonitoringMinutes, MaintenanceMinutes

\* The minute stored for now is never nearer to an earlier stored minute than
\* the interval the handler has measured by the clock.
LEMMA ElapsedIsStored ==
  ASSUME now \in Nat, NEW t \in Nat, NEW m \in Nat, Elapsed(t, m)
  PROVE  Stored(now) - t >= m
  <1>1. Stored(now) \in Nat /\ 2 * Stored(now) >= now
    BY StoredMonotone
  <1>2. now - 2 * t >= 2 * m
    BY DEF Elapsed
  <1> HIDE DEF Stored
  <1> QED BY <1>1, <1>2

\* Completing a job changes none of the columns the next poll looks at.
LEMMA CreatedOnsKept ==
  ASSUME DOMAIN jobs' = DOMAIN jobs,
         \A j \in DOMAIN jobs : /\ jobs'[j].server = jobs[j].server
                                /\ jobs'[j].type = jobs[j].type
                                /\ jobs'[j].createdOn = jobs[j].createdOn
  PROVE  \A s, type : CreatedOns(s, type)' = CreatedOns(s, type)
  BY DEF CreatedOns

\* SerialInv without its condition.
UpToDate == Spaced /\ \A r \in Requests : PollUpToDate(requests[r])

\* A commit that is not repeated ends its await.
LEMMA UnrepeatedContinues ==
  ASSUME lostAcks' = 0, ApiInv, NEW r, NEW next, Acknowledged(r, next)
  PROVE  Continue(r, next)
  BY DEF Acknowledged, ApiInv, TypeOK

\* Lost acknowledgements are only ever added up.
LEMMA LostAcksCount ==
  ASSUME ApiInv, [Next]_vars, lostAcks' = 0
  PROVE  lostAcks = 0
  <1>1. lostAcks' = lostAcks \/ lostAcks' = lostAcks + 1
    BY DEF Next, CanExecuteJobs, StartPoll, ReadMaintenanceJobs,
           ReadMonitoringJobs, SaveJobs, SaveJobsFails, StoreLogs, FindJob,
           SaveLogs, CreateServer, StartCreate, CheckName, SaveServer,
           DeleteServer, StartDelete, FindServer, RemoveServer,
           RemoveServerFails, Respond, Drop, Tick, Acknowledged, vars
  <1> QED BY <1>1 DEF ApiInv, TypeOK

\* A step of the request that leaves servers and jobs alone keeps UpToDate
\* when what it carries on is up to date.
LEMMA SerialContinue ==
  ASSUME ApiInv, UpToDate, NEW slot, Requests = {slot}, NEW next,
         Continue(slot, next), UNCHANGED <<servers, jobs>>,
         PollUpToDate(next)
  PROVE  UpToDate'
  <1>1. requests'[slot] = next
    BY DEF Continue, ApiInv, TypeOK
  <1>2. Spaced'
    BY DEF UpToDate, Spaced
  <1>3. PollUpToDate(requests[slot])'
    BY <1>1 DEF PollUpToDate, CreatedOns
  <1> QED BY <1>2, <1>3 DEF UpToDate

LEMMA AnswersUpToDate ==
  ASSUME NEW next, next.at \notin {"ReadMonitoringJobs", "SaveJobs"}
  PROVE  PollUpToDate(next)
  BY DEF PollUpToDate

\* The steps that read: the request now carries what the tables hold.
LEMMA ReadsKeepSerial ==
  ASSUME ApiInv, UpToDate, NEW slot, Requests = {slot},
         ReadMaintenanceJobs(slot) \/ ReadMonitoringJobs(slot)
  PROVE  UpToDate'
  <1> DEFINE q == requests[slot]
             s == q.server
  <1>1. CASE ReadMaintenanceJobs(slot)
    <2> DEFINE next == [at |-> "ReadMonitoringJobs", server |-> s,
                        maintenanceJobs |-> CreatedOns(s, "Maintenance")]
    <2>1. PollUpToDate(next)
      BY DEF PollUpToDate
    <2>2. Continue(slot, next) /\ UNCHANGED <<servers, jobs>>
      BY <1>1 DEF ReadMaintenanceJobs, tables
    <2> HIDE DEF next
    <2> QED BY <2>1, <2>2, SerialContinue
  <1>2. CASE ReadMonitoringJobs(slot)
    <2> DEFINE due == MaintenanceDue(q.maintenanceJobs, servers[s].maintenance)
               mon == MonitoringDue(CreatedOns(s, "Monitoring"), servers[s].monitoring)
               next == [at |-> "SaveJobs", server |-> s, maintenance |-> due,
                        monitoring |-> mon, createdOn |-> Stored(now)]
    <2>1. Continue(slot, next) /\ UNCHANGED <<servers, jobs>>
      BY <1>2 DEF ReadMonitoringJobs, tables
    <2>2. /\ s \in DOMAIN servers /\ servers[s] \in ServerRow
          /\ q.maintenanceJobs = CreatedOns(s, "Maintenance")
          /\ now \in Nat
      BY <1>2 DEF ReadMonitoringJobs, ApiInv, TypeOK, RequestsRefer, Refers,
                  UpToDate, PollUpToDate
    <2>3. \A type : CreatedOns(s, type) \subseteq Nat
      BY JobFields DEF ApiInv, CreatedOns
    <2>4. /\ servers[s].monitoring \in MonitoringPeriod
          /\ servers[s].maintenance \in MaintenancePeriod
      BY <2>2 DEF ServerRow
    <2>5. ASSUME due, NEW t \in CreatedOns(s, "Maintenance")
          PROVE  /\ servers[s].maintenance # "Never"
                 /\ Stored(now) - t >= MaintenanceMinutes(servers[s].maintenance)
      <3>1. /\ servers[s].maintenance # "Never"
            /\ Elapsed(t, MaintenanceMinutes(servers[s].maintenance))
        BY <2>2, <2>5 DEF MaintenanceDue
      <3> QED BY <2>2, <2>3, <2>4, <2>5, <3>1, MinutesTypes, ElapsedIsStored
    <2>6. ASSUME mon, NEW t \in CreatedOns(s, "Monitoring")
          PROVE  Stored(now) - t >= MonitoringMinutes(servers[s].monitoring)
      <3>1. Elapsed(t, MonitoringMinutes(servers[s].monitoring))
        BY <2>6 DEF MonitoringDue
      <3> QED BY <2>2, <2>3, <2>4, <2>6, <3>1, MinutesTypes, ElapsedIsStored
    <2>7. PollUpToDate(next)
      <3> HIDE DEF due, mon
      <3> QED BY <2>5, <2>6 DEF PollUpToDate
    <2> HIDE DEF next
    <2> QED BY <2>1, <2>7, SerialContinue
  <1> QED BY <1>1, <1>2

\* The rows a poll saves come after, and far enough after, every job of their
\* server and type that is in the table; and there is one of each type.
LEMMA SaveJobsKeepsSerial ==
  ASSUME lostAcks' = 0, ApiInv, UpToDate, NEW slot, Requests = {slot},
         SaveJobs(slot)
  PROVE  UpToDate'
  <1> DEFINE q == requests[slot]
             M == NewJob(q.server, "Maintenance", q.createdOn)
             N == NewJob(q.server, "Monitoring", q.createdOn)
             J1 == IF q.maintenance THEN Append(jobs, M) ELSE jobs
  <1>1. /\ jobs' = WithNewJobs(q) /\ servers' = servers
        /\ q.at = "SaveJobs" /\ q \in Request /\ jobs \in Seq(JobRow)
        /\ PollUpToDate(q)
    BY DEF SaveJobs, ApiInv, TypeOK, UpToDate
  <1>2. requests'[slot].at = "Answered"
    BY UnrepeatedContinues DEF SaveJobs, Continue, Answered, ApiInv, TypeOK
  <1>3. jobs' = IF q.monitoring THEN Append(J1, N) ELSE J1
    BY <1>1 DEF WithNewJobs
  <1>4. /\ M \in JobRow /\ M.server = q.server /\ M.createdOn = q.createdOn
        /\ M.type = "Maintenance"
        /\ N \in JobRow /\ N.server = q.server /\ N.createdOn = q.createdOn
        /\ N.type = "Monitoring"
    BY <1>1, RequestFields, NewJobType DEF JobType, NewJob
  <1> HIDE DEF M, N
  <1>5. /\ J1 \in Seq(JobRow) /\ Len(J1) \in Len(jobs) .. Len(jobs) + 1
        /\ \A j \in DOMAIN jobs : j \in DOMAIN J1 /\ J1[j] = jobs[j]
        /\ \A j \in DOMAIN J1 \ DOMAIN jobs :
             q.maintenance /\ j = Len(jobs) + 1 /\ J1[j] = M
    BY <1>1, <1>4
  <1> HIDE DEF J1
  <1>6. /\ \A j \in DOMAIN jobs : j \in DOMAIN jobs' /\ jobs'[j] = jobs[j]
        /\ \A j \in DOMAIN jobs' \ DOMAIN jobs :
             \/ q.maintenance /\ j = Len(jobs) + 1 /\ jobs'[j] = M
             \/ q.monitoring /\ j = Len(J1) + 1 /\ jobs'[j] = N
        /\ DOMAIN jobs = 1 .. Len(jobs) /\ DOMAIN jobs' \subseteq Nat
    BY <1>1, <1>3, <1>4, <1>5
  <1>7. Spaced'
    <2> SUFFICES ASSUME NEW i \in DOMAIN jobs', NEW j \in DOMAIN jobs', i < j,
                        jobs'[i].server = jobs'[j].server,
                        jobs'[i].type = jobs'[j].type
                 PROVE  LET s == servers[jobs'[i].server]
                            minutes == jobs'[j].createdOn - jobs'[i].createdOn
                        IN  IF jobs'[i].type = "Monitoring"
                            THEN minutes >= MonitoringMinutes(s.monitoring)
                            ELSE /\ s.maintenance # "Never"
                                 /\ minutes >= MaintenanceMinutes(s.maintenance)
      BY <1>1 DEF Spaced
    <2>1. CASE i \in DOMAIN jobs /\ j \in DOMAIN jobs
      BY <2>1, <1>6 DEF UpToDate, Spaced
    <2>2. CASE i \in DOMAIN jobs /\ j \notin DOMAIN jobs
      <3>1. jobs'[i] = jobs[i]
        BY <2>2, <1>6
      <3>2. CASE q.maintenance /\ jobs'[j] = M
        <4>1. jobs[i].createdOn \in CreatedOns(q.server, "Maintenance")
          BY <2>2, <3>1, <3>2, <1>4 DEF CreatedOns
        <4> QED BY <1>1, <1>4, <3>1, <3>2, <4>1 DEF PollUpToDate
      <3>3. CASE q.monitoring /\ jobs'[j] = N
        <4>1. jobs[i].createdOn \in CreatedOns(q.server, "Monitoring")
          BY <2>2, <3>1, <3>3, <1>4 DEF CreatedOns
        <4> QED BY <1>1, <1>4, <3>1, <3>3, <4>1 DEF PollUpToDate
      <3> QED BY <2>2, <3>2, <3>3, <1>6
    <2>3. CASE i \notin DOMAIN jobs
      <3>1. i \notin DOMAIN jobs /\ j \notin DOMAIN jobs
        BY <2>3, <1>6
      <3> QED BY <3>1, <1>4, <1>6
    <2> QED BY <2>1, <2>2, <2>3
  <1>8. PollUpToDate(requests[slot])'
    BY <1>2 DEF PollUpToDate
  <1> QED BY <1>7, <1>8 DEF UpToDate

LEMMA SaveLogsKeepsSerial ==
  ASSUME lostAcks' = 0, ApiInv, UpToDate, NEW slot, Requests = {slot},
         SaveLogs(slot)
  PROVE  UpToDate'
  <1> DEFINE q == requests[slot]
  <1>1. /\ jobs' = [jobs EXCEPT ![q.job] = CompletedJob(q)]
        /\ servers' = servers /\ q.job \in DOMAIN jobs
        /\ requests'[slot].at = "Answered"
    BY UnrepeatedContinues DEF SaveLogs, Continue, Done, Answered, ApiInv,
                                 TypeOK, RequestsRefer, Refers
  <1>2. /\ CompletedJob(q).server = jobs[q.job].server
        /\ CompletedJob(q).type = jobs[q.job].type
        /\ CompletedJob(q).createdOn = jobs[q.job].createdOn
    BY <1>1, JobFields DEF CompletedJob, ApiInv, JobRow
  <1>3. /\ DOMAIN jobs' = DOMAIN jobs
        /\ \A j \in DOMAIN jobs : /\ jobs'[j].server = jobs[j].server
                                  /\ jobs'[j].type = jobs[j].type
                                  /\ jobs'[j].createdOn = jobs[j].createdOn
    BY <1>1, <1>2
  <1>4. Spaced'
    BY <1>1, <1>3 DEF UpToDate, Spaced
  <1>5. PollUpToDate(requests[slot])'
    BY <1>1 DEF PollUpToDate
  <1> QED BY <1>4, <1>5 DEF UpToDate

\* A creation reads and carries on nothing a poll depends on.
LEMMA StartCreateKeepsSerial ==
  ASSUME ApiInv, UpToDate, NEW slot, Requests = {slot}, StartCreate(slot)
  PROVE  UpToDate'
  <1>1. PICK next : /\ next.at \in {"SaveServer", "Answered"}
                    /\ Continue(slot, next) /\ UNCHANGED <<servers, jobs>>
    BY DEF StartCreate, CheckName, Failed, Answered, tables
  <1>2. PollUpToDate(next)
    BY <1>1 DEF PollUpToDate
  <1> QED BY <1>1, <1>2, SerialContinue

\* No job is there yet for the server that is inserted.
LEMMA SaveServerKeepsSerial ==
  ASSUME lostAcks' = 0, ApiInv, UpToDate, NEW slot, Requests = {slot},
         SaveServer(slot)
  PROVE  UpToDate'
  <1> DEFINE row == requests[slot].row
             new == Len(servers) + 1
  <1>1. /\ servers' = Append(servers, row) /\ jobs' = jobs
        /\ requests'[slot].at = "Answered"
        /\ row \in ServerRow /\ servers \in Seq(ServerRow)
    BY UnrepeatedContinues, RequestFields
       DEF SaveServer, Continue, Done, Answered, ApiInv, TypeOK, UpToDate
  <1>2. /\ DOMAIN servers' = DOMAIN servers \cup {new}
        /\ servers'[new] = row
        /\ \A s \in DOMAIN servers : servers'[s] = servers[s]
    BY <1>1
  <1>3. Spaced'
    <2>1. \A j \in DOMAIN jobs : servers'[jobs[j].server] = servers[jobs[j].server]
      BY <1>2 DEF ApiInv, JobsHaveServers
    <2> QED BY <1>1, <2>1 DEF UpToDate, Spaced
  <1>4. PollUpToDate(requests[slot])'
    BY <1>1 DEF PollUpToDate
  <1> QED BY <1>3, <1>4 DEF UpToDate

LEMMA RemoveServerKeepsSerial ==
  ASSUME lostAcks' = 0, ApiInv, UpToDate, NEW slot, Requests = {slot},
         RemoveServer(slot)
  PROVE  UpToDate'
  <1> DEFINE t == requests[slot].server
  <1>1. /\ servers' = [servers EXCEPT ![t].live = FALSE] /\ jobs' = jobs
        /\ requests'[slot].at = "Answered"
        /\ t \in DOMAIN servers /\ servers \in Seq(ServerRow)
    BY UnrepeatedContinues
       DEF RemoveServer, Continue, Done, Answered, ApiInv, TypeOK, RequestsRefer,
           Refers
  <1>2. servers[t] \in ServerRow
    BY <1>1
  <1>3. /\ DOMAIN servers' = DOMAIN servers
        /\ \A s \in DOMAIN servers :
             /\ servers'[s].name = servers[s].name
             /\ servers'[s].maintenance = servers[s].maintenance
             /\ servers'[s].monitoring = servers[s].monitoring
             /\ servers'[s].live => servers[s].live
    BY <1>1, <1>2 DEF ServerRow
  <1>4. Spaced'
    BY <1>1, <1>3 DEF ApiInv, JobsHaveServers, UpToDate, Spaced
  <1>5. PollUpToDate(requests[slot])'
    BY <1>1 DEF PollUpToDate
  <1> QED BY <1>4, <1>5 DEF UpToDate

-----------------------------------------------------------------------------
(* The theorems.                                                           *)

LEMMA UpToDateNext ==
  ASSUME lostAcks' = 0, NEW slot, Requests = {slot}, ApiInv, UpToDate,
         [Next]_vars
  PROVE  UpToDate'
  <1>1. ASSUME NEW next, Continue(slot, next), UNCHANGED <<servers, jobs>>,
               next.at \notin {"ReadMonitoringJobs", "SaveJobs"}
        PROVE  UpToDate'
    BY <1>1, AnswersUpToDate, SerialContinue
  <1>2. CASE \E key \in Keys : StartPoll(slot, key)
    BY <1>1, <1>2 DEF StartPoll, Failed, Answered, tables
  <1>3. CASE ReadMaintenanceJobs(slot) \/ ReadMonitoringJobs(slot)
    BY <1>3, ReadsKeepSerial
  <1>4. CASE SaveJobs(slot)
    BY <1>4, SaveJobsKeepsSerial
  <1>5. CASE StoreLogs(slot)
    BY <1>1, <1>5, SaveLogsKeepsSerial
       DEF StoreLogs, FindJob, Failed, Answered, tables
  <1>6. CASE CreateServer(slot)
    BY <1>6, StartCreateKeepsSerial, SaveServerKeepsSerial DEF CreateServer
  <1>7. CASE DeleteServer(slot)
    BY <1>1, <1>7, RemoveServerKeepsSerial
       DEF DeleteServer, StartDelete, FindServer, RemoveServerFails, Failed,
           Answered, tables
  <1>8. CASE SaveJobsFails(slot) \/ Respond(slot) \/ Drop(slot)
    BY <1>1, <1>8 DEF SaveJobsFails, Respond, Drop, Failed, Idle, Answered, tables
  <1>9. CASE Tick \/ UNCHANGED vars
    BY <1>9 DEF Tick, vars, tables, UpToDate, Spaced,
                PollUpToDate, CreatedOns
  <1> QED
    BY <1>2, <1>3, <1>4, <1>5, <1>6, <1>7, <1>8, <1>9 DEF Next, CanExecuteJobs

LEMMA SerialInvAlways ==
  ASSUME NEW slot, Requests = {slot}
  PROVE  Spec => []SerialInv
  <1>1. Init => SerialInv
    BY DEF Init, SerialInv, Spaced, PollUpToDate, Idle
  <1>2. ApiInv /\ SerialInv /\ [Next]_vars => SerialInv'
    BY LostAcksCount, UpToDateNext DEF SerialInv, UpToDate
  <1> QED BY ApiInvAlways, <1>1, <1>2, PTL DEF Spec

\* Served one request at a time, until a commit is repeated, a server is
\* granted jobs of a type no more often than its periods allow, for every
\* length of the periods and however the clock and the rounding of
\* smalldatetime fall.
THEOREM JobsAreSpaced ==
  ASSUME NEW slot, Requests = {slot}
  PROVE  Spec => []JobsSpaced
  <1>1. SerialInv => JobsSpaced
    BY DEF SerialInv, JobsSpaced
  <1> QED BY SerialInvAlways, <1>1, PTL

=============================================================================
