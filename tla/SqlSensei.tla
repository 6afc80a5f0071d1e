------------------------------- MODULE SqlSensei -------------------------------
(***************************************************************************)
(* The whole system: agents that poll the API for jobs, run them against   *)
(* the customer's database and report them, over HTTP calls that may time  *)
(* out or break at any moment, with the application and the API process    *)
(* being restarted.  SqlSenseiServiceLogger sends every call once; nothing *)
(* is ever retried.                                                        *)
(***************************************************************************)
EXTENDS Api, Agent, FiniteSets

CONSTANT Config  \* the ApiKey each agent is configured with

ASSUME ConfigAssumption == Config \in [Agents -> Keys]

sysVars == <<vars, agentVars>>

JobIds == 1 .. MaxJobs

\* What a report says is which runs its rows come from.
ASSUME BodiesAssumption == SUBSET JobIds \subseteq Bodies

Calling == {a \in Agents : agents[a].at \in {"Polling", "Posting"}}

\* Nobody waits on slot r any more, though its request may go on.
Unattended(r) == \A a \in Calling : agents[a].slot # r

-----------------------------------------------------------------------------
(* The agent's calls.                                                      *)

\* The application is deployed with the key of a server the user created.
StartAgent(a) ==
  /\ Start(a)
  /\ \E s \in DOMAIN servers : servers[s].apiKey = Config[a]
  /\ UNCHANGED vars

GetCanExecuteJobs(a, r) ==
  /\ agents[a].at = "Delay" /\ Unattended(r)
  /\ StartPoll(r, Config[a])
  /\ Become(a, [at |-> "Polling", slot |-> r])
  /\ UNCHANGED <<rows, installed, installing>>

\* The jobs an answer grants, in the order the loop runs them.
Granted(answer) ==
  LET grant(type, job) == IF job = 0 THEN <<>> ELSE <<[type |-> type, job |-> job]>>
  IN  grant("Maintenance", answer.maintenanceJob)
        \o grant("Monitoring", answer.monitoringJob)

ReceiveGrants(a) ==
  /\ agents[a].at = "Polling"
  /\ LET r == agents[a].slot IN
       Respond(r) /\ Become(a, StartJob(Granted(requests[r])))
  /\ UNCHANGED <<rows, installed, installing>>

\* LogMaintenance or LogMonitoring posts what the commands have read.
PostReport(a, r) ==
  /\ ReadyToReport(a) /\ Unattended(r)
  /\ LET t == CurrentJob(a) IN FindJob(r, Config[a], t.type, t.job, agents[a].read)
  /\ Become(a, [at |-> "Posting", todo |-> agents[a].todo, slot |-> r])
  /\ UNCHANGED <<rows, installed, installing>>

\* An error answer to a post is logged and forgotten like any other.
ReceiveAck(a) ==
  /\ agents[a].at = "Posting"
  /\ Respond(agents[a].slot)
  /\ Become(a, StartJob(Tail(agents[a].todo)))
  /\ UNCHANGED <<rows, installed, installing>>

\* Mutant of CallFails: a job whose post got no answer is run and posted again.
CallRetries(a) ==
  /\ \/ agents[a].at = "Polling" /\ Become(a, Delay)
     \/ agents[a].at = "Posting" /\ Become(a, StartJob(agents[a].todo))
  /\ UNCHANGED <<vars, rows, installed, installing>>

\* Mutant of CallFails: the poll has no timeout.
PollWaits(a) ==
  /\ agents[a].at = "Posting" \/ ReadyToReport(a)
  /\ Become(a, StartJob(Tail(agents[a].todo)))
  /\ UNCHANGED <<vars, rows, installed, installing>>

\* The API cannot be reached, the call timed out, or its connection broke,
\* whatever the API is doing with it.
CallFails(a) ==
  /\ \/ agents[a].at = "Polling" /\ Become(a, Delay)
     \/ /\ agents[a].at = "Posting" \/ ReadyToReport(a)
        /\ Become(a, StartJob(Tail(agents[a].todo)))
  /\ UNCHANGED <<vars, rows, installed, installing>>

Call(a, r) == Unattended(r) /\ (GetCanExecuteJobs(a, r) \/ PostReport(a, r))

AgentStep(a) ==
  \/ \E r \in Requests : Call(a, r)
  \/ ReceiveGrants(a)
  \/ ReceiveAck(a)
  \/ CallFails(a)
  \/ RunCommand(a) /\ UNCHANGED vars

InstallStep(a) == InstallScript(a) /\ UNCHANGED vars

-----------------------------------------------------------------------------
(* The API, its users, and everything that may go wrong.                   *)

\* One await of a request in progress completes.
Handle(r) ==
  /\ \/ ReadMaintenanceJobs(r) \/ ReadMonitoringJobs(r)
     \/ SaveJobs(r) \/ SaveJobsFails(r) \/ SaveLogs(r)
     \/ SaveServer(r) \/ RemoveServer(r) \/ RemoveServerFails(r)
  /\ UNCHANGED agentVars

\* An answer nobody waits for is discarded.
Discard(r) == Unattended(r) /\ Respond(r) /\ UNCHANGED agentVars

UserRequest(r) ==
  /\ Unattended(r)
  /\ StartCreate(r) \/ StartDelete(r)
  /\ UNCHANGED agentVars

SysInit == Init /\ AgentInit

CrashStep(a) == Crash(a) /\ UNCHANGED vars

DropStep(r) == Drop(r) /\ UNCHANGED agentVars

TickStep == Tick /\ UNCHANGED agentVars

SysNext ==
  \/ \E a \in Agents : StartAgent(a) \/ AgentStep(a) \/ InstallStep(a) \/ CrashStep(a)
  \/ \E r \in Requests : Handle(r) \/ Discard(r) \/ UserRequest(r) \/ DropStep(r)
  \/ TickStep

SysSafety == SysInit /\ [][SysNext]_sysVars

\* A loop that is not stopped keeps running, its HttpClient gives every call a
\* timeout and every command has one; the API answers the requests it keeps.
SysSpec ==
  /\ SysSafety
  /\ \A a \in Agents : WF_sysVars(AgentStep(a))
  /\ \A r \in Requests : WF_sysVars(Handle(r)) /\ WF_sysVars(Discard(r))

-----------------------------------------------------------------------------
SysTypeOK ==
  /\ TypeOK
  /\ agents \in [Agents -> AgentState(JobIds, Requests)]
  /\ rows \in [Table -> SUBSET JobIds]
  /\ installed \subseteq JobType
  /\ installing \in [Agents -> {<<>>, <<"Monitoring">>, <<"Maintenance", "Monitoring">>}]

\* A report holds only rows its own run produced, whatever earlier runs left
\* in the customer's log tables when they failed or were killed: the commands
\* that empty every table read later come first and abandon the job on failure.
\* (One instance of the application; two would share the tables.)
ReportsHoldOwnRows == \A k \in DOMAIN logs : logs[k].body \subseteq {logs[k].job}

\* However calls time out, answers come late and processes restart, a job is
\* reported once at most and to the API handler of its own type.
ReportedOnce ==
  \A k, l \in DOMAIN logs :
    /\ logs[k].job = logs[l].job => k = l
    /\ logs[k].type = jobs[logs[k].job].type

(* Their strengthening: what API and agents hand to each other are jobs of  *)
(* the table, under their own type ...                                     *)
IsJob(table, j, type) == j \in DOMAIN table /\ table[j].type = type

RequestKnown(table, q) ==
  /\ q.at = "Answered" =>
       /\ q.maintenanceJob # 0 => IsJob(table, q.maintenanceJob, "Maintenance")
       /\ q.monitoringJob # 0 => IsJob(table, q.monitoringJob, "Monitoring")
  /\ q.at = "SaveLogs" => IsJob(table, q.job, q.type)

ApiKnown ==
  /\ \A r \in Requests : RequestKnown(jobs, requests[r])
  /\ \A k \in DOMAIN logs : IsJob(jobs, logs[k].job, logs[k].type)
  /\ Len(jobs) <= MaxJobs

Todo(agent) ==
  IF agent.at \in {"Running", "Posting"} THEN agent.todo ELSE <<>>

TodoKnown(table, todo) ==
  \A i \in DOMAIN todo :
    /\ IsJob(table, todo[i].job, todo[i].type)
    /\ \A l \in DOMAIN todo : todo[l].type = todo[i].type => l = i

SysInv ==
  /\ SysTypeOK /\ ApiInv /\ ApiKnown
  /\ \A a \in Agents : TodoKnown(jobs, Todo(agents[a]))

(* ... and each job is in one hand: reported, carried by one request, or   *)
(* with one agent that may still post it.                                  *)
Carried(q) ==
  CASE q.at = "SaveLogs" -> {q.job}
    [] q.at = "Answered" -> {q.maintenanceJob, q.monitoringJob} \ {0}
    [] OTHER -> {}

Pending(agent) ==
  {Todo(agent)[i].job : i \in {l \in DOMAIN Todo(agent) :
                                 agent.at = "Posting" => l # 1}}

OneHand ==
  /\ \A k, l \in DOMAIN logs : logs[k].job = logs[l].job => k = l
  /\ \A q, r \in Requests :
       q # r => Carried(requests[q]) \cap Carried(requests[r]) = {}
  /\ \A a, b \in Agents :
       a # b => Pending(agents[a]) \cap Pending(agents[b]) = {}
  /\ \A a \in Agents, r \in Requests :
       Pending(agents[a]) \cap Carried(requests[r]) = {}
  /\ \A k \in DOMAIN logs :
       /\ \A r \in Requests : logs[k].job \notin Carried(requests[r])
       /\ \A a \in Agents : logs[k].job \notin Pending(agents[a])

(* With one agent: a run has emptied the tables behind it, and whatever it *)
(* or its post holds is its own.                                           *)
Emptied(a) ==
  {t \in Table :
     \E i \in DOMAIN Steps(CurrentJob(a).type) :
       /\ i < agents[a].step
       /\ Steps(CurrentJob(a).type)[i] = Truncate(t)}

OwnRows ==
  /\ \A a \in Agents : Running(a) =>
       /\ agents[a].read \subseteq {CurrentJob(a).job}
       /\ \A t \in Emptied(a) : rows[t] \subseteq {CurrentJob(a).job}
  /\ \A r \in Requests :
       requests[r].at = "SaveLogs" => requests[r].body \subseteq {requests[r].job}
  /\ ReportsHoldOwnRows

-----------------------------------------------------------------------------
(* The ledger of jobs the system implements.                               *)

\* The jobs that may still be reported: granted by an answer an agent waits
\* for, in an agent's hands, or in a post that is being handled.
Held(j) ==
  \/ \E a \in Agents :
       \/ /\ agents[a].at = "Polling"
          /\ requests[agents[a].slot].at = "Answered"
          /\ j \in {requests[agents[a].slot].maintenanceJob,
                    requests[agents[a].slot].monitoringJob}
       \/ /\ agents[a].at \in {"Running", "Posting"}
          /\ \E i \in DOMAIN agents[a].todo : agents[a].todo[i].job = j
  \/ \E r \in Requests : requests[r].at = "SaveLogs" /\ requests[r].job = j

Standing(j) ==
  CASE j \notin DOMAIN jobs -> "none"
    [] j \in DOMAIN jobs /\ jobs[j].status = "Completed" -> "reported"
    [] j \in DOMAIN jobs /\ jobs[j].status # "Completed" ->
         IF Held(j) THEN "held" ELSE "lost"

Ledger == INSTANCE JobLedger WITH
  standing <- [j \in JobIds |-> Standing(j)],
  reports  <- [j \in JobIds |-> Cardinality(Reports(j))]

\* Every step of the system is a step of the ledger.
ImplementsLedger == Ledger!Spec

\* The loop survives everything a job or a call may do: unless the
\* application is down it comes back to its delay again and again.
LoopGoesOn == \A a \in Agents : []<>(agents[a].at \in {"Delay", "Stopped"})
=============================================================================
