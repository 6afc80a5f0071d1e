---------------------------- MODULE ServersService ----------------------------
(***************************************************************************)
(* ServersService.CreateServer and DeleteServer: a user registers or       *)
(* removes a server.  Both look at the table first and change it at the    *)
(* next await; no unique index backs the check of the name.                *)
(***************************************************************************)
EXTENDS Storage

\* Mutant of FreshKeys: keys are not drawn anew for every server.
AnyKeys == Keys

\* Guids that Guid.NewGuid() has not returned yet.
FreshKeys ==
  Keys \ ({servers[s].apiKey : s \in DOMAIN servers}
            \cup {requests[r].row.apiKey : r \in
                    {q \in Requests : requests[q].at = "SaveServer"}})

\* Mutant of CheckName: the name is not looked for.
SkipNameCheck(r, row) ==
  /\ requests[r] = Idle
  /\ row.apiKey \in FreshKeys
  /\ Continue(r, [at |-> "SaveServer", row |-> row])
  /\ UNCHANGED <<tables, now, lostAcks>>

\* A server with the name is a conflict; otherwise the handler builds the row.
CheckName(r, row) ==
  /\ requests[r] = Idle
  /\ IF \E s \in DOMAIN servers : servers[s].live /\ servers[s].name = row.name
     THEN Continue(r, Failed)
     ELSE row.apiKey \in FreshKeys /\ Continue(r, [at |-> "SaveServer", row |-> row])
  /\ UNCHANGED <<tables, now, lostAcks>>

SaveServer(r) ==
  /\ requests[r].at = "SaveServer"
  /\ Len(servers) < MaxServers
  /\ servers' = Append(servers, requests[r].row)
  /\ Acknowledged(r, Done)
  /\ UNCHANGED <<jobs, logs, now>>

StartCreate(r) ==
  \E row \in [live: {TRUE}, name: Names, apiKey: Keys,
              maintenance: MaintenanceChoices,
              monitoring: MonitoringChoices] : CheckName(r, row)

CreateServer(r) == StartCreate(r) \/ SaveServer(r)

-----------------------------------------------------------------------------
FindServer(r, s) ==
  /\ requests[r] = Idle
  /\ IF servers[s].live
     THEN Continue(r, [at |-> "RemoveServer", server |-> s])
     ELSE Continue(r, Failed)
  /\ UNCHANGED <<tables, now, lostAcks>>

\* Mutant of HasJobs: completed jobs do not count.
HasOpenJobs(s) ==
  \E j \in DOMAIN jobs : jobs[j].server = s /\ jobs[j].status = "InProgress"

HasJobs(s) == \E j \in DOMAIN jobs : jobs[j].server = s

\* The DELETE goes through only while the server exists and has no job: the
\* foreign key of JobExecution to Server is created without a cascade.
RemoveServer(r) ==
  /\ requests[r].at = "RemoveServer"
  /\ LET s == requests[r].server IN
       /\ servers[s].live /\ ~HasJobs(s)
       /\ servers' = [servers EXCEPT ![s].live = FALSE]
       /\ Acknowledged(r, Done)
  /\ UNCHANGED <<jobs, logs, now>>

\* The foreign key, or a DELETE that affected no row, makes SaveChanges throw.
RemoveServerFails(r) ==
  /\ requests[r].at = "RemoveServer"
  /\ ~servers[requests[r].server].live \/ HasJobs(requests[r].server)
  /\ Continue(r, Failed)
  /\ UNCHANGED <<tables, now, lostAcks>>

StartDelete(r) == \E s \in DOMAIN servers : FindServer(r, s)

DeleteServer(r) ==
  \/ StartDelete(r)
  \/ RemoveServer(r)
  \/ RemoveServerFails(r)
=============================================================================
