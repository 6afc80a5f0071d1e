---------------------- MODULE StoreLogsToDatabaseService ----------------------
(***************************************************************************)
(* StoreLogsToDatabaseService: an agent posts the report of a job.         *)
(*                                                                         *)
(* The handler reads the job if it is in progress and, at the next await,  *)
(* writes it as completed together with the rows of the report.  The row   *)
(* has no concurrency token: what another request wrote in between is      *)
(* overwritten without notice.                                             *)
(***************************************************************************)
EXTENDS Storage

\* The middleware found the caller's server and FirstOrDefaultAsync looks for
\* the job, if it is in progress: the status, CompletedOn and the error flag
\* are assigned before the next await, or the answer is JobNotFound.  Neither
\* the server nor the type of the job is compared with the post's.
FindJob(r, key, type, j, body) ==
  /\ requests[r] = Idle
  /\ \/ /\ jobs[j].status = "InProgress" /\ ~NoCurrentServer(key)
        /\ Continue(r, [at |-> "SaveLogs", job |-> j, type |-> type,
                        body |-> body, completedOn |-> Stored(now)])
     \/ /\ jobs[j].status = "Completed" \/ NoCurrentServer(key)
        /\ Continue(r, Failed)
  /\ UNCHANGED <<tables, now, lostAcks>>

\* Mutant of CompletedJob: the assignment of the status is forgotten.
OpenJob(q) ==
  LET faulty == q.body \in Faulty IN
  [jobs[q.job] EXCEPT
     !.completedOn = q.completedOn,
     !.maintenanceErrorLast = @ \/ (q.type = "Maintenance" /\ faulty),
     !.monitoringErrorLast = @ \/ (q.type = "Monitoring" /\ faulty)]

\* Mutant of CompletedJob: the UPDATE writes every column (DbSet.Update).
RewrittenJob(q) ==
  LET faulty == q.body \in Faulty IN
  [jobs[q.job] EXCEPT
     !.status = "Completed",
     !.completedOn = q.completedOn,
     !.maintenanceErrorLast = (q.type = "Maintenance" /\ faulty),
     !.monitoringErrorLast = (q.type = "Monitoring" /\ faulty)]

\* Mutant of CompletedJob: the time goes into the wrong column as well.
RedatedJob(q) ==
  [jobs[q.job] EXCEPT !.status = "Completed", !.createdOn = q.completedOn,
                      !.completedOn = q.completedOn]

\* Mutant of CompletedJob: both kinds of report set the same flag.
SameFlagJob(q) ==
  [jobs[q.job] EXCEPT
     !.status = "Completed",
     !.completedOn = q.completedOn,
     !.maintenanceErrorLast = @ \/ q.body \in Faulty]

\* The row after the UPDATE.  Change tracking writes only the columns whose
\* value differs from the one FindJob read, so a flag is set by a faulty
\* report and never written, hence never cleared, by a sound one.
CompletedJob(q) ==
  LET faulty == q.body \in Faulty IN
  [jobs[q.job] EXCEPT
     !.status = "Completed",
     !.completedOn = q.completedOn,
     !.maintenanceErrorLast = @ \/ (q.type = "Maintenance" /\ faulty),
     !.monitoringErrorLast = @ \/ (q.type = "Monitoring" /\ faulty)]

\* SaveChangesAsync updates the job and adds the log rows in one transaction.
SaveLogs(r) ==
  /\ requests[r].at = "SaveLogs"
  /\ LET q == requests[r] IN
       /\ jobs' = [jobs EXCEPT ![q.job] = CompletedJob(q)]
       /\ logs' = Append(logs, [job |-> q.job, type |-> q.type,
                                body |-> q.body])
       /\ Acknowledged(r, Done)
  /\ UNCHANGED <<servers, now>>

StoreLogs(r) ==
  \/ \E key \in Keys, j \in DOMAIN jobs, body \in Bodies :
       FindJob(r, key, jobs[j].type, j, body)
  \/ SaveLogs(r)
=============================================================================
