------------------------------ MODULE ServerPage ------------------------------
(***************************************************************************)
(* The monitoring page of a server (ServerComponent), the preview of a     *)
(* query in it (PreviewQueryComponent), and the maintenance page           *)
(* (ServerMaintenanceComponent).  The page is shown once the server is     *)
(* loaded, its charts once the two reads that follow in a chain have been  *)
(* answered, and the queries once there are insights of the picked date.   *)
(***************************************************************************)
EXTENDS ServersPage

VARIABLES
  loaded,       \* server has been received
  performance,  \* performanceStats has been received
  waits,        \* waitStats has been received
  query,        \* the query whose preview is shown
  plan          \* the query whose plan the preview shows

pageVars == <<loaded, performance, waits, query, plan>>

ServerAnswered(c) ==
  /\ c.op = "getServer"
  /\ IF c.by # "page" THEN UNCHANGED loaded /\ calls' = calls \ {c}
     ELSE /\ loaded' = TRUE
          /\ calls' = IF url.path = "server"
                      THEN Sent(calls \ {c}, "getServerPerformanceStats", "page", c.id, Nothing)
                      ELSE calls \ {c}
  /\ UNCHANGED <<stored, created, routerVars, streams, listVars,
                 performance, waits, query, plan>>

PerformanceAnswered(c) ==
  /\ c.op = "getServerPerformanceStats"
  /\ performance' = TRUE
  /\ calls' = Sent(calls \ {c}, "getServerWaitStats", "page", c.id, Nothing)
  /\ UNCHANGED <<stored, created, routerVars, streams, listVars,
                 loaded, waits, query, plan>>

WaitStatsAnswered(c) ==
  /\ c.op = "getServerWaitStats"
  /\ waits' = TRUE
  /\ calls' = calls \ {c}
  /\ UNCHANGED <<stored, created, routerVars, streams, listVars,
                 loaded, performance, query, plan>>

\* analyzeQuery for a query of the table.  Each query shown opens a stream of
\* its own in the preview and none is closed before the page is left.
AnalyzeQuery(q) ==
  /\ url.path = "server" /\ loaded /\ dialog = NoDialog
  /\ Cardinality({c \in calls : c.op = "getQueryPlan"}) < MaxPlans
  /\ \E s \in streams : s.by = "page" /\ s.shown # Nothing
  /\ query' = q
  /\ calls' = Sent(calls, "getQueryPlan", "page", url.id, q)
  /\ UNCHANGED <<stored, created, routerVars, streams, listVars,
                 loaded, performance, waits, plan>>

PlanAnswered(c) ==
  /\ c.op = "getQueryPlan"
  /\ plan' = c.arg
  /\ calls' = calls \ {c}
  /\ UNCHANGED <<stored, created, routerVars, streams, listVars,
                 loaded, performance, waits, query>>

\* No other read has an error handler: what follows it is never asked for.
ReadFailed(c) ==
  /\ c.op \in ServerReads \ DateReads
  /\ calls' = calls \ {c}
  /\ UNCHANGED <<stored, created, routerVars, streams, listVars, pageVars>>
===============================================================================
