------------------------------ MODULE ServersApi ------------------------------
(***************************************************************************)
(* The calls the web client has in flight to the SqlSensei API             *)
(* (ServersApiService over BaseApiService), and as much of the API as the  *)
(* client can tell apart: which servers are stored when a call is handled. *)
(*                                                                         *)
(* A call is sent, handled and received in three steps, and calls are      *)
(* handled and received in any order; a read of one server brings what it  *)
(* asked for or an error, whenever it is handled, so that step is left     *)
(* out for it.  Unsubscribing from a read aborts its request: an aborted   *)
(* read has no effect, so it is simply removed.                            *)
(* Nothing unsubscribes from a creation or a deletion.  An error answer    *)
(* and a lost connection reach the client alike, as an error notification. *)
(***************************************************************************)
EXTENDS Integers, FiniteSets

CONSTANTS
  Dates,       \* days a user can pick
  NoDate,      \* the null a date field without a valid date holds
  Queries,     \* queries listed among the findings of a server
  Nothing,     \* a field of a component that holds nothing yet
  MaxServers,  \* bound: servers ever created
  MaxWrites,   \* bound: creations and deletions in flight
  MaxPlans,    \* bound: reads of query plans in flight
  MaxLeft      \* bound: calls and timers that outlive the page they are of

ASSUME ServersApiAssumption ==
  /\ MaxServers \in Nat /\ MaxWrites \in Nat
  /\ MaxPlans \in Nat /\ MaxLeft \in Nat
  /\ NoDate \notin Dates
  /\ Nothing \notin Dates \cup Queries \cup {NoDate}
  /\ \A S \in SUBSET (1 .. MaxServers) : Nothing # S

VARIABLES
  stored,   \* ids of the user's rows in the Server table
  created,  \* last id given to a row of the Server table
  calls     \* calls in flight

apiVars == <<stored, created, calls>>

Ids == 1 .. MaxServers

ListReads   == {"getServers"}
DateReads   == {"getServerInsights", "getServerMaintenance"}
ServerReads == {"getServer", "getServerPerformanceStats",
                "getServerWaitStats", "getQueryPlan"} \cup DateReads
Writes      == {"createServer", "deleteServer"}

\* by is what the answer goes to: the page shown, the open dialog, a page or a
\* dialog that has been left, or nothing, because the client itself is gone.
By == {"page", "dialog", "left", "nothing"}

CallRecord ==
  [n : Nat, op : ListReads \cup ServerReads \cup Writes, by : By, id : Ids \cup {0},
   arg : Dates \cup Queries \cup {Nothing},
   state : {"Sent", "Answered"}, value : SUBSET Ids]

\* The number of a new call tells it apart from the others that ask the same.
Sent(cs, op, by, id, arg) ==
  LET same == {c.n : c \in {k \in cs : k.op = op /\ k.id = id /\ k.arg = arg}}
      n    == CHOOSE i \in 1 .. Cardinality(same) + 1 : i \notin same
  IN  cs \cup {[n |-> n, op |-> op, by |-> by, id |-> id, arg |-> arg,
                state |-> "Sent", value |-> {}]}

\* The calls cs once what owner stands for is no longer there to be answered.
Orphaned(cs, owner, by) ==
  {IF c.by = owner THEN [c EXCEPT !.by = by] ELSE c : c \in cs}

-----------------------------------------------------------------------------
(* The API.                                                                *)

Handled(c, value) ==
  calls' = (calls \ {c}) \cup {[c EXCEPT !.state = "Answered", !.value = value]}

GetServers(c) ==
  /\ c.op = "getServers"
  /\ Handled(c, stored)
  /\ UNCHANGED <<stored, created>>

CreateServer(c) ==
  /\ c.op = "createServer"
  /\ created < MaxServers
  /\ created' = created + 1
  /\ stored' = stored \cup {created'}
  /\ Handled(c, {created'})

DeleteServer(c) ==
  /\ c.op = "deleteServer"
  /\ c.id \in stored
  /\ stored' = stored \ {c.id}
  /\ Handled(c, {})
  /\ UNCHANGED created

HandleCall ==
  \E c \in calls :
    /\ c.state = "Sent"
    /\ GetServers(c) \/ CreateServer(c) \/ DeleteServer(c)

\* What is left in flight when c ends in an error: the request of a write
\* may still be on its way to the API.
AfterError(c) ==
  {calls \ {c}} \cup
  IF c.op \in Writes /\ c.state = "Sent"
  THEN {(calls \ {c}) \cup {[c EXCEPT !.by = "nothing"]}} ELSE {}

\* Nobody is left to receive the call.
DropCall ==
  /\ \E c \in calls : c.by = "nothing" /\ calls' = calls \ {c}
  /\ UNCHANGED <<stored, created>>

ApiInit ==
  /\ created \in 0 .. MaxServers
  /\ stored = 1 .. created
===============================================================================
