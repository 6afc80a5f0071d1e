------------------------------ MODULE ServersPage ------------------------------
(***************************************************************************)
(* The list of servers, and the dialogs in which servers are created and   *)
(* deleted.  A dialog is modal for the user and for nothing else: answers  *)
(* keep arriving while it is open, and one may even change the page below  *)
(* it.  Closing a dialog does not call off what was submitted in it.       *)
(***************************************************************************)
EXTENDS DateStream

VARIABLES
  list,    \* servers(): the ids listed, once the list has been loaded
  live,    \* the signal's subscription has not ended in an error
  dialog,  \* the open dialog, if any
  told     \* history: what answers have told the page shown of each id

listVars == <<list, live, dialog, told>>

\* opener: the page the dialog was opened from is still shown.
NoDialog == [kind |-> "none", id |-> 0, opener |-> FALSE]

ListReadsOfPage == {c \in calls : c.op = "getServers" /\ c.by = "page"}

\* Mutant of AskForList: mergeMap instead of switchMap.
AskForListMerged(cs) == Sent(cs, "getServers", "page", 0, Nothing)

\* refreshServers: switchMap aborts the read of the list before.
AskForList(cs) ==
  Sent(cs \ ListReadsOfPage, "getServers", "page", 0, Nothing)

\* The dialog closes, and cs go on.  The list it was opened from is refreshed,
\* whatever has closed it, unless that page is gone or its signal has ended.
Close(cs) ==
  /\ dialog' = NoDialog
  /\ LET open == Orphaned(cs, "dialog", "left")
     IN  calls' = IF dialog.kind = "delete" /\ dialog.opener /\ live
                  THEN AskForList(open) ELSE open

ListAnswered(c) ==
  /\ c.op = "getServers" /\ c.state = "Answered"
  /\ calls' = calls \ {c}
  /\ list' = c.value
  /\ UNCHANGED <<stored, created, routerVars, streams, live, dialog, told>>

\* The signal takes the error; the list on the screen is no longer updated.
ListFailed(c) ==
  /\ c.op = "getServers"
  /\ calls' = calls \ {c}
  /\ live' = FALSE
  /\ UNCHANGED <<stored, created, routerVars, streams, list, dialog, told>>

Open(kind, id) ==
  /\ url.path = "servers" /\ dialog = NoDialog
  /\ dialog' = [kind |-> kind, id |-> id, opener |-> TRUE]
  /\ UNCHANGED <<apiVars, routerVars, streams, list, live, told>>

\* createNewServer, and deleteServer for a server of the list.
OpenDialog ==
  \/ Open("create", 0)
  \/ list # Nothing /\ \E id \in list : Open("delete", id)

\* submitForm of the open dialog; its button stays enabled.
SubmitForm ==
  /\ dialog # NoDialog
  /\ Cardinality({c \in calls : c.op \in Writes}) < MaxWrites
  /\ calls' = Sent(calls,
                   IF dialog.kind = "create" THEN "createServer" ELSE "deleteServer",
                   "dialog", dialog.id, Nothing)
  /\ UNCHANGED <<stored, created, routerVars, streams, listVars>>

\* The user closes the dialog.
CloseDialog ==
  /\ dialog # NoDialog
  /\ Close(calls)
  /\ UNCHANGED <<stored, created, routerVars, streams, list, live, told>>

\* dialogRef.close(true), which does nothing to a dialog that is closed.
DeletionAnswered(c) ==
  /\ c.op = "deleteServer" /\ c.state = "Answered"
  /\ IF c.by = "dialog"
     THEN /\ Close(calls \ {c})
          /\ told' = IF dialog.opener
                     THEN [told EXCEPT ![c.id] = "deleted"] ELSE told
     ELSE /\ calls' = calls \ {c}
          /\ UNCHANGED <<dialog, told>>
  /\ UNCHANGED <<stored, created, routerVars, streams, list, live>>

\* The subscription to a write has no error handler: its dialog stays open.
WriteFailed(c) ==
  /\ c.op \in Writes
  /\ calls' \in AfterError(c)
  /\ UNCHANGED <<stored, created, routerVars, streams, listVars>>
===============================================================================
