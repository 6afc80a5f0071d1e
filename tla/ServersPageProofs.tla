--------------------------- MODULE ServersPageProofs ---------------------------
(***************************************************************************)
(* Proofs about the list of servers, for any number of servers, of dialogs *)
(* closed early, of forms sent twice and of answers that come late: the    *)
(* list keeps up with what the user has been told, and an answered         *)
(* creation leads to its server or to the list.                            *)
(***************************************************************************)
EXTENDS WebClientProofs

-----------------------------------------------------------------------------
(* The invariant.                                                          *)

\* Who is at a guarded page is signed in, and nothing goes on elsewhere but
\* writes that nothing waits for; a dialog that is open over the page it was
\* opened from is over the list.
SessionInv ==
  /\ url.path \in Guarded => signedIn
  /\ url.path \notin Guarded =>
       streams = {} /\ dialog = NoDialog /\ \A c \in calls : c.by = "nothing"
  /\ dialog.opener => url.path = "servers"
  /\ dialog.kind = "none" => dialog = NoDialog

\* What the client has been told is true: the ids exist, and a deleted one
\* never comes back.
ToldInv ==
  \A id \in Ids :
    /\ told[id] # "nothing" => id \in 1 .. created
    /\ told[id] = "deleted" => id \notin stored

\* The list v agrees with what the client has been told.
Agrees(v) ==
  \A id \in Ids :
    /\ told[id] = "deleted" => id \notin v
    /\ told[id] = "created" /\ id \in stored => id \in v

\* What call c brings is true, and a deletion that a dialog waits for is of a
\* delete dialog.
CallTrue(c) ==
  /\ c.op = "createServer" /\ c.state = "Answered" => c.value \subseteq 1 .. created
  /\ c.op = "deleteServer" /\ c.state = "Answered" => c.id \in (1 .. created) \ stored
  /\ c.op = "getServers" /\ c.by = "page" /\ c.state = "Answered" => Agrees(c.value)
  /\ c.op = "deleteServer" /\ c.by = "dialog" => dialog.kind = "delete"

PageLists(cs) == {c \in cs : c.op = "getServers" /\ c.by = "page"}

\* switchMap has one read of the list under way, and an ended signal none; at
\* rest the list agrees with what the client has been told.
ReadsInv ==
  /\ \A c, d \in PageLists(calls) : c = d
  /\ ~live => PageLists(calls) = {}
  /\ list # Nothing /\ live /\ PageLists(calls) = {} => Agrees(list)

ListInv ==
  SessionInv /\ ToldInv /\ (\A c \in calls : CallTrue(c)) /\ ReadsInv

LEMMA ListInvKeepsUp == ListInv => ListKeepsUp
  BY DEF ListInv, ReadsInv, PageLists, Agrees, ListKeepsUp, ListReadsOfPage

LEMMA WaitedForInside ==
  ASSUME ListInv, NEW c \in calls, c.by # "nothing"
  PROVE  url.path \in Guarded
  BY DEF ListInv, SessionInv

-----------------------------------------------------------------------------
(* Steps that have nothing to do with the list.                            *)

LEMMA QuietStep ==
  ASSUME ClientInv, ListInv,
         UNCHANGED <<stored, created, routerVars, listVars>>,
         url.path \in Guarded \/ (UNCHANGED streams /\ calls' \subseteq calls),
         PageLists(calls') = PageLists(calls),
         \A d \in calls' :
           \/ d \in calls
           \/ /\ d.state = "Sent"
              /\ d.op = "deleteServer" /\ d.by = "dialog" => dialog.kind = "delete"
  PROVE  ListInv'
  <1>1. SessionInv'
    BY DEF ListInv, SessionInv, routerVars, listVars
  <1>2. ToldInv'
    BY DEF ListInv, ToldInv, listVars
  <1>3. \A d \in calls' : CallTrue(d)'
    BY DEF ListInv, CallTrue, Agrees, listVars
  <1>4. ReadsInv'
    BY DEF ListInv, ReadsInv, Agrees, listVars
  <1> QED BY <1>1, <1>2, <1>3, <1>4 DEF ListInv

\* A call that is no read of the list ends.
LEMMA EndedQuietly ==
  ASSUME ClientInv, ListInv, NEW c \in calls, c.op # "getServers",
         calls' = calls \ {c}, c.by # "nothing",
         UNCHANGED <<stored, created, routerVars, listVars>>
  PROVE  ListInv'
  BY QuietStep, WaitedForInside DEF PageLists

\* A call that is no read of the list is sent, and perhaps others end.
LEMMA SentQuietly ==
  ASSUME ClientInv, ListInv, url.path \in Guarded,
         NEW cs \in SUBSET calls, IsFiniteSet(cs), PageLists(cs) = PageLists(calls),
         NEW op \in (ServerReads \cup Writes), NEW by \in By,
         op = "deleteServer" /\ by = "dialog" => dialog.kind = "delete",
         NEW id \in Ids \cup {0}, NEW arg \in Dates \cup Queries \cup {Nothing},
         calls' = Sent(cs, op, by, id, arg),
         UNCHANGED <<stored, created, routerVars, listVars>>
  PROVE  ListInv'
  <1>1. op # "getServers"
    BY DEF ServerReads, DateReads, Writes
  <1>2. PICK r \in CallRecord :
           /\ calls' = cs \cup {r}
           /\ r.op = op /\ r.by = by /\ r.state = "Sent"
    <2>1. op \in ListReads \cup ServerReads \cup Writes
      OBVIOUS
    <2>2. PICK r \in CallRecord :
             /\ Sent(cs, op, by, id, arg) = cs \cup {r}
             /\ r.op = op /\ r.by = by /\ r.id = id /\ r.arg = arg /\ r.state = "Sent"
      BY <2>1, SentAdds
    <2> QED BY <2>2
  <1>3. PageLists(calls') = PageLists(calls)
    BY <1>1, <1>2 DEF PageLists
  <1> QED BY <1>2, <1>3, QuietStep

LEMMA DropCallTrue ==
  ASSUME ClientInv, ListInv, DropCall, UNCHANGED <<routerVars, streams, listVars, pageVars>>
  PROVE  ListInv'
  <1>1. PICK c \in calls : c.by = "nothing" /\ calls' = calls \ {c}
    BY DEF DropCall
  <1>2. PageLists(calls') = PageLists(calls)
    BY <1>1 DEF PageLists
  <1> QED BY <1>1, <1>2, QuietStep DEF DropCall

LEMMA WriteFailedTrue ==
  ASSUME ClientInv, ListInv, NEW c \in calls, WriteFailed(c), c.by # "nothing",
         UNCHANGED pageVars
  PROVE  ListInv'
  <1> DEFINE d == [c EXCEPT !.by = "nothing"]
  <1>1. c.op \in Writes /\ c \in CallRecord
    BY DEF WriteFailed, ClientInv, CallsInv
  <1>2. d.op = c.op /\ d.by = "nothing" /\ d.state = c.state
    BY <1>1 DEF CallRecord
  <1> HIDE DEF d
  <1>3. \/ calls' = calls \ {c}
        \/ c.state = "Sent" /\ calls' = (calls \ {c}) \cup {d}
    BY DEF WriteFailed, AfterError, d
  <1>4. PageLists(calls') = PageLists(calls)
    BY <1>1, <1>2, <1>3 DEF PageLists, Writes
  <1> QED BY <1>2, <1>3, <1>4, QuietStep, WaitedForInside DEF WriteFailed

LEMMA SubmitFormTrue ==
  ASSUME ClientInv, ListInv, SubmitForm, UNCHANGED pageVars
  PROVE  ListInv'
  <1> DEFINE op == IF dialog.kind = "create" THEN "createServer" ELSE "deleteServer"
  <1>1. /\ calls' = Sent(calls, op, "dialog", dialog.id, Nothing)
        /\ UNCHANGED <<stored, created, routerVars, streams, listVars>>
    BY DEF SubmitForm
  <1>2. op \in Writes /\ dialog.id \in Ids \cup {0} /\ IsFiniteSet(calls)
    BY DEF Writes, ClientInv, OtherTypes, CallsInv
  <1>3. url.path \in Guarded
    BY DEF SubmitForm, ListInv, SessionInv
  <1>4. op = "deleteServer" => dialog.kind = "delete"
    <2>1. dialog.kind # "none"
      BY DEF SubmitForm, ListInv, SessionInv
    <2> QED BY <2>1 DEF ClientInv, OtherTypes
  <1> HIDE DEF op
  <1> QED BY <1>1, <1>2, <1>3, <1>4, SentQuietly DEF By

LEMMA AnalyzeQueryTrue ==
  ASSUME ClientInv, ListInv, NEW q \in Queries, AnalyzeQuery(q)
  PROVE  ListInv'
  <1>1. /\ calls' = Sent(calls, "getQueryPlan", "page", url.id, q) /\ url.path = "server"
        /\ UNCHANGED <<stored, created, routerVars, listVars>>
    BY DEF AnalyzeQuery
  <1>2. url.id \in Ids \cup {0} /\ IsFiniteSet(calls)
    BY DEF ClientInv, CallsInv, Places, Landing, Servers, Identity, At
  <1>3. "getQueryPlan" \in ServerReads /\ "page" \in By /\ url.path \in Guarded
    BY <1>1 DEF ServerReads, By, Guarded
  <1> QED BY <1>1, <1>2, <1>3, SentQuietly

\* The reads of a server's page lead to one another, and never to the list.
LEMMA ChainTrue ==
  ASSUME ClientInv, ListInv, NEW c \in calls, c.by = "page", c.op # "getServers",
         NEW op \in {"getServerPerformanceStats", "getServerWaitStats"},
         calls' = Sent(calls \ {c}, op, "page", c.id, Nothing),
         UNCHANGED <<stored, created, routerVars, listVars>>
  PROVE  ListInv'
  <1>1. calls \ {c} \in SUBSET calls /\ PageLists(calls \ {c}) = PageLists(calls)
    BY DEF PageLists
  <1>2. c.id \in Ids \cup {0} /\ IsFiniteSet(calls \ {c})
    BY EndedInv DEF ClientInv, CallsInv, CallRecord
  <1>3. op \in ServerReads \cup Writes /\ op # "deleteServer" /\ "page" \in By
    BY DEF ServerReads, By
  <1>4. url.path \in Guarded
    BY WaitedForInside
  <1> QED BY <1>1, <1>2, <1>3, <1>4, SentQuietly

LEMMA PageAnsweredTrue ==
  ASSUME ClientInv, ListInv, NEW c \in calls, c.by # "nothing",
         \/ ServerAnswered(c) \/ PerformanceAnswered(c) \/ WaitStatsAnswered(c)
         \/ PlanAnswered(c) \/ ReadFailed(c)
  PROVE  ListInv'
  <1>1. CASE ServerAnswered(c)
    <2>1. c.op # "getServers" /\ UNCHANGED <<stored, created, routerVars, listVars>>
      BY <1>1 DEF ServerAnswered
    <2>2. CASE c.by = "page" /\ url.path = "server"
      BY <1>1, <2>1, <2>2, ChainTrue DEF ServerAnswered
    <2>3. CASE ~(c.by = "page" /\ url.path = "server")
      BY <1>1, <2>1, <2>3, EndedQuietly DEF ServerAnswered
    <2> QED BY <2>2, <2>3
  <1>2. CASE PerformanceAnswered(c)
    <2>1. c.op = "getServerPerformanceStats" /\ c.by = "page"
      BY <1>2 DEF PerformanceAnswered, ClientInv, CallsInv, Belongs, PageReads
    <2> QED BY <1>2, <2>1, ChainTrue DEF PerformanceAnswered
  <1>3. CASE WaitStatsAnswered(c)
    BY <1>3, EndedQuietly DEF WaitStatsAnswered
  <1>4. CASE PlanAnswered(c)
    BY <1>4, EndedQuietly DEF PlanAnswered
  <1>5. CASE ReadFailed(c)
    BY <1>5, EndedQuietly DEF ReadFailed, ServerReads, DateReads
  <1> QED BY <1>1, <1>2, <1>3, <1>4, <1>5

LEMMA DateReceivedTrue ==
  ASSUME ClientInv, ListInv, NEW c \in calls, c.by # "nothing",
         DateAnswered(c) \/ DateFailed(c), UNCHANGED <<listVars, pageVars>>
  PROVE  ListInv'
  <1>1. /\ calls' = calls \ {c} /\ c.op # "getServers"
        /\ UNCHANGED <<stored, created, routerVars>>
    BY DEF DateAnswered, DateFailed, DateReads
  <1> QED BY <1>1, EndedQuietly

LEMMA PickDateTrue ==
  ASSUME ClientInv, ListInv, NEW s \in streams, NEW d, PickDate(s, d),
         UNCHANGED <<listVars, pageVars>>
  PROVE  ListInv'
  <1>1. url.path \in Guarded
    BY DEF ListInv, SessionInv
  <1>2. UNCHANGED calls /\ UNCHANGED <<stored, created, routerVars>>
    BY DEF PickDate, apiVars
  <1> QED BY <1>1, <1>2, QuietStep

LEMMA TimerTrue ==
  ASSUME ClientInv, ListInv, Timer
  PROVE  ListInv'
  <1>1. PICK s \in streams : Debounced(s)
    BY DEF Timer, Debounce
  <1>2. UNCHANGED <<stored, created, routerVars, listVars>>
    BY <1>1 DEF Timer, Debounced
  <1>3. url.path \in Guarded
    BY DEF ListInv, SessionInv
  <1>4. /\ s.op \in DateReads /\ s.by \in {"page", "left"} /\ s.id \in Ids
        /\ s.picked \in Dates \cup {NoDate}
    BY DEF ClientInv, StreamsInv, StreamRecord
  <1> DEFINE cs == calls \ InnerCalls(s)
  <1>5. /\ cs \in SUBSET calls /\ IsFiniteSet(cs)
        /\ PageLists(cs) = PageLists(calls)
    <2>1. IsFiniteSet(cs)
      BY FewerCalls DEF ClientInv, CallsInv
    <2>2. PageLists(cs) = PageLists(calls)
      BY <1>4 DEF PageLists, InnerCalls, DateReads
    <2> QED BY <2>1, <2>2
  <1>6. CASE s.picked = NoDate
    <2>1. calls' = cs
      BY <1>1, <1>6 DEF Debounced, EmitNull
    <2> HIDE DEF cs
    <2> QED BY <1>2, <1>3, <1>5, <2>1, QuietStep
  <1>7. CASE s.picked # NoDate
    <2>1. calls' = Sent(cs, s.op, s.by, s.id, s.picked)
      BY <1>1, <1>7 DEF Debounced, Emit
    <2>2. /\ s.op \in ServerReads \cup Writes /\ s.op # "deleteServer"
          /\ s.by \in By /\ s.id \in Ids \cup {0}
          /\ s.picked \in Dates \cup Queries \cup {Nothing}
      BY <1>4, <1>7 DEF ServerReads, DateReads, By
    <2> HIDE DEF cs
    <2> QED BY <1>2, <1>3, <1>5, <2>1, <2>2, SentQuietly
  <1> QED BY <1>6, <1>7

-----------------------------------------------------------------------------
(* The API and the list.                                                   *)

\* Rows that come are new, and rows that go are gone.
LEMMA HandleCallTrue ==
  ASSUME ClientInv, ListInv, HandleCall,
         UNCHANGED <<routerVars, streams, listVars, pageVars>>
  PROVE  ListInv'
  <1>1. PICK c \in calls : GetServers(c) \/ CreateServer(c) \/ DeleteServer(c)
    BY DEF HandleCall
  <1>2. created \in Nat /\ stored \subseteq 1 .. created
    BY ServersApiAssumption DEF ClientInv, OtherTypes
  <1>3. /\ created' \in Nat /\ created <= created'
        /\ stored' \cap (1 .. created) \subseteq stored
    BY <1>1, <1>2 DEF GetServers, CreateServer, DeleteServer
  <1>4. c \in CallRecord
    BY DEF ClientInv, CallsInv
  <1>5. PICK value : /\ Handled(c, value)
                     /\ c.op = "getServers" => value = stored
                     /\ c.op = "createServer" => value \subseteq 1 .. created'
                     /\ c.op = "deleteServer" => c.id \in (1 .. created') \ stored'
    <2>1. CASE GetServers(c)
      BY <2>1 DEF GetServers
    <2>2. CASE CreateServer(c)
      BY <1>2, <2>2 DEF CreateServer
    <2>3. CASE DeleteServer(c)
      BY <1>2, <2>3 DEF DeleteServer
    <2> QED BY <1>1, <2>1, <2>2, <2>3
  <1> DEFINE d == [c EXCEPT !.state = "Answered", !.value = value]
  <1>6. /\ d.op = c.op /\ d.by = c.by /\ d.id = c.id
        /\ d.state = "Answered" /\ d.value = value
    BY <1>4 DEF CallRecord
  <1> HIDE DEF d
  <1>7. calls' = (calls \ {c}) \cup {d}
    BY <1>5 DEF Handled, d
  <1>8. /\ UNCHANGED <<url, signedIn, list, live, dialog, told>>
    BY DEF routerVars, listVars
  <1>9. \A v : Agrees(v) => Agrees(v)'
    BY <1>3, <1>8 DEF Agrees, ListInv, ToldInv
  <1>10. ToldInv'
    BY <1>2, <1>3, <1>8 DEF ListInv, ToldInv
  <1>11. \A k \in calls : CallTrue(k) => CallTrue(k)'
    BY <1>2, <1>3, <1>8, <1>9 DEF CallTrue
  <1>12. CallTrue(d)'
    <2>1. c.op = "getServers" => Agrees(value)
      BY <1>5 DEF Agrees, ListInv, ToldInv
    <2>2. CallTrue(c)'
      BY <1>11 DEF ListInv
    <2> QED BY <1>5, <1>6, <1>9, <2>1, <2>2 DEF CallTrue
  <1>13. \A k \in calls' : CallTrue(k)'
    BY <1>7, <1>11, <1>12 DEF ListInv
  <1>14. SessionInv'
    BY <1>6, <1>7, <1>8 DEF ListInv, SessionInv
  <1>15. ReadsInv'
    BY <1>6, <1>7, <1>8, <1>9 DEF ListInv, ReadsInv, PageLists
  <1> QED BY <1>10, <1>13, <1>14, <1>15 DEF ListInv

LEMMA ListAnsweredTrue ==
  ASSUME ClientInv, ListInv, NEW c \in calls, ListAnswered(c), UNCHANGED pageVars
  PROVE  ListInv'
  <1>1. c.op = "getServers" /\ c.by = "page" /\ c.state = "Answered"
    BY DEF ListAnswered, ClientInv, CallsInv, Belongs, PageReads
  <1>2. Agrees(c.value)
    BY <1>1 DEF ListInv, CallTrue
  <1>3. /\ UNCHANGED <<stored, created, url, signedIn, streams, live, dialog, told>>
        /\ calls' = calls \ {c} /\ list' = c.value
    BY DEF ListAnswered, routerVars
  <1>4. SessionInv' /\ ToldInv'
    BY <1>3 DEF ListInv, SessionInv, ToldInv
  <1>5. \A k \in calls' : CallTrue(k)'
    BY <1>3 DEF ListInv, CallTrue, Agrees
  <1>6. ReadsInv'
    BY <1>2, <1>3 DEF ListInv, ReadsInv, PageLists, Agrees
  <1> QED BY <1>4, <1>5, <1>6 DEF ListInv

LEMMA ListFailedTrue ==
  ASSUME ClientInv, ListInv, NEW c \in calls, ListFailed(c), UNCHANGED pageVars
  PROVE  ListInv'
  <1>1. c \in PageLists(calls)
    BY DEF ListFailed, ClientInv, CallsInv, Belongs, PageReads, PageLists
  <1>2. /\ UNCHANGED <<stored, created, url, signedIn, streams, dialog, told>>
        /\ calls' = calls \ {c} /\ live' = FALSE
    BY DEF ListFailed, routerVars
  <1>3. SessionInv' /\ ToldInv'
    BY <1>2 DEF ListInv, SessionInv, ToldInv
  <1>4. \A k \in calls' : CallTrue(k)'
    BY <1>2 DEF ListInv, CallTrue, Agrees
  <1>5. ReadsInv'
    BY <1>1, <1>2 DEF ListInv, ReadsInv, PageLists
  <1> QED BY <1>3, <1>4, <1>5 DEF ListInv

LEMMA OpenDialogTrue ==
  ASSUME ClientInv, ListInv, OpenDialog, UNCHANGED pageVars
  PROVE  ListInv'
  <1>1. PICK kind \in {"create", "delete"}, id \in Ids \cup {0} : Open(kind, id)
    BY DEF OpenDialog, ClientInv, OtherTypes
  <1>2. /\ url.path = "servers" /\ dialog = NoDialog
        /\ dialog' = [kind |-> kind, id |-> id, opener |-> TRUE]
        /\ UNCHANGED <<stored, created, calls, url, signedIn, streams, list, live, told>>
    BY <1>1 DEF Open, apiVars, routerVars
  <1>3. SessionInv' /\ ToldInv'
    BY <1>2 DEF ListInv, SessionInv, ToldInv, Guarded
  <1>4. \A k \in calls' : CallTrue(k)'
    BY <1>2 DEF ListInv, CallTrue, Agrees, NoDialog
  <1>5. ReadsInv'
    BY <1>2 DEF ListInv, ReadsInv, Agrees
  <1> QED BY <1>3, <1>4, <1>5 DEF ListInv

-----------------------------------------------------------------------------
(* Dialogs that close.                                                     *)

\* An orphaned call is the call it was but for its owner.
Same(d, c) == d.op = c.op /\ d.id = c.id /\ d.state = c.state /\ d.value = c.value

LEMMA OrphanedSame ==
  ASSUME NEW cs \in SUBSET CallRecord, NEW owner, NEW by, NEW d \in Orphaned(cs, owner, by)
  PROVE  \E c \in cs : \/ d = c /\ c.by # owner
                       \/ c.by = owner /\ d.by = by /\ Same(d, c)
  BY DEF Orphaned, CallRecord, Same

\* A list over which a dialog closes is asked for anew, or the dialog has told
\* nothing about it.
LEMMA CloseTrue ==
  ASSUME ClientInv, ListInv, dialog # NoDialog,
         NEW cs \in SUBSET calls, PageLists(cs) = PageLists(calls), Close(cs),
         UNCHANGED <<stored, created, url, signedIn, streams, list, live>>, ToldInv',
         told' = told \/ (dialog.kind = "delete" /\ dialog.opener)
  PROVE  ListInv'
  <1> DEFINE open == Orphaned(cs, "dialog", "left")
  <1>1. CallsInv(cs, url) /\ cs \in SUBSET CallRecord
    BY FewerCalls DEF ClientInv, CallsInv
  <1>2. IsFiniteSet(open \ ListReadsOfPage)
    <2>1. IsFiniteSet(open)
      BY <1>1, DialogOrphaned DEF CallsInv
    <2> HIDE DEF open
    <2> QED BY <2>1, FS_Subset
  <1>3. \A d \in open : \E c \in cs : \/ d = c /\ c.by # "dialog"
                                      \/ c.by = "dialog" /\ d.by = "left" /\ Same(d, c)
    BY <1>1, OrphanedSame
  <1>4. PageLists(open) = PageLists(cs)
    <2>1. \A c \in PageLists(cs) : c \in open
      BY DEF PageLists, Orphaned
    <2> HIDE DEF open
    <2> QED BY <1>3, <2>1 DEF PageLists
  <1>5. dialog' = NoDialog
    BY DEF Close
  <1>6. \/ calls' = open /\ ~(dialog.kind = "delete" /\ dialog.opener /\ live)
        \/ calls' = Sent(open \ ListReadsOfPage, "getServers", "page", 0, Nothing)
    BY DEF Close, AskForList
  <1> HIDE DEF open
  <1>7. SessionInv'
    <2>1. url.path \in Guarded /\ signedIn
      BY DEF ListInv, SessionInv
    <2> QED BY <1>5, <2>1 DEF SessionInv, NoDialog
  <1>8. \A d \in open : d \notin PageLists(open) => CallTrue(d)'
    BY <1>3, <1>5 DEF ListInv, CallTrue, PageLists, Same
  <1>9. CASE calls' = open /\ ~(dialog.kind = "delete" /\ dialog.opener /\ live)
    <2>1. PageLists(calls') = PageLists(calls)
      BY <1>4, <1>9
    <2>2. told' = told \/ ~live
      BY <1>9
    <2>3. \A d \in PageLists(calls') : CallTrue(d)'
      BY <1>5, <2>1, <2>2 DEF ListInv, ReadsInv, CallTrue, Agrees, PageLists
    <2>4. ReadsInv'
      BY <2>1, <2>2 DEF ListInv, ReadsInv, Agrees
    <2> QED BY <1>7, <1>8, <1>9, <2>3, <2>4 DEF ListInv
  <1>10. CASE /\ dialog.kind = "delete" /\ dialog.opener /\ live
              /\ calls' = Sent(open \ ListReadsOfPage, "getServers", "page", 0, Nothing)
    <2>1. PICK r \in CallRecord :
             /\ Sent(open \ ListReadsOfPage, "getServers", "page", 0, Nothing)
                  = (open \ ListReadsOfPage) \cup {r}
             /\ r.op = "getServers" /\ r.by = "page" /\ r.id = 0 /\ r.arg = Nothing
             /\ r.state = "Sent"
      BY <1>2, SentAdds DEF By, ListReads
    <2>2. ListReadsOfPage = PageLists(open)
      BY <1>4 DEF ListReadsOfPage, PageLists
    <2>3. PageLists(calls') = {r}
      BY <1>10, <2>1, <2>2 DEF PageLists
    <2>4. \A d \in calls' : CallTrue(d)'
      BY <1>8, <1>10, <2>1, <2>2 DEF CallTrue
    <2>5. ReadsInv'
      BY <1>10, <2>3 DEF ReadsInv
    <2> QED BY <1>7, <2>4, <2>5 DEF ListInv
  <1> QED BY <1>6, <1>9, <1>10 DEF Close, AskForList, open

LEMMA CloseDialogTrue ==
  ASSUME ClientInv, ListInv, CloseDialog, UNCHANGED pageVars
  PROVE  ListInv'
  <1>1. /\ UNCHANGED <<stored, created, url, signedIn, streams, list, live, told>>
        /\ dialog # NoDialog /\ Close(calls)
    BY DEF CloseDialog, routerVars
  <1>2. ToldInv'
    BY <1>1 DEF ListInv, ToldInv
  <1> QED BY <1>1, <1>2, CloseTrue

LEMMA DeletionAnsweredTrue ==
  ASSUME ClientInv, ListInv, NEW c \in calls, DeletionAnswered(c), c.by # "nothing",
         UNCHANGED pageVars
  PROVE  ListInv'
  <1>1. /\ c.op = "deleteServer" /\ c.state = "Answered"
        /\ UNCHANGED <<stored, created, routerVars, streams, list, live>>
    BY DEF DeletionAnswered
  <1>2. CASE c.by = "dialog"
    <2>1. c.id \in (1 .. created) \ stored /\ dialog.kind = "delete"
      BY <1>1, <1>2 DEF ListInv, CallTrue
    <2>2. told' = told \/ (dialog.opener /\ told' = [told EXCEPT ![c.id] = "deleted"])
      BY <1>2 DEF DeletionAnswered
    <2>3. ToldInv'
      BY <1>1, <2>1, <2>2 DEF ListInv, ToldInv, ClientInv, OtherTypes
    <2>4. PageLists(calls \ {c}) = PageLists(calls) /\ Close(calls \ {c})
      BY <1>1, <1>2 DEF PageLists, DeletionAnswered
    <2>5. dialog # NoDialog /\ UNCHANGED <<url, signedIn>>
      BY <1>1, <2>1 DEF NoDialog, routerVars
    <2> QED BY <1>1, <2>1, <2>2, <2>3, <2>4, <2>5, CloseTrue
  <1>3. CASE c.by # "dialog"
    <2>1. calls' = calls \ {c} /\ UNCHANGED <<dialog, told>>
      BY <1>3 DEF DeletionAnswered
    <2> QED BY <1>1, <2>1, EndedQuietly DEF listVars
  <1> QED BY <1>2, <1>3

-----------------------------------------------------------------------------
(* Another page.                                                           *)

\* A page starts without a list, and with one read of it at most.
LEMMA ShowTrue ==
  ASSUME NEW u \in Places, NEW cs, NEW ss, Show(u, cs, ss), IsFiniteSet(cs),
         \A c \in cs : c.by # "page", \A c \in cs : CallTrue(c)',
         u.path \in Guarded => signedIn',
         u.path \notin Guarded =>
           ss = {} /\ dialog' = NoDialog /\ \A c \in cs : c.by = "nothing",
         ~dialog'.opener, dialog'.kind = "none" => dialog' = NoDialog, ToldInv'
  PROVE  ListInv'
  <1>1. url' = u /\ list' = Nothing /\ live' = TRUE
    BY DEF Show
  <1>2. u.id \in Ids \cup {0}
    BY DEF Places, Landing, Servers, Identity, At
  <1>3. \/ calls' = cs
        \/ /\ u.path \in Guarded
           /\ \E r : /\ calls' = cs \cup {r} /\ r.by = "page" /\ r.state = "Sent"
                     /\ r.op # "deleteServer"
    <2>1. CASE u.path = "servers"
      <3>1. calls' = Sent(cs, "getServers", "page", 0, Nothing)
        BY <2>1 DEF Show
      <3>2. PICK r \in CallRecord :
               /\ Sent(cs, "getServers", "page", 0, Nothing) = cs \cup {r}
               /\ r.op = "getServers" /\ r.by = "page" /\ r.id = 0 /\ r.arg = Nothing
               /\ r.state = "Sent"
        BY SentAdds DEF By, ListReads
      <3> QED BY <2>1, <3>1, <3>2 DEF Guarded
    <2>2. CASE u.path \in {"server", "maintenance"}
      <3>1. calls' = Sent(cs, "getServer", "page", u.id, Nothing)
        BY <2>2 DEF Show
      <3>2. PICK r \in CallRecord :
               /\ Sent(cs, "getServer", "page", u.id, Nothing) = cs \cup {r}
               /\ r.op = "getServer" /\ r.by = "page" /\ r.id = u.id /\ r.arg = Nothing
               /\ r.state = "Sent"
        BY <1>2, SentAdds DEF By, ServerReads
      <3> QED BY <2>2, <3>1, <3>2 DEF Guarded
    <2>3. CASE u.path \notin {"servers", "server", "maintenance"}
      BY <2>3 DEF Show
    <2> QED BY <2>1, <2>2, <2>3
  <1>4. \A c \in calls' : CallTrue(c)'
    BY <1>3 DEF CallTrue
  <1>5. ReadsInv'
    BY <1>1, <1>3 DEF ReadsInv, PageLists
  <1>6. SessionInv'
    <2>1. u.path \notin Guarded => streams' = ss
      BY DEF Show, Guarded
    <2> QED BY <1>1, <1>3, <2>1 DEF SessionInv
  <1> QED BY <1>4, <1>5, <1>6 DEF ListInv

LEMMA LeaveSame ==
  ASSUME NEW cs \in SUBSET CallRecord, NEW d \in Leave(cs)
  PROVE  \E c \in cs : /\ Same(d, c)
                       /\ d.by = (IF c.by = "page" THEN "left" ELSE c.by)
  <1>1. CASE url.path = "maintenance"
    <2>1. d \in Orphaned(cs, "page", "left")
      BY <1>1 DEF Leave
    <2> QED BY <2>1, OrphanedSame DEF Same
  <1>2. CASE url.path # "maintenance"
    BY <1>2 DEF Leave, Same
  <1> QED BY <1>1, <1>2

LEMMA BrowseTrue ==
  ASSUME ClientInv, ListInv, NEW u \in Places, Browse(u),
         url.path \in Guarded, u.path \in Guarded
  PROVE  ListInv'
  <1>1. /\ Show(u, Leave(calls), LeaveStreams) /\ dialog = NoDialog
        /\ UNCHANGED <<stored, created, signedIn, dialog, told>>
    BY DEF Browse
  <1>2. IsFiniteSet(Leave(calls)) /\ calls \in SUBSET CallRecord
    BY LeaveInv DEF ClientInv, CallsInv
  <1>3. \A c \in Leave(calls) : c.by # "page" /\ CallTrue(c)'
    <2> TAKE d \in Leave(calls)
    <2>1. PICK c \in calls : /\ Same(d, c)
                             /\ d.by = (IF c.by = "page" THEN "left" ELSE c.by)
      BY <1>2, LeaveSame
    <2>2. CallTrue(c)
      BY DEF ListInv
    <2> QED BY <1>1, <2>1, <2>2 DEF CallTrue, Same
  <1>4. ToldInv' /\ signedIn'
    BY <1>1 DEF ListInv, ToldInv, SessionInv
  <1> QED BY <1>1, <1>2, <1>3, <1>4, ShowTrue DEF NoDialog

LEMMA LinkTrue ==
  ASSUME ClientInv, ListInv, OpenServer \/ BackToList
  PROVE  ListInv'
  <1>1. CASE OpenServer
    <2>1. PICK id \in list : Browse(At("server", id)) \/ Browse(At("maintenance", id))
      BY <1>1 DEF OpenServer
    <2>2. id \in Ids /\ url.path \in Guarded
      BY <1>1 DEF OpenServer, ClientInv, OtherTypes, Guarded
    <2>3. \A path \in {"server", "maintenance"} :
            At(path, id) \in Places /\ At(path, id).path \in Guarded
      BY <2>2 DEF Places, At, Guarded
    <2> QED BY <2>1, <2>2, <2>3, BrowseTrue
  <1>2. CASE BackToList
    <2>1. Servers \in Places /\ Servers.path \in Guarded /\ url.path \in Guarded
      BY <1>2 DEF BackToList, Places, Servers, At, Guarded
    <2> QED BY <1>2, <2>1, BrowseTrue DEF BackToList
  <1> QED BY <1>1, <1>2

LEMMA CreationAnsweredTrue ==
  ASSUME ClientInv, ListInv, NEW c \in calls, CreationAnswered(c)
  PROVE  ListInv'
  <1> DEFINE rest == IF c.by = "dialog" THEN Orphaned(calls \ {c}, "dialog", "left")
                     ELSE calls \ {c}
             cs   == Leave(rest)
  <1>1. PICK id \in c.value :
          /\ Show(Below(url, id), cs, LeaveStreams)
          /\ dialog' = (IF c.by = "dialog" THEN NoDialog
                        ELSE [dialog EXCEPT !.opener = FALSE])
          /\ told' = [told EXCEPT ![id] = "created"]
    BY DEF CreationAnswered
  <1>2. id \in Ids /\ id \in 1 .. created
    <2>1. id \in Ids
      BY DEF ClientInv, CallsInv, CallRecord
    <2>2. c.value \subseteq 1 .. created
      BY DEF CreationAnswered, ListInv, CallTrue
    <2> QED BY <2>1, <2>2
  <1>3. UNCHANGED <<stored, created, signedIn>>
    BY DEF CreationAnswered
  <1>4. ToldInv'
    BY <1>1, <1>2, <1>3 DEF ListInv, ToldInv, ClientInv, OtherTypes
  <1>5. url.path \in Guarded /\ signedIn
    BY WaitedForInside DEF CreationAnswered, ListInv, SessionInv
  <1>6. Below(url, id) \in Places /\ Below(url, id).path \in Guarded
    BY <1>2, <1>5 DEF Below, LandOn, Places, Servers, At, Guarded
  <1>7. rest \in SUBSET CallRecord /\ CallsInv(rest, url)
    <2>1. CallsInv(rest, url)
      BY EndedInv, DialogOrphaned DEF ClientInv
    <2> HIDE DEF rest
    <2> QED BY <2>1 DEF CallsInv
  <1>8. \A d \in rest : \E k \in calls : /\ Same(d, k)
                                         /\ d.by = k.by \/ d.by = "left"
                                         /\ c.by = "dialog" => d.by # "dialog"
    <2>1. calls \ {c} \in SUBSET CallRecord
      BY DEF ClientInv, CallsInv
    <2>2. CASE c.by = "dialog"
      BY <2>1, <2>2, OrphanedSame DEF Same
    <2>3. CASE c.by # "dialog"
      BY <2>3 DEF Same
    <2> QED BY <2>2, <2>3
  <1> HIDE DEF rest
  <1>9. IsFiniteSet(cs)
    BY <1>7, LeaveInv DEF CallsInv
  <1>10. \A e \in cs : e.by # "page" /\ CallTrue(e)'
    <2> TAKE e \in cs
    <2>1. PICK d \in rest : /\ Same(e, d)
                            /\ e.by = (IF d.by = "page" THEN "left" ELSE d.by)
      BY <1>7, LeaveSame
    <2>2. PICK k \in calls : /\ Same(d, k)
                             /\ d.by = k.by \/ d.by = "left"
                             /\ c.by = "dialog" => d.by # "dialog"
      BY <1>8
    <2>3. CallTrue(k)
      BY DEF ListInv
    <2>4. e.by # "page"
      BY <2>1
    <2>5. e.op = "deleteServer" /\ e.by = "dialog" => dialog'.kind = "delete"
      BY <1>1, <2>1, <2>2, <2>3 DEF CallTrue, Same, ClientInv, OtherTypes
    <2> QED BY <1>3, <2>1, <2>2, <2>3, <2>4, <2>5 DEF CallTrue, Same
  <1>11. ~dialog'.opener /\ (dialog'.kind = "none" => dialog' = NoDialog)
    <2>1. ASSUME NEW d, d = NoDialog, NEW e, e = [d EXCEPT !.opener = FALSE]
          PROVE  e = NoDialog
      BY <2>1 DEF NoDialog
    <2>2. dialog.kind = "none" => dialog = NoDialog
      BY DEF ListInv, SessionInv
    <2>3. LET d == [dialog EXCEPT !.opener = FALSE]
          IN  d.kind = dialog.kind /\ ~d.opener
      BY DEF ClientInv, OtherTypes
    <2>4. ~NoDialog.opener
      BY DEF NoDialog
    <2> QED BY <1>1, <2>1, <2>2, <2>3, <2>4
  <1> HIDE DEF cs
  <1> QED BY <1>1, <1>3, <1>4, <1>5, <1>6, <1>9, <1>10, <1>11, ShowTrue

\* What a new client finds under way, nothing waits for.
LEMMA LoadTrue ==
  ASSUME ClientInv, ListInv, NEW u \in Places, Load(u), u.path \in Guarded => signedIn'
  PROVE  ListInv'
  <1> DEFINE ws == {k \in calls : k.op \in Writes}
             f  == [k \in ws |-> [k EXCEPT !.by = "nothing"]]
             cs == {f[k] : k \in ws}
  <1>1. /\ Show(u, cs, {}) /\ dialog' = NoDialog
        /\ UNCHANGED <<stored, created, told>>
    BY DEF Load
  <1>2. \A k \in ws : f[k].by = "nothing" /\ Same(f[k], k)
    BY DEF ClientInv, CallsInv, CallRecord, Same
  <1>3. IsFiniteSet(ws)
    BY FS_Subset DEF ClientInv, CallsInv
  <1>4. \A k \in ws : CallTrue(k)
    BY DEF ListInv
  <1> HIDE DEF ws, f
  <1>5. IsFiniteSet(cs)
    BY <1>3, ImageFinite
  <1>6. \A c \in cs : c.by = "nothing" /\ CallTrue(c)'
    BY <1>1, <1>2, <1>4 DEF CallTrue, Same
  <1>7. ToldInv'
    BY <1>1 DEF ListInv, ToldInv
  <1>8. ~dialog'.opener
    BY <1>1 DEF NoDialog
  <1> HIDE DEF cs
  <1> QED BY <1>1, <1>5, <1>6, <1>7, <1>8, ShowTrue

LEMMA TabTrue ==
  ASSUME ClientInv, ListInv, Tab
  PROVE  ListInv'
  <1>1. /\ {Landing, Servers, Identity} \subseteq Places
        /\ Landing.path \notin Guarded /\ Identity.path \notin Guarded
    BY DEF Places, Landing, Identity, At, Guarded
  <1>2. CASE Reload
    BY <1>1, <1>2, LoadTrue DEF Reload, LandOn
  <1>3. CASE Login
    <2>1. Activate(Servers) = (IF signedIn THEN Servers ELSE Identity)
      BY DEF Activate, Servers, At, Guarded
    <2> QED BY <1>1, <1>3, <2>1, LoadTrue DEF Login
  <1>4. CASE SignIn
    BY <1>1, <1>4, LoadTrue DEF SignIn
  <1>5. CASE Logout
    BY <1>1, <1>5, LoadTrue DEF Logout
  <1>6. CASE Expire
    BY <1>1, <1>6, LoadTrue DEF Expire
  <1> QED BY <1>2, <1>3, <1>4, <1>5, <1>6 DEF Tab

-----------------------------------------------------------------------------
(* Every behaviour.                                                        *)

LEMMA InitTrue == Init => ListInv
  <1> SUFFICES ASSUME Init PROVE ListInv
    OBVIOUS
  <1>1. \/ ~signedIn /\ calls = {}
        \/ signedIn /\ \E r : /\ calls = {r} /\ r.by = "page" /\ r.op = "getServers"
                              /\ r.state = "Sent"
    <2>1. CASE signedIn
      <3>1. calls = Sent({}, "getServers", "page", 0, Nothing)
        BY <2>1 DEF Init
      <3>2. PICK r \in CallRecord :
               /\ Sent({}, "getServers", "page", 0, Nothing) = {} \cup {r}
               /\ r.op = "getServers" /\ r.by = "page" /\ r.id = 0 /\ r.arg = Nothing
               /\ r.state = "Sent"
        BY FS_EmptySet, SentAdds DEF By, ListReads
      <3> QED BY <2>1, <3>1, <3>2
    <2>2. CASE ~signedIn
      BY <2>2 DEF Init
    <2> QED BY <2>1, <2>2
  <1>2. SessionInv
    BY <1>1 DEF Init, SessionInv, LandOn, Landing, Servers, At, Guarded, NoDialog
  <1>3. ToldInv
    BY DEF Init, ToldInv
  <1>4. \A c \in calls : CallTrue(c)
    BY <1>1 DEF CallTrue
  <1>5. ReadsInv
    BY <1>1 DEF Init, ReadsInv, PageLists
  <1> QED BY <1>2, <1>3, <1>4, <1>5 DEF ListInv

LEMMA ReceiveTrue ==
  ASSUME ClientInv, ListInv, NEW c \in calls, c.by # "nothing", Answered(c) \/ Failed(c)
  PROVE  ListInv'
  <1>1. CASE ListAnswered(c) /\ UNCHANGED pageVars
    BY <1>1, ListAnsweredTrue
  <1>2. CASE DeletionAnswered(c) /\ UNCHANGED pageVars
    BY <1>2, DeletionAnsweredTrue
  <1>3. CASE CreationAnswered(c)
    BY <1>3, CreationAnsweredTrue
  <1>4. CASE (DateAnswered(c) \/ DateFailed(c)) /\ UNCHANGED <<listVars, pageVars>>
    BY <1>4, DateReceivedTrue
  <1>5. CASE \/ ServerAnswered(c) \/ PerformanceAnswered(c) \/ WaitStatsAnswered(c)
             \/ PlanAnswered(c) \/ ReadFailed(c)
    BY <1>5, PageAnsweredTrue
  <1>6. CASE ListFailed(c) /\ UNCHANGED pageVars
    BY <1>6, ListFailedTrue
  <1>7. CASE WriteFailed(c) /\ UNCHANGED pageVars
    BY <1>7, WriteFailedTrue
  <1> QED BY <1>1, <1>2, <1>3, <1>4, <1>5, <1>6, <1>7 DEF Answered, Failed

LEMMA UsePageTrue ==
  ASSUME ClientInv, ListInv, UsePage
  PROVE  ListInv'
  <1>1. CASE OpenDialog /\ UNCHANGED pageVars
    BY <1>1, OpenDialogTrue
  <1>2. CASE \E s \in streams, d \in Dates \cup {NoDate} :
               /\ dialog = NoDialog /\ loaded
               /\ PickDate(s, d) /\ UNCHANGED <<listVars, pageVars>>
    BY <1>2, PickDateTrue
  <1>3. CASE \E q \in Queries : AnalyzeQuery(q)
    BY <1>3, AnalyzeQueryTrue
  <1>4. CASE OpenServer \/ BackToList
    BY <1>4, LinkTrue
  <1> QED BY <1>1, <1>2, <1>3, <1>4 DEF UsePage

LEMMA NextTrue == ClientInv /\ ListInv /\ [Next]_vars => ListInv'
  <1> SUFFICES ASSUME ClientInv, ListInv, [Next]_vars PROVE ListInv'
    OBVIOUS
  <1>1. CASE Api
    BY <1>1, HandleCallTrue, DropCallTrue DEF Api
  <1>2. CASE Timer
    BY <1>2, TimerTrue
  <1>3. CASE Tab
    BY <1>3, TabTrue
  <1>4. CASE UsePage
    BY <1>4, UsePageTrue
  <1>5. CASE UseDialog
    BY <1>5, SubmitFormTrue, CloseDialogTrue DEF UseDialog
  <1>6. CASE Receive(ListReads) \/ Receive(ServerReads) \/ Receive(Writes)
    BY <1>6, ReceiveTrue DEF Receive
  <1>7. CASE UNCHANGED vars
    <2>1. /\ UNCHANGED <<stored, created, routerVars, listVars>>
          /\ UNCHANGED <<calls, streams>>
      BY <1>7 DEF vars, apiVars
    <2> QED BY <2>1, QuietStep
  <1> QED BY <1>1, <1>2, <1>3, <1>4, <1>5, <1>6, <1>7 DEF Next

LEMMA ListInvariance == Spec => [](ClientInv /\ ListInv)
  <1>1. Init => ClientInv /\ ListInv
    BY InitInv, InitTrue
  <1>2. ClientInv /\ ListInv /\ [Next]_vars => (ClientInv /\ ListInv)'
    BY NextInv, NextTrue
  <1> QED BY <1>1, <1>2, PTL DEF Spec

LEMMA CreationLandsStep ==
  ASSUME ListInv, NEW c \in calls, CreationAnswered(c)
  PROVE  \/ url'.path = "server" /\ url'.id \in c.value
         \/ url' = Servers /\ ~(c.by = "dialog" /\ dialog.opener)
  <1>1. PICK id \in c.value : url' = Below(url, id)
    BY DEF CreationAnswered, Show
  <1>2. url.path \in Guarded /\ signedIn
    BY WaitedForInside DEF CreationAnswered, ListInv, SessionInv
  <1>3. CASE url.path = "servers"
    BY <1>1, <1>3 DEF Below, At
  <1>4. CASE url.path # "servers"
    BY <1>1, <1>2, <1>4 DEF Below, LandOn, ListInv, SessionInv
  <1> QED BY <1>3, <1>4

-----------------------------------------------------------------------------
\* Once nothing is pending, a server whose deletion has been confirmed over
\* the list is not in it, and a server whose creation has been answered is:
\* refreshServers (servers.component.ts) aborts the read that knows less.
THEOREM ListKeepsUpAlways == Spec => []ListKeepsUp
  BY ListInvariance, ListInvKeepsUp, PTL

\* However late it comes, the answer of a creation shows the new server or the
\* list (create-new-server-dialog.component.ts navigates below the address the
\* user is at by then).
THEOREM CreationsLand == Spec => CreationLands
  <1>1. ClientInv /\ ListInv =>
          [\A c \in calls :
             CreationAnswered(c) =>
               \/ url'.path = "server" /\ url'.id \in c.value
               \/ url' = Servers /\ ~(c.by = "dialog" /\ dialog.opener)]_vars
    BY CreationLandsStep
  <1> QED BY <1>1, ListInvariance, PTL DEF CreationLands
===============================================================================
