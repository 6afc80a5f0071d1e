------------------------------- MODULE WebClient -------------------------------
(***************************************************************************)
(* The web client in one browser tab: its pages, the user's way through    *)
(* them, and the answers of the API that reach it meanwhile.               *)
(*                                                                         *)
(* The user moves by the client's own buttons, links and redirects, by     *)
(* reloading the tab, and to the identity provider and back.               *)
(***************************************************************************)
EXTENDS ServerPage

vars == <<apiVars, routerVars, streams, listVars, pageVars>>

-----------------------------------------------------------------------------
(* Leaving a page and entering another.                                    *)

\* Mutant of Leave: ngOnDestroy does not complete destroy$.
LeaveSubscribed(cs) == Orphaned(cs, "page", "left")

\* The calls cs once the page is left: takeUntil(destroy$), the signal's own
\* clean-up and the preview's abort its reads, but those of the maintenance
\* page go on.
Leave(cs) ==
  IF url.path = "maintenance" THEN Orphaned(cs, "page", "left")
  ELSE {c \in cs : c.by # "page"}

\* So does the timer of the maintenance page, and no other page's.
LeaveStreams ==
  {s \in streams : s.by = "left"} \cup
  {[s EXCEPT !.by = "left", !.shown = Nothing] :
     s \in {t \in streams : t.by = "page" /\ t.timer /\ url.path = "maintenance"}}

\* The component at u starts, while cs and ss go on.
Show(u, cs, ss) ==
  /\ url' = u
  /\ list' = Nothing /\ live' = TRUE
  /\ loaded' = FALSE /\ performance' = FALSE /\ waits' = FALSE
  /\ query' = Nothing /\ plan' = Nothing
  /\ calls' = CASE u.path = "servers" -> Sent(cs, "getServers", "page", 0, Nothing)
                [] u.path \in {"server", "maintenance"} ->
                     Sent(cs, "getServer", "page", u.id, Nothing)
                [] OTHER -> cs
  /\ streams' = CASE u.path = "server" ->
                       ss \cup {NewStream("getServerInsights", u.id)}
                  [] u.path = "maintenance" ->
                       ss \cup {NewStream("getServerMaintenance", u.id)}
                  [] OTHER -> ss

\* Calls and timers of left pages, once the page shown is left too.
Leftovers ==
  Cardinality({c \in Leave(calls) : c.op \notin Writes}) + Cardinality(LeaveStreams)

Browse(u) ==
  /\ dialog = NoDialog
  /\ Leftovers <= MaxLeft
  /\ Show(u, Leave(calls), LeaveStreams)
  /\ UNCHANGED <<stored, created, signedIn, dialog, told>>

\* The links of the list to a server's two pages, and of the toolbar back.
OpenServer ==
  /\ url.path = "servers" /\ list # Nothing
  /\ \E id \in list : Browse(At("server", id)) \/ Browse(At("maintenance", id))

BackToList == url.path \in {"server", "maintenance"} /\ Browse(Servers)

\* The answer takes the user to an address below the one he is at by now, and
\* closes its own dialog.
CreationAnswered(c) ==
  /\ c.op = "createServer" /\ c.state = "Answered" /\ c.by # "nothing"
  /\ \E id \in c.value :
       /\ IF c.by = "dialog"
          THEN /\ Show(Below(url, id),
                       Leave(Orphaned(calls \ {c}, "dialog", "left")), LeaveStreams)
               /\ dialog' = NoDialog
          ELSE /\ Show(Below(url, id), Leave(calls \ {c}), LeaveStreams)
               /\ dialog' = [dialog EXCEPT !.opener = FALSE]
       /\ told' = [told EXCEPT ![id] = "created"]
  /\ UNCHANGED <<stored, created, signedIn>>

-----------------------------------------------------------------------------
(* Loading the client anew.                                                *)

\* The tab drops the client; writes on their way may still reach the API.
Load(u) ==
  /\ Show(u, {[c EXCEPT !.by = "nothing"] : c \in {k \in calls : k.op \in Writes}}, {})
  /\ dialog' = NoDialog
  /\ UNCHANGED <<stored, created, told>>

\* AppComponent.ngOnInit: whatever was shown, a signed-in user gets the list.
Reload == Load(LandOn) /\ UNCHANGED signedIn

\* The login button of the landing page.
Login ==
  /\ url = Landing
  /\ Load(Activate(Servers))
  /\ UNCHANGED signedIn

\* The provider returns to the list, and checkAndSetActiveAccount finds the
\* account.
SignIn ==
  /\ url = Identity
  /\ signedIn' = TRUE
  /\ Load(Servers)

\* acquireTokenSilent has succeeded, and logoutRedirect leaves.
Logout ==
  /\ url.path \in Guarded
  /\ signedIn' = FALSE
  /\ Load(Identity)

\* A token can be renewed no longer: initializeAuth redirects to the provider.
Expire ==
  /\ url.path \in Guarded
  /\ Load(Identity)
  /\ UNCHANGED signedIn

-----------------------------------------------------------------------------
\* The answer to a call reaches whatever has subscribed to it.
Answered(c) ==
  \/ ListAnswered(c) /\ UNCHANGED pageVars
  \/ DeletionAnswered(c) /\ UNCHANGED pageVars
  \/ CreationAnswered(c)
  \/ DateAnswered(c) /\ UNCHANGED <<listVars, pageVars>>
  \/ ServerAnswered(c) \/ PerformanceAnswered(c) \/ WaitStatsAnswered(c)
  \/ PlanAnswered(c)

Failed(c) ==
  \/ ListFailed(c) /\ UNCHANGED pageVars
  \/ WriteFailed(c) /\ UNCHANGED pageVars
  \/ DateFailed(c) /\ UNCHANGED <<listVars, pageVars>>
  \/ ReadFailed(c)

Receive(ops) ==
  \E c \in calls : c.by # "nothing" /\ c.op \in ops /\ (Answered(c) \/ Failed(c))

\* The user at the page, below no dialog.
UsePage ==
  \/ OpenDialog /\ UNCHANGED pageVars
  \/ \E s \in streams, d \in Dates \cup {NoDate} :
       /\ dialog = NoDialog /\ loaded
       /\ PickDate(s, d) /\ UNCHANGED <<listVars, pageVars>>
  \/ \E q \in Queries : AnalyzeQuery(q)
  \/ OpenServer \/ BackToList

UseDialog == (SubmitForm \/ CloseDialog) /\ UNCHANGED pageVars

Timer == Debounce /\ UNCHANGED <<listVars, pageVars>>

Api == (HandleCall \/ DropCall) /\
       UNCHANGED <<routerVars, streams, listVars, pageVars>>

Tab == Reload \/ Login \/ SignIn \/ Logout \/ Expire

Init ==
  /\ ApiInit
  /\ signedIn \in BOOLEAN
  /\ url = LandOn
  /\ calls = IF signedIn THEN Sent({}, "getServers", "page", 0, Nothing) ELSE {}
  /\ list = Nothing /\ live = TRUE /\ dialog = NoDialog
  /\ told = [id \in Ids |-> "nothing"]
  /\ loaded = FALSE /\ performance = FALSE /\ waits = FALSE
  /\ query = Nothing /\ plan = Nothing
  /\ streams = {}

Next ==
  \/ Api \/ Timer \/ Tab \/ UsePage \/ UseDialog
  \/ Receive(ListReads) \/ Receive(ServerReads) \/ Receive(Writes)

\* The browser's timers fire, and every call ends, in an answer or an error.
\* Nothing is assumed of the user, of the API, or of what its answers are.
Fairness ==
  /\ WF_vars(Timer)
  /\ WF_vars(Receive(ListReads))
  /\ WF_vars(Receive(DateReads))

Spec == Init /\ [][Next]_vars /\ Fairness

-----------------------------------------------------------------------------
(* Properties.                                                             *)

\* Every variable holds values of its type.
WebTypeOK ==
  /\ created \in 0 .. MaxServers /\ stored \subseteq 1 .. created
  /\ calls \in SUBSET CallRecord
  /\ url \in [path : Paths, id : Ids \cup {0}]
  /\ signedIn \in BOOLEAN
  /\ streams \in SUBSET StreamRecord
  /\ list \in (SUBSET Ids) \cup {Nothing} /\ live \in BOOLEAN
  /\ dialog \in [kind : {"none", "create", "delete"}, id : Ids \cup {0},
                 opener : BOOLEAN]
  /\ told \in [Ids -> {"nothing", "created", "deleted"}]
  /\ {loaded, performance, waits} \subseteq BOOLEAN
  /\ {query, plan} \subseteq Queries \cup {Nothing}

\* No read of the list or of a monitoring page outlives the page it was made
\* for (takeUntil(destroy$), toSignal): whatever such a read brings, it brings
\* to the page on the screen.  The maintenance page's reads do outlive it.
LeftPagesAreQuiet ==
  /\ \A c \in calls :
       c.op \in {"getServers", "getServerPerformanceStats", "getServerWaitStats",
                "getServerInsights", "getQueryPlan"} =>
         c.by = "page" /\ url.path = (IF c.op = "getServers" THEN "servers" ELSE "server")
  /\ \A s \in streams :
       s.op = "getServerInsights" => s.by = "page" /\ s.id = url.id

\* Once nothing is pending, a date page whose stream goes on shows the day
\* its field says: no older answer is shown over a newer one (switchMap).
DateShown ==
  \A s \in streams :
    s.by = "page" /\ s.open /\ ~s.timer /\ InnerCalls(s) = {} =>
      s.shown = s.picked

\* Once nothing is pending, the list agrees with what the client has been
\* told: a server whose deletion its dialog has confirmed is gone from it,
\* and one whose creation has been confirmed is in it while it is stored.
ListKeepsUp ==
  list # Nothing /\ live /\ ListReadsOfPage = {} =>
    \A id \in Ids :
      /\ told[id] = "deleted" => id \notin list
      /\ told[id] = "created" /\ id \in stored => id \in list

\* A creation answered while its dialog is open over the list it was opened
\* from shows the new server; a later answer may find the user anywhere, and
\* shows the new server or the list, never an unknown address.
CreationLands ==
  [][\A c \in calls :
       CreationAnswered(c) =>
         \/ url'.path = "server" /\ url'.id \in c.value
         \/ url' = Servers /\ ~(c.by = "dialog" /\ dialog.opener)]_vars

\* A day picked while the stream goes on is shown, unless the user picks
\* another or leaves, or an error ends the stream.
DateLoads ==
  \A d \in Dates :
    (\E s \in streams : s.by = "page" /\ s.open /\ s.picked = d)
      ~> (\A s \in streams :
            s.by = "page" /\ s.open /\ s.picked = d => s.shown = d)
===============================================================================
