---------------------------- MODULE WebClientProofs ----------------------------
(***************************************************************************)
(* Proofs about the web client, for any days, queries, servers and bounds: *)
(* its variables have their types, nothing of the list or of a monitoring  *)
(* page outlives it, and a date page ends up showing the day its field     *)
(* says.                                                                   *)
(***************************************************************************)
EXTENDS WebClient, FiniteSetTheorems, TLAPS

-----------------------------------------------------------------------------
(* The invariant, in parts over a set of calls, a set of streams and the   *)
(* address shown, so that a step is looked at part by part.                *)

\* Addresses the client goes to.
Places ==
  {Landing, Servers, Identity} \cup
  {At(path, id) : path \in {"server", "maintenance"}, id \in Ids}

\* Reads that only their own page receives.
PageReads == {"getServers", "getServerPerformanceStats", "getServerWaitStats",
              "getServerInsights", "getQueryPlan"}

PathOf(op) == IF op = "getServers" THEN "servers" ELSE "server"

ArgumentFits(op, arg) ==
  /\ op \in DateReads => arg \in Dates
  /\ op = "getQueryPlan" => arg \in Queries

Belongs(op, by, u) == op \in PageReads => by = "page" /\ u.path = PathOf(op)

CallsInv(cs, u) ==
  /\ IsFiniteSet(cs)
  /\ \A c \in cs : c \in CallRecord /\ ArgumentFits(c.op, c.arg) /\ Belongs(c.op, c.by, u)

StreamsInv(ss, u) ==
  /\ \A s \in ss :
       /\ s \in StreamRecord
       /\ s.op = "getServerInsights" => s.by = "page" /\ u.path = "server" /\ s.id = u.id
  /\ \A s, t \in ss : s.by = "page" /\ t.by = "page" => s = t

\* The calls of s that are in flight ask for the day picked; without one, that
\* day is shown.
Asks(c, s) == c.by = s.by /\ c.op = s.op /\ c.id = s.id

Settled(cs, ss) ==
  \A s \in ss :
    s.by = "page" /\ s.open /\ ~s.timer =>
      /\ \A c \in cs : Asks(c, s) => c.arg = s.picked
      /\ (\A c \in cs : ~Asks(c, s)) => s.shown = s.picked

\* What WebTypeOK says of the variables that the other parts say nothing of.
OtherTypes ==
  /\ created \in 0 .. MaxServers /\ stored \subseteq 1 .. created
  /\ signedIn \in BOOLEAN
  /\ list \in (SUBSET Ids) \cup {Nothing} /\ live \in BOOLEAN
  /\ dialog \in [kind : {"none", "create", "delete"}, id : Ids \cup {0},
                 opener : BOOLEAN]
  /\ told \in [Ids -> {"nothing", "created", "deleted"}]
  /\ {loaded, performance, waits} \subseteq BOOLEAN
  /\ {query, plan} \subseteq Queries \cup {Nothing}

\* A delete dialog whose opener is shown is over the list.
DialogInv == dialog.kind = "delete" /\ dialog.opener => url.path = "servers"

ClientInv ==
  /\ OtherTypes
  /\ url \in Places
  /\ CallsInv(calls, url)
  /\ StreamsInv(streams, url)
  /\ Settled(calls, streams)
  /\ DialogInv

-----------------------------------------------------------------------------
(* Sets of calls.                                                          *)

LEMMA ImageFinite ==
  ASSUME NEW S, IsFiniteSet(S), NEW f
  PROVE  IsFiniteSet({f[x] : x \in S})
  <1> DEFINE T == {f[x] : x \in S}
             g == [x \in S |-> f[x]]
  <1>1. g \in Surjection(S, T)
    BY DEF Surjection
  <1> QED BY <1>1, FS_Surjection

\* A number that a finite set lacks is found among the first ones.
LEMMA FreshNumber ==
  ASSUME NEW S, IsFiniteSet(S)
  PROVE  (CHOOSE i \in 1 .. Cardinality(S) + 1 : i \notin S) \in Nat
  <1> DEFINE k == Cardinality(S)
  <1>1. k \in Nat
    BY FS_CardinalityType
  <1>2. ~ (1 .. k + 1) \subseteq S
    <2> SUFFICES ASSUME (1 .. k + 1) \subseteq S PROVE FALSE
      OBVIOUS
    <2>1. Cardinality(1 .. k + 1) <= k
      BY FS_Subset
    <2>2. Cardinality(1 .. k + 1) = k + 1
      BY <1>1, FS_Interval
    <2> QED BY <1>1, <2>1, <2>2
  <1>3. \E i \in 1 .. k + 1 : i \notin S
    BY <1>2
  <1> HIDE DEF k
  <1>4. (CHOOSE i \in 1 .. k + 1 : i \notin S) \in 1 .. k + 1
    BY <1>3
  <1> QED BY <1>1, <1>4 DEF k

\* Sending adds one call, of the right type, that asks what it is told to ask.
LEMMA SentAdds ==
  ASSUME NEW cs, IsFiniteSet(cs),
         NEW op \in ListReads \cup ServerReads \cup Writes, NEW by \in By,
         NEW id \in Ids \cup {0}, NEW arg \in Dates \cup Queries \cup {Nothing}
  PROVE  \E r \in CallRecord :
           /\ Sent(cs, op, by, id, arg) = cs \cup {r}
           /\ r.op = op /\ r.by = by /\ r.id = id /\ r.arg = arg /\ r.state = "Sent"
  <1> DEFINE K    == {k \in cs : k.op = op /\ k.id = id /\ k.arg = arg}
             same == {c.n : c \in K}
             n    == CHOOSE i \in 1 .. Cardinality(same) + 1 : i \notin same
             r    == [n |-> n, op |-> op, by |-> by, id |-> id, arg |-> arg,
                      state |-> "Sent", value |-> {}]
  <1>1. IsFiniteSet(K)
    BY FS_Subset
  <1>2. IsFiniteSet(same)
    <2> DEFINE f == [c \in K |-> c.n]
    <2>1. same = {f[c] : c \in K}
      OBVIOUS
    <2> HIDE DEF f, K
    <2>2. IsFiniteSet({f[c] : c \in K})
      BY <1>1, ImageFinite
    <2> QED BY <2>1, <2>2
  <1> HIDE DEF same
  <1>3. n \in Nat
    BY <1>2, FreshNumber
  <1> HIDE DEF n
  <1>4. r \in CallRecord
    BY <1>3 DEF CallRecord
  <1>5. Sent(cs, op, by, id, arg) = cs \cup {r}
    BY DEF Sent, n, same
  <1> QED BY <1>4, <1>5

LEMMA SentInv ==
  ASSUME NEW cs, NEW u, CallsInv(cs, u),
         NEW op \in ListReads \cup ServerReads \cup Writes, NEW by \in By,
         NEW id \in Ids \cup {0}, NEW arg \in Dates \cup Queries \cup {Nothing},
         ArgumentFits(op, arg), Belongs(op, by, u)
  PROVE  CallsInv(Sent(cs, op, by, id, arg), u)
  <1>1. IsFiniteSet(cs)
    BY DEF CallsInv
  <1>2. PICK r \in CallRecord :
           /\ Sent(cs, op, by, id, arg) = cs \cup {r}
           /\ r.op = op /\ r.by = by /\ r.id = id /\ r.arg = arg
    BY <1>1, SentAdds
  <1>3. IsFiniteSet(cs \cup {r})
    BY <1>1, FS_AddElement
  <1> QED BY <1>2, <1>3 DEF CallsInv

LEMMA FewerCalls ==
  ASSUME NEW cs, NEW u, CallsInv(cs, u), NEW ds, ds \subseteq cs
  PROVE  CallsInv(ds, u)
  <1>1. IsFiniteSet(ds)
    BY FS_Subset DEF CallsInv
  <1> QED BY <1>1 DEF CallsInv

\* Calls of no page read belong to any address.
LEMMA CallsAnywhere ==
  ASSUME NEW cs, NEW u, CallsInv(cs, u), \A c \in cs : c.op \notin PageReads, NEW v
  PROVE  CallsInv(cs, v)
  BY DEF CallsInv, Belongs

\* Handing calls over to another owner; page reads stay with their page.
LEMMA OrphanedInv ==
  ASSUME NEW cs, NEW u, CallsInv(cs, u), NEW owner \in By, NEW by \in By,
         \A c \in cs : c.by = owner => c.op \notin PageReads
  PROVE  /\ CallsInv(Orphaned(cs, owner, by), u)
         /\ \A d \in Orphaned(cs, owner, by) :
              \E c \in cs : /\ d.op = c.op /\ d.id = c.id /\ d.arg = c.arg
                            /\ d.by = (IF c.by = owner THEN by ELSE c.by)
  <1> DEFINE f == [c \in cs |-> IF c.by = owner THEN [c EXCEPT !.by = by] ELSE c]
  <1>1. Orphaned(cs, owner, by) = {f[c] : c \in cs}
    BY DEF Orphaned
  <1>2. IsFiniteSet({f[c] : c \in cs})
    <2>1. IsFiniteSet(cs)
      BY DEF CallsInv
    <2> HIDE DEF f
    <2> QED BY <2>1, ImageFinite
  <1>3. \A c \in cs : /\ f[c] \in CallRecord
                      /\ f[c].op = c.op /\ f[c].id = c.id /\ f[c].arg = c.arg
                      /\ f[c].by = (IF c.by = owner THEN by ELSE c.by)
    BY DEF CallsInv, CallRecord
  <1>4. \A d \in Orphaned(cs, owner, by) :
          \E c \in cs : /\ d \in CallRecord
                        /\ d.op = c.op /\ d.id = c.id /\ d.arg = c.arg
                        /\ d.by = (IF c.by = owner THEN by ELSE c.by)
    BY <1>1, <1>3
  <1>5. CallsInv(Orphaned(cs, owner, by), u)
    BY <1>1, <1>2, <1>4 DEF CallsInv, Belongs
  <1> QED BY <1>4, <1>5

-----------------------------------------------------------------------------
(* What the invariant gives.                                               *)

LEMMA ClientInvTypes == ClientInv => WebTypeOK
  <1> SUFFICES ASSUME ClientInv PROVE WebTypeOK
    OBVIOUS
  <1>1. calls \in SUBSET CallRecord
    BY DEF ClientInv, CallsInv
  <1>2. streams \in SUBSET StreamRecord
    BY DEF ClientInv, StreamsInv
  <1>3. url \in [path : Paths, id : Ids \cup {0}]
    BY DEF ClientInv, Places, Landing, Servers, Identity, At, Paths
  <1> QED BY <1>1, <1>2, <1>3 DEF ClientInv, OtherTypes, WebTypeOK

LEMMA ClientInvQuiet == ClientInv => LeftPagesAreQuiet
  BY DEF ClientInv, CallsInv, StreamsInv, Belongs, PageReads, PathOf, LeftPagesAreQuiet

LEMMA ClientInvShown == ClientInv => DateShown
  BY DEF ClientInv, Settled, Asks, DateShown, InnerCalls

-----------------------------------------------------------------------------
(* Steps that leave address and streams alone.                             *)

LEMMA SettledSame ==
  ASSUME NEW cs, NEW ds, NEW ss, Settled(cs, ss), \A s \in ss : s.op \in DateReads,
         \A c \in cs \cup ds :
           c.by = "page" /\ c.op \in DateReads => (c \in cs <=> c \in ds)
  PROVE  Settled(ds, ss)
  BY DEF Settled, Asks

\* The calls of the date fields are the same before and after.
SameDateReads(cs, ds) ==
  \A c \in cs \cup ds :
    c.by = "page" /\ c.op \in DateReads => (c \in cs <=> c \in ds)

LEMMA SamePage ==
  ASSUME ClientInv, UNCHANGED <<url, streams>>, CallsInv(calls', url),
         SameDateReads(calls, calls'), OtherTypes', DialogInv'
  PROVE  ClientInv'
  <1>1. \A s \in streams : s.op \in DateReads
    BY DEF ClientInv, StreamsInv, StreamRecord
  <1>2. Settled(calls', streams)
    BY <1>1, SettledSame DEF ClientInv, SameDateReads
  <1> QED BY <1>2 DEF ClientInv

LEMMA ReadsAreNoWrites ==
  /\ DateReads \cap (ListReads \cup Writes \cup (ServerReads \ DateReads)) = {}
  /\ DateReads \cup {"getServer", "getServerPerformanceStats",
                     "getServerWaitStats", "getQueryPlan"} = ServerReads
  /\ Writes \cap PageReads = {}
  BY DEF DateReads, ListReads, Writes, ServerReads, PageReads

\* Sending a call that is no read of a date.
LEMMA SentSame ==
  ASSUME NEW cs, IsFiniteSet(cs),
         NEW op \in (ListReads \cup ServerReads \cup Writes) \ DateReads,
         NEW by \in By, NEW id \in Ids \cup {0},
         NEW arg \in Dates \cup Queries \cup {Nothing}
  PROVE  SameDateReads(cs, Sent(cs, op, by, id, arg))
  <1>1. PICK r \in CallRecord :
           /\ Sent(cs, op, by, id, arg) = cs \cup {r}
           /\ r.op = op /\ r.by = by /\ r.id = id /\ r.arg = arg
    BY SentAdds
  <1> QED BY <1>1 DEF SameDateReads

LEMMA SameTransitive ==
  ASSUME NEW cs, NEW ds, NEW es, SameDateReads(cs, ds), SameDateReads(ds, es)
  PROVE  SameDateReads(cs, es)
  BY DEF SameDateReads

\* A call that is no read of a date ends, and perhaps leads to another one.
LEMMA EndedInv ==
  ASSUME NEW cs, NEW u, CallsInv(cs, u), NEW c \in cs
  PROVE  /\ CallsInv(cs \ {c}, u)
         /\ IsFiniteSet(cs \ {c})
         /\ c.op \notin DateReads => SameDateReads(cs, cs \ {c})
  <1>1. CallsInv(cs \ {c}, u)
    BY FewerCalls
  <1>2. c.op \notin DateReads => SameDateReads(cs, cs \ {c})
    BY DEF SameDateReads
  <1> QED BY <1>1, <1>2 DEF CallsInv

LEMMA HandleCallInv ==
  ASSUME ClientInv, HandleCall,
         UNCHANGED <<routerVars, streams, listVars, pageVars>>
  PROVE  ClientInv'
  <1>1. PICK c \in calls : GetServers(c) \/ CreateServer(c) \/ DeleteServer(c)
    BY DEF HandleCall
  <1>2. created \in 0 .. MaxServers /\ stored \subseteq 1 .. created /\ MaxServers \in Nat
    BY ServersApiAssumption DEF ClientInv, OtherTypes
  <1>3. c.op \in ListReads \cup Writes
    BY <1>1 DEF GetServers, CreateServer, DeleteServer, ListReads, Writes
  <1>4. /\ created' \in 0 .. MaxServers /\ stored' \subseteq 1 .. created'
        /\ \E value \in SUBSET Ids : Handled(c, value)
    <2>1. CASE GetServers(c)
      BY <1>2, <2>1 DEF GetServers, Ids
    <2>2. CASE CreateServer(c)
      BY <1>2, <2>2 DEF CreateServer, Ids
    <2>3. CASE DeleteServer(c)
      BY <1>2, <2>3 DEF DeleteServer, Ids
    <2> QED BY <1>1, <2>1, <2>2, <2>3
  <1>5. PICK value \in SUBSET Ids : Handled(c, value)
    BY <1>4
  <1> DEFINE d == [c EXCEPT !.state = "Answered", !.value = value]
  <1>6. c \in CallRecord
    BY DEF ClientInv, CallsInv
  <1>7. /\ d \in CallRecord
        /\ d.op = c.op /\ d.by = c.by /\ d.id = c.id /\ d.arg = c.arg
    BY <1>6 DEF CallRecord
  <1> HIDE DEF d
  <1>8. calls' = (calls \ {c}) \cup {d}
    BY <1>5 DEF Handled, d
  <1>9. CallsInv(calls', url)
    <2>1. CallsInv(calls, url) /\ CallsInv(calls \ {c}, url)
      BY EndedInv DEF ClientInv
    <2>2. IsFiniteSet(calls')
      BY <1>8, <2>1, FS_AddElement DEF CallsInv
    <2> QED BY <1>7, <1>8, <2>1, <2>2 DEF CallsInv
  <1>10. SameDateReads(calls, calls')
    BY <1>3, <1>7, <1>8, ReadsAreNoWrites DEF SameDateReads
  <1>11. OtherTypes' /\ DialogInv'
    BY <1>4 DEF ClientInv, OtherTypes, DialogInv, routerVars, listVars, pageVars
  <1> QED BY <1>9, <1>10, <1>11, SamePage DEF routerVars

LEMMA DropCallInv ==
  ASSUME ClientInv, DropCall, UNCHANGED <<routerVars, streams, listVars, pageVars>>
  PROVE  ClientInv'
  <1>1. PICK c \in calls : c.by = "nothing" /\ calls' = calls \ {c}
    BY DEF DropCall
  <1>2. CallsInv(calls', url)
    BY <1>1, EndedInv DEF ClientInv
  <1>3. SameDateReads(calls, calls')
    BY <1>1 DEF SameDateReads
  <1>4. OtherTypes' /\ DialogInv'
    BY DEF ClientInv, OtherTypes, DialogInv, DropCall, routerVars, listVars, pageVars
  <1> QED BY <1>2, <1>3, <1>4, SamePage DEF routerVars

LEMMA ListAnsweredInv ==
  ASSUME ClientInv, NEW c \in calls, ListAnswered(c), UNCHANGED pageVars
  PROVE  ClientInv'
  <1>1. calls' = calls \ {c} /\ c.op \notin DateReads
    BY DEF ListAnswered, DateReads
  <1>2. CallsInv(calls', url) /\ SameDateReads(calls, calls')
    BY <1>1, EndedInv DEF ClientInv
  <1>3. list' \in SUBSET Ids
    BY DEF ListAnswered, ClientInv, CallsInv, CallRecord
  <1>4. OtherTypes' /\ DialogInv'
    BY <1>3 DEF ClientInv, OtherTypes, DialogInv, ListAnswered, routerVars, pageVars
  <1> QED BY <1>2, <1>4, SamePage DEF ListAnswered, routerVars

LEMMA ListFailedInv ==
  ASSUME ClientInv, NEW c \in calls, ListFailed(c), UNCHANGED pageVars
  PROVE  ClientInv'
  <1>1. calls' = calls \ {c} /\ c.op \notin DateReads
    BY DEF ListFailed, DateReads
  <1>2. CallsInv(calls', url) /\ SameDateReads(calls, calls')
    BY <1>1, EndedInv DEF ClientInv
  <1>3. OtherTypes' /\ DialogInv'
    BY DEF ClientInv, OtherTypes, DialogInv, ListFailed, routerVars, pageVars
  <1> QED BY <1>2, <1>3, SamePage DEF ListFailed, routerVars

LEMMA OpenDialogInv ==
  ASSUME ClientInv, OpenDialog, UNCHANGED pageVars
  PROVE  ClientInv'
  <1>1. PICK kind \in {"create", "delete"}, id \in Ids \cup {0} : Open(kind, id)
    BY DEF OpenDialog, ClientInv, OtherTypes
  <1>2. OtherTypes' /\ DialogInv'
    BY <1>1 DEF ClientInv, OtherTypes, DialogInv, Open, apiVars, routerVars, pageVars
  <1>3. UNCHANGED <<calls, url, streams>>
    BY <1>1 DEF Open, apiVars, routerVars
  <1>4. CallsInv(calls', url) /\ SameDateReads(calls, calls')
    BY <1>3 DEF ClientInv, SameDateReads
  <1> QED BY <1>2, <1>3, <1>4, SamePage

LEMMA SubmitFormInv ==
  ASSUME ClientInv, SubmitForm, UNCHANGED pageVars
  PROVE  ClientInv'
  <1> DEFINE op == IF dialog.kind = "create" THEN "createServer" ELSE "deleteServer"
  <1>1. calls' = Sent(calls, op, "dialog", dialog.id, Nothing)
    BY DEF SubmitForm
  <1>2. op \in Writes /\ dialog.id \in Ids \cup {0}
    BY DEF Writes, ClientInv, OtherTypes
  <1> HIDE DEF op
  <1>3. ArgumentFits(op, Nothing) /\ Belongs(op, "dialog", url)
    BY <1>2 DEF ArgumentFits, Belongs, Writes, DateReads, PageReads
  <1>4. CallsInv(calls, url) /\ IsFiniteSet(calls)
    BY DEF ClientInv, CallsInv
  <1>5. CallsInv(calls', url)
    BY <1>1, <1>2, <1>3, <1>4, SentInv DEF By
  <1>6. SameDateReads(calls, calls')
    BY <1>1, <1>2, <1>4, SentSame, ReadsAreNoWrites DEF By
  <1>7. OtherTypes' /\ DialogInv'
    BY DEF ClientInv, OtherTypes, DialogInv, SubmitForm, routerVars, listVars, pageVars
  <1> QED BY <1>5, <1>6, <1>7, SamePage DEF SubmitForm, routerVars

LEMMA AskForListInv ==
  ASSUME NEW cs, CallsInv(cs, url), url.path = "servers"
  PROVE  CallsInv(AskForList(cs), url) /\ SameDateReads(cs, AskForList(cs))
  <1> DEFINE ds == cs \ ListReadsOfPage
  <1>1. CallsInv(ds, url) /\ IsFiniteSet(ds)
    BY FewerCalls DEF CallsInv
  <1>2. SameDateReads(cs, ds)
    BY DEF SameDateReads, ListReadsOfPage, DateReads
  <1>3. AskForList(cs) = Sent(ds, "getServers", "page", 0, Nothing)
    BY DEF AskForList
  <1> HIDE DEF ds
  <1>4. CallsInv(AskForList(cs), url)
    <2>1. ArgumentFits("getServers", Nothing) /\ Belongs("getServers", "page", url)
      BY DEF ArgumentFits, DateReads, Belongs, PathOf
    <2> QED BY <1>1, <1>3, <2>1, SentInv DEF By, ListReads
  <1>5. SameDateReads(ds, AskForList(cs))
    BY <1>1, <1>3, SentSame DEF By, ListReads, DateReads
  <1> QED BY <1>2, <1>4, <1>5, SameTransitive

\* The dialog's calls go on without it; no other call changes.
LEMMA DialogOrphaned ==
  ASSUME NEW cs, NEW u, CallsInv(cs, u)
  PROVE  /\ CallsInv(Orphaned(cs, "dialog", "left"), u)
         /\ SameDateReads(cs, Orphaned(cs, "dialog", "left"))
  <1>1. \A c \in cs : c.by = "dialog" => c.op \notin PageReads
    BY DEF CallsInv, Belongs
  <1>2. CallsInv(Orphaned(cs, "dialog", "left"), u)
    BY <1>1, OrphanedInv DEF By
  <1>3. \A c \in cs : c.by = "dialog" => [c EXCEPT !.by = "left"].by = "left"
    BY DEF CallsInv, CallRecord
  <1>4. SameDateReads(cs, Orphaned(cs, "dialog", "left"))
    BY <1>3 DEF SameDateReads, Orphaned
  <1> QED BY <1>2, <1>4

LEMMA CloseInv ==
  ASSUME NEW cs, CallsInv(cs, url), DialogInv, Close(cs)
  PROVE  /\ CallsInv(calls', url) /\ SameDateReads(cs, calls')
         /\ dialog' = NoDialog
  <1> DEFINE open == Orphaned(cs, "dialog", "left")
  <1>1. CallsInv(open, url) /\ SameDateReads(cs, open)
    BY DialogOrphaned
  <1>2. /\ dialog' = NoDialog
        /\ \/ url.path = "servers" /\ calls' = AskForList(open)
           \/ calls' = open
    BY DEF Close, DialogInv
  <1> HIDE DEF open
  <1> QED BY <1>1, <1>2, AskForListInv, SameTransitive

LEMMA CloseDialogInv ==
  ASSUME ClientInv, CloseDialog, UNCHANGED pageVars
  PROVE  ClientInv'
  <1>1. /\ CallsInv(calls', url) /\ SameDateReads(calls, calls')
        /\ dialog' = NoDialog
    BY CloseInv DEF ClientInv, CloseDialog
  <1>2. OtherTypes' /\ DialogInv'
    BY <1>1 DEF ClientInv, OtherTypes, DialogInv, NoDialog, CloseDialog, routerVars, pageVars
  <1> QED BY <1>1, <1>2, SamePage DEF CloseDialog, routerVars

LEMMA DeletionAnsweredInv ==
  ASSUME ClientInv, NEW c \in calls, DeletionAnswered(c), UNCHANGED pageVars
  PROVE  ClientInv'
  <1>1. c.op = "deleteServer"
    BY DEF DeletionAnswered
  <1>2. CallsInv(calls \ {c}, url) /\ SameDateReads(calls, calls \ {c})
    BY <1>1, EndedInv DEF ClientInv, DateReads
  <1>3. /\ CallsInv(calls', url) /\ SameDateReads(calls \ {c}, calls')
        /\ dialog' \in {dialog, NoDialog}
    <2>1. CASE c.by = "dialog"
      BY <1>2, <2>1, CloseInv DEF ClientInv, DeletionAnswered
    <2>2. CASE c.by # "dialog"
      BY <1>2, <2>2 DEF DeletionAnswered, SameDateReads
    <2> QED BY <2>1, <2>2
  <1>4. told' \in [Ids -> {"nothing", "created", "deleted"}]
    BY DEF DeletionAnswered, ClientInv, OtherTypes
  <1>5. UNCHANGED <<stored, created, list, live>> /\ UNCHANGED <<routerVars, pageVars>>
    BY DEF DeletionAnswered
  <1>6. dialog' \in [kind : {"none", "create", "delete"}, id : Ids \cup {0},
                    opener : BOOLEAN]
    <2>1. NoDialog \in [kind : {"none", "create", "delete"}, id : Ids \cup {0},
                       opener : BOOLEAN]
      BY DEF NoDialog
    <2> QED BY <1>3, <2>1 DEF ClientInv, OtherTypes
  <1>7. OtherTypes'
    BY <1>4, <1>5, <1>6 DEF ClientInv, OtherTypes, routerVars, pageVars
  <1>8. DialogInv'
    BY <1>3, <1>5 DEF ClientInv, DialogInv, NoDialog, routerVars
  <1> QED BY <1>2, <1>3, <1>7, <1>8, SameTransitive, SamePage DEF DeletionAnswered, routerVars

LEMMA WriteFailedInv ==
  ASSUME ClientInv, NEW c \in calls, WriteFailed(c), UNCHANGED pageVars
  PROVE  ClientInv'
  <1> DEFINE d == [c EXCEPT !.by = "nothing"]
  <1>1. c.op \in Writes /\ c \in CallRecord
    BY DEF WriteFailed, ClientInv, CallsInv
  <1>2. d \in CallRecord /\ d.op = c.op /\ d.arg = c.arg
    BY <1>1 DEF CallRecord, By
  <1> HIDE DEF d
  <1>3. /\ CallsInv(calls \ {c}, url) /\ IsFiniteSet(calls \ {c})
        /\ SameDateReads(calls, calls \ {c})
    BY <1>1, EndedInv, ReadsAreNoWrites DEF ClientInv
  <1>4. calls' = calls \ {c} \/ calls' = (calls \ {c}) \cup {d}
    BY DEF WriteFailed, AfterError, d
  <1>5. IsFiniteSet((calls \ {c}) \cup {d})
    BY <1>3, FS_AddElement
  <1>6. CallsInv(calls', url)
    BY <1>1, <1>2, <1>3, <1>4, <1>5, ReadsAreNoWrites
    DEF CallsInv, Belongs, ArgumentFits, Writes, DateReads
  <1>7. SameDateReads(calls, calls')
    BY <1>1, <1>2, <1>3, <1>4, ReadsAreNoWrites DEF SameDateReads
  <1>8. OtherTypes' /\ DialogInv'
    BY DEF ClientInv, OtherTypes, DialogInv, WriteFailed, routerVars, listVars, pageVars
  <1> QED BY <1>6, <1>7, <1>8, SamePage DEF WriteFailed, routerVars

\* A read of the page is answered, and the next one of the chain is sent.
LEMMA ChainInv ==
  ASSUME NEW cs, NEW u, CallsInv(cs, u), NEW c \in cs, c.op \notin DateReads,
         NEW op \in {"getServerPerformanceStats", "getServerWaitStats"},
         u.path = "server"
  PROVE  LET ds == Sent(cs \ {c}, op, "page", c.id, Nothing)
         IN  CallsInv(ds, u) /\ SameDateReads(cs, ds)
  <1>1. /\ CallsInv(cs \ {c}, u) /\ IsFiniteSet(cs \ {c})
        /\ SameDateReads(cs, cs \ {c})
    BY EndedInv
  <1>2. c.id \in Ids \cup {0}
    BY DEF CallsInv, CallRecord
  <1>3. op \in ServerReads \ DateReads
    BY DEF ServerReads, DateReads
  <1>4. ArgumentFits(op, Nothing) /\ Belongs(op, "page", u)
    BY <1>3 DEF ArgumentFits, Belongs, PathOf
  <1>5. CallsInv(Sent(cs \ {c}, op, "page", c.id, Nothing), u)
    BY <1>1, <1>2, <1>3, <1>4, SentInv DEF By
  <1>6. SameDateReads(cs \ {c}, Sent(cs \ {c}, op, "page", c.id, Nothing))
    BY <1>1, <1>2, <1>3, SentSame DEF By
  <1> QED BY <1>1, <1>5, <1>6, SameTransitive

LEMMA ServerAnsweredInv ==
  ASSUME ClientInv, NEW c \in calls, ServerAnswered(c)
  PROVE  ClientInv'
  <1>1. c.op \notin DateReads /\ CallsInv(calls, url)
    BY DEF ServerAnswered, DateReads, ClientInv
  <1>2. CallsInv(calls \ {c}, url) /\ SameDateReads(calls, calls \ {c})
    BY <1>1, EndedInv
  <1>3. /\ loaded' \in {loaded, TRUE}
        /\ \/ calls' = calls \ {c}
           \/ /\ url.path = "server"
              /\ calls' = Sent(calls \ {c}, "getServerPerformanceStats", "page", c.id, Nothing)
    BY DEF ServerAnswered
  <1>4. CallsInv(calls', url) /\ SameDateReads(calls, calls')
    BY <1>1, <1>2, <1>3, ChainInv
  <1>5. OtherTypes' /\ DialogInv'
    BY <1>3 DEF ClientInv, OtherTypes, DialogInv, ServerAnswered, routerVars, listVars
  <1> QED BY <1>4, <1>5, SamePage DEF ServerAnswered, routerVars

LEMMA PerformanceAnsweredInv ==
  ASSUME ClientInv, NEW c \in calls, PerformanceAnswered(c)
  PROVE  ClientInv'
  <1>1. c.op \notin DateReads /\ CallsInv(calls, url) /\ url.path = "server"
    BY DEF PerformanceAnswered, DateReads, ClientInv, CallsInv, Belongs, PageReads, PathOf
  <1>2. CallsInv(calls', url) /\ SameDateReads(calls, calls')
    BY <1>1, ChainInv DEF PerformanceAnswered
  <1>3. OtherTypes' /\ DialogInv'
    BY DEF ClientInv, OtherTypes, DialogInv, PerformanceAnswered, routerVars, listVars
  <1> QED BY <1>2, <1>3, SamePage DEF PerformanceAnswered, routerVars

LEMMA WaitStatsAnsweredInv ==
  ASSUME ClientInv, NEW c \in calls, WaitStatsAnswered(c)
  PROVE  ClientInv'
  <1>1. calls' = calls \ {c} /\ c.op \notin DateReads
    BY DEF WaitStatsAnswered, DateReads
  <1>2. CallsInv(calls', url) /\ SameDateReads(calls, calls')
    BY <1>1, EndedInv DEF ClientInv
  <1>3. OtherTypes' /\ DialogInv'
    BY DEF ClientInv, OtherTypes, DialogInv, WaitStatsAnswered, routerVars, listVars
  <1> QED BY <1>2, <1>3, SamePage DEF WaitStatsAnswered, routerVars

LEMMA AnalyzeQueryInv ==
  ASSUME ClientInv, NEW q \in Queries, AnalyzeQuery(q)
  PROVE  ClientInv'
  <1>1. calls' = Sent(calls, "getQueryPlan", "page", url.id, q) /\ url.path = "server"
    BY DEF AnalyzeQuery
  <1>2. url.id \in Ids \cup {0} /\ CallsInv(calls, url) /\ IsFiniteSet(calls)
    BY DEF ClientInv, CallsInv, Places, Landing, Servers, Identity, At
  <1>3. "getQueryPlan" \in ServerReads \ DateReads
    BY DEF ServerReads, DateReads
  <1>4. ArgumentFits("getQueryPlan", q) /\ Belongs("getQueryPlan", "page", url)
    BY <1>1, <1>3 DEF ArgumentFits, Belongs, PathOf
  <1>5. CallsInv(calls', url)
    BY <1>1, <1>2, <1>3, <1>4, SentInv DEF By
  <1>6. SameDateReads(calls, calls')
    BY <1>1, <1>2, <1>3, SentSame DEF By
  <1>7. OtherTypes' /\ DialogInv'
    BY DEF ClientInv, OtherTypes, DialogInv, AnalyzeQuery, routerVars, listVars
  <1> QED BY <1>5, <1>6, <1>7, SamePage DEF AnalyzeQuery, routerVars

LEMMA PlanAnsweredInv ==
  ASSUME ClientInv, NEW c \in calls, PlanAnswered(c)
  PROVE  ClientInv'
  <1>1. calls' = calls \ {c} /\ c.op \notin DateReads
    BY DEF PlanAnswered, DateReads
  <1>2. CallsInv(calls', url) /\ SameDateReads(calls, calls')
    BY <1>1, EndedInv DEF ClientInv
  <1>3. plan' \in Queries
    BY DEF PlanAnswered, ClientInv, CallsInv, ArgumentFits
  <1>4. OtherTypes' /\ DialogInv'
    BY <1>3 DEF ClientInv, OtherTypes, DialogInv, PlanAnswered, routerVars, listVars
  <1> QED BY <1>2, <1>4, SamePage DEF PlanAnswered, routerVars

LEMMA ReadFailedInv ==
  ASSUME ClientInv, NEW c \in calls, ReadFailed(c)
  PROVE  ClientInv'
  <1>1. calls' = calls \ {c} /\ c.op \notin DateReads
    BY DEF ReadFailed
  <1>2. CallsInv(calls', url) /\ SameDateReads(calls, calls')
    BY <1>1, EndedInv DEF ClientInv
  <1>3. OtherTypes' /\ DialogInv'
    BY DEF ClientInv, OtherTypes, DialogInv, ReadFailed, routerVars, listVars, pageVars
  <1> QED BY <1>2, <1>3, SamePage DEF ReadFailed, routerVars

-----------------------------------------------------------------------------
(* Steps of the date fields.                                               *)

LEMMA StreamStep ==
  ASSUME ClientInv, UNCHANGED <<stored, created, routerVars, listVars, pageVars>>,
         CallsInv(calls', url), StreamsInv(streams', url), Settled(calls', streams')
  PROVE  ClientInv'
  BY DEF ClientInv, OtherTypes, DialogInv, routerVars, listVars, pageVars

LEMMA ReplaceInv ==
  ASSUME NEW ss, NEW u, StreamsInv(ss, u), NEW s \in ss, NEW t \in StreamRecord,
         t.by = s.by, t.op = s.op, t.id = s.id
  PROVE  StreamsInv((ss \ {s}) \cup {t}, u)
  BY DEF StreamsInv

LEMMA FewerStreams ==
  ASSUME NEW ss, NEW u, StreamsInv(ss, u), NEW s
  PROVE  StreamsInv(ss \ {s}, u)
  BY DEF StreamsInv

LEMMA PickDateInv ==
  ASSUME ClientInv, NEW s \in streams, NEW d \in Dates \cup {NoDate}, PickDate(s, d),
         UNCHANGED <<listVars, pageVars>>
  PROVE  ClientInv'
  <1> DEFINE t == [s EXCEPT !.picked = d, !.timer = s.open]
  <1>1. s \in StreamRecord /\ StreamsInv(streams, url)
    BY DEF ClientInv, StreamsInv
  <1>2. /\ t \in StreamRecord /\ t.by = s.by /\ t.op = s.op /\ t.id = s.id
        /\ t.open = t.timer
    BY <1>1 DEF StreamRecord
  <1> HIDE DEF t
  <1>3. streams' = (streams \ {s}) \cup {t}
    BY DEF PickDate, Replace, t
  <1>4. StreamsInv(streams', url)
    BY <1>1, <1>2, <1>3, ReplaceInv
  <1>5. UNCHANGED <<apiVars, routerVars>>
    BY DEF PickDate
  <1>6. CallsInv(calls', url) /\ UNCHANGED calls
    BY <1>5 DEF apiVars, ClientInv
  <1>7. Settled(calls', streams')
    BY <1>2, <1>3, <1>6 DEF ClientInv, Settled
  <1> QED BY <1>4, <1>5, <1>6, <1>7, StreamStep DEF apiVars

LEMMA InnerCallsLeft ==
  ASSUME NEW s, s.by # "page"
  PROVE  SameDateReads(calls, calls \ InnerCalls(s))
  BY DEF SameDateReads, InnerCalls

\* A stream of a page that was left has fired: no page notices.
LEMMA LeftFired ==
  ASSUME ClientInv, NEW s \in streams, s.by # "page", NEW ds, SameDateReads(calls, ds)
  PROVE  StreamsInv(streams \ {s}, url) /\ Settled(ds, streams \ {s})
  <1>1. StreamsInv(streams \ {s}, url)
    BY FewerStreams DEF ClientInv
  <1>2. Settled(calls, streams \ {s})
    BY DEF ClientInv, Settled
  <1>3. \A q \in streams \ {s} : q.op \in DateReads
    BY DEF ClientInv, StreamsInv, StreamRecord
  <1>4. Settled(ds, streams \ {s})
    BY <1>2, <1>3, SettledSame DEF SameDateReads
  <1> QED BY <1>1, <1>4

LEMMA EmitInv ==
  ASSUME ClientInv, NEW s \in streams, s.picked # NoDate, Emit(s),
         UNCHANGED <<stored, created, routerVars, listVars, pageVars>>
  PROVE  ClientInv'
  <1> DEFINE ds == calls \ InnerCalls(s)
             t  == [s EXCEPT !.timer = FALSE]
  <1>1. /\ s \in StreamRecord /\ s.picked \in Dates
        /\ s.op \in DateReads /\ s.by \in By /\ s.id \in Ids
    BY DEF ClientInv, StreamsInv, StreamRecord, By
  <1>2. CallsInv(ds, url) /\ IsFiniteSet(ds)
    BY FewerCalls DEF ClientInv, CallsInv
  <1>3. ArgumentFits(s.op, s.picked) /\ Belongs(s.op, s.by, url)
    BY <1>1 DEF ArgumentFits, Belongs, DateReads, PageReads, PathOf, ClientInv, StreamsInv
  <1>4. calls' = Sent(ds, s.op, s.by, s.id, s.picked)
    BY DEF Emit
  <1>5. s.op \in ListReads \cup ServerReads \cup Writes
    BY <1>1 DEF ServerReads
  <1> HIDE DEF ds
  <1>6. CallsInv(calls', url)
    BY <1>1, <1>2, <1>3, <1>4, <1>5, SentInv
  <1>7. PICK r \in CallRecord :
          /\ calls' = ds \cup {r}
          /\ r.op = s.op /\ r.by = s.by /\ r.id = s.id /\ r.arg = s.picked
    BY <1>1, <1>2, <1>4, <1>5, SentAdds
  <1>8. StreamsInv(streams', url) /\ Settled(calls', streams')
    <2>1. CASE s.by = "page"
      <3>1. /\ t \in StreamRecord /\ t.by = s.by /\ t.op = s.op /\ t.id = s.id
            /\ t.picked = s.picked
        BY <1>1 DEF StreamRecord
      <3>2. streams' = (streams \ {s}) \cup {t}
        BY <2>1 DEF Emit, Fired, Replace
      <3> HIDE DEF t
      <3>3. StreamsInv(streams', url)
        BY <3>1, <3>2, ReplaceInv DEF ClientInv
      <3>4. \A q \in streams' : q.by = "page" => q = t
        BY <2>1, <3>1, <3>2, <3>3 DEF StreamsInv
      <3>5. \A c \in calls' : Asks(c, t) <=> c = r
        BY <1>7, <3>1 DEF Asks, ds, InnerCalls
      <3>6. Settled(calls', streams')
        BY <1>7, <3>1, <3>4, <3>5 DEF Settled
      <3> QED BY <3>3, <3>6
    <2>2. CASE s.by # "page"
      <3>1. streams' = streams \ {s}
        BY <2>2 DEF Emit, Fired
      <3>2. SameDateReads(calls, calls')
        BY <1>7, <2>2 DEF SameDateReads, ds, InnerCalls
      <3> QED BY <2>2, <3>1, <3>2, LeftFired
    <2> QED BY <2>1, <2>2
  <1> QED BY <1>6, <1>8, StreamStep

LEMMA EmitNullInv ==
  ASSUME ClientInv, NEW s \in streams, EmitNull(s),
         UNCHANGED <<stored, created, routerVars, listVars, pageVars>>
  PROVE  ClientInv'
  <1> DEFINE t == [s EXCEPT !.timer = FALSE, !.open = FALSE]
  <1>1. s \in StreamRecord
    BY DEF ClientInv, StreamsInv
  <1>2. calls' = calls \ InnerCalls(s) /\ CallsInv(calls', url)
    BY FewerCalls DEF EmitNull, ClientInv
  <1>3. StreamsInv(streams', url) /\ Settled(calls', streams')
    <2>1. CASE s.by = "page"
      <3>1. /\ t \in StreamRecord /\ t.by = s.by /\ t.op = s.op /\ t.id = s.id
            /\ ~t.open
        BY <1>1 DEF StreamRecord
      <3>2. streams' = (streams \ {s}) \cup {t}
        BY <2>1 DEF EmitNull, Fired, Replace
      <3> HIDE DEF t
      <3>3. StreamsInv(streams', url)
        BY <3>1, <3>2, ReplaceInv DEF ClientInv
      <3>4. \A q \in streams' : q.by = "page" => q = t
        BY <2>1, <3>1, <3>2, <3>3 DEF StreamsInv
      <3>5. Settled(calls', streams')
        BY <3>1, <3>4 DEF Settled
      <3> QED BY <3>3, <3>5
    <2>2. CASE s.by # "page"
      <3>1. streams' = streams \ {s}
        BY <2>2 DEF EmitNull, Fired
      <3> QED BY <1>2, <2>2, <3>1, InnerCallsLeft, LeftFired
    <2> QED BY <2>1, <2>2
  <1> QED BY <1>2, <1>3, StreamStep

LEMMA TimerInv ==
  ASSUME ClientInv, Timer
  PROVE  ClientInv'
  <1>1. PICK s \in streams : Debounced(s)
    BY DEF Timer, Debounce
  <1>2. UNCHANGED <<stored, created, routerVars, listVars, pageVars>>
    BY <1>1 DEF Timer, Debounced
  <1>3. CASE s.picked = NoDate
    BY <1>1, <1>2, <1>3, EmitNullInv DEF Debounced
  <1>4. CASE s.picked # NoDate
    BY <1>1, <1>2, <1>4, EmitInv DEF Debounced
  <1> QED BY <1>3, <1>4

LEMMA DateAnsweredInv ==
  ASSUME ClientInv, NEW c \in calls, DateAnswered(c), UNCHANGED <<listVars, pageVars>>
  PROVE  ClientInv'
  <1> DEFINE t(s) == IF Listens(s, c) /\ s.by = "page"
                     THEN [s EXCEPT !.shown = c.arg] ELSE s
  <1>1. /\ streams' = {t(s) : s \in streams} /\ calls' = calls \ {c}
        /\ UNCHANGED <<stored, created, routerVars>>
    BY DEF DateAnswered
  <1>2. CallsInv(calls', url) /\ c.arg \in Dates
    BY <1>1, EndedInv DEF ClientInv, CallsInv, ArgumentFits, DateAnswered
  <1>3. \A s \in streams :
          /\ t(s) \in StreamRecord
          /\ t(s).by = s.by /\ t(s).op = s.op /\ t(s).id = s.id
          /\ t(s).picked = s.picked /\ t(s).open = s.open /\ t(s).timer = s.timer
          /\ Listens(s, c) /\ s.by = "page" => t(s).shown = c.arg
          /\ ~(Listens(s, c) /\ s.by = "page") => t(s).shown = s.shown
    <2> TAKE s \in streams
    <2>1. s \in StreamRecord
      BY DEF ClientInv, StreamsInv
    <2> QED BY <1>2, <2>1 DEF StreamRecord
  <1> HIDE DEF t
  <1>4. StreamsInv(streams', url)
    BY <1>1, <1>3 DEF ClientInv, StreamsInv
  <1>5. Settled(calls', streams')
    <2> SUFFICES ASSUME NEW s \in streams, s.by = "page", s.open, ~s.timer
                 PROVE  /\ \A k \in calls' : Asks(k, s) => k.arg = s.picked
                        /\ (\A k \in calls' : ~Asks(k, s)) => t(s).shown = s.picked
      BY <1>1, <1>3 DEF Settled, Asks
    <2>1. /\ \A k \in calls : Asks(k, s) => k.arg = s.picked
          /\ (\A k \in calls : ~Asks(k, s)) => s.shown = s.picked
      BY DEF ClientInv, Settled
    <2>2. Listens(s, c) <=> Asks(c, s)
      BY DEF Listens, Asks
    <2> QED BY <1>1, <1>3, <2>1, <2>2
  <1> QED BY <1>1, <1>2, <1>4, <1>5, StreamStep

LEMMA DateFailedInv ==
  ASSUME ClientInv, NEW c \in calls, DateFailed(c), UNCHANGED <<listVars, pageVars>>
  PROVE  ClientInv'
  <1> DEFINE t(s) == IF Listens(s, c) THEN [s EXCEPT !.timer = FALSE, !.open = FALSE] ELSE s
             rest == {s \in streams : s.by = "page" \/ ~Listens(s, c)}
  <1>1. /\ streams' = {t(s) : s \in rest} /\ calls' = calls \ {c}
        /\ UNCHANGED <<stored, created, routerVars>>
    BY DEF DateFailed
  <1>2. CallsInv(calls', url)
    BY <1>1, EndedInv DEF ClientInv
  <1>3. \A s \in rest :
          /\ t(s) \in StreamRecord
          /\ t(s).by = s.by /\ t(s).op = s.op /\ t(s).id = s.id
          /\ Listens(s, c) => ~t(s).open
          /\ ~Listens(s, c) => t(s) = s
    <2> TAKE s \in rest
    <2>1. s \in StreamRecord
      BY DEF ClientInv, StreamsInv
    <2> QED BY <2>1 DEF StreamRecord
  <1>4. rest \subseteq streams
    OBVIOUS
  <1> HIDE DEF t, rest
  <1>5. StreamsInv(streams', url)
    BY <1>1, <1>3, <1>4 DEF ClientInv, StreamsInv
  <1>6. Settled(calls', streams')
    <2> SUFFICES ASSUME NEW s \in rest, s.by = "page", s.open, ~s.timer, ~Asks(c, s)
                 PROVE  /\ \A k \in calls' : Asks(k, s) => k.arg = s.picked
                        /\ (\A k \in calls' : ~Asks(k, s)) => s.shown = s.picked
      BY <1>1, <1>3 DEF Settled, Listens, Asks
    <2>1. /\ \A k \in calls : Asks(k, s) => k.arg = s.picked
          /\ (\A k \in calls : ~Asks(k, s)) => s.shown = s.picked
      BY <1>4 DEF ClientInv, Settled
    <2> QED BY <1>1, <2>1
  <1> QED BY <1>1, <1>2, <1>5, <1>6, StreamStep

-----------------------------------------------------------------------------
(* Leaving a page and entering another.                                    *)

\* Nothing of a page that is left is by a page any more, and it fits wherever
\* the user goes.
LEMMA LeaveInv ==
  ASSUME ClientInv, NEW cs, CallsInv(cs, url), NEW v
  PROVE  CallsInv(Leave(cs), v) /\ \A c \in Leave(cs) : c.by # "page"
  <1>1. CASE url.path = "maintenance"
    <2>1. \A c \in cs : c.op \notin PageReads
      BY <1>1 DEF CallsInv, Belongs, PathOf
    <2>2. Leave(cs) = Orphaned(cs, "page", "left")
      BY <1>1 DEF Leave
    <2>3. /\ CallsInv(Orphaned(cs, "page", "left"), url)
          /\ \A d \in Orphaned(cs, "page", "left") :
               \E c \in cs : /\ d.op = c.op /\ d.id = c.id /\ d.arg = c.arg
                             /\ d.by = (IF c.by = "page" THEN "left" ELSE c.by)
      <3>1. {"page", "left"} \subseteq By
        BY DEF By
      <3> QED BY <2>1, <3>1, OrphanedInv
    <2>4. \A d \in Leave(cs) : d.op \notin PageReads /\ d.by # "page"
      BY <2>1, <2>2, <2>3
    <2> QED BY <2>2, <2>3, <2>4, CallsAnywhere
  <1>2. CASE url.path # "maintenance"
    <2>1. Leave(cs) = {c \in cs : c.by # "page"}
      BY <1>2 DEF Leave
    <2>2. CallsInv(Leave(cs), url)
      BY <2>1, FewerCalls
    <2>3. \A c \in Leave(cs) : c.op \notin PageReads
      BY <2>1 DEF CallsInv, Belongs
    <2> QED BY <2>1, <2>2, <2>3, CallsAnywhere
  <1> QED BY <1>1, <1>2

LEMMA LeaveStreamsInv ==
  ASSUME ClientInv, NEW v
  PROVE  StreamsInv(LeaveStreams, v) /\ \A s \in LeaveStreams : s.by = "left"
  <1>1. \A s \in streams :
          /\ s \in StreamRecord
          /\ s.by = "left" \/ url.path = "maintenance" => s.op # "getServerInsights"
    BY DEF ClientInv, StreamsInv
  <1>2. \A s \in streams :
          LET t == [s EXCEPT !.by = "left", !.shown = Nothing]
          IN  t \in StreamRecord /\ t.by = "left" /\ t.op = s.op
    BY <1>1 DEF StreamRecord
  <1>3. \A s \in LeaveStreams :
          s \in StreamRecord /\ s.by = "left" /\ s.op # "getServerInsights"
    <2>1. CASE url.path = "maintenance"
      <3>1. \A t \in LeaveStreams :
              \/ t \in streams /\ t.by = "left"
              \/ \E s \in streams : t = [s EXCEPT !.by = "left", !.shown = Nothing]
        BY DEF LeaveStreams
      <3> TAKE t \in LeaveStreams
      <3>2. CASE t \in streams /\ t.by = "left"
        BY <1>1, <3>2
      <3>3. CASE \E s \in streams : t = [s EXCEPT !.by = "left", !.shown = Nothing]
        <4>1. PICK s \in streams : t = [s EXCEPT !.by = "left", !.shown = Nothing]
          BY <3>3
        <4>2. t \in StreamRecord /\ t.by = "left" /\ t.op = s.op
          BY <1>2, <4>1
        <4> QED BY <1>1, <2>1, <4>2
      <3> QED BY <3>1, <3>2, <3>3
    <2>2. CASE url.path # "maintenance"
      BY <1>1, <2>2 DEF LeaveStreams
    <2> QED BY <2>1, <2>2
  <1> QED BY <1>3 DEF StreamsInv

\* A page starts over calls and streams none of which is its own.
LEMMA ShowInv ==
  ASSUME NEW u \in Places, NEW cs, NEW ss, Show(u, cs, ss),
         CallsInv(cs, u), \A c \in cs : c.by # "page",
         StreamsInv(ss, u), \A s \in ss : s.by = "left",
         created' \in 0 .. MaxServers, stored' \subseteq 1 .. created',
         signedIn' \in BOOLEAN,
         dialog' \in [kind : {"none", "create", "delete"}, id : Ids \cup {0},
                     opener : BOOLEAN],
         ~dialog'.opener, told' \in [Ids -> {"nothing", "created", "deleted"}]
  PROVE  ClientInv'
  <1>1. url' = u
    BY DEF Show
  <1>2. /\ u.path \in {"server", "maintenance"} => u.id \in Ids
        /\ u.id \in Ids \cup {0}
    BY DEF Places, Landing, Servers, Identity, At
  <1>3. CallsInv(calls', u)
    <2>1. CASE u.path = "servers"
      <3>1. calls' = Sent(cs, "getServers", "page", 0, Nothing)
        BY <2>1 DEF Show
      <3>2. ArgumentFits("getServers", Nothing) /\ Belongs("getServers", "page", u)
        BY <2>1 DEF ArgumentFits, DateReads, Belongs, PathOf
      <3> QED BY <3>1, <3>2, SentInv DEF By, ListReads
    <2>2. CASE u.path \in {"server", "maintenance"}
      <3>1. calls' = Sent(cs, "getServer", "page", u.id, Nothing)
        BY <2>2 DEF Show
      <3>2. ArgumentFits("getServer", Nothing) /\ Belongs("getServer", "page", u)
        BY DEF ArgumentFits, DateReads, Belongs, PageReads
      <3> QED BY <1>2, <3>1, <3>2, SentInv DEF By, ServerReads
    <2>3. CASE u.path \notin {"servers", "server", "maintenance"}
      BY <2>3 DEF Show
    <2> QED BY <2>1, <2>2, <2>3
  <1> DEFINE new(op) == NewStream(op, u.id)
  <1>4. u.path \in {"server", "maintenance"} =>
          \A op \in DateReads :
            /\ new(op) \in StreamRecord /\ new(op).by = "page" /\ new(op).op = op
            /\ new(op).id = u.id /\ new(op).timer
    BY <1>2, DateStreamAssumption DEF NewStream, StreamRecord
  <1>5. \/ streams' = ss
        \/ u.path = "server" /\ streams' = ss \cup {new("getServerInsights")}
        \/ u.path = "maintenance" /\ streams' = ss \cup {new("getServerMaintenance")}
    BY DEF Show
  <1> HIDE DEF new
  <1>6. StreamsInv(streams', u)
    BY <1>4, <1>5 DEF StreamsInv, DateReads
  <1>7. Settled(calls', streams')
    BY <1>4, <1>5 DEF Settled, DateReads
  <1>8. OtherTypes'
    BY DEF OtherTypes, Show
  <1> QED BY <1>1, <1>3, <1>6, <1>7, <1>8 DEF ClientInv, DialogInv

LEMMA BrowseInv ==
  ASSUME ClientInv, NEW u \in Places, Browse(u)
  PROVE  ClientInv'
  <1> DEFINE cs == Leave(calls)
  <1>1. CallsInv(cs, u) /\ \A c \in cs : c.by # "page"
    BY LeaveInv DEF ClientInv
  <1>2. StreamsInv(LeaveStreams, u) /\ \A s \in LeaveStreams : s.by = "left"
    BY LeaveStreamsInv
  <1>3. /\ created' \in 0 .. MaxServers /\ stored' \subseteq 1 .. created'
        /\ signedIn' \in BOOLEAN
        /\ told' \in [Ids -> {"nothing", "created", "deleted"}]
    BY DEF ClientInv, OtherTypes, Browse
  <1>4. /\ dialog' \in [kind : {"none", "create", "delete"}, id : Ids \cup {0},
                        opener : BOOLEAN]
        /\ ~dialog'.opener
    BY DEF ClientInv, OtherTypes, Browse, NoDialog
  <1>5. Show(u, cs, LeaveStreams)
    BY DEF Browse
  <1> HIDE DEF cs
  <1> QED BY <1>1, <1>2, <1>3, <1>4, <1>5, ShowInv

LEMMA LinkInv ==
  ASSUME ClientInv, OpenServer \/ BackToList
  PROVE  ClientInv'
  <1>1. CASE OpenServer
    <2>1. PICK id \in list : Browse(At("server", id)) \/ Browse(At("maintenance", id))
      BY <1>1 DEF OpenServer
    <2>2. id \in Ids
      BY <1>1 DEF OpenServer, ClientInv, OtherTypes
    <2>3. At("server", id) \in Places /\ At("maintenance", id) \in Places
      BY <2>2 DEF Places
    <2> QED BY <2>1, <2>3, BrowseInv
  <1>2. CASE BackToList
    BY <1>2, BrowseInv DEF BackToList, Places
  <1> QED BY <1>1, <1>2

\* The answer of a creation shows another page, whichever page is shown.
LEMMA CreationAnsweredInv ==
  ASSUME ClientInv, NEW c \in calls, CreationAnswered(c)
  PROVE  ClientInv'
  <1> DEFINE rest == IF c.by = "dialog" THEN Orphaned(calls \ {c}, "dialog", "left")
                     ELSE calls \ {c}
             cs   == Leave(rest)
  <1>1. PICK id \in c.value :
          /\ Show(Below(url, id), cs, LeaveStreams)
          /\ dialog' = (IF c.by = "dialog" THEN NoDialog
                        ELSE [dialog EXCEPT !.opener = FALSE])
          /\ told' = [told EXCEPT ![id] = "created"]
    BY DEF CreationAnswered
  <1>2. id \in Ids
    BY DEF ClientInv, CallsInv, CallRecord
  <1>3. Below(url, id) \in Places
    BY <1>2 DEF Below, LandOn, Places
  <1>4. CallsInv(rest, url)
    BY EndedInv, DialogOrphaned DEF ClientInv
  <1> HIDE DEF rest
  <1>5. CallsInv(cs, Below(url, id)) /\ \A k \in cs : k.by # "page"
    BY <1>4, LeaveInv
  <1>6. StreamsInv(LeaveStreams, Below(url, id)) /\ \A s \in LeaveStreams : s.by = "left"
    BY LeaveStreamsInv
  <1>7. /\ created' \in 0 .. MaxServers /\ stored' \subseteq 1 .. created'
        /\ signedIn' \in BOOLEAN
        /\ told' \in [Ids -> {"nothing", "created", "deleted"}]
    BY <1>1 DEF ClientInv, OtherTypes, CreationAnswered
  <1>8. /\ dialog' \in [kind : {"none", "create", "delete"}, id : Ids \cup {0},
                        opener : BOOLEAN]
        /\ ~dialog'.opener
    BY <1>1 DEF ClientInv, OtherTypes, NoDialog
  <1> HIDE DEF cs
  <1> QED BY <1>1, <1>3, <1>5, <1>6, <1>7, <1>8, ShowInv

-----------------------------------------------------------------------------
(* Loading the client anew.                                                *)

\* Only writes outlive the client, and they go to nothing.
LEMMA LoadInv ==
  ASSUME ClientInv, NEW u \in Places, Load(u), signedIn' \in BOOLEAN
  PROVE  ClientInv'
  <1> DEFINE ws == {k \in calls : k.op \in Writes}
             f  == [k \in ws |-> [k EXCEPT !.by = "nothing"]]
             cs == {f[k] : k \in ws}
  <1>1. Show(u, cs, {})
    BY DEF Load
  <1>2. CallsInv(ws, url)
    BY FewerCalls DEF ClientInv
  <1>3. \A k \in ws : /\ f[k] \in CallRecord
                      /\ f[k].op = k.op /\ f[k].arg = k.arg /\ f[k].by = "nothing"
    BY <1>2 DEF CallsInv, CallRecord, By
  <1>4. \A k \in ws : k.op \notin PageReads /\ ArgumentFits(k.op, k.arg)
    BY <1>2, ReadsAreNoWrites DEF CallsInv
  <1>5. IsFiniteSet(cs)
    <2>1. IsFiniteSet(ws)
      BY <1>2 DEF CallsInv
    <2> HIDE DEF ws, f
    <2> QED BY <2>1, ImageFinite
  <1> HIDE DEF ws, f
  <1>6. CallsInv(cs, u) /\ \A c \in cs : c.by # "page"
    BY <1>3, <1>4, <1>5 DEF CallsInv, Belongs
  <1>7. StreamsInv({}, u)
    BY DEF StreamsInv
  <1>8. /\ created' \in 0 .. MaxServers /\ stored' \subseteq 1 .. created'
        /\ told' \in [Ids -> {"nothing", "created", "deleted"}]
    BY DEF ClientInv, OtherTypes, Load
  <1>9. /\ dialog' \in [kind : {"none", "create", "delete"}, id : Ids \cup {0},
                        opener : BOOLEAN]
        /\ ~dialog'.opener
    BY DEF Load, NoDialog
  <1> HIDE DEF cs
  <1> QED BY <1>1, <1>6, <1>7, <1>8, <1>9, ShowInv

LEMMA TabInv ==
  ASSUME ClientInv, Tab
  PROVE  ClientInv'
  <1>1. {Landing, Servers, Identity} \subseteq Places
    BY DEF Places
  <1>2. signedIn \in BOOLEAN
    BY DEF ClientInv, OtherTypes
  <1>3. CASE Reload
    BY <1>1, <1>2, <1>3, LoadInv DEF Reload, LandOn
  <1>4. CASE Login
    BY <1>1, <1>2, <1>4, LoadInv DEF Login, Activate
  <1>5. CASE SignIn
    BY <1>1, <1>5, LoadInv DEF SignIn
  <1>6. CASE Logout
    BY <1>1, <1>6, LoadInv DEF Logout
  <1>7. CASE Expire
    BY <1>1, <1>2, <1>7, LoadInv DEF Expire
  <1> QED BY <1>3, <1>4, <1>5, <1>6, <1>7 DEF Tab

-----------------------------------------------------------------------------
(* Every behaviour.                                                        *)

LEMMA InitInv == Init => ClientInv
  <1> SUFFICES ASSUME Init PROVE ClientInv
    OBVIOUS
  <1>1. url \in Places
    BY DEF Init, LandOn, Places
  <1>2. CallsInv({}, url)
    BY FS_EmptySet DEF CallsInv
  <1>3. CallsInv(calls, url)
    <2>1. CASE signedIn
      <3>1. calls = Sent({}, "getServers", "page", 0, Nothing)
        BY <2>1 DEF Init
      <3>2. url.path = "servers"
        BY <2>1 DEF Init, LandOn, Servers, At
      <3>3. ArgumentFits("getServers", Nothing) /\ Belongs("getServers", "page", url)
        BY <3>2 DEF ArgumentFits, DateReads, Belongs, PathOf
      <3> QED BY <1>2, <3>1, <3>3, SentInv DEF By, ListReads
    <2>2. CASE ~signedIn
      BY <1>2, <2>2 DEF Init
    <2> QED BY <2>1, <2>2
  <1>4. StreamsInv(streams, url) /\ Settled(calls, streams)
    BY DEF Init, StreamsInv, Settled
  <1>5. OtherTypes /\ DialogInv
    BY ServersApiAssumption DEF Init, ApiInit, OtherTypes, DialogInv, NoDialog
  <1> QED BY <1>1, <1>3, <1>4, <1>5 DEF ClientInv

LEMMA StutterInv == ClientInv /\ UNCHANGED vars => ClientInv'
  BY DEF ClientInv, OtherTypes, DialogInv, Settled, Asks, vars, apiVars, routerVars,
         listVars, pageVars

LEMMA ReceiveInv ==
  ASSUME ClientInv, NEW c \in calls, Answered(c) \/ Failed(c)
  PROVE  ClientInv'
  <1>1. CASE ListAnswered(c) /\ UNCHANGED pageVars
    BY <1>1, ListAnsweredInv
  <1>2. CASE DeletionAnswered(c) /\ UNCHANGED pageVars
    BY <1>2, DeletionAnsweredInv
  <1>3. CASE CreationAnswered(c)
    BY <1>3, CreationAnsweredInv
  <1>4. CASE DateAnswered(c) /\ UNCHANGED <<listVars, pageVars>>
    BY <1>4, DateAnsweredInv
  <1>5. CASE ServerAnswered(c)
    BY <1>5, ServerAnsweredInv
  <1>6. CASE PerformanceAnswered(c)
    BY <1>6, PerformanceAnsweredInv
  <1>7. CASE WaitStatsAnswered(c)
    BY <1>7, WaitStatsAnsweredInv
  <1>8. CASE PlanAnswered(c)
    BY <1>8, PlanAnsweredInv
  <1>9. CASE ListFailed(c) /\ UNCHANGED pageVars
    BY <1>9, ListFailedInv
  <1>10. CASE WriteFailed(c) /\ UNCHANGED pageVars
    BY <1>10, WriteFailedInv
  <1>11. CASE DateFailed(c) /\ UNCHANGED <<listVars, pageVars>>
    BY <1>11, DateFailedInv
  <1>12. CASE ReadFailed(c)
    BY <1>12, ReadFailedInv
  <1> QED BY <1>1, <1>2, <1>3, <1>4, <1>5, <1>6, <1>7, <1>8, <1>9, <1>10, <1>11,
             <1>12 DEF Answered, Failed

LEMMA UsePageInv ==
  ASSUME ClientInv, UsePage
  PROVE  ClientInv'
  <1>1. CASE OpenDialog /\ UNCHANGED pageVars
    BY <1>1, OpenDialogInv
  <1>2. CASE \E s \in streams, d \in Dates \cup {NoDate} :
               /\ dialog = NoDialog /\ loaded
               /\ PickDate(s, d) /\ UNCHANGED <<listVars, pageVars>>
    BY <1>2, PickDateInv
  <1>3. CASE \E q \in Queries : AnalyzeQuery(q)
    BY <1>3, AnalyzeQueryInv
  <1>4. CASE OpenServer \/ BackToList
    BY <1>4, LinkInv
  <1> QED BY <1>1, <1>2, <1>3, <1>4 DEF UsePage

LEMMA NextInv == ClientInv /\ [Next]_vars => ClientInv'
  <1> SUFFICES ASSUME ClientInv, [Next]_vars PROVE ClientInv'
    OBVIOUS
  <1>1. CASE Api
    BY <1>1, HandleCallInv, DropCallInv DEF Api
  <1>2. CASE Timer
    BY <1>2, TimerInv
  <1>3. CASE Tab
    BY <1>3, TabInv
  <1>4. CASE UsePage
    BY <1>4, UsePageInv
  <1>5. CASE UseDialog
    BY <1>5, SubmitFormInv, CloseDialogInv DEF UseDialog
  <1>6. CASE Receive(ListReads) \/ Receive(ServerReads) \/ Receive(Writes)
    BY <1>6, ReceiveInv DEF Receive
  <1>7. CASE UNCHANGED vars
    BY <1>7, StutterInv
  <1> QED BY <1>1, <1>2, <1>3, <1>4, <1>5, <1>6, <1>7 DEF Next

LEMMA Invariance == Spec => []ClientInv
  BY InitInv, NextInv, PTL DEF Spec

-----------------------------------------------------------------------------
\* The client's variables hold values of their types: ServersPage, ServerPage
\* and DateStream never keep an answer of a kind that is not theirs.
THEOREM WebTypesCorrect == Spec => []WebTypeOK
  BY Invariance, ClientInvTypes, PTL

\* No read of the list or of a monitoring page outlives its page, in whatever
\* order answers, creations and the user's steps come (takeUntil(destroy$) in
\* server.component.ts, toSignal in servers.component.ts).
THEOREM LeftPagesStayQuiet == Spec => []LeftPagesAreQuiet
  BY Invariance, ClientInvQuiet, PTL

\* Whatever the number of days picked and of answers on their way, a date page
\* at rest whose stream goes on shows the day picked (debounceTime, switchMap).
THEOREM PickedDateIsShown == Spec => []DateShown
  BY Invariance, ClientInvShown, PTL
===============================================================================
