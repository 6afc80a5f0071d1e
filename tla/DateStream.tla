------------------------------ MODULE DateStream ------------------------------
(***************************************************************************)
(* The date field of the monitoring page and of the maintenance page: its  *)
(* values, debounced by half a second, are each answered by a call, of     *)
(* which switchMap keeps the last.  An error, of a call or of the          *)
(* conversion of a null date, ends the stream.                             *)
(***************************************************************************)
EXTENDS ServersApi, Router

CONSTANT Today  \* the day a page shows when it opens

ASSUME DateStreamAssumption == Today \in Dates

VARIABLE streams  \* subscriptions to the date fields of page instances

StreamRecord ==
  [by : {"page", "left"}, op : DateReads, id : Ids, picked : Dates \cup {NoDate},
   timer : BOOLEAN, open : BOOLEAN, shown : Dates \cup {Nothing}]

\* ngOnInit: startWith(new Date()) starts the first half second.
NewStream(op, id) ==
  [by |-> "page", op |-> op, id |-> id, picked |-> Today, timer |-> TRUE,
   open |-> TRUE, shown |-> Nothing]

InnerCalls(s) == {c \in calls : c.by = s.by /\ c.op = s.op /\ c.id = s.id}

Replace(s, t) == streams' = (streams \ {s}) \cup {t}

\* The stream is gone when its page is, and its timer has fired.
Fired(s, t) == IF s.by = "page" THEN Replace(s, t) ELSE streams' = streams \ {s}

\* Mutant of PickDate: once a day is shown, the stream asks for no other.
PickDateOnce(s, d) ==
  /\ s.by = "page" /\ d # s.picked
  /\ Replace(s, [s EXCEPT !.picked = d, !.timer = s.open /\ s.shown = Nothing])
  /\ UNCHANGED <<apiVars, routerVars>>

\* The user picks a day, or leaves the field without a date.
PickDate(s, d) ==
  /\ s.by = "page" /\ d # s.picked
  /\ Replace(s, [s EXCEPT !.picked = d, !.timer = s.open])
  /\ UNCHANGED <<apiVars, routerVars>>

\* Mutant of Emit: mergeMap instead of switchMap.
EmitMerged(s) ==
  /\ Fired(s, [s EXCEPT !.timer = FALSE])
  /\ calls' = Sent(calls, s.op, s.by, s.id, s.picked)

\* switchMap aborts the call before, and makes one for the date.
Emit(s) ==
  /\ Fired(s, [s EXCEPT !.timer = FALSE])
  /\ calls' = Sent(calls \ InnerCalls(s), s.op, s.by, s.id, s.picked)

\* date.toISOString() throws, which ends the stream.
EmitNull(s) ==
  /\ Fired(s, [s EXCEPT !.timer = FALSE, !.open = FALSE])
  /\ calls' = calls \ InnerCalls(s)

\* Mutant of Debounced: a null date is asked of the API.
DebouncedUnchecked(s) ==
  s.timer /\ Emit(s) /\ UNCHANGED <<stored, created, routerVars>>

\* debounceTime: half a second without another value is over.
Debounced(s) ==
  /\ s.timer
  /\ IF s.picked = NoDate THEN EmitNull(s) ELSE Emit(s)
  /\ UNCHANGED <<stored, created, routerVars>>

Debounce == \E s \in streams : Debounced(s)

Listens(s, c) == s.by = c.by /\ s.op = c.op /\ s.id = c.id

\* The page shows what the call has brought, if it is still there.
DateAnswered(c) ==
  /\ c.op \in DateReads
  /\ calls' = calls \ {c}
  /\ streams' = {IF Listens(s, c) /\ s.by = "page"
                 THEN [s EXCEPT !.shown = c.arg] ELSE s : s \in streams}
  /\ UNCHANGED <<stored, created, routerVars>>

\* The error ends the stream: nothing listens to the field any more.
DateFailed(c) ==
  /\ c.op \in DateReads
  /\ calls' = calls \ {c}
  /\ streams' = {IF Listens(s, c) THEN [s EXCEPT !.timer = FALSE, !.open = FALSE]
                 ELSE s : s \in {t \in streams : t.by = "page" \/ ~Listens(t, c)}}
  /\ UNCHANGED <<stored, created, routerVars>>
===============================================================================
