------------------------------ MODULE PickerApp ------------------------------
(***************************************************************************)
(* The picker's panel (Frontend/picker-panel): one browser tab, its session *)
(* store, the query cache with its fetches, the pages, the event stream,   *)
(* and the changes of an order that the picker asks for, against a server  *)
(* whose orders change meanwhile.                                          *)
(*                                                                         *)
(* An order is the sequence of what its row has been, a status and the     *)
(* picker whose order it is; a copy of it on the screen is an index into   *)
(* that sequence, its version, 0 standing for "not in the answer".  A      *)
(* login is named by its number, and carries its own token.                *)
(***************************************************************************)
EXTENDS OrderStatus, Naturals, Sequences

CONSTANTS
    Orders,
    StoreOf,      \* the store of an order
    MaxLogins,    \* bound: how often the login page succeeds
    StoreAt,      \* the store of the picker who makes the n-th login
    Pickers, NoPicker,
    PickerAt,     \* who makes the n-th login
    First,        \* bound: what an order's row may be when the panel is opened
    OthersWrite,  \* bound: the statuses other people give an order
    MaxVersions,  \* bound: versions of an order
    MaxFaults,    \* bound: failed requests, broken streams, reloads, lapsed tokens
    NoData, NoOrder

Logins == 1 .. MaxLogins
Keys == Orders \cup {"list"}
Pages == {"login", "orders", "other"} \cup Orders

\* orders.status and orders.picker_id
OrderRows == [status : Statuses, picker : Pickers \cup {NoPicker}]

ASSUME OrdersAssumption ==
    /\ NoOrder \notin Orders /\ NoData \notin Nat
    /\ \A o \in Orders : o \notin {"list", "login", "orders", "other"}
ASSUME PickerBoundsAssumption ==
    /\ MaxLogins \in Nat /\ MaxVersions \in Nat \ {0} /\ MaxFaults \in Nat
    /\ First \subseteq OrderRows /\ OthersWrite \subseteq Statuses
ASSUME PickersAssumption == NoPicker \notin Pickers /\ PickerAt \in [Logins -> Pickers]

VARIABLES
    hist,       \* server: what an order's row has been
    lapsed,     \* server: logins whose token is refused by now
    logins,     \* logins made so far; the last one is the only live one
    session,    \* the session store: a login, or 0
    page,       \* the route on screen
    cache,      \* query cache: data, error and fetch under way, per key
    late,       \* logins of the fetches whose result nobody waits for any more
    seen,       \* prevStatusMapRef of the orders page
    alert,      \* the order the cancellation alert is about
    stream,     \* the event stream's loop
    job,        \* the picker's changes under way: of a status, of the items
    faults

shopVars == <<hist, lapsed>>
sessionVars == <<session, logins>>
pageVars == <<page, seen, alert, stream>>
pickerVars == <<hist, lapsed, logins, session, page, cache, late, seen, alert,
                stream, job, faults>>

NoFetch == [login |-> 0, got |-> NoData, awaited |-> FALSE]
NoEntry == [data |-> NoData, err |-> FALSE, req |-> NoFetch]
NoStream == [st |-> "off", login |-> 0, event |-> FALSE]
NoJob == [st |-> "idle", order |-> NoOrder, to |-> "", login |-> 0, own |-> 0,
          watched |-> FALSE]
Edit == "items"  \* a change of the items, which leaves the status

Lists == [Orders -> 0 .. MaxVersions]
DataOf(k) == (IF k = "list" THEN Lists ELSE 1 .. MaxVersions) \cup {NoData}
Pending == {"sent", "done", "list", "detail"}

PickerTypeOK ==
    /\ hist \in [Orders -> Seq(OrderRows)]
    /\ \A o \in Orders : Len(hist[o]) <= MaxVersions
    /\ lapsed \subseteq Logins
    /\ logins \in 0 .. MaxLogins
    /\ session \in {0, logins}
    /\ page \in Pages
    /\ \A k \in Keys :
        /\ cache[k].data \in DataOf(k)
        /\ cache[k].err \in BOOLEAN
        /\ cache[k].req \in [login : 0 .. logins, got : DataOf(k),
                             awaited : BOOLEAN]
        /\ cache[k].req.login = 0 => cache[k].req = NoFetch
    /\ late \subseteq 1 .. logins
    /\ seen \in Lists \cup {NoData}
    /\ alert \in Orders \cup {NoOrder}
    /\ stream \in [st : {"off", "connecting", "open"}, login : 0 .. logins, event : BOOLEAN]
    /\ job.st \in {"idle", "success", "error"} \cup Pending
    /\ job.order \in Orders \cup {NoOrder}
    /\ job.own \in 0 .. MaxVersions
    /\ job.st \in Pending => job.order # NoOrder /\ job.login \in 1 .. logins
    /\ faults \in 0 .. MaxFaults

PickerInit ==
    /\ hist \in [Orders -> {<<>>} \cup {<<row>> : row \in First}]
    /\ lapsed = {}
    /\ logins = 0
    /\ session = 0
    /\ page = "login"
    /\ cache = [k \in Keys |-> NoEntry]
    /\ late = {}
    /\ seen = NoData
    /\ alert = NoOrder
    /\ stream = NoStream
    /\ job = NoJob
    /\ faults = 0

-----------------------------------------------------------------------------
(* The query cache.  A fetch takes the session's token when it starts.     *)

Fetching(e) == e.req # NoFetch

\* Fault: the token is read once, when the module is loaded.
StartedMemoised(e, s, awaited) ==
    IF s = 0
    THEN [e EXCEPT !.err = TRUE, !.req = NoFetch]
    ELSE [e EXCEPT !.req = [login |-> 1, got |-> NoData, awaited |-> awaited]]

\* Fault: a request without a session is sent all the same.
StartedAnyway(e, s, awaited) ==
    [e EXCEPT !.req = [login |-> s, got |-> NoData, awaited |-> awaited]]

\* httpRequest without a session throws before anything is sent, twice.
Started(e, s, awaited) ==
    IF s = 0
    THEN [e EXCEPT !.err = TRUE, !.req = NoFetch]
    ELSE [e EXCEPT !.req = [login |-> s, got |-> NoData, awaited |-> awaited]]

\* A mount, the focus or the interval: a fetch under way is joined.
Refetched(e, s) == IF Fetching(e) THEN e ELSE Started(e, s, FALSE)

\* Fault: an invalidation leaves an older fetch to answer for it.
InvalidatedLazily(e, s, awaited) ==
    IF Fetching(e) THEN [e EXCEPT !.req.awaited = @ \/ awaited] ELSE Started(e, s, awaited)

\* invalidateQueries: a fetch that was to replace data is given up for a new one.
Invalidated(e, s, awaited) ==
    IF Fetching(e) /\ e.data = NoData
    THEN [e EXCEPT !.req.awaited = @ \/ awaited]
    ELSE Started(e, s, awaited)

GivenUp(e) == IF Fetching(e) /\ e.req.got = NoData THEN {e.req.login} ELSE {}

\* The queries that the page on screen observes.
Mounted(p) == (IF p = "login" THEN {} ELSE {"list"}) \cup (Orders \cap {p})

Invalidate(k, awaited) ==
    IF k \in Mounted(page)
    THEN /\ cache' = [cache EXCEPT ![k] = Invalidated(@, session, awaited)]
         /\ late' = late \cup IF cache[k].data = NoData THEN {} ELSE GivenUp(cache[k])
    ELSE UNCHANGED <<cache, late>>

-----------------------------------------------------------------------------
(* Session and pages. *)

\* Whatever the page kept in its own state is gone; a change under way goes on
\* unwatched.  Data that is no older than 5 s is not fetched again.  A details
\* page that is left leaves its copy of the order in the cache; its fetch, whose
\* answer could only make that copy newer, counts as one nobody waits for.
Show(p, s) ==
    /\ page' = p
    /\ seen' = IF p = "orders" /\ ~cache["list"].err THEN cache["list"].data ELSE NoData
    /\ alert' = NoOrder
    /\ stream' = IF p = "orders" THEN [NoStream EXCEPT !.st = "connecting"] ELSE NoStream
    /\ job' = IF job.st \in Pending THEN [job EXCEPT !.watched = FALSE] ELSE NoJob
    /\ late' = late \cup UNION {GivenUp(cache[k]) : k \in Orders}
    /\ \E again \in SUBSET Mounted(p) :
         LET left == [k \in Keys |-> IF k = "list" THEN cache[k]
                                    ELSE [NoEntry EXCEPT !.data = cache[k].data]]
         IN  /\ \A k \in Mounted(p) : cache[k].data = NoData => k \in again
             /\ cache' = [k \in Keys |->
                            IF k \in again THEN Refetched(left[k], s) ELSE left[k]]

Login ==
    /\ page = "login"
    /\ session = 0
    /\ logins < MaxLogins
    /\ logins' = logins + 1
    /\ session' = logins + 1
    /\ Show("orders", session')
    /\ UNCHANGED <<shopVars, faults>>

\* A link, a row or the back button; without a session the route redirects.
Go(p) ==
    /\ page \notin {"login", p}
    /\ Show(IF session = 0 THEN "login" ELSE p, session)
    /\ UNCHANGED <<shopVars, sessionVars, faults>>

\* The rows of the page's two tables.
Rows == IF cache["list"].data = NoData THEN {}
        ELSE {o \in Orders : cache["list"].data[o] > 0}

OpenOrder(o) == page = "orders" /\ o \in Rows /\ Go(o)

OpenPage(p) == p \in {"orders", "other"} /\ Go(p)

Logout ==
    /\ page # "login"
    /\ session' = 0
    /\ Show("login", 0)
    /\ UNCHANGED <<shopVars, logins, faults>>

Mishap == faults < MaxFaults /\ faults' = faults + 1

\* The tab is loaded again: only the stored session is left.
Reload ==
    /\ Mishap
    /\ page' = IF session = 0 THEN "login" ELSE page
    /\ cache' = [k \in Keys |->
                   IF k \in Mounted(page') THEN Refetched(NoEntry, session) ELSE NoEntry]
    /\ late' = {}
    /\ job' = NoJob
    /\ seen' = NoData
    /\ alert' = NoOrder
    /\ stream' = [NoStream EXCEPT !.st = IF page' = "orders" THEN "connecting" ELSE "off"]
    /\ UNCHANGED <<shopVars, sessionVars>>

\* An answer 401 logs out whoever is logged in by then.
EndsSession(t) == t \in lapsed

Answered401(t) ==
    /\ session' = IF EndsSession(t) THEN 0 ELSE session
    /\ UNCHANGED logins

-----------------------------------------------------------------------------
(* Answers of the server to the queries. *)

\* Is a row new in the list, or newly cancelled?
Status(o, v) == IF v = 0 THEN "" ELSE hist[o][v].status

\* The effect of OrdersPage that compares the list with the one before: it
\* alerts for one cancelled order and forgets the old list.
Compare(new) ==
    LET fresh == {o \in Orders :
                    /\ seen # NoData
                    /\ seen[o] > 0 /\ new[o] > 0
                    /\ Status(o, seen[o]) # "CANCELLED"
                    /\ Status(o, new[o]) = "CANCELLED"}
    IN  /\ seen' = new
        /\ IF fresh = {}
           THEN UNCHANGED alert
           ELSE \E o \in fresh : alert' = o

Serve(k) ==
    /\ Fetching(cache[k])
    /\ cache[k].req.got = NoData
    /\ cache[k].req.login \notin lapsed
    /\ LET shop == StoreAt[cache[k].req.login]
           rows == [o \in Orders |-> IF StoreOf[o] = shop THEN Len(hist[o]) ELSE 0]
       IN  IF k = "list"
           THEN cache' = [cache EXCEPT ![k].req.got = rows]
           ELSE /\ rows[k] > 0
                /\ cache' = [cache EXCEPT ![k].req.got = rows[k]]
    /\ UNCHANGED <<shopVars, sessionVars, pageVars, late, job, faults>>

Answer(k) ==
    /\ cache[k].req.got # NoData
    /\ cache' = [cache EXCEPT ![k] = [NoEntry EXCEPT !.data = cache[k].req.got]]
    /\ IF k = "list" /\ page = "orders"
       THEN Compare(cache[k].req.got)
       ELSE UNCHANGED <<seen, alert>>
    /\ UNCHANGED <<shopVars, sessionVars, late, page, stream, job, faults>>

\* A failed fetch may be tried once more, with the token of that moment.
Failed(e, s) == {[e EXCEPT !.err = TRUE, !.req = NoFetch], Started(e, s, e.req.awaited)}

FailFetch(k) == \E e \in Failed(cache[k], session') : cache' = [cache EXCEPT ![k] = e]

\* The order of another store, an error of the server or of the network.
FetchFails(k) ==
    /\ Fetching(cache[k])
    /\ Mishap
    /\ UNCHANGED <<shopVars, sessionVars, pageVars, late, job>>
    /\ FailFetch(k)

NotThere(k) ==
    /\ k # "list"
    /\ Fetching(cache[k])
    /\ cache[k].req.got = NoData
    /\ cache[k].req.login \notin lapsed
    /\ StoreOf[k] # StoreAt[cache[k].req.login]
    /\ UNCHANGED <<shopVars, sessionVars, pageVars, late, job, faults>>
    /\ cache' = [cache EXCEPT ![k] = [@ EXCEPT !.err = TRUE, !.req = NoFetch]]

FetchRefused(k) ==
    /\ Fetching(cache[k])
    /\ cache[k].req.got = NoData
    /\ cache[k].req.login \in lapsed
    /\ Answered401(cache[k].req.login)
    /\ cache' = [cache EXCEPT ![k] = [@ EXCEPT !.err = TRUE, !.req = NoFetch]]
    /\ UNCHANGED <<shopVars, pageVars, late, job, faults>>

\* The answer to a fetch that was given up: its data is dropped, its 401 is not.
LateAnswer(t) ==
    /\ t \in late
    /\ late' = late \ {t}
    /\ Answered401(t)
    /\ UNCHANGED <<shopVars, pageVars, cache, job, faults>>

\* Fault: the list is fetched on mount and on events only.
Never(k) == k \notin Keys

\* refetchInterval of the list; the focus of the window for both.
Refetches(k) == k \in Mounted(page)

Refetch(k) ==
    /\ Refetches(k)
    /\ ~Fetching(cache[k])
    /\ cache' = [cache EXCEPT ![k] = Refetched(@, session)]
    /\ UNCHANGED <<shopVars, sessionVars, pageVars, late, job, faults>>

Dismiss ==
    /\ alert # NoOrder
    /\ alert' = NoOrder
    /\ UNCHANGED <<shopVars, sessionVars, page, seen, stream,
                   cache, late, job, faults>>

-----------------------------------------------------------------------------
(* The event stream of the orders page. *)

\* The hub tells the open stream of the order's store.
Notified(o) ==
    stream' = [stream EXCEPT !.event =
                 @ \/ (stream.st = "open" /\ StoreAt[stream.login] = StoreOf[o])]

StreamConnects ==
    /\ stream.st = "connecting"
    /\ session \notin lapsed
    /\ stream' = IF session = 0 THEN NoStream
                 ELSE [st |-> "open", login |-> session, event |-> FALSE]
    /\ UNCHANGED <<shopVars, sessionVars, page, seen, alert,
                   cache, late, job, faults>>

StreamEvent ==
    /\ stream.event
    /\ stream' = [stream EXCEPT !.event = FALSE]
    /\ Invalidate("list", FALSE)
    /\ UNCHANGED <<shopVars, sessionVars, page, seen, alert,
                   job, faults>>

\* What was written to the stream and not read is lost with it.
StreamBreaks ==
    /\ Mishap
    /\ stream.st = "open"
    /\ stream' = [NoStream EXCEPT !.st = "connecting"]
    /\ UNCHANGED <<shopVars, sessionVars, page, seen, alert,
                   cache, late, job>>

-----------------------------------------------------------------------------
(* Changes of an order. *)

PickerAllowed == {"ACCEPTED_BY_PICKER", "ASSEMBLING", "ASSEMBLED",
                  "NEEDS_CONFIRMATION", "CANCELLED"}

\* Fault: the panel's table lets a stage be skipped.
TransitionsDrifted(s) ==
    IF s \in Final THEN {} ELSE {"ACCEPTED_BY_PICKER", "ASSEMBLING", "ASSEMBLED", "CANCELLED"}

\* The panel's own table, a copy by hand of the server's.
PanelTransitions(s) ==
    CASE s = "NEW" -> {"ACCEPTED_BY_PICKER", "CANCELLED"}
      [] s = "ACCEPTED_BY_PICKER" -> {"ASSEMBLING", "NEEDS_CONFIRMATION", "CANCELLED"}
      [] s = "NEEDS_CONFIRMATION" -> {"ASSEMBLING", "CANCELLED"}
      [] s = "ASSEMBLING" -> {"ASSEMBLED", "CANCELLED"}
      [] s = "ASSEMBLED" -> {"WAITING_COURIER", "CANCELLED"}
      [] s = "WAITING_COURIER" -> {"COURIER_PICKED_UP"}
      [] s = "COURIER_PICKED_UP" -> {"DELIVERING"}
      [] s = "DELIVERING" -> {"DELIVERED"}
      [] s \in {"DELIVERED", "CANCELLED"} -> {}

\* The buttons under an order of which version v is shown: whose order it is
\* does not matter to the panel.
PickerActions(o, v) == PanelTransitions(hist[o][v].status) \cap PickerAllowed

\* Bound: one change at a time, also after the page that asked for it was left.
Ask(o, to) ==
    /\ page = o
    /\ job.st \notin Pending
    /\ cache[o].data # NoData
    /\ to \in PickerActions(o, cache[o].data) \/ to = Edit
    /\ job' = [st |-> IF session = 0 THEN "error" ELSE "sent", order |-> o,
               to |-> to, login |-> session, own |-> cache[o].data, watched |-> TRUE]
    /\ UNCHANGED <<shopVars, sessionVars, pageVars, cache, late, faults>>

Now(o) == hist[o][Len(hist[o])]

\* The order is nobody's or the picker's own.
FreeFor(row, p) == row.picker \in {NoPicker, p}

\* What the server does with a request it can authorize (the check and the write,
\* which it makes one after the other, are split in Orders and OrderTotals).  The
\* items of an order may be edited whosever order it is.
Legal ==
    LET row == Now(job.order)
    IN  /\ StoreOf[job.order] = StoreAt[job.login]
        /\ row.status \notin Final
        /\ job.to # Edit =>
              /\ FreeFor(row, PickerAt[job.login])
              /\ IsValidStateTransition(row.status, job.to)

\* UpdateStatus, or UpdateStatusAndAssignPicker with COALESCE(picker_id, $2).
Written(row, p, to) ==
    IF to \in Claiming
    THEN [status |-> to, picker |-> IF row.picker = NoPicker THEN p ELSE row.picker]
    ELSE [row EXCEPT !.status = to]

\* The row of a legal change is the order's next version.  The store's stream is
\* not told of it.
Apply ==
    LET o == job.order
    IN  /\ job.st = "sent"
        /\ job.login \notin lapsed
        /\ Legal
        /\ Len(hist[o]) < MaxVersions
        /\ hist' = [hist EXCEPT ![o] =
                      Append(@, IF job.to = Edit THEN Now(o)
                                ELSE Written(Now(o), PickerAt[job.login], job.to))]
        /\ job' = [job EXCEPT !.st = "done", !.own = Len(hist[o]) + 1]
        /\ UNCHANGED <<lapsed, sessionVars, pageVars, cache, late, faults>>

Ended(how) == IF job.watched THEN [job EXCEPT !.st = how] ELSE NoJob

\* Refused by the server, or lost on the way there or back.
ChangeFails ==
    /\ \/ job.st = "sent" /\ job.login \notin lapsed /\ ~Legal /\ UNCHANGED faults
       \/ job.st \in {"sent", "done"} /\ Mishap
    /\ job' = Ended("error")
    /\ UNCHANGED <<shopVars, sessionVars, pageVars, cache, late>>

ChangeRefused ==
    /\ job.st = "sent"
    /\ job.login \in lapsed
    /\ Answered401(job.login)
    /\ job' = Ended("error")
    /\ UNCHANGED <<shopVars, pageVars, cache, late, faults>>

\* onSuccess of a status: first the list is fetched again, then the order;
\* onSuccess of the items: the order only.
Confirm ==
    /\ job.st = "done"
    /\ Invalidate(IF job.to = Edit THEN job.order ELSE "list", TRUE)
    /\ job' = [job EXCEPT !.st = IF job.to = Edit THEN "detail" ELSE "list"]
    /\ UNCHANGED <<shopVars, sessionVars, pageVars, faults>>

\* The awaited fetch has ended, one way or the other, or was given up.
ListSettled ==
    /\ job.st = "list"
    /\ ~cache["list"].req.awaited
    /\ Invalidate(job.order, TRUE)
    /\ job' = [job EXCEPT !.st = "detail"]
    /\ UNCHANGED <<shopVars, sessionVars, pageVars, faults>>

DetailSettled ==
    /\ job.st = "detail"
    /\ ~cache[job.order].req.awaited
    /\ job' = Ended("success")
    /\ UNCHANGED <<shopVars, sessionVars, pageVars, cache, late, faults>>

-----------------------------------------------------------------------------
(* The rest of the world: customers, other pickers, the administrator, couriers, *)
(* token expiry.                                                               *)

\* A customer's order: the store's streams are told.
CreateOrder(o) ==
    /\ hist[o] = <<>>
    /\ hist' = [hist EXCEPT ![o] = Append(@, [status |-> "NEW", picker |-> NoPicker])]
    /\ Notified(o)
    /\ UNCHANGED <<lapsed, sessionVars, page, seen, alert,
                   cache, late, job, faults>>

\* The administrator may write any status, as may a request that was decided on
\* an older one (see Orders); a picker's claim needs an order that is free for him.
OthersRows(o) ==
    {[Now(o) EXCEPT !.status = s] : s \in OthersWrite}
    \cup {Written(Now(o), p, s) : p \in {q \in Pickers : FreeFor(Now(o), q)},
                                  s \in OthersWrite}

\* Of these only the customer's cancellation is told to the store's streams.
OthersChange(o) ==
    /\ hist[o] # <<>>
    /\ Len(hist[o]) < MaxVersions
    /\ \E row \in OthersRows(o) \ {Now(o)} :
         /\ hist' = [hist EXCEPT ![o] = Append(@, row)]
         /\ \/ UNCHANGED stream
            \/ row.status = "CANCELLED" /\ Notified(o)
    /\ UNCHANGED <<lapsed, sessionVars, page, seen, alert,
                   cache, late, job, faults>>

\* The account of somebody else is deleted: his orders become nobody's.
DeletePicker(p) ==
    LET his == {o \in Orders : hist[o] # <<>> /\ Now(o).picker = p}
    IN  /\ \A t \in Logins : PickerAt[t] # p
        /\ his # {} /\ \A o \in his : Len(hist[o]) < MaxVersions
        /\ hist' = [o \in Orders |->
                      IF o \in his THEN Append(hist[o], [Now(o) EXCEPT !.picker = NoPicker])
                      ELSE hist[o]]
        /\ UNCHANGED <<lapsed, sessionVars, pageVars, cache, late, job, faults>>

Lapse(t) ==
    /\ Mishap
    /\ t \in (1 .. logins) \ lapsed
    /\ lapsed' = lapsed \cup {t}
    /\ UNCHANGED <<hist, sessionVars, pageVars, cache, late, job>>

PickerNext ==
    \/ Login \/ Logout \/ Reload \/ Dismiss
    \/ StreamConnects \/ StreamEvent \/ StreamBreaks
    \/ OpenPage("orders") \/ OpenPage("other")
    \/ \E o \in Orders : OpenOrder(o) \/ CreateOrder(o) \/ OthersChange(o)
    \/ \E p \in Pickers : DeletePicker(p)
    \/ \E k \in Keys :
         \/ Refetch(k) \/ Serve(k) \/ Answer(k)
         \/ FetchFails(k) \/ NotThere(k) \/ FetchRefused(k)
    \/ \E t \in Logins : LateAnswer(t) \/ Lapse(t)
    \/ \E o \in Orders : \E to \in PickerAllowed \cup {Edit} : Ask(o, to)
    \/ Apply \/ ChangeFails \/ ChangeRefused \/ Confirm \/ ListSettled \/ DetailSettled

PickerSpec == PickerInit /\ [][PickerNext]_pickerVars

\* The interval goes off, the server answers and the browser delivers.
PickerFairSpec ==
    /\ PickerSpec
    /\ WF_pickerVars(Refetch("list"))
    /\ WF_pickerVars(Serve("list"))
    /\ WF_pickerVars(Answer("list"))
    /\ WF_pickerVars(FetchRefused("list"))

-----------------------------------------------------------------------------
(* Correctness. *)

\* "Status updated" under a details page (OrderDetailsPage:340) is not a claim
\* about an older order: what is shown has the picker's own change, unless its
\* refetch failed or a newer one is under way.
SuccessIsShown ==
    job.st = "success" /\ page = job.order =>
        \/ cache[page].err
        \/ Fetching(cache[page])
        \/ cache[page].data >= job.own

\* A button is refused only for what happened since: the order's status is no
\* longer the one under which it was shown, or another picker has an order that
\* was not shown as the picker's own.  The panel's table and the server's agree,
\* and an order once shown as a picker's stays his (picker/service.go 155-172,
\* UpdateStatusAndAssignPicker), whoever writes to it between the copy, the
\* button and the request.
FreshButtonsWork ==
    job.st = "sent" /\ job.to # Edit /\ StoreOf[job.order] = StoreAt[job.login] =>
        LET shown == hist[job.order][job.own]
            now == Now(job.order)
            asks == PickerAt[job.login]
        IN  \/ Legal
            \/ now.status # shown.status
            \/ now.picker \notin {NoPicker, asks} /\ shown.picker # asks

\* The tokens of requests that the server has not answered: a 401 to one of them
\* logs out whoever is there by then (httpRequest).
Unanswered ==
    (UNION {GivenUp(cache[k]) : k \in Keys}) \cup late
    \cup {t \in Logins : job.st = "sent" /\ job.login = t}

\* That risk ends with the requests that were on their way at the login: whatever
\* is joined, tried again, invalidated or given up, no request of an earlier login's
\* is made again while a picker stays, and he stays until he leaves himself or a
\* lapsed token is refused, his own or one of those.
NoOldTokenReturns ==
    [][session # 0 =>
         \/ session' = session /\ Unanswered' \subseteq Unanswered \cup {session}
         \/ session' = 0 /\ (page' = "login" \/ Unanswered \cap lapsed # {})]_pickerVars

Current ==
    /\ cache["list"].data # NoData
    /\ \A o \in Orders : StoreOf[o] = StoreAt[session] =>
          cache["list"].data[o] = Len(hist[o])

\* usePickerRealtime.ts:9: events lost with a broken stream do not matter,
\* since every page keeps fetching the list: while a picker stays signed in, the
\* screen catches up with his store again and again.
ScreenCatchesUp == []<>(session = 0 \/ session \in lapsed \/ Current)
=============================================================================
