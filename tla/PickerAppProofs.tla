--------------------------- MODULE PickerAppProofs ---------------------------
(***************************************************************************)
(* The picker's panel, for any number of orders, stores, logins, statuses  *)
(* and failures: which buttons are refused, what a success message is      *)
(* shown under, whose requests are made and refused, that the screen never *)
(* goes back, and the types of it all.                                     *)
(***************************************************************************)
EXTENDS PickerApp, TLAPS

(* The session: only the newest login has one, and only made logins lapse. *)

SessionTyped ==
    /\ logins \in 0 .. MaxLogins /\ session \in {0, logins}
    /\ lapsed \subseteq 1 .. logins
    /\ faults \in 0 .. MaxFaults

LEMMA SessionStep ==
    ASSUME SessionTyped, [PickerNext]_pickerVars
    PROVE  SessionTyped' /\ logins' \in Nat /\ logins <= logins'
<1>0. /\ logins \in 0 .. MaxLogins /\ session \in {0, logins}
      /\ lapsed \subseteq 1 .. logins
      /\ faults \in 0 .. MaxFaults /\ MaxFaults \in Nat /\ MaxLogins \in Nat
  BY PickerBoundsAssumption DEF SessionTyped
<1> DEFINE Done == SessionTyped' /\ logins' \in Nat /\ logins <= logins'
<1>1. ASSUME faults' = faults \/ Mishap PROVE faults' \in 0 .. MaxFaults
  BY <1>0, <1>1 DEF Mishap
<1>2. ASSUME UNCHANGED <<lapsed, logins>>, session' \in {0, session}, faults' = faults \/ Mishap
      PROVE  Done
  BY <1>0, <1>1, <1>2 DEF SessionTyped
<1>3. ASSUME NEW t, Answered401(t), UNCHANGED <<lapsed, faults>> PROVE Done
  BY <1>2, <1>3 DEF Answered401
<1>4. CASE Login
  <2>1. /\ logins < MaxLogins /\ logins' = logins + 1 /\ session' = logins + 1
        /\ UNCHANGED <<lapsed, faults>>
    BY <1>4 DEF Login, shopVars
  <2>2. logins' \in 0 .. MaxLogins /\ logins <= logins' /\ session' = logins'
    BY <1>0, <2>1
  <2>3. lapsed' \subseteq 1 .. logins'
    BY <1>0, <2>1
  <2>4. QED
    BY <1>0, <2>1, <2>2, <2>3 DEF SessionTyped
<1>5. CASE Logout
  BY <1>2, <1>5 DEF Logout, shopVars
<1>6. ASSUME NEW p, Go(p) PROVE Done
  BY <1>2, <1>6 DEF Go, shopVars, sessionVars
<1>7. CASE Reload \/ Dismiss \/ StreamConnects \/ StreamEvent \/ StreamBreaks
  BY <1>2, <1>7 DEF Reload, Dismiss, StreamConnects, StreamEvent, StreamBreaks, shopVars,
                    sessionVars
<1>8. ASSUME NEW o, CreateOrder(o) \/ OthersChange(o) \/ DeletePicker(o) PROVE Done
  BY <1>2, <1>8 DEF CreateOrder, OthersChange, DeletePicker, sessionVars
<1>9. ASSUME NEW k, Refetch(k) \/ Serve(k) \/ Answer(k) \/ FetchFails(k) \/ NotThere(k)
      PROVE  Done
  BY <1>2, <1>9 DEF Refetch, Serve, Answer, FetchFails, NotThere, shopVars, sessionVars
<1>10. ASSUME NEW k, FetchRefused(k) PROVE Done
  BY <1>3, <1>10 DEF FetchRefused, shopVars
<1>11. ASSUME NEW t, LateAnswer(t) PROVE Done
  BY <1>3, <1>11 DEF LateAnswer, shopVars
<1>12. ASSUME NEW t, Lapse(t) PROVE Done
  <2>1. /\ UNCHANGED sessionVars /\ Mishap
        /\ t \in 1 .. logins /\ lapsed' = lapsed \cup {t}
    BY <1>12 DEF Lapse
  <2>2. QED
    BY <1>0, <1>1, <2>1 DEF SessionTyped, sessionVars
<1>13. ASSUME NEW o, NEW to, Ask(o, to) PROVE Done
  BY <1>2, <1>13 DEF Ask, shopVars, sessionVars
<1>14. CASE Apply
  BY <1>2, <1>14 DEF Apply, sessionVars
<1>15. CASE ChangeRefused
  BY <1>3, <1>15 DEF ChangeRefused, shopVars
<1>16. CASE ChangeFails \/ Confirm \/ ListSettled \/ DetailSettled
  BY <1>2, <1>16 DEF ChangeFails, Confirm, ListSettled, DetailSettled, shopVars, sessionVars
<1>17. CASE UNCHANGED pickerVars
  BY <1>2, <1>17 DEF pickerVars
<1>18. QED
  BY <1>4, <1>5, <1>6, <1>7, <1>8, <1>9, <1>10, <1>11, <1>12, <1>13, <1>14, <1>15, <1>16, <1>17
     DEF PickerNext, OpenPage, OpenOrder

LEMMA PickerSession == PickerSpec => []SessionTyped
<1>1. PickerInit => SessionTyped
  BY PickerBoundsAssumption DEF PickerInit, SessionTyped
<1>2. SessionTyped /\ [PickerNext]_pickerVars => SessionTyped'
  BY SessionStep
<1>3. QED
  BY <1>1, <1>2, PTL DEF PickerSpec

-----------------------------------------------------------------------------
(* The copies of orders in the cache, and the change under way. *)

HasShape(e) == {"data", "err", "req"} \subseteq DOMAIN e /\ {"login", "got"} \subseteq DOMAIN e.req

\* A version the order has had.
Known(o, v) == v \in 1 .. Len(hist[o])

CopiesInv ==
    /\ hist \in [Orders -> Seq(OrderRows)]
    /\ DOMAIN cache = Keys
    /\ \A o \in Orders :
        /\ HasShape(cache[o])
        /\ cache[o].data # NoData => Known(o, cache[o].data)
        /\ cache[o].req.got # NoData => Known(o, cache[o].req.got)

\* What is shown of the order, or will be, is not older than the picker's change.
UpToDate(e, own) ==
    /\ e.req.got # NoData => e.req.got >= own
    /\ e.err \/ Fetching(e) \/ e.data >= own

JobInv ==
    /\ {"st", "order", "to", "login", "own", "watched"} = DOMAIN job
    /\ job.st \in Pending \cup {"success"} =>
        /\ job.order \in Orders
        /\ cache[job.order].data # NoData
        /\ Known(job.order, job.own)
        /\ job.watched => page = job.order
    /\ job.st = "sent" => job.login \in Logins
    /\ job.st = "sent" /\ job.to # Edit =>
        job.to \in PanelTransitions(hist[job.order][job.own].status) \cap PickerAllowed
    /\ job.st \in {"detail", "success"} /\ job.watched => UpToDate(cache[job.order], job.own)
    /\ job.st = "success" => job.watched

-----------------------------------------------------------------------------
(* What the operations of the cache do to an entry. *)

\* It is fetched anew, or an error is shown; the data stays.
Fresh(e, f) == HasShape(f) /\ f.data = e.data /\ f.req.got = NoData /\ (f.err \/ Fetching(f))

LEMMA NoEntryShape == HasShape(NoEntry) /\ NoEntry.data = NoData /\ NoEntry.req = NoFetch
                        /\ NoFetch.got = NoData
BY DEF NoEntry, NoFetch, HasShape

LEMMA StartedIsFresh ==
    ASSUME NEW e, HasShape(e), NEW s, NEW a
    PROVE  Fresh(e, Started(e, s, a))
<1>1. CASE s = 0
  BY <1>1 DEF Started, Fresh, HasShape, NoFetch
<1>2. CASE s # 0
  <2>1. [login |-> s, got |-> NoData, awaited |-> a] # NoFetch
    BY <1>2 DEF NoFetch
  <2>2. Started(e, s, a) = [e EXCEPT !.req = [login |-> s, got |-> NoData, awaited |-> a]]
    BY <1>2 DEF Started
  <2>3. QED
    BY <2>1, <2>2 DEF Fresh, HasShape, Fetching
<1>3. QED
  BY <1>1, <1>2

LEMMA FailedIsFresh ==
    ASSUME NEW e, HasShape(e), NEW s, NEW f \in Failed(e, s)
    PROVE  Fresh(e, f)
<1>1. CASE f = [e EXCEPT !.err = TRUE, !.req = NoFetch]
  BY <1>1 DEF Fresh, HasShape, NoFetch
<1>2. CASE f = Started(e, s, e.req.awaited)
  BY <1>2, StartedIsFresh
<1>3. QED
  BY <1>1, <1>2 DEF Failed

\* Copies that are fetched anew or left alone keep both invariants.
LEMMA FreshKeeps ==
    ASSUME CopiesInv, JobInv, DOMAIN cache' = Keys, UNCHANGED <<hist, job, page>>,
           \A o \in Orders : cache'[o] = cache[o] \/ Fresh(cache[o], cache'[o])
    PROVE  CopiesInv' /\ JobInv'
<1>1. CopiesInv'
  BY DEF CopiesInv, Known, Fresh, HasShape
<1>2. ASSUME job.st \in Pending \cup {"success"}
      PROVE  /\ cache'[job.order].data # NoData
             /\ job.st \in {"detail", "success"} /\ job.watched
                  => UpToDate(cache'[job.order], job.own)
  <2>1. job.order \in Orders /\ cache[job.order].data # NoData
    BY <1>2 DEF JobInv
  <2>2. CASE cache'[job.order] = cache[job.order]
    BY <1>2, <2>1, <2>2 DEF JobInv
  <2>3. CASE Fresh(cache[job.order], cache'[job.order])
    BY <2>1, <2>3 DEF Fresh, UpToDate
  <2>4. QED
    BY <2>1, <2>2, <2>3
<1>3. JobInv'
  BY <1>2 DEF JobInv, Known, Pending
<1>4. QED
  BY <1>1, <1>3

LEMMA ListIsNoOrder == "list" \notin Orders /\ Orders \subseteq Keys
BY OrdersAssumption DEF Keys

\* A page is left: the copies stay without their fetches, and nobody waits for
\* the change any more.
LEMMA ShowKeeps ==
    ASSUME CopiesInv, JobInv, UNCHANGED hist, NEW p, NEW s, Show(p, s)
    PROVE  CopiesInv' /\ JobInv'
<1> DEFINE left == [k \in Keys |-> IF k = "list" THEN cache[k]
                                  ELSE [NoEntry EXCEPT !.data = cache[k].data]]
<1>1. PICK again \in SUBSET Mounted(p) :
        cache' = [k \in Keys |-> IF k \in again THEN Refetched(left[k], s) ELSE left[k]]
  BY DEF Show
<1>2. ASSUME NEW o \in Orders
      PROVE  HasShape(cache'[o]) /\ cache'[o].data = cache[o].data /\ cache'[o].req.got = NoData
  <2>1. left[o] = [NoEntry EXCEPT !.data = cache[o].data]
    BY ListIsNoOrder
  <2>2. HasShape(left[o]) /\ left[o].data = cache[o].data /\ left[o].req.got = NoData
    BY <2>1, NoEntryShape DEF HasShape
  <2> HIDE DEF left
  <2>3. Fresh(left[o], Started(left[o], s, FALSE))
    BY <2>2, StartedIsFresh
  <2>4. cache'[o] \in {left[o], Started(left[o], s, FALSE)}
    BY <1>1, ListIsNoOrder DEF Refetched
  <2>5. QED
    BY <2>2, <2>3, <2>4 DEF Fresh
<1>3. DOMAIN cache' = Keys
  BY <1>1
<1>4. job' = NoJob \/ (job.st \in Pending /\ job' = [job EXCEPT !.watched = FALSE])
  BY DEF Show
<1>5. CopiesInv'
  BY <1>2, <1>3 DEF CopiesInv, Known
<1>6. CASE job' = NoJob
  BY <1>5, <1>6 DEF JobInv, NoJob, Pending
<1>7. CASE job.st \in Pending /\ job' = [job EXCEPT !.watched = FALSE]
  <2>1. /\ DOMAIN job' = DOMAIN job /\ job'.watched = FALSE
        /\ job'.st = job.st /\ job'.order = job.order /\ job'.to = job.to /\ job'.own = job.own
    BY <1>7 DEF JobInv
  <2>2. job.order \in Orders /\ cache'[job.order].data # NoData
    BY <1>2, <1>7 DEF JobInv
  <2>3. JobInv'
    BY <1>7, <2>1, <2>2 DEF JobInv, Known, Pending
  <2>4. QED
    BY <1>5, <2>3
<1>8. QED
  BY <1>4, <1>5, <1>6, <1>7

-----------------------------------------------------------------------------
(* How rows change. *)

\* A login's picker keeps the orders that are his.
StillHis(o, row) ==
    hist[o] # <<>> => \A t \in Logins : Now(o).picker = PickerAt[t] => row.picker = PickerAt[t]

\* A row stays as it is or becomes the next version.
RowsGrow ==
    /\ hist' = [o \in Orders |-> hist'[o]]
    /\ \A o \in Orders :
        \/ hist'[o] = hist[o]
        \/ /\ Len(hist[o]) < MaxVersions
           /\ \E row \in OrderRows : StillHis(o, row) /\ hist'[o] = Append(hist[o], row)

LEMMA WrittenIsHis ==
    ASSUME NEW row \in OrderRows, NEW p \in Pickers, FreeFor(row, p), NEW to \in Statuses
    PROVE  /\ Written(row, p, to) \in OrderRows
           /\ Written(row, p, to).picker \in {row.picker, p}
           /\ row.picker \in Pickers => Written(row, p, to).picker = row.picker
BY PickersAssumption DEF OrderRows, FreeFor, Written

\* The row of an order that has been placed.
LEMMA NowIsRow ==
    ASSUME CopiesInv, NEW o \in Orders, hist[o] # <<>>
    PROVE  /\ Len(hist[o]) \in 1 .. Len(hist[o])
           /\ Now(o) \in OrderRows /\ Now(o).status \in Statuses
           /\ Now(o).picker \in Pickers \cup {NoPicker}
<1>1. hist[o] \in Seq(OrderRows) /\ Len(hist[o]) \in 1 .. Len(hist[o])
  BY DEF CopiesInv
<1>2. Now(o) \in OrderRows
  BY <1>1 DEF Now
<1>3. QED
  BY <1>1, <1>2 DEF OrderRows

LEMMA EmptyHasNone ==
    ASSUME NEW o \in Orders, NEW v, Known(o, v) PROVE hist[o] # <<>>
BY DEF Known

LEMMA HistStep ==
    ASSUME CopiesInv, JobInv, [PickerNext]_pickerVars
    PROVE  RowsGrow
<1>0. hist \in [Orders -> Seq(OrderRows)] /\ DOMAIN hist = Orders
  BY DEF CopiesInv
<1>1. ASSUME NEW o \in Orders, NEW row \in OrderRows, Len(hist[o]) < MaxVersions,
             StillHis(o, row), hist' = [hist EXCEPT ![o] = Append(@, row)]
      PROVE  RowsGrow
  BY <1>0, <1>1 DEF RowsGrow
<1>2. CASE Apply
  <2> DEFINE o == job.order
             me == PickerAt[job.login]
  <2>1. /\ o \in Orders /\ hist[o] # <<>> /\ job.login \in Logins
        /\ Len(hist[o]) < MaxVersions /\ Legal
    BY <1>2, EmptyHasNone DEF Apply, JobInv, Pending
  <2>2. Now(o) \in OrderRows /\ me \in Pickers /\ \A t \in Logins : PickerAt[t] \in Pickers
    BY <2>1, NowIsRow, PickersAssumption
  <2>3. CASE job.to = Edit
    <3>1. hist' = [hist EXCEPT ![o] = Append(@, Now(o))] /\ StillHis(o, Now(o))
      BY <1>2, <2>3 DEF Apply, StillHis
    <3>2. QED
      BY <1>1, <2>1, <2>2, <3>1
  <2>4. CASE job.to # Edit
    <3>1. FreeFor(Now(o), me) /\ \E x : <<x, job.to>> \in Transitions
      BY <2>1, <2>4 DEF Legal, IsValidStateTransition
    <3>2. job.to \in Statuses
      BY <3>1 DEF Transitions, Statuses
    <3>3. PICK row : row = Written(Now(o), me, job.to)
      OBVIOUS
    <3>4. hist' = [hist EXCEPT ![o] = Append(@, row)]
      BY <1>2, <2>4, <3>3 DEF Apply
    <3>5. row \in OrderRows /\ (Now(o).picker \in Pickers => row.picker = Now(o).picker)
      BY <2>2, <3>1, <3>2, <3>3, WrittenIsHis
    <3>6. StillHis(o, row)
      BY <2>2, <3>5 DEF StillHis
    <3>7. QED
      BY <1>1, <2>1, <3>4, <3>5, <3>6
  <2>5. QED
    BY <2>3, <2>4
<1>3. ASSUME NEW o \in Orders, CreateOrder(o) PROVE RowsGrow
  <2>1. PICK row : row = [status |-> "NEW", picker |-> NoPicker]
    OBVIOUS
  <2>2. row \in OrderRows
    BY <2>1 DEF OrderRows, Statuses
  <2>3. hist[o] = <<>> /\ hist' = [hist EXCEPT ![o] = Append(@, row)]
    BY <1>3, <2>1 DEF CreateOrder
  <2>4. StillHis(o, row) /\ Len(hist[o]) < MaxVersions
    BY <2>3, PickerBoundsAssumption DEF StillHis
  <2>5. QED
    BY <1>1, <2>2, <2>3, <2>4
<1>4. ASSUME NEW o \in Orders, OthersChange(o) PROVE RowsGrow
  <2>1. PICK row \in OthersRows(o) : hist' = [hist EXCEPT ![o] = Append(@, row)]
    BY <1>4 DEF OthersChange
  <2>2. hist[o] # <<>> /\ Len(hist[o]) < MaxVersions
    BY <1>4 DEF OthersChange
  <2>3. Now(o) \in OrderRows /\ OthersWrite \subseteq Statuses
    BY <2>2, NowIsRow, PickerBoundsAssumption
  <2>4. row \in OrderRows /\ (Now(o).picker \in Pickers => row.picker = Now(o).picker)
    <3>1. CASE row \in {[Now(o) EXCEPT !.status = s] : s \in OthersWrite}
      BY <2>3, <3>1 DEF OrderRows
    <3>2. ASSUME NEW p \in Pickers, FreeFor(Now(o), p), NEW s \in OthersWrite,
                 row = Written(Now(o), p, s)
          PROVE  row \in OrderRows /\ (Now(o).picker \in Pickers => row.picker = Now(o).picker)
      BY <2>3, <3>2, WrittenIsHis
    <3>3. QED
      BY <2>1, <3>1, <3>2 DEF OthersRows
  <2>5. StillHis(o, row)
    BY <2>4, PickersAssumption DEF StillHis
  <2>6. QED
    BY <1>1, <2>1, <2>2, <2>4, <2>5
<1>5. ASSUME NEW p \in Pickers, DeletePicker(p) PROVE RowsGrow
  <2> DEFINE his == {o \in Orders : hist[o] # <<>> /\ Now(o).picker = p}
             freed(o) == [Now(o) EXCEPT !.picker = NoPicker]
  <2>1. /\ \A t \in Logins : PickerAt[t] # p
        /\ \A o \in his : Len(hist[o]) < MaxVersions
        /\ hist' = [o \in Orders |-> IF o \in his THEN Append(hist[o], freed(o)) ELSE hist[o]]
    BY <1>5 DEF DeletePicker
  <2>2. ASSUME NEW o \in his
        PROVE  /\ freed(o) \in OrderRows /\ StillHis(o, freed(o))
               /\ Len(hist[o]) < MaxVersions /\ hist'[o] = Append(hist[o], freed(o))
    <3>1. Now(o) \in OrderRows
      BY NowIsRow
    <3>2. freed(o) \in OrderRows
      BY <3>1 DEF OrderRows
    <3>3. StillHis(o, freed(o))
      BY <2>1 DEF StillHis
    <3>4. QED
      BY <2>1, <3>2, <3>3
  <2>3. ASSUME NEW o \in Orders, o \notin his PROVE hist'[o] = hist[o]
    BY <2>1, <2>3
  <2>4. hist' = [o \in Orders |-> hist'[o]]
    BY <2>1
  <2> HIDE DEF his, freed
  <2>5. QED
    BY <2>2, <2>3, <2>4 DEF RowsGrow
<1>6. ASSUME UNCHANGED hist PROVE RowsGrow
  BY <1>0, <1>6 DEF RowsGrow
<1>7. QED
  BY <1>2, <1>3, <1>4, <1>5, <1>6
     DEF PickerNext, OpenPage, OpenOrder, Go, Login, Logout, Reload, Dismiss, StreamConnects,
         StreamEvent, StreamBreaks, Refetch, Serve, Answer, FetchFails, NotThere, FetchRefused,
         LateAnswer, Lapse, Ask, ChangeFails, ChangeRefused, Confirm, ListSettled,
         DetailSettled, shopVars, pickerVars

\* A new version of an order changes no older one.
Grows ==
    /\ hist' \in [Orders -> Seq(OrderRows)]
    /\ \A o \in Orders : \A i \in 1 .. Len(hist[o]) :
          i \in 1 .. Len(hist'[o]) /\ hist'[o][i] = hist[o][i]

LEMMA Appended ==
    ASSUME CopiesInv, NEW o \in Orders, NEW row \in OrderRows, hist'[o] = Append(hist[o], row)
    PROVE  /\ hist'[o] \in Seq(OrderRows)
           /\ Len(hist[o]) \in Nat /\ Len(hist'[o]) = Len(hist[o]) + 1
           /\ hist'[o][Len(hist'[o])] = row
           /\ \A i \in 1 .. Len(hist[o]) : hist'[o][i] = hist[o][i]
<1>1. hist[o] \in Seq(OrderRows)
  BY DEF CopiesInv
<1>2. QED
  BY <1>1

LEMMA RowsOnlyGrow ==
    ASSUME CopiesInv, RowsGrow
    PROVE  /\ Grows
           /\ \A o \in Orders : /\ Len(hist[o]) \in Nat /\ Len(hist'[o]) \in Nat
                                /\ Len(hist[o]) <= Len(hist'[o])
<1>1. ASSUME NEW o \in Orders
      PROVE  /\ hist'[o] \in Seq(OrderRows)
             /\ Len(hist[o]) \in Nat /\ Len(hist'[o]) \in Nat /\ Len(hist[o]) <= Len(hist'[o])
             /\ \A i \in 1 .. Len(hist[o]) : hist'[o][i] = hist[o][i]
  <2>1. CASE hist'[o] = hist[o]
    <3>1. hist[o] \in Seq(OrderRows)
      BY DEF CopiesInv
    <3>2. QED
      BY <2>1, <3>1
  <2>2. ASSUME NEW row \in OrderRows, hist'[o] = Append(hist[o], row)
        PROVE  /\ hist'[o] \in Seq(OrderRows)
               /\ Len(hist[o]) \in Nat /\ Len(hist'[o]) \in Nat /\ Len(hist[o]) <= Len(hist'[o])
               /\ \A i \in 1 .. Len(hist[o]) : hist'[o][i] = hist[o][i]
    <3>1. /\ hist'[o] \in Seq(OrderRows)
          /\ Len(hist[o]) \in Nat /\ Len(hist'[o]) = Len(hist[o]) + 1
          /\ \A i \in 1 .. Len(hist[o]) : hist'[o][i] = hist[o][i]
      BY <2>2, Appended
    <3>2. QED
      BY <3>1
  <2>3. QED
    BY <2>1, <2>2 DEF RowsGrow
<1>2. hist' \in [Orders -> Seq(OrderRows)]
  <2>1. hist' = [o \in Orders |-> hist'[o]]
    BY DEF RowsGrow
  <2>2. QED
    BY <1>1, <2>1
<1>3. QED
  BY <1>1, <1>2 DEF Grows

LEMMA GrowthKeeps ==
    ASSUME CopiesInv, JobInv, Grows, UNCHANGED <<cache, page>>
    PROVE  CopiesInv' /\ (job' = job => JobInv')
<1>1. CopiesInv'
  BY DEF CopiesInv, Known, Grows
<1>2. ASSUME job' = job PROVE JobInv'
  BY <1>2 DEF JobInv, Known, Grows, UpToDate, Fetching, Pending
<1>3. QED
  BY <1>1, <1>2

\* The entry k of the cache becomes e.
LEMMA EntryChanges ==
    ASSUME CopiesInv, NEW k \in Keys, NEW e, cache' = [cache EXCEPT ![k] = e]
    PROVE  /\ DOMAIN cache' = Keys
           /\ \A o \in Orders : cache'[o] = IF o = k THEN e ELSE cache[o]
BY ListIsNoOrder DEF CopiesInv

LEMMA FreshEntryKeeps ==
    ASSUME CopiesInv, JobInv, UNCHANGED <<hist, job, page>>, NEW k \in Keys, NEW e,
           cache' = [cache EXCEPT ![k] = e],
           HasShape(cache[k]) => e = cache[k] \/ Fresh(cache[k], e)
    PROVE  CopiesInv' /\ JobInv'
<1>1. \A o \in Orders : HasShape(cache[o])
  BY DEF CopiesInv
<1>2. \A o \in Orders : cache'[o] = cache[o] \/ Fresh(cache[o], cache'[o])
  BY <1>1, EntryChanges
<1>3. QED
  BY <1>2, EntryChanges, FreshKeeps

LEMMA ServeKeeps ==
    ASSUME CopiesInv, JobInv, NEW k \in Keys, Serve(k)
    PROVE  CopiesInv' /\ JobInv'
<1>1. UNCHANGED <<hist, job, page>> /\ Fetching(cache[k])
  BY DEF Serve, shopVars, pageVars
<1>2. CASE k = "list"
  <2>1. PICK x : cache' = [cache EXCEPT !["list"] = x]
    BY <1>2 DEF Serve
  <2>2. DOMAIN cache' = Keys /\ \A o \in Orders : cache'[o] = cache[o]
    BY <1>2, <2>1, ListIsNoOrder DEF CopiesInv
  <2>3. QED
    BY <1>1, <2>2, FreshKeeps
<1>3. CASE k # "list"
  <2> DEFINE n == Len(hist[k])
             e == [cache[k] EXCEPT !.req.got = n]
  <2>1. k \in Orders /\ HasShape(cache[k])
    BY <1>3 DEF Keys, CopiesInv
  <2>2. n \in Nat /\ n > 0 /\ cache' = [cache EXCEPT ![k] = e]
    BY <1>3, <2>1 DEF Serve, CopiesInv
  <2>3. HasShape(e) /\ e.data = cache[k].data /\ e.err = cache[k].err /\ e.req.got = n
    BY <2>1 DEF HasShape
  <2>4. Fetching(e)
    BY <2>2, <2>3, OrdersAssumption, NoEntryShape DEF Fetching
  <2> HIDE DEF e
  <2>5. DOMAIN cache' = Keys /\ \A o \in Orders : cache'[o] = IF o = k THEN e ELSE cache[o]
    BY <2>2, EntryChanges
  <2>6. CopiesInv'
    BY <1>1, <2>2, <2>3, <2>5 DEF CopiesInv, Known
  <2>7. ASSUME job.st \in Pending \cup {"success"}
        PROVE  /\ cache'[job.order].data = cache[job.order].data
               /\ job.st \in {"detail", "success"} /\ job.watched
                    => UpToDate(cache'[job.order], job.own)
    <3>1. job.order \in Orders /\ job.own \in 1 .. Len(hist[job.order])
      BY <2>7 DEF JobInv, Known
    <3>2. CASE job.order = k
      BY <2>2, <2>3, <2>4, <2>5, <3>1, <3>2 DEF UpToDate
    <3>3. CASE job.order # k
      BY <2>5, <2>7, <3>1, <3>3 DEF JobInv
    <3>4. QED
      BY <3>2, <3>3
  <2>8. JobInv'
    BY <1>1, <2>7 DEF JobInv, Known, Pending
  <2>9. QED
    BY <2>6, <2>8
<1>4. QED
  BY <1>2, <1>3

LEMMA AnswerKeeps ==
    ASSUME CopiesInv, JobInv, NEW k \in Keys, Answer(k)
    PROVE  CopiesInv' /\ JobInv'
<1> DEFINE e == [NoEntry EXCEPT !.data = cache[k].req.got]
<1>1. /\ UNCHANGED <<hist, job, page>> /\ cache[k].req.got # NoData
      /\ cache' = [cache EXCEPT ![k] = e]
  BY DEF Answer, shopVars
<1>2. HasShape(e) /\ e.data = cache[k].req.got /\ e.req.got = NoData
  BY NoEntryShape DEF HasShape
<1> HIDE DEF e
<1>3. DOMAIN cache' = Keys /\ \A o \in Orders : cache'[o] = IF o = k THEN e ELSE cache[o]
  BY <1>1, EntryChanges
<1>4. CopiesInv'
  BY <1>1, <1>2, <1>3 DEF CopiesInv, Known
<1>5. ASSUME job.st \in Pending \cup {"success"}
      PROVE  /\ cache'[job.order].data # NoData
             /\ job.st \in {"detail", "success"} /\ job.watched
                  => UpToDate(cache'[job.order], job.own)
  <2>1. job.order \in Orders /\ cache[job.order].data # NoData
    BY <1>5 DEF JobInv
  <2>2. CASE job.order = k
    BY <1>1, <1>2, <1>3, <1>5, <2>1, <2>2 DEF JobInv, UpToDate
  <2>3. CASE job.order # k
    BY <1>3, <1>5, <2>1, <2>3 DEF JobInv
  <2>4. QED
    BY <2>2, <2>3
<1>6. JobInv'
  BY <1>1, <1>5 DEF JobInv, Known, Pending
<1>7. QED
  BY <1>4, <1>6

-----------------------------------------------------------------------------
(* The change itself. *)

\* Without a change that is watched or under way there is nothing to keep.
LEMMA JobEnds ==
    ASSUME CopiesInv, JobInv, UNCHANGED <<hist, cache, page>>, job' = Ended("error")
    PROVE  CopiesInv' /\ JobInv'
<1>1. CopiesInv'
  BY DEF CopiesInv, Known
<1>2. JobInv'
  BY DEF JobInv, Ended, NoJob, Pending
<1>3. QED
  BY <1>1, <1>2

LEMMA AskKeeps ==
    ASSUME SessionTyped, CopiesInv, JobInv, NEW o \in Orders, NEW to, Ask(o, to)
    PROVE  CopiesInv' /\ JobInv'
<1>1. UNCHANGED <<hist, cache, page>> /\ page = o /\ cache[o].data # NoData
  BY DEF Ask, shopVars, pageVars
<1>2. CopiesInv'
  BY <1>1 DEF CopiesInv, Known
<1>3. to # Edit => to \in PanelTransitions(hist[o][cache[o].data].status) \cap PickerAllowed
  BY DEF Ask, PickerActions
<1>4. /\ job' = [st |-> job'.st, order |-> o, to |-> to, login |-> session,
                 own |-> cache[o].data, watched |-> TRUE]
      /\ job'.st \in {"error", "sent"} /\ (job'.st = "sent" => session \in Logins)
  BY PickerBoundsAssumption DEF Ask, SessionTyped, Logins
<1>5. Known(o, cache[o].data)
  BY <1>1 DEF CopiesInv
<1>6. JobInv'
  BY <1>1, <1>3, <1>4, <1>5 DEF JobInv, Known, Pending
<1>7. QED
  BY <1>2, <1>6

LEMMA ApplyKeeps ==
    ASSUME CopiesInv, JobInv, Apply, RowsGrow
    PROVE  CopiesInv' /\ JobInv'
<1> DEFINE o == job.order
<1>1. /\ o \in Orders /\ cache[o].data # NoData /\ (job.watched => page = o)
      /\ UNCHANGED <<cache, page>>
  BY DEF Apply, JobInv, Pending, pageVars
<1>2. hist[o] \in Seq(OrderRows) /\ DOMAIN hist = Orders
  BY <1>1 DEF CopiesInv
<1>3. Grows /\ Len(hist[o]) \in Nat
  BY <1>1, RowsOnlyGrow
<1>4. CopiesInv'
  BY <1>1, <1>3, GrowthKeeps
<1>5. job' = [job EXCEPT !.st = "done", !.own = Len(hist[o]) + 1]
  BY DEF Apply
<1>6. Len(hist'[o]) = Len(hist[o]) + 1
  <2>1. PICK row : hist' = [hist EXCEPT ![o] = Append(@, row)]
    BY DEF Apply
  <2>2. hist'[o] = Append(hist[o], row)
    BY <1>1, <1>2, <2>1
  <2>3. QED
    BY <1>2, <2>2
<1>7. job'.own \in 1 .. Len(hist'[o]) /\ job'.order = o /\ job'.watched = job.watched
  BY <1>3, <1>5, <1>6 DEF JobInv
<1>8. JobInv'
  <2> HIDE DEF o
  <2>1. job'.st = "done" /\ DOMAIN job' = DOMAIN job
    BY <1>5 DEF JobInv
  <2>2. QED
    BY <1>1, <1>7, <2>1 DEF JobInv, Known, Pending
<1>9. QED
  BY <1>4, <1>8

\* The order's page, which waits for the change, fetches the order anew.
LEMMA OrderInvalidated ==
    ASSUME CopiesInv, JobInv, job.st \in Pending, UNCHANGED <<hist, page>>,
           Invalidate(job.order, TRUE), job' = [job EXCEPT !.st = "detail"]
    PROVE  CopiesInv' /\ JobInv'
<1> DEFINE o == job.order
<1>1. o \in Orders /\ cache[o].data # NoData /\ Known(o, job.own) /\ HasShape(cache[o])
  BY DEF JobInv, CopiesInv
<1>2. Fresh(cache[o], Started(cache[o], session, TRUE))
  BY <1>1, StartedIsFresh
<1>3. CASE o \in Mounted(page)
  <2>1. cache' = [cache EXCEPT ![o] = Started(cache[o], session, TRUE)]
    BY <1>1, <1>3 DEF Invalidate, Invalidated
  <2>2. /\ DOMAIN cache' = Keys
        /\ \A q \in Orders :
             cache'[q] = IF q = o THEN Started(cache[o], session, TRUE) ELSE cache[q]
    BY <1>1, <2>1, ListIsNoOrder, EntryChanges
  <2>3. CopiesInv'
    BY <1>2, <2>2 DEF CopiesInv, Known, Fresh
  <2>4. cache'[o].data # NoData /\ UpToDate(cache'[o], job.own)
    BY <1>1, <1>2, <2>2 DEF Fresh, UpToDate
  <2>5. JobInv'
    BY <1>1, <2>4 DEF JobInv, Known, Pending
  <2>6. QED
    BY <2>3, <2>5
<1>4. CASE o \notin Mounted(page)
  <2>1. UNCHANGED cache
    BY <1>4 DEF Invalidate
  <2>2. ~job.watched
    BY <1>1, <1>4 DEF JobInv, Mounted
  <2>3. CopiesInv'
    BY <2>1 DEF CopiesInv, Known
  <2>4. JobInv'
    BY <1>1, <2>1, <2>2 DEF JobInv, Known, Pending
  <2>5. QED
    BY <2>3, <2>4
<1>5. QED
  BY <1>3, <1>4
-----------------------------------------------------------------------------
(* The theorems. *)

LEMMA PickerStep ==
    ASSUME SessionTyped, CopiesInv, JobInv, [PickerNext]_pickerVars
    PROVE  CopiesInv' /\ JobInv'
<1>1. ASSUME UNCHANGED <<hist, page, cache, job>> PROVE CopiesInv' /\ JobInv'
  BY <1>1 DEF CopiesInv, JobInv, Known
<1>2. CASE Login
  BY <1>2, ShowKeeps DEF Login, shopVars
<1>3. CASE Logout
  BY <1>3, ShowKeeps DEF Logout, shopVars
<1>4. ASSUME NEW p, Go(p) PROVE CopiesInv' /\ JobInv'
  BY <1>4, ShowKeeps DEF Go, shopVars
<1>5. CASE Reload
  <2>1. DOMAIN cache' = Keys /\ job' = NoJob /\ UNCHANGED hist
    BY <1>5 DEF Reload, shopVars
  <2>2. ASSUME NEW o \in Orders PROVE cache'[o] = NoEntry \/ Fresh(NoEntry, cache'[o])
    <3>1. cache'[o] \in {NoEntry, Started(NoEntry, session, FALSE)}
      BY <1>5, ListIsNoOrder DEF Reload, Refetched
    <3>2. QED
      BY <3>1, NoEntryShape, StartedIsFresh
  <2>3. CopiesInv'
    BY <2>1, <2>2, NoEntryShape DEF CopiesInv, Fresh
  <2>4. JobInv'
    BY <2>1 DEF JobInv, NoJob, Pending
  <2>5. QED
    BY <2>3, <2>4
<1>6. CASE Dismiss \/ StreamConnects \/ StreamBreaks
  BY <1>1, <1>6 DEF Dismiss, StreamConnects, StreamBreaks, shopVars
<1>7. ASSUME NEW a, Invalidate("list", a), UNCHANGED <<hist, page>>
      PROVE  /\ CopiesInv'
             /\ DOMAIN cache' = Keys /\ \A o \in Orders : cache'[o] = cache[o]
  <2>1. DOMAIN cache' = Keys /\ \A o \in Orders : cache'[o] = cache[o]
    BY <1>7, ListIsNoOrder DEF Invalidate, CopiesInv
  <2>2. QED
    BY <1>7, <2>1 DEF CopiesInv, Known
<1>8. CASE StreamEvent
  <2>1. Invalidate("list", FALSE) /\ UNCHANGED <<hist, page, job>>
    BY <1>8 DEF StreamEvent, shopVars
  <2>2. QED
    BY <1>7, <2>1, FreshKeeps
<1>9. ASSUME NEW k \in Keys, Refetch(k) PROVE CopiesInv' /\ JobInv'
  <2>1. cache' = [cache EXCEPT ![k] = Started(cache[k], session, FALSE)]
    BY <1>9 DEF Refetch, Refetched
  <2>2. QED
    BY <1>9, <2>1, StartedIsFresh, FreshEntryKeeps DEF Refetch, shopVars, pageVars
<1>10. ASSUME NEW k \in Keys, FetchFails(k) PROVE CopiesInv' /\ JobInv'
  <2>1. PICK f \in Failed(cache[k], session') : cache' = [cache EXCEPT ![k] = f]
    BY <1>10 DEF FetchFails, FailFetch
  <2>2. UNCHANGED <<hist, job, page>>
    BY <1>10 DEF FetchFails, shopVars, pageVars
  <2>3. QED
    BY <2>1, <2>2, FailedIsFresh, FreshEntryKeeps
<1>11. ASSUME NEW k \in Keys, NotThere(k) \/ FetchRefused(k) PROVE CopiesInv' /\ JobInv'
  <2> DEFINE f == [cache[k] EXCEPT !.err = TRUE, !.req = NoFetch]
  <2>1. cache' = [cache EXCEPT ![k] = f] /\ UNCHANGED <<hist, job, page>>
    BY <1>11 DEF NotThere, FetchRefused, shopVars, pageVars
  <2>2. f \in Failed(cache[k], 0)
    BY DEF Failed
  <2> HIDE DEF f
  <2>3. QED
    BY <2>1, <2>2, FailedIsFresh, FreshEntryKeeps
<1>12. ASSUME NEW t, LateAnswer(t) \/ Lapse(t) PROVE CopiesInv' /\ JobInv'
  BY <1>1, <1>12 DEF LateAnswer, Lapse, shopVars, pageVars
<1>13. CASE ChangeFails \/ ChangeRefused
  BY <1>13, JobEnds DEF ChangeFails, ChangeRefused, shopVars, pageVars
<1>14. CASE Confirm
  <2>1. UNCHANGED <<hist, page>> /\ job.st \in Pending /\ job.st = "done"
    BY <1>14 DEF Confirm, shopVars, pageVars, Pending
  <2>2. CASE job.to = Edit
    BY <1>14, <2>1, <2>2, OrderInvalidated DEF Confirm
  <2>3. CASE job.to # Edit
    <3>1. Invalidate("list", TRUE) /\ job' = [job EXCEPT !.st = "list"]
      BY <1>14, <2>3 DEF Confirm
    <3>2. \A o \in Orders : cache'[o] = cache[o]
      BY <1>7, <2>1, <3>1
    <3>3. JobInv'
      BY <2>1, <3>1, <3>2 DEF JobInv, Known, Pending
    <3>4. QED
      BY <1>7, <2>1, <3>1, <3>3
  <2>4. QED
    BY <2>2, <2>3
<1>15. CASE ListSettled
  BY <1>15, OrderInvalidated DEF ListSettled, shopVars, pageVars, Pending
<1>16. CASE DetailSettled
  <2>1. UNCHANGED <<hist, page, cache>> /\ job.st = "detail" /\ job' = Ended("success")
    BY <1>16 DEF DetailSettled, shopVars, pageVars
  <2>2. CopiesInv'
    BY <2>1 DEF CopiesInv, Known
  <2>3. JobInv'
    BY <2>1 DEF JobInv, Ended, NoJob, Known, Pending, UpToDate, Fetching
  <2>4. QED
    BY <2>2, <2>3
<1>17. ASSUME NEW o, CreateOrder(o) \/ OthersChange(o) \/ DeletePicker(o)
       PROVE  CopiesInv' /\ JobInv'
  <2>1. UNCHANGED <<cache, page, job>>
    BY <1>17 DEF CreateOrder, OthersChange, DeletePicker, pageVars
  <2>2. Grows
    BY HistStep, RowsOnlyGrow
  <2>3. QED
    BY <2>1, <2>2, GrowthKeeps
<1>18. CASE UNCHANGED pickerVars
  BY <1>1, <1>18 DEF pickerVars
<1>19. QED
  BY <1>2, <1>3, <1>4, <1>5, <1>6, <1>8, <1>9, <1>10, <1>11, <1>12, <1>13, <1>14, <1>15,
     <1>16, <1>17, <1>18, HistStep, ServeKeeps, AnswerKeeps, AskKeeps, ApplyKeeps
     DEF PickerNext, OpenPage, OpenOrder

LEMMA PickerInvariants == PickerSpec => [](SessionTyped /\ CopiesInv /\ JobInv)
<1>1. PickerInit => CopiesInv /\ JobInv
  <2> SUFFICES ASSUME PickerInit PROVE CopiesInv /\ JobInv
    OBVIOUS
  <2>1. hist \in [Orders -> Seq(OrderRows)]
    <3>1. <<>> \in Seq(OrderRows) /\ \A row \in First : <<row>> \in Seq(OrderRows)
      BY PickerBoundsAssumption
    <3>2. {<<>>} \cup {<<row>> : row \in First} \subseteq Seq(OrderRows)
      BY <3>1
    <3>3. QED
      BY <3>2 DEF PickerInit
  <2>2. CopiesInv
    BY <2>1, NoEntryShape, ListIsNoOrder DEF PickerInit, CopiesInv
  <2>3. JobInv
    BY DEF PickerInit, JobInv, NoJob, Pending
  <2>4. QED
    BY <2>2, <2>3
<1>2. SessionTyped /\ CopiesInv /\ JobInv /\ [PickerNext]_pickerVars => (CopiesInv /\ JobInv)'
  BY PickerStep
<1>3. QED
  BY <1>1, <1>2, PickerSession, PTL DEF PickerSpec

-----------------------------------------------------------------------------
(* Buttons. *)

(* The panel's table and the server's agree on what the panel has buttons for. *)
LEMMA TablesAgree ==
    ASSUME NEW s \in Statuses, NEW to \in PanelTransitions(s) \cap PickerAllowed
    PROVE  s \notin Final /\ IsValidStateTransition(s, to)
<1>1. CASE s = "NEW"
  BY <1>1 DEF PanelTransitions, Final, IsValidStateTransition, Transitions
<1>2. CASE s = "ACCEPTED_BY_PICKER"
  BY <1>2 DEF PanelTransitions, Final, IsValidStateTransition, Transitions
<1>3. CASE s = "NEEDS_CONFIRMATION"
  BY <1>3 DEF PanelTransitions, Final, IsValidStateTransition, Transitions
<1>4. CASE s = "ASSEMBLING"
  BY <1>4 DEF PanelTransitions, Final, IsValidStateTransition, Transitions
<1>5. CASE s = "ASSEMBLED"
  BY <1>5 DEF PanelTransitions, Final, PickerAllowed, IsValidStateTransition, Transitions
<1>6. CASE s \in {"WAITING_COURIER", "COURIER_PICKED_UP", "DELIVERING", "DELIVERED", "CANCELLED"}
  BY <1>6 DEF PanelTransitions, PickerAllowed
<1>7. QED
  BY <1>1, <1>2, <1>3, <1>4, <1>5, <1>6 DEF Statuses

\* An order that was a login's picker's in some version is his in every later one.
OwnerKept ==
    \A o \in Orders, t \in Logins : \A v \in 1 .. Len(hist[o]) :
        hist[o][v].picker = PickerAt[t] => Now(o).picker = PickerAt[t]

LEMMA OwnerStep ==
    ASSUME CopiesInv, OwnerKept, RowsGrow
    PROVE  OwnerKept'
<1> SUFFICES ASSUME NEW o \in Orders, NEW t \in Logins, NEW v \in 1 .. Len(hist'[o]),
                    hist'[o][v].picker = PickerAt[t]
             PROVE  Now(o)'.picker = PickerAt[t]
  BY DEF OwnerKept
<1>1. CASE hist'[o] = hist[o]
  BY <1>1 DEF OwnerKept, Now
<1>2. ASSUME NEW row \in OrderRows, StillHis(o, row), hist'[o] = Append(hist[o], row)
      PROVE  Now(o)'.picker = PickerAt[t]
  <2>1. /\ Len(hist[o]) \in Nat /\ Len(hist'[o]) = Len(hist[o]) + 1
        /\ hist'[o][Len(hist'[o])] = row
        /\ \A i \in 1 .. Len(hist[o]) : hist'[o][i] = hist[o][i]
    BY <1>2, Appended
  <2>2. Now(o)' = row
    BY <2>1 DEF Now
  <2>3. CASE v = Len(hist'[o])
    BY <2>1, <2>2, <2>3
  <2>4. CASE v # Len(hist'[o])
    <3>1. v \in 1 .. Len(hist[o])
      BY <2>1, <2>4
    <3>2. hist[o] # <<>> /\ Now(o).picker = PickerAt[t]
      BY <2>1, <3>1, EmptyHasNone DEF OwnerKept, Known
    <3>3. QED
      BY <1>2, <2>2, <3>2 DEF StillHis
  <2>5. QED
    BY <2>3, <2>4
<1>3. QED
  BY <1>1, <1>2 DEF RowsGrow

(* For any number of orders, pickers and versions: a button is refused only because
   the order's status has changed since, or because another picker has the order,
   which was not shown as the picker's own. *)
THEOREM PickerFreshButtonsWork == PickerSpec => []FreshButtonsWork
<1>1. PickerInit => OwnerKept
  <2> SUFFICES ASSUME PickerInit, NEW o \in Orders, NEW v \in 1 .. Len(hist[o])
               PROVE  hist[o][v] = Now(o)
    BY DEF OwnerKept
  <2>1. hist[o] = <<>> \/ \E row \in First : hist[o] = <<row>>
    BY DEF PickerInit
  <2>2. hist[o] # <<>>
    BY EmptyHasNone DEF Known
  <2>3. PICK row \in First : hist[o] = <<row>>
    BY <2>1, <2>2
  <2>4. QED
    BY <2>3 DEF Now
<1>2. CopiesInv /\ JobInv /\ OwnerKept /\ [PickerNext]_pickerVars => OwnerKept'
  BY HistStep, OwnerStep
<1>3. ASSUME CopiesInv, JobInv, OwnerKept PROVE FreshButtonsWork
  <2> DEFINE o == job.order
             shown == hist[o][job.own]
             me == PickerAt[job.login]
  <2> SUFFICES ASSUME job.st = "sent", job.to # Edit, StoreOf[o] = StoreAt[job.login],
                      Now(o).status = shown.status, ~Legal
               PROVE  Now(o).picker \notin {NoPicker, me} /\ shown.picker # me
    BY DEF FreshButtonsWork
  <2>1. /\ o \in Orders /\ job.own \in 1 .. Len(hist[o]) /\ job.login \in Logins
        /\ job.to \in PanelTransitions(shown.status) \cap PickerAllowed
    BY <1>3 DEF JobInv, Known, Pending
  <2>2. Now(o).status \in Statuses
    BY <1>3, <2>1, NowIsRow, EmptyHasNone DEF Known
  <2>3. Now(o).status \notin Final /\ IsValidStateTransition(Now(o).status, job.to)
    BY <2>1, <2>2, TablesAgree
  <2>4. ~FreeFor(Now(o), me)
    BY <2>3 DEF Legal
  <2>5. shown.picker = me => Now(o).picker = me
    BY <1>3, <2>1 DEF OwnerKept
  <2>6. QED
    BY <2>4, <2>5 DEF FreeFor
<1>4. QED
  BY <1>1, <1>2, <1>3, PickerInvariants, PTL DEF PickerSpec

(* Whatever is refetched, refused, changed by others or left for another page
   meanwhile: no success message stands under a copy that lacks the change. *)
THEOREM PickerSuccessIsShown == PickerSpec => []SuccessIsShown
<1>1. JobInv => SuccessIsShown
  BY DEF JobInv, SuccessIsShown, UpToDate
<1>2. QED
  BY <1>1, PickerInvariants, PTL

-----------------------------------------------------------------------------
(* Types. *)

Fetches(k) == [login : 0 .. logins, got : DataOf(k), awaited : BOOLEAN]
Entries(k) == {e \in [data : DataOf(k), err : BOOLEAN, req : Fetches(k)] :
                 e.req.login = 0 => e.req = NoFetch}

HistTyped ==
    /\ hist \in [Orders -> Seq(OrderRows)]
    /\ \A o \in Orders : Len(hist[o]) <= MaxVersions

\* Of the fetches that are under way each has a login's token.
CopiesTyped ==
    /\ DOMAIN cache = Keys
    /\ \A k \in Keys : cache[k] \in Entries(k)
    /\ late \subseteq 1 .. logins

PageTyped ==
    /\ page \in Pages
    /\ seen \in Lists \cup {NoData}
    /\ alert \in Orders \cup {NoOrder}
    /\ stream \in [st : {"off", "connecting", "open"}, login : 0 .. logins, event : BOOLEAN]

JobTyped ==
    /\ job \in [st : {"idle", "success", "error"} \cup Pending, order : Orders \cup {NoOrder},
                to : PickerAllowed \cup {Edit, ""}, login : 0 .. logins, own : 0 .. MaxVersions,
                watched : BOOLEAN]
    /\ job.st \in Pending => job.order # NoOrder /\ job.login # 0

PickerTypes == HistTyped /\ SessionTyped /\ CopiesTyped /\ PageTyped /\ JobTyped

-----------------------------------------------------------------------------
(* An entry of the cache. *)

LEMMA EntryIs ==
    ASSUME NEW k, NEW e \in Entries(k)
    PROVE  /\ e \in [data : DataOf(k), err : BOOLEAN, req : Fetches(k)]
           /\ e.data \in DataOf(k) /\ e.err \in BOOLEAN /\ e.req \in Fetches(k)
           /\ e.req.login \in 0 .. logins /\ e.req.got \in DataOf(k) /\ e.req.awaited \in BOOLEAN
           /\ e.req.login = 0 => e.req = NoFetch
BY DEF Entries, Fetches

LEMMA NothingThere ==
    ASSUME logins \in Nat, NEW k
    PROVE  NoFetch \in Fetches(k) /\ NoFetch.login = 0 /\ NoEntry \in Entries(k)
<1>1. NoFetch \in Fetches(k) /\ NoFetch.login = 0
  BY DEF NoFetch, Fetches, DataOf
<1>2. NoData \in DataOf(k)
  BY DEF DataOf
<1>3. QED
  BY <1>1, <1>2 DEF NoEntry, Entries

LEMMA EndedTyped ==
    ASSUME logins \in Nat, NEW k, NEW e \in Entries(k)
    PROVE  [e EXCEPT !.err = TRUE, !.req = NoFetch] \in Entries(k)
<1>1. e \in [data : DataOf(k), err : BOOLEAN, req : Fetches(k)] /\ NoFetch \in Fetches(k)
  BY EntryIs, NothingThere
<1>2. QED
  BY <1>1 DEF Entries

LEMMA StartedTyped ==
    ASSUME logins \in Nat, NEW s \in {0, logins}, NEW k, NEW e \in Entries(k),
           NEW a \in BOOLEAN
    PROVE  Started(e, s, a) \in Entries(k)
<1>1. e \in [data : DataOf(k), err : BOOLEAN, req : Fetches(k)]
  BY EntryIs
<1>2. CASE s = 0
  BY <1>2, EndedTyped DEF Started
<1>3. CASE s # 0
  <2>1. PICK r : r = [login |-> s, got |-> NoData, awaited |-> a]
    OBVIOUS
  <2>2. r \in Fetches(k) /\ r.login # 0
    BY <1>3, <2>1 DEF Fetches, DataOf
  <2>3. Started(e, s, a) = [e EXCEPT !.req = r]
    BY <1>3, <2>1 DEF Started
  <2>4. QED
    BY <1>1, <2>2, <2>3 DEF Entries
<1>4. QED
  BY <1>2, <1>3

LEMMA StartedLater ==
    ASSUME logins' \in Nat, NEW s \in {0, logins'}, NEW k, NEW e \in Entries(k)',
           NEW a \in BOOLEAN
    PROVE  Started(e, s, a) \in Entries(k)'
<1>1. e \in [data : DataOf(k), err : BOOLEAN, req : Fetches(k)'] /\ NoFetch \in Fetches(k)'
  BY DEF Entries, NoFetch, Fetches, DataOf
<1>2. CASE s = 0
  BY <1>1, <1>2 DEF Started, Entries
<1>3. CASE s # 0
  <2>1. PICK r : r = [login |-> s, got |-> NoData, awaited |-> a]
    OBVIOUS
  <2>2. r \in Fetches(k)' /\ r.login # 0
    BY <1>3, <2>1 DEF Fetches, DataOf
  <2>3. Started(e, s, a) = [e EXCEPT !.req = r]
    BY <1>3, <2>1 DEF Started
  <2>4. QED
    BY <1>1, <2>2, <2>3 DEF Entries
<1>4. QED
  BY <1>2, <1>3

LEMMA NoJobTyped ==
    /\ NoJob.st = "idle" /\ "idle" \notin Pending
    /\ \A n \in Nat :
         NoJob \in [st : {"idle", "success", "error"} \cup Pending, order : Orders \cup {NoOrder},
                   to : PickerAllowed \cup {Edit, ""}, login : 0 .. n, own : 0 .. MaxVersions,
                   watched : BOOLEAN]
BY PickerBoundsAssumption DEF NoJob, Pending

LEMMA AwaitedTyped ==
    ASSUME NEW k, NEW e \in Entries(k), Fetching(e), NEW a \in BOOLEAN
    PROVE  [e EXCEPT !.req.awaited = @ \/ a] \in Entries(k)
<1>1. /\ e \in [data : DataOf(k), err : BOOLEAN, req : Fetches(k)]
      /\ e.req \in Fetches(k) /\ e.req.login # 0
  BY EntryIs DEF Fetching
<1>2. PICK b \in BOOLEAN : b = (e.req.awaited \/ a)
  OBVIOUS
<1>3. PICK r : r = [e.req EXCEPT !.awaited = b]
  OBVIOUS
<1>4. r \in Fetches(k) /\ r.login # 0
  BY <1>1, <1>3 DEF Fetches
<1>5. [e EXCEPT !.req.awaited = @ \/ a] = [e EXCEPT !.req = r]
  BY <1>1, <1>2, <1>3
<1>6. QED
  BY <1>1, <1>4, <1>5 DEF Entries

LEMMA InvalidatedTyped ==
    ASSUME logins \in Nat, session \in {0, logins}, NEW k, NEW e \in Entries(k),
           NEW a \in BOOLEAN
    PROVE  Invalidated(e, session, a) \in Entries(k)
BY AwaitedTyped, StartedTyped DEF Invalidated

LEMMA GivenUpTyped ==
    ASSUME logins \in Nat, NEW k, NEW e \in Entries(k)
    PROVE  GivenUp(e) \subseteq 1 .. logins
BY EntryIs DEF GivenUp, Fetching

\* An answer that has come is put into the entry.
LEMMA GotTyped ==
    ASSUME NEW k, NEW e \in Entries(k), Fetching(e), NEW d \in DataOf(k)
    PROVE  [e EXCEPT !.req.got = d] \in Entries(k)
<1>1. /\ e \in [data : DataOf(k), err : BOOLEAN, req : Fetches(k)]
      /\ e.req \in Fetches(k) /\ e.req.login # 0
  BY EntryIs DEF Fetching
<1>2. PICK r : r = [e.req EXCEPT !.got = d]
  OBVIOUS
<1>3. r \in Fetches(k) /\ r.login # 0
  BY <1>1, <1>2 DEF Fetches
<1>4. [e EXCEPT !.req.got = d] = [e EXCEPT !.req = r]
  BY <1>1, <1>2
<1>5. QED
  BY <1>1, <1>3, <1>4 DEF Entries

LEMMA DataTyped ==
    ASSUME logins \in Nat, NEW k, NEW d \in DataOf(k), NEW e, e = [NoEntry EXCEPT !.data = d]
    PROVE  e \in Entries(k)
<1>1. NoEntry \in [data : DataOf(k), err : BOOLEAN, req : Fetches(k)] /\ NoEntry.req = NoFetch
  BY NothingThere, EntryIs DEF NoEntry
<1>2. QED
  BY <1>1 DEF Entries

LEMMA CopiesAre ==
    ASSUME CopiesTyped, NEW k \in Keys, NEW e \in Entries(k), cache' = [cache EXCEPT ![k] = e]
    PROVE  DOMAIN cache' = Keys /\ \A q \in Keys : cache'[q] \in Entries(q)
BY DEF CopiesTyped

-----------------------------------------------------------------------------
(* Steps. *)

LEMMA HistTypesStep ==
    ASSUME HistTyped, CopiesInv, RowsGrow
    PROVE  HistTyped'
<1>1. hist' \in [Orders -> Seq(OrderRows)]
  BY RowsOnlyGrow DEF Grows
<1>2. ASSUME NEW o \in Orders PROVE Len(hist'[o]) <= MaxVersions
  <2>1. CASE hist'[o] = hist[o]
    BY <2>1 DEF HistTyped
  <2>2. ASSUME NEW row \in OrderRows, Len(hist[o]) < MaxVersions,
               hist'[o] = Append(hist[o], row)
        PROVE  Len(hist'[o]) <= MaxVersions
    <3>1. Len(hist[o]) \in Nat /\ Len(hist'[o]) = Len(hist[o]) + 1 /\ MaxVersions \in Nat
      BY <2>2, Appended, PickerBoundsAssumption
    <3>2. QED
      BY <2>2, <3>1
  <2>3. QED
    BY <2>1, <2>2 DEF RowsGrow
<1>3. QED
  BY <1>1, <1>2 DEF HistTyped

(* A step that makes no login: the tokens in the cache stay made logins'. *)
LEMMA SameLogins ==
    ASSUME logins' = logins PROVE \A k : Entries(k)' = Entries(k)
BY DEF Entries, Fetches

LEMMA MoreLogins ==
    ASSUME logins \in Nat, logins' \in Nat, logins <= logins', NEW k
    PROVE  Entries(k) \subseteq Entries(k)'
<1>1. Fetches(k) \subseteq Fetches(k)'
  BY DEF Fetches
<1>2. QED
  BY <1>1 DEF Entries

(* A page is shown. *)
LEMMA ShowTyped ==
    ASSUME PickerTypes, NEW s, logins' \in Nat, logins <= logins', s \in {0, logins'},
           NEW p \in Pages, Show(p, s)
    PROVE  CopiesTyped' /\ PageTyped' /\ JobTyped'
<1>0. /\ logins \in Nat /\ DOMAIN cache = Keys /\ \A k \in Keys : cache[k] \in Entries(k)
      /\ late \subseteq 1 .. logins
  BY PickerBoundsAssumption DEF PickerTypes, CopiesTyped, SessionTyped
<1>1. CopiesTyped'
  <2> DEFINE left == [k \in Keys |-> IF k = "list" THEN cache[k]
                                    ELSE [NoEntry EXCEPT !.data = cache[k].data]]
  <2>1. PICK again \in SUBSET Mounted(p) :
          cache' = [k \in Keys |-> IF k \in again THEN Refetched(left[k], s) ELSE left[k]]
    BY DEF Show
  <2>2. ASSUME NEW k \in Keys PROVE left[k] \in Entries(k)
    <3>1. CASE k = "list"
      BY <1>0, <3>1
    <3>2. CASE k # "list"
      <4>1. left[k] = [NoEntry EXCEPT !.data = cache[k].data]
        BY <3>2
      <4>2. cache[k].data \in DataOf(k)
        BY <1>0, EntryIs
      <4> HIDE DEF left
      <4>3. QED
        BY <1>0, <4>1, <4>2, DataTyped
    <3>3. QED
      BY <3>1, <3>2
  <2> HIDE DEF left
  <2>3. ASSUME NEW k \in Keys PROVE cache'[k] \in Entries(k)'
    <3>1. left[k] \in Entries(k)'
      BY <1>0, <2>2, MoreLogins
    <3>2. Refetched(left[k], s) \in Entries(k)'
      <4>1. CASE Fetching(left[k])
        BY <3>1, <4>1 DEF Refetched
      <4>2. CASE ~Fetching(left[k])
        <5>1. Refetched(left[k], s) = Started(left[k], s, FALSE)
          BY <4>2 DEF Refetched
        <5>2. QED
          BY <3>1, <5>1, StartedLater
      <4>3. QED
        BY <4>1, <4>2
    <3>3. QED
      BY <2>1, <3>1, <3>2
  <2>4. late' \subseteq 1 .. logins'
    <3>1. \A k \in Orders : GivenUp(cache[k]) \subseteq 1 .. logins
      BY <1>0, ListIsNoOrder, GivenUpTyped
    <3>2. late' = late \cup UNION {GivenUp(cache[k]) : k \in Orders}
      BY DEF Show
    <3>3. late' \subseteq 1 .. logins
      BY <1>0, <3>1, <3>2
    <3>4. 1 .. logins \subseteq 1 .. logins'
      BY <1>0
    <3>5. QED
      BY <3>3, <3>4
  <2>5. DOMAIN cache' = Keys
    BY <2>1
  <2>6. QED
    BY <2>3, <2>4, <2>5 DEF CopiesTyped
<1>2. PageTyped'
  <2>1. seen' \in Lists \cup {NoData}
    <3>1. cache["list"].data \in DataOf("list")
      BY <1>0, EntryIs DEF Keys
    <3>2. QED
      BY <3>1 DEF Show, DataOf
  <2>2. stream' \in [st : {"off", "connecting", "open"}, login : 0 .. logins', event : BOOLEAN]
    <3>1. NoStream \in [st : {"off", "connecting", "open"}, login : 0 .. logins', event : BOOLEAN]
      BY DEF NoStream
    <3>2. QED
      BY <3>1 DEF Show
  <2>3. QED
    BY <2>1, <2>2 DEF Show, PageTyped
<1>3. JobTyped'
  <2>1. CASE job.st \in Pending
    <3>1. job' = [job EXCEPT !.watched = FALSE]
      BY <2>1 DEF Show
    <3>2. 0 .. logins \subseteq 0 .. logins'
      BY <1>0
    <3>3. QED
      BY <3>1, <3>2 DEF JobTyped, PickerTypes
  <2>2. CASE job.st \notin Pending
    <3>1. job' = NoJob
      BY <2>2 DEF Show
    <3>2. QED
      BY <3>1, NoJobTyped DEF JobTyped
  <2>3. QED
    BY <2>1, <2>2
<1>4. QED
  BY <1>1, <1>2, <1>3

(* Every step but those that show another page. *)
OnThePage ==
    \/ Reload \/ Dismiss \/ StreamConnects \/ StreamEvent \/ StreamBreaks
    \/ \E o \in Orders : CreateOrder(o) \/ OthersChange(o)
    \/ \E p \in Pickers : DeletePicker(p)
    \/ \E k \in Keys :
         \/ Refetch(k) \/ Serve(k) \/ Answer(k)
         \/ FetchFails(k) \/ NotThere(k) \/ FetchRefused(k)
    \/ \E t \in Logins : LateAnswer(t) \/ Lapse(t)
    \/ \E o \in Orders : \E to \in PickerAllowed \cup {Edit} : Ask(o, to)
    \/ Apply \/ ChangeFails \/ ChangeRefused \/ Confirm \/ ListSettled \/ DetailSettled
    \/ UNCHANGED pickerVars

LEMMA NobodyLogsIn == OnThePage => logins' = logins
<1>1. \A t : Answered401(t) => logins' = logins
  BY DEF Answered401, sessionVars
<1>2. QED
  BY <1>1 DEF OnThePage, Reload, Dismiss, StreamConnects, StreamEvent, StreamBreaks, CreateOrder,
       OthersChange, DeletePicker, Refetch, Serve, Answer, FetchFails, NotThere, FetchRefused, LateAnswer, Lapse, Ask, Apply,
       ChangeFails, ChangeRefused, Confirm, ListSettled, DetailSettled, sessionVars, pickerVars

(* The entries of the cache, and the fetches nobody waits for. *)
LEMMA CopiesTypesStep ==
    ASSUME PickerTypes, SessionTyped', OnThePage, logins' = logins
    PROVE  CopiesTyped'
<1>0. /\ logins \in Nat /\ session \in {0, logins} /\ session' \in {0, logins}
      /\ DOMAIN cache = Keys /\ \A k \in Keys : cache[k] \in Entries(k)
      /\ late \subseteq 1 .. logins /\ "list" \in Keys
  BY PickerBoundsAssumption DEF PickerTypes, CopiesTyped, SessionTyped, Keys
<1>1. ASSUME DOMAIN cache' = Keys, \A k \in Keys : cache'[k] \in Entries(k),
             late' \subseteq 1 .. logins
      PROVE  CopiesTyped'
  BY <1>1, SameLogins DEF CopiesTyped
<1>2. ASSUME NEW k \in Keys, NEW e \in Entries(k), cache' = [cache EXCEPT ![k] = e],
             late' \subseteq 1 .. logins
      PROVE  CopiesTyped'
  <2>1. DOMAIN cache' = Keys /\ \A q \in Keys : cache'[q] \in Entries(q)
    BY <1>2, CopiesAre DEF PickerTypes
  <2>2. QED
    BY <1>1, <1>2, <2>1
<1>3. ASSUME UNCHANGED cache, late' \subseteq late PROVE CopiesTyped'
  BY <1>0, <1>1, <1>3
<1>4. ASSUME NEW k \in Keys, NEW a \in BOOLEAN, Invalidate(k, a) PROVE CopiesTyped'
  <2>1. CASE k \in Mounted(page)
    <3>1. /\ cache' = [cache EXCEPT ![k] = Invalidated(cache[k], session, a)]
          /\ late' = late \cup IF cache[k].data = NoData THEN {} ELSE GivenUp(cache[k])
      BY <1>4, <2>1 DEF Invalidate
    <3>2. Invalidated(cache[k], session, a) \in Entries(k) /\ GivenUp(cache[k]) \subseteq 1 .. logins
      BY <1>0, InvalidatedTyped, GivenUpTyped
    <3>3. late' \subseteq 1 .. logins
      BY <1>0, <3>1, <3>2
    <3>4. QED
      BY <1>2, <3>1, <3>2, <3>3
  <2>2. CASE k \notin Mounted(page)
    BY <1>3, <1>4, <2>2 DEF Invalidate
  <2>3. QED
    BY <2>1, <2>2
<1>5. CASE Reload
  <2>1. late' = {} /\ cache' = [k \in Keys |-> IF k \in Mounted(page')
                                              THEN Refetched(NoEntry, session) ELSE NoEntry]
    BY <1>5 DEF Reload
  <2>2. ASSUME NEW k \in Keys PROVE NoEntry \in Entries(k) /\ Refetched(NoEntry, session) \in Entries(k)
    BY <1>0, NothingThere, StartedTyped DEF Refetched
  <2>3. QED
    BY <1>1, <2>1, <2>2
<1>6. ASSUME NEW k \in Keys, Refetch(k) PROVE CopiesTyped'
  <2>1. cache' = [cache EXCEPT ![k] = Started(cache[k], session, FALSE)] /\ late' = late
    BY <1>6 DEF Refetch, Refetched
  <2>2. Started(cache[k], session, FALSE) \in Entries(k)
    BY <1>0, StartedTyped
  <2>3. QED
    BY <1>0, <1>2, <2>1, <2>2
<1>7. ASSUME NEW k \in Keys, Serve(k) PROVE CopiesTyped'
  <2>1. PICK rows : rows = [o \in Orders |-> IF StoreOf[o] = StoreAt[cache[k].req.login]
                                            THEN Len(hist[o]) ELSE 0]
    OBVIOUS
  <2>2. rows \in Lists
    <3>1. ASSUME NEW o \in Orders PROVE Len(hist[o]) \in 0 .. MaxVersions
      <4>1. hist[o] \in Seq(OrderRows) /\ Len(hist[o]) <= MaxVersions /\ MaxVersions \in Nat
        BY PickerBoundsAssumption DEF PickerTypes, HistTyped
      <4>2. QED
        BY <4>1
    <3>2. 0 \in 0 .. MaxVersions
      BY PickerBoundsAssumption
    <3>3. QED
      BY <2>1, <3>1, <3>2 DEF Lists
  <2>3. PICK d : /\ d \in DataOf(k) /\ Fetching(cache[k]) /\ late' = late
                 /\ cache' = [cache EXCEPT ![k].req.got = d]
    <3>1. CASE k = "list"
      BY <1>7, <2>1, <2>2, <3>1 DEF Serve, DataOf
    <3>2. CASE k # "list"
      <4>1. k \in Orders /\ rows[k] \in 0 .. MaxVersions
        BY <2>2, <3>2 DEF Keys, Lists
      <4>2. /\ rows[k] > 0 /\ Fetching(cache[k]) /\ late' = late
            /\ cache' = [cache EXCEPT ![k].req.got = rows[k]]
        BY <1>7, <2>1, <3>2 DEF Serve
      <4>3. rows[k] \in DataOf(k)
        BY <3>2, <4>1, <4>2, PickerBoundsAssumption DEF DataOf
      <4>4. QED
        BY <4>2, <4>3
    <3>3. QED
      BY <3>1, <3>2
  <2>4. PICK e : e = [cache[k] EXCEPT !.req.got = d]
    OBVIOUS
  <2>5. e \in Entries(k)
    BY <1>0, <2>3, <2>4, GotTyped
  <2>6. cache' = [cache EXCEPT ![k] = e]
    BY <2>3, <2>4
  <2>7. QED
    BY <1>0, <1>2, <2>3, <2>5, <2>6
<1>8. ASSUME NEW k \in Keys, Answer(k) PROVE CopiesTyped'
  <2>1. PICK e : e = [NoEntry EXCEPT !.data = cache[k].req.got]
    OBVIOUS
  <2>2. cache' = [cache EXCEPT ![k] = e] /\ late' = late
    BY <1>8, <2>1 DEF Answer
  <2>3. cache[k].req.got \in DataOf(k)
    BY <1>0, EntryIs
  <2>4. e \in Entries(k)
    BY <1>0, <2>1, <2>3, DataTyped
  <2>5. QED
    BY <1>0, <1>2, <2>2, <2>4
<1>9. ASSUME NEW k \in Keys, FetchFails(k) PROVE CopiesTyped'
  <2>1. PICK e \in Failed(cache[k], session') : cache' = [cache EXCEPT ![k] = e]
    BY <1>9 DEF FetchFails, FailFetch
  <2>2. e \in Entries(k)
    <3>1. [cache[k] EXCEPT !.err = TRUE, !.req = NoFetch] \in Entries(k)
      BY <1>0, EndedTyped
    <3>2. cache[k].req.awaited \in BOOLEAN
      BY <1>0, EntryIs
    <3>3. Started(cache[k], session', cache[k].req.awaited) \in Entries(k)
      BY <1>0, <3>2, StartedTyped
    <3>4. QED
      BY <2>1, <3>1, <3>3 DEF Failed
  <2>3. late' = late
    BY <1>9 DEF FetchFails
  <2>4. QED
    BY <1>0, <1>2, <2>1, <2>2, <2>3
<1>10. ASSUME NEW k \in Keys, NotThere(k) \/ FetchRefused(k) PROVE CopiesTyped'
  <2>1. PICK e : e = [cache[k] EXCEPT !.err = TRUE, !.req = NoFetch]
    OBVIOUS
  <2>2. cache' = [cache EXCEPT ![k] = e] /\ late' = late
    BY <1>10, <2>1 DEF NotThere, FetchRefused
  <2>3. e \in Entries(k)
    BY <1>0, <2>1, EndedTyped
  <2>4. QED
    BY <1>0, <1>2, <2>2, <2>3
<1>11. ASSUME NEW t, LateAnswer(t) PROVE CopiesTyped'
  BY <1>3, <1>11 DEF LateAnswer
<1>12. CASE StreamEvent
  BY <1>0, <1>4, <1>12 DEF StreamEvent
<1>13. CASE Confirm \/ ListSettled
  <2>1. job.st \in Pending /\ job.order \in Orders
    BY <1>13 DEF Confirm, ListSettled, Pending, PickerTypes, JobTyped
  <2>2. job.order \in Keys
    BY <2>1 DEF Keys
  <2>3. QED
    BY <1>0, <1>4, <1>13, <2>2 DEF Confirm, ListSettled
<1>14. ASSUME UNCHANGED <<cache, late>> PROVE CopiesTyped'
  BY <1>3, <1>14
<1>17. ASSUME NEW o, \/ CreateOrder(o) \/ OthersChange(o) \/ DeletePicker(o)
                     \/ \E t : Lapse(t)
                     \/ \E to : Ask(o, to)
       PROVE  CopiesTyped'
  BY <1>14, <1>17 DEF CreateOrder, OthersChange, DeletePicker, Lapse, Ask
<1>18. CASE \/ Dismiss \/ StreamConnects \/ StreamBreaks
            \/ Apply \/ ChangeFails \/ ChangeRefused \/ DetailSettled \/ UNCHANGED pickerVars
  BY <1>14, <1>18 DEF Dismiss, StreamConnects, StreamBreaks, Apply, ChangeFails, ChangeRefused,
                      DetailSettled, pickerVars
<1>19. QED
  BY <1>5, <1>6, <1>7, <1>8, <1>9, <1>10, <1>11, <1>12, <1>13, <1>17, <1>18
     DEF OnThePage

(* What the page keeps. *)
LEMMA PageTypesStep ==
    ASSUME PickerTypes, SessionTyped', OnThePage, logins' = logins
    PROVE  PageTyped'
<1>0. /\ page \in Pages /\ seen \in Lists \cup {NoData} /\ alert \in Orders \cup {NoOrder}
      /\ stream \in [st : {"off", "connecting", "open"}, login : 0 .. logins, event : BOOLEAN]
      /\ session \in 0 .. logins /\ 0 \in 0 .. logins
  <2>1. logins \in Nat /\ session \in {0, logins}
    BY PickerBoundsAssumption DEF PickerTypes, SessionTyped
  <2>2. session \in 0 .. logins /\ 0 \in 0 .. logins
    BY <2>1
  <2>3. QED
    BY <2>2 DEF PickerTypes, PageTyped
<1>1. ASSUME page' \in Pages, seen' \in Lists \cup {NoData}, alert' \in Orders \cup {NoOrder},
             stream' \in [st : {"off", "connecting", "open"}, login : 0 .. logins, event : BOOLEAN]
      PROVE  PageTyped'
  BY <1>1 DEF PageTyped
<1>2. /\ NoStream \in [st : {"off", "connecting", "open"}, login : 0 .. logins, event : BOOLEAN]
      /\ \A x \in {"off", "connecting"} :
           [NoStream EXCEPT !.st = x]
             \in [st : {"off", "connecting", "open"}, login : 0 .. logins, event : BOOLEAN]
  <2>1. NoStream \in [st : {"off", "connecting", "open"}, login : 0 .. logins, event : BOOLEAN]
    BY <1>0 DEF NoStream
  <2>2. QED
    BY <2>1
<1>3. ASSUME NEW e \in BOOLEAN, stream' = [stream EXCEPT !.event = e]
      PROVE  stream' \in [st : {"off", "connecting", "open"}, login : 0 .. logins, event : BOOLEAN]
  BY <1>0, <1>3
<1>4. CASE Reload
  BY <1>0, <1>1, <1>2, <1>4 DEF Reload, Pages
<1>5. ASSUME NEW k \in Keys, Answer(k) PROVE PageTyped'
  <2>1. UNCHANGED <<page, stream>>
    BY <1>5 DEF Answer
  <2>2. CASE k = "list" /\ page = "orders"
    <3>1. cache[k].req.got \in Lists
      <4>1. cache[k].req.got \in DataOf("list") /\ cache[k].req.got # NoData
        BY <1>5, <2>2, EntryIs DEF Answer, PickerTypes, CopiesTyped
      <4>2. QED
        BY <4>1 DEF DataOf
    <3>2. seen' = cache[k].req.got /\ alert' \in Orders \cup {alert}
      BY <1>5, <2>2 DEF Answer, Compare
    <3>3. QED
      BY <1>0, <1>1, <2>1, <3>1, <3>2
  <2>3. CASE ~(k = "list" /\ page = "orders")
    BY <1>0, <1>1, <1>5, <2>1, <2>3 DEF Answer
  <2>4. QED
    BY <2>2, <2>3
<1>6. CASE Dismiss
  BY <1>0, <1>1, <1>6 DEF Dismiss
<1>7. CASE StreamConnects
  <2>1. stream' = NoStream \/ stream' = [st |-> "open", login |-> session, event |-> FALSE]
    BY <1>7 DEF StreamConnects
  <2>2. stream' \in [st : {"off", "connecting", "open"}, login : 0 .. logins, event : BOOLEAN]
    <3>1. [st |-> "open", login |-> session, event |-> FALSE]
            \in [st : {"off", "connecting", "open"}, login : 0 .. logins, event : BOOLEAN]
      BY <1>0
    <3>2. CASE stream' = NoStream
      BY <1>2, <3>2
    <3>3. QED
      BY <2>1, <3>1, <3>2
  <2>3. QED
    BY <1>0, <1>1, <1>7, <2>2 DEF StreamConnects
<1>8. CASE StreamEvent
  BY <1>0, <1>1, <1>3, <1>8 DEF StreamEvent
<1>9. CASE StreamBreaks
  BY <1>0, <1>1, <1>2, <1>9 DEF StreamBreaks
<1>10. ASSUME NEW o, Notified(o), UNCHANGED <<page, seen, alert>> PROVE PageTyped'
  <2>1. PICK e \in BOOLEAN :
          e = (stream.event \/ (stream.st = "open" /\ StoreAt[stream.login] = StoreOf[o]))
    OBVIOUS
  <2>2. stream' = [stream EXCEPT !.event = e]
    BY <1>10, <2>1 DEF Notified
  <2>3. QED
    BY <1>0, <1>1, <1>3, <1>10, <2>2
<1>11. ASSUME UNCHANGED <<page, seen, alert, stream>> PROVE PageTyped'
  BY <1>0, <1>1, <1>11
<1>12. CASE Apply
  BY <1>11, <1>12 DEF Apply, pageVars
<1>13. ASSUME NEW o, CreateOrder(o) \/ OthersChange(o) \/ DeletePicker(o) PROVE PageTyped'
  BY <1>10, <1>11, <1>13 DEF CreateOrder, OthersChange, DeletePicker, pageVars
<1>15. ASSUME NEW k, Refetch(k) \/ Serve(k) \/ FetchFails(k) \/ NotThere(k) \/ FetchRefused(k)
       PROVE  PageTyped'
  BY <1>11, <1>15 DEF Refetch, Serve, FetchFails, NotThere, FetchRefused, pageVars
<1>16. ASSUME NEW t, LateAnswer(t) \/ Lapse(t) \/ \E to : Ask(t, to) PROVE PageTyped'
  BY <1>11, <1>16 DEF LateAnswer, Lapse, Ask, pageVars
<1>17. CASE ChangeFails \/ ChangeRefused \/ Confirm \/ ListSettled \/ DetailSettled
            \/ UNCHANGED pickerVars
  BY <1>11, <1>17 DEF ChangeFails, ChangeRefused, Confirm, ListSettled, DetailSettled, pageVars,
                      pickerVars
<1>18. QED
  BY <1>4, <1>5, <1>6, <1>7, <1>8, <1>9, <1>12, <1>13, <1>15, <1>16, <1>17
     DEF OnThePage

(* The change under way. *)
LEMMA JobTypesStep ==
    ASSUME PickerTypes, OnThePage, logins' = logins
    PROVE  JobTyped'
<1> DEFINE Jobs == [st : {"idle", "success", "error"} \cup Pending, order : Orders \cup {NoOrder},
                    to : PickerAllowed \cup {Edit, ""}, login : 0 .. logins,
                    own : 0 .. MaxVersions, watched : BOOLEAN]
<1>0. /\ job \in Jobs /\ (job.st \in Pending => job.order # NoOrder /\ job.login # 0)
      /\ logins \in Nat /\ session \in 0 .. logins
      /\ job.order \in Orders \cup {NoOrder} /\ job.own \in 0 .. MaxVersions
  <2>1. logins \in Nat /\ session \in {0, logins}
    BY PickerBoundsAssumption DEF PickerTypes, SessionTyped
  <2>2. session \in 0 .. logins
    BY <2>1
  <2>3. job \in Jobs /\ (job.st \in Pending => job.order # NoOrder /\ job.login # 0)
    BY DEF PickerTypes, JobTyped
  <2>4. QED
    BY <2>1, <2>2, <2>3
<1>1. ASSUME job' \in Jobs, job'.st \in Pending => job'.order # NoOrder /\ job'.login # 0
      PROVE  JobTyped'
  BY <1>1 DEF JobTyped
<1>2. ASSUME NEW x \in {"idle", "success", "error"} \cup Pending, NEW n \in 0 .. MaxVersions,
             job' = [job EXCEPT !.st = x, !.own = n], job.st \in Pending
      PROVE  JobTyped'
  <2>1. job' \in Jobs /\ job'.order = job.order /\ job'.login = job.login
    BY <1>0, <1>2
  <2>2. QED
    BY <1>0, <1>1, <1>2, <2>1
<1>3. ASSUME NEW x \in {"success", "error"} \cup Pending, job' = [job EXCEPT !.st = x],
             job.st \in Pending
      PROVE  JobTyped'
  <2>1. job' \in Jobs /\ job'.order = job.order /\ job'.login = job.login
    BY <1>0, <1>3
  <2>2. QED
    BY <1>0, <1>1, <1>3, <2>1
<1>4. ASSUME job' = NoJob PROVE JobTyped'
  BY <1>0, <1>1, <1>4, NoJobTyped
<1>5. ASSUME UNCHANGED job PROVE JobTyped'
  BY <1>0, <1>1, <1>5
<1>6. ASSUME NEW x \in {"success", "error"}, job' = Ended(x), job.st \in Pending PROVE JobTyped'
  BY <1>3, <1>4, <1>6 DEF Ended
<1>7. CASE Reload
  BY <1>4, <1>7 DEF Reload
<1>8. ASSUME NEW o \in Orders, NEW to \in PickerAllowed \cup {Edit}, Ask(o, to) PROVE JobTyped'
  <2>1. cache[o].data \in 1 .. MaxVersions
    <3>1. cache[o].data \in DataOf(o) /\ cache[o].data # NoData
      BY <1>8, EntryIs, ListIsNoOrder DEF Ask, PickerTypes, CopiesTyped
    <3>2. QED
      BY <3>1, ListIsNoOrder DEF DataOf
  <2>2. PICK x : x = IF session = 0 THEN "error" ELSE "sent"
    OBVIOUS
  <2>3. job' = [st |-> x, order |-> o, to |-> to, login |-> session, own |-> cache[o].data,
                watched |-> TRUE]
    BY <1>8, <2>2 DEF Ask
  <2>4. x \in {"error"} \cup Pending /\ (x \in Pending => session # 0)
    BY <2>2 DEF Pending
  <2>7. PICK v : v = cache[o].data
    OBVIOUS
  <2>8. v \in 0 .. MaxVersions
    BY <2>1, <2>7
  <2>9. job' = [st |-> x, order |-> o, to |-> to, login |-> session, own |-> v, watched |-> TRUE]
    BY <2>3, <2>7
  <2>5. job' \in Jobs /\ job'.st = x /\ job'.order = o /\ job'.login = session
    <3>1. x \in {"idle", "success", "error"} \cup Pending /\ to \in PickerAllowed \cup {Edit, ""}
      BY <2>4
    <3>2. QED
      BY <1>0, <2>8, <2>9, <3>1
  <2>6. QED
    BY <1>1, <2>4, <2>5, OrdersAssumption
<1>9. CASE Apply
  <2>1. job.st \in Pending /\ job.order \in Orders /\ Len(hist[job.order]) < MaxVersions
    BY <1>0, <1>9 DEF Apply, Pending
  <2>2. Len(hist[job.order]) \in Nat /\ MaxVersions \in Nat
    BY <2>1, PickerBoundsAssumption DEF PickerTypes, HistTyped
  <2>3. Len(hist[job.order]) + 1 \in 0 .. MaxVersions
    BY <2>1, <2>2
  <2>4. job' = [job EXCEPT !.st = "done", !.own = Len(hist[job.order]) + 1]
    BY <1>9 DEF Apply
  <2>5. QED
    BY <1>2, <2>1, <2>3, <2>4 DEF Pending
<1>10. CASE ChangeFails \/ ChangeRefused
  BY <1>6, <1>10 DEF ChangeFails, ChangeRefused, Pending
<1>11. CASE Confirm \/ ListSettled
  <2>1. job.st \in Pending /\ \E x \in Pending : job' = [job EXCEPT !.st = x]
    BY <1>11 DEF Confirm, ListSettled, Pending
  <2>2. QED
    BY <1>3, <2>1
<1>12. CASE DetailSettled
  BY <1>6, <1>12 DEF DetailSettled, Pending
<1>14. ASSUME NEW k, Refetch(k) \/ Serve(k) \/ Answer(k) \/ FetchFails(k) \/ NotThere(k)
                      \/ FetchRefused(k) \/ LateAnswer(k) \/ Lapse(k)
                      \/ CreateOrder(k) \/ OthersChange(k) \/ DeletePicker(k)
       PROVE  JobTyped'
  BY <1>5, <1>14 DEF Refetch, Serve, Answer, FetchFails, NotThere, FetchRefused, LateAnswer,
                     Lapse, CreateOrder, OthersChange, DeletePicker
<1>15. CASE Dismiss \/ StreamConnects \/ StreamEvent \/ StreamBreaks \/ UNCHANGED pickerVars
  BY <1>5, <1>15 DEF Dismiss, StreamConnects, StreamEvent, StreamBreaks, pickerVars
<1>16. QED
  BY <1>7, <1>8, <1>9, <1>10, <1>11, <1>12, <1>14, <1>15 DEF OnThePage

LEMMA PickerTypesStep ==
    ASSUME PickerTypes, CopiesInv, JobInv, [PickerNext]_pickerVars
    PROVE  PickerTypes'
<1>1. HistTyped' /\ SessionTyped' /\ logins' \in Nat /\ logins <= logins'
  BY HistStep, HistTypesStep, SessionStep DEF PickerTypes
<1>2. session' \in {0, logins'} /\ session \in {0, logins} /\ page \in Pages
  BY <1>1 DEF SessionTyped, PickerTypes, PageTyped
<1>3. ASSUME NEW p \in Pages, NEW s \in {0, logins'}, Show(p, s) PROVE PickerTypes'
  BY <1>1, <1>3, ShowTyped DEF PickerTypes
<1>4. CASE Login
  BY <1>1, <1>2, <1>3, <1>4 DEF Login, Pages
<1>5. CASE Logout
  BY <1>3, <1>5 DEF Logout, Pages
<1>6. ASSUME NEW p \in Orders \cup {"orders", "other"}, Go(p) PROVE PickerTypes'
  <2>1. Show(IF session = 0 THEN "login" ELSE p, session) /\ logins' = logins
    BY <1>6 DEF Go, sessionVars
  <2>2. QED
    BY <1>2, <1>3, <2>1 DEF Pages
<1>7. CASE OnThePage
  BY <1>1, <1>7, NobodyLogsIn, CopiesTypesStep, PageTypesStep, JobTypesStep DEF PickerTypes
<1>8. QED
  BY <1>4, <1>5, <1>6, <1>7 DEF PickerNext, OnThePage, OpenPage, OpenOrder

LEMMA PickerTypesInit == PickerInit => PickerTypes
<1> SUFFICES ASSUME PickerInit PROVE PickerTypes
  OBVIOUS
<1>1. HistTyped
  <2>1. /\ <<>> \in Seq(OrderRows) /\ \A x \in First : <<x>> \in Seq(OrderRows)
        /\ Len(<<>>) = 0 /\ \A x \in First : Len(<<x>>) = 1
    BY PickerBoundsAssumption
  <2>2. 0 <= MaxVersions /\ 1 <= MaxVersions
    BY PickerBoundsAssumption
  <2>3. hist \in [Orders -> {<<>>} \cup {<<row>> : row \in First}]
    BY DEF PickerInit
  <2>4. \A o \in Orders : hist[o] \in Seq(OrderRows) /\ Len(hist[o]) <= MaxVersions
    BY <2>1, <2>2, <2>3
  <2>5. QED
    BY <2>3, <2>4 DEF HistTyped
<1>2. logins = 0 /\ logins \in Nat
  BY DEF PickerInit
<1>3. SessionTyped
  <2>1. 0 \in 0 .. MaxLogins /\ 0 \in 0 .. MaxFaults
    BY PickerBoundsAssumption
  <2>2. QED
    BY <2>1 DEF PickerInit, SessionTyped
<1>4. CopiesTyped
  BY <1>2, NothingThere DEF PickerInit, CopiesTyped
<1>5. PageTyped
  BY <1>2 DEF PickerInit, PageTyped, NoStream, Pages
<1>6. JobTyped
  BY <1>2, NoJobTyped DEF PickerInit, JobTyped
<1>7. QED
  BY <1>1, <1>3, <1>4, <1>5, <1>6 DEF PickerTypes

(* Types: for any number of orders, logins and failures; in particular no fetch is
   under way without the token of a login that was made, and no change either. *)
THEOREM PickerTyped == PickerSpec => []PickerTypeOK
<1>1. PickerInit => PickerTypes
  BY PickerTypesInit
<1>2. PickerTypes /\ CopiesInv /\ JobInv /\ [PickerNext]_pickerVars => PickerTypes'
  BY PickerTypesStep
<1>3. ASSUME PickerTypes PROVE PickerTypeOK
  <2>1. HistTyped /\ SessionTyped /\ CopiesTyped /\ PageTyped /\ JobTyped
    BY <1>3 DEF PickerTypes
  <2>2. lapsed \subseteq Logins
    BY <2>1, PickerBoundsAssumption DEF SessionTyped, Logins
  <2>3. ASSUME NEW k \in Keys
        PROVE  /\ cache[k].data \in DataOf(k)
               /\ cache[k].err \in BOOLEAN
               /\ cache[k].req \in [login : 0 .. logins, got : DataOf(k), awaited : BOOLEAN]
               /\ cache[k].req.login = 0 => cache[k].req = NoFetch
    BY <2>1, EntryIs DEF CopiesTyped, Fetches
  <2>4. /\ job.st \in {"idle", "success", "error"} \cup Pending
        /\ job.order \in Orders \cup {NoOrder}
        /\ job.own \in 0 .. MaxVersions
        /\ job.st \in Pending => job.order # NoOrder /\ job.login \in 1 .. logins
    <3>4. logins \in Nat
      BY <2>1, PickerBoundsAssumption DEF SessionTyped
    <3>1. /\ job.login \in 0 .. logins
          /\ job.st \in {"idle", "success", "error"} \cup Pending
          /\ job.order \in Orders \cup {NoOrder}
          /\ job.own \in 0 .. MaxVersions
          /\ job.st \in Pending => job.order # NoOrder /\ job.login # 0
      BY <2>1 DEF JobTyped
    <3>2. job.login # 0 => job.login \in 1 .. logins
      BY <3>1, <3>4
    <3>3. QED
      BY <3>1, <3>2
  <2>5. QED
    BY <2>1, <2>2, <2>3, <2>4 DEF PickerTypeOK, HistTyped, SessionTyped, CopiesTyped, PageTyped
<1>4. QED
  BY <1>1, <1>2, <1>3, PickerInvariants, PTL DEF PickerSpec

-----------------------------------------------------------------------------
(* Answers never go back. *)

\* The version of order o in the data d of key k: 0 when it says nothing of it.
Version(k, d, o) ==
    IF d = NoData THEN 0 ELSE IF k = "list" THEN d[o] ELSE IF k = o THEN d ELSE 0

\* A step replaces what is shown of an order by the same version, a newer one or none.
NeverGoesBack ==
    \A k \in Keys, o \in Orders :
        \/ Version(k, cache'[k].data, o) = 0
        \/ Version(k, cache'[k].data, o) >= Version(k, cache[k].data, o)

\* An answer on its way is not older than the copy that it will replace, and
\* neither is newer than the row.
InOrder(k) ==
    \A o \in Orders :
        LET v == Version(k, cache[k].data, o)
            g == Version(k, cache[k].req.got, o)
        IN  v \in 0 .. Len(hist[o]) /\ g \in 0 .. Len(hist[o]) /\ (g = 0 \/ g >= v)

\* The server has read the rows for entry k, those of the store that asks.
Read(k, d) ==
    \A o \in Orders : Version(k, d, o) \in {0, Len(hist[o])}

\* What a step may make of an entry: nothing to its data and its answer, or both
\* are dropped, or the fetch is, or it is answered by the server, or delivered.
Moves(k, e, f) ==
    \/ f.data = e.data /\ f.req.got = e.req.got
    \/ f.data \in {e.data, NoData} /\ f.req.got = NoData
    \/ f.data = e.data /\ Read(k, f.req.got)
    \/ f.data = e.req.got /\ f.req.got = NoData

LEMMA EntryShape ==
    ASSUME PickerTypes, NEW k \in Keys
    PROVE  HasShape(cache[k])
BY EntryIs DEF PickerTypes, CopiesTyped, HasShape, Fetches

LEMMA FreshMoves ==
    ASSUME NEW k, NEW e, NEW f, Fresh(e, f) PROVE Moves(k, e, f)
BY DEF Fresh, Moves

LEMMA InvalidatedMoves ==
    ASSUME NEW k, NEW e, HasShape(e), NEW s, NEW a
    PROVE  Moves(k, e, Invalidated(e, s, a))
<1>1. CASE Fetching(e) /\ e.data = NoData
  <2>1. Invalidated(e, s, a) = [e EXCEPT !.req.awaited = @ \/ a]
    BY <1>1 DEF Invalidated
  <2>2. QED
    BY <2>1 DEF HasShape, Moves
<1>2. CASE ~(Fetching(e) /\ e.data = NoData)
  BY <1>2, StartedIsFresh, FreshMoves DEF Invalidated
<1>3. QED
  BY <1>1, <1>2

\* A page is shown: fetches are given up, or started, and the copies stay.
LEMMA ShowMoves ==
    ASSUME PickerTypes, NEW p, NEW s, Show(p, s), NEW k \in Keys
    PROVE  Moves(k, cache[k], cache'[k])
<1> DEFINE left == [q \in Keys |-> IF q = "list" THEN cache[q]
                                  ELSE [NoEntry EXCEPT !.data = cache[q].data]]
<1>1. PICK again \in SUBSET Mounted(p) :
        cache' = [q \in Keys |-> IF q \in again THEN Refetched(left[q], s) ELSE left[q]]
  BY DEF Show
<1>2. /\ HasShape(left[k]) /\ left[k].data = cache[k].data
      /\ left[k].req.got \in {cache[k].req.got, NoData}
  BY EntryShape, NoEntryShape DEF HasShape
<1> HIDE DEF left
<1>3. cache'[k] \in {left[k], Started(left[k], s, FALSE)}
  BY <1>1 DEF Refetched
<1>4. Fresh(left[k], Started(left[k], s, FALSE))
  BY <1>2, StartedIsFresh
<1>5. QED
  BY <1>2, <1>3, <1>4 DEF Fresh, Moves

LEMMA ServeMoves ==
    ASSUME PickerTypes, NEW k \in Keys, Serve(k)
    PROVE  Moves(k, cache[k], cache'[k])
<1>1. HasShape(cache[k]) /\ DOMAIN cache = Keys
  BY EntryShape DEF PickerTypes, CopiesTyped
<1>2. PICK rows : rows = [o \in Orders |-> IF StoreOf[o] = StoreAt[cache[k].req.login]
                                          THEN Len(hist[o]) ELSE 0]
  OBVIOUS
<1>3. PICK d : cache' = [cache EXCEPT ![k].req.got = d] /\ Read(k, d)
  <2>1. CASE k = "list"
    BY <1>2, <2>1 DEF Serve, Read, Version
  <2>2. CASE k # "list"
    BY <1>2, <2>2 DEF Serve, Read, Version, Keys
  <2>3. QED
    BY <2>1, <2>2
<1>4. PICK e : e = [cache[k] EXCEPT !.req.got = d]
  OBVIOUS
<1>5. cache'[k] = e
  BY <1>1, <1>3, <1>4
<1>6. e.data = cache[k].data /\ e.req.got = d
  BY <1>1, <1>4 DEF HasShape
<1>7. QED
  BY <1>3, <1>5, <1>6 DEF Moves

\* What the steps on a page do to the entries.
LEMMA PageMoves ==
    ASSUME PickerTypes, OnThePage, NEW k \in Keys
    PROVE  Moves(k, cache[k], cache'[k])
<1>0. HasShape(cache[k]) /\ DOMAIN cache = Keys
  BY EntryShape DEF PickerTypes, CopiesTyped
<1>1. ASSUME NEW q \in Keys, NEW e, cache' = [cache EXCEPT ![q] = e],
             q = k => Moves(k, cache[k], e)
      PROVE  Moves(k, cache[k], cache'[k])
  BY <1>0, <1>1 DEF Moves
<1>2. ASSUME UNCHANGED cache PROVE Moves(k, cache[k], cache'[k])
  BY <1>2 DEF Moves
<1>3. ASSUME NEW q \in Keys, NEW a, Invalidate(q, a) PROVE Moves(k, cache[k], cache'[k])
  <2>1. CASE q \in Mounted(page)
    <3>1. cache' = [cache EXCEPT ![q] = Invalidated(cache[q], session, a)]
      BY <1>3, <2>1 DEF Invalidate
    <3>2. QED
      BY <1>0, <1>1, <3>1, InvalidatedMoves
  <2>2. CASE q \notin Mounted(page)
    BY <1>2, <1>3, <2>2 DEF Invalidate
  <2>3. QED
    BY <2>1, <2>2
<1>4. CASE Reload
  <2>1. cache'[k] \in {NoEntry, Started(NoEntry, session, FALSE)}
    BY <1>4 DEF Reload, Refetched
  <2>2. Fresh(NoEntry, Started(NoEntry, session, FALSE))
    BY NoEntryShape, StartedIsFresh
  <2>3. QED
    BY <2>1, <2>2, NoEntryShape DEF Fresh, Moves
<1>5. ASSUME NEW q \in Keys, Refetch(q) PROVE Moves(k, cache[k], cache'[k])
  <2>1. cache' = [cache EXCEPT ![q] = Started(cache[q], session, FALSE)]
    BY <1>5 DEF Refetch, Refetched
  <2>2. QED
    BY <1>0, <1>1, <2>1, StartedIsFresh, FreshMoves
<1>6. ASSUME NEW q \in Keys, Serve(q) PROVE Moves(k, cache[k], cache'[k])
  <2>1. CASE q = k
    BY <1>6, <2>1, ServeMoves
  <2>2. CASE q # k
    <3>1. cache'[k] = cache[k]
      BY <1>0, <1>6, <2>2 DEF Serve
    <3>2. QED
      BY <3>1 DEF Moves
  <2>3. QED
    BY <2>1, <2>2
<1>7. ASSUME NEW q \in Keys, Answer(q) PROVE Moves(k, cache[k], cache'[k])
  <2>1. PICK e : e = [NoEntry EXCEPT !.data = cache[q].req.got]
    OBVIOUS
  <2>2. cache' = [cache EXCEPT ![q] = e]
    BY <1>7, <2>1 DEF Answer
  <2>3. e.data = cache[q].req.got /\ e.req.got = NoData
    BY <2>1, NoEntryShape DEF HasShape
  <2>4. QED
    BY <1>1, <2>2, <2>3 DEF Moves
<1>8. ASSUME NEW q \in Keys, FetchFails(q) PROVE Moves(k, cache[k], cache'[k])
  <2>1. PICK e \in Failed(cache[q], session') : cache' = [cache EXCEPT ![q] = e]
    BY <1>8 DEF FetchFails, FailFetch
  <2>2. q = k => Moves(k, cache[k], e)
    BY <1>0, <2>1, FailedIsFresh, FreshMoves
  <2>3. QED
    BY <1>1, <2>1, <2>2
<1>9. ASSUME NEW q \in Keys, NotThere(q) \/ FetchRefused(q) PROVE Moves(k, cache[k], cache'[k])
  <2>1. PICK e : e = [cache[q] EXCEPT !.err = TRUE, !.req = NoFetch]
    OBVIOUS
  <2>2. cache' = [cache EXCEPT ![q] = e]
    BY <1>9, <2>1 DEF NotThere, FetchRefused
  <2>3. q = k => e.data = cache[k].data /\ e.req.got = NoData
    BY <1>0, <2>1, NoEntryShape DEF HasShape
  <2>4. QED
    BY <1>1, <2>2, <2>3 DEF Moves
<1>10. CASE StreamEvent
  BY <1>3, <1>10 DEF StreamEvent, Keys
<1>11. CASE Confirm \/ ListSettled
  <2>1. job.st \in Pending /\ job.order \in Orders
    BY <1>11 DEF Confirm, ListSettled, Pending, PickerTypes, JobTyped
  <2>2. job.order \in Keys /\ "list" \in Keys
    BY <2>1 DEF Keys
  <2>3. \E q \in {job.order, "list"} : Invalidate(q, TRUE)
    BY <1>11 DEF Confirm, ListSettled
  <2>4. QED
    BY <1>3, <2>2, <2>3
<1>12. ASSUME NEW o, \/ CreateOrder(o) \/ OthersChange(o) \/ DeletePicker(o)
                     \/ \E t : Lapse(t) \/ LateAnswer(t)
                     \/ \E to : Ask(o, to)
       PROVE  Moves(k, cache[k], cache'[k])
  BY <1>2, <1>12 DEF CreateOrder, OthersChange, DeletePicker, Lapse, LateAnswer, Ask
<1>13. CASE \/ Dismiss \/ StreamConnects \/ StreamBreaks
            \/ Apply \/ ChangeFails \/ ChangeRefused \/ DetailSettled \/ UNCHANGED pickerVars
  BY <1>2, <1>13 DEF Dismiss, StreamConnects, StreamBreaks, Apply, ChangeFails, ChangeRefused,
                     DetailSettled, pickerVars
<1>14. QED
  BY <1>4, <1>5, <1>6, <1>7, <1>8, <1>9, <1>10, <1>11, <1>12, <1>13 DEF OnThePage

LEMMA EveryStepMoves ==
    ASSUME PickerTypes, [PickerNext]_pickerVars, NEW k \in Keys
    PROVE  Moves(k, cache[k], cache'[k])
<1>1. OnThePage \/ \E p, s : Show(p, s)
  BY DEF PickerNext, OnThePage, Login, Logout, OpenPage, OpenOrder, Go
<1>2. QED
  BY <1>1, PageMoves, ShowMoves

\* One entry of the cache: order is kept, and what is shown does not go back.
LEMMA EntryForward ==
    ASSUME NEW k \in Keys, InOrder(k), Moves(k, cache[k], cache'[k]), NEW o \in Orders,
           Len(hist[o]) \in Nat, Len(hist'[o]) \in Nat, Len(hist[o]) <= Len(hist'[o])
    PROVE  LET v == Version(k, cache[k].data, o)
               w == Version(k, cache'[k].data, o)
               g == Version(k, cache'[k].req.got, o)
           IN  /\ w = 0 \/ w >= v
               /\ w \in 0 .. Len(hist'[o]) /\ g \in 0 .. Len(hist'[o]) /\ (g = 0 \/ g >= w)
<1> DEFINE v == Version(k, cache[k].data, o)
           u == Version(k, cache[k].req.got, o)
           w == Version(k, cache'[k].data, o)
           g == Version(k, cache'[k].req.got, o)
<1>1. v \in 0 .. Len(hist[o]) /\ u \in 0 .. Len(hist[o]) /\ (u = 0 \/ u >= v)
  BY DEF InOrder
<1>2. Version(k, NoData, o) = 0
  BY DEF Version
<1>3. \/ w = v /\ g = u
      \/ w \in {v, 0} /\ g = 0
      \/ w = v /\ g \in {0, Len(hist[o])}
      \/ w = u /\ g = 0
  BY <1>2 DEF Moves, Read
<1> HIDE DEF v, u, w, g
<1>4. /\ w = 0 \/ w >= v
      /\ w \in 0 .. Len(hist'[o]) /\ g \in 0 .. Len(hist'[o]) /\ (g = 0 \/ g >= w)
  BY <1>1, <1>3
<1>5. QED
  BY <1>4 DEF v, w, g

Forward == \A k \in Keys : InOrder(k)

(* Whatever is asked for anew, given up or answered late, across pages, logins and
   failures: the list and the details on the screen never fall back to an older
   version of an order.  The cache has one fetch per key whose answer it takes, and
   starts it after the copy it has was answered. *)
THEOREM PickerScreenNeverGoesBack == PickerSpec => [][NeverGoesBack]_pickerVars
<1>1. PickerInit => PickerTypes
  BY PickerTypesInit
<1>2. PickerTypes /\ CopiesInv /\ JobInv /\ [PickerNext]_pickerVars => PickerTypes'
  BY PickerTypesStep
<1>3. PickerInit => Forward
  <2> SUFFICES ASSUME PickerInit, NEW k \in Keys, NEW o \in Orders
               PROVE  /\ Version(k, cache[k].data, o) = 0 /\ Version(k, cache[k].req.got, o) = 0
                      /\ 0 \in 0 .. Len(hist[o])
    BY DEF Forward, InOrder
  <2>1. cache[k] = NoEntry
    BY DEF PickerInit
  <2>2. hist[o] \in Seq(OrderRows)
    BY PickerTypesInit DEF PickerTypes, HistTyped
  <2>3. QED
    BY <2>1, <2>2, NoEntryShape DEF Version
<1>4. ASSUME PickerTypes, CopiesInv, JobInv, Forward, [PickerNext]_pickerVars
      PROVE  Forward' /\ NeverGoesBack
  <2>1. ASSUME NEW k \in Keys, NEW o \in Orders
        PROVE  LET v == Version(k, cache[k].data, o)
                   w == Version(k, cache'[k].data, o)
                   g == Version(k, cache'[k].req.got, o)
               IN  /\ w = 0 \/ w >= v
                   /\ w \in 0 .. Len(hist'[o]) /\ g \in 0 .. Len(hist'[o]) /\ (g = 0 \/ g >= w)
    BY <1>4, EveryStepMoves, HistStep, RowsOnlyGrow, EntryForward DEF Forward
  <2>2. QED
    BY <2>1 DEF Forward, InOrder, NeverGoesBack
<1>5. QED
  BY <1>1, <1>2, <1>3, <1>4, PickerInvariants, PTL DEF PickerSpec

-----------------------------------------------------------------------------
(* Whose requests are on their way. *)

\* The fetch of f, if there is one that has no answer, has a token of this moment
\* or the one that e's fetch, which had no answer either, had.
Carries(e, f) ==
    \A t \in GivenUp(f) : t \in GivenUp(e) \cup {session, session'}

LEMMA NothingCarries ==
    ASSUME NEW e, NEW f, f.req = NoFetch
    PROVE  Carries(e, f)
BY DEF Carries, GivenUp, Fetching

LEMMA StartedCarries ==
    ASSUME NEW d, NEW e, HasShape(e), NEW s \in {session, session'}, NEW a
    PROVE  Carries(d, Started(e, s, a))
<1>1. CASE s = 0
  <2>1. Started(e, s, a).req = NoFetch
    BY <1>1 DEF Started, HasShape
  <2>2. QED
    BY <2>1, NothingCarries
<1>2. CASE s # 0
  <2>1. Started(e, s, a).req.login = s
    BY <1>2 DEF Started, HasShape
  <2>2. QED
    BY <2>1 DEF Carries, GivenUp
<1>3. QED
  BY <1>1, <1>2

LEMMA InvalidatedCarries ==
    ASSUME NEW e, HasShape(e), NEW a
    PROVE  Carries(e, Invalidated(e, session, a))
<1>1. CASE Fetching(e) /\ e.data = NoData
  <2>1. PICK f : f = [e EXCEPT !.req.awaited = @ \/ a]
    OBVIOUS
  <2>2. f.req.login = e.req.login /\ f.req.got = e.req.got
    BY <2>1 DEF HasShape
  <2>3. Carries(e, f)
    BY <1>1, <2>2 DEF Carries, GivenUp
  <2>4. QED
    BY <1>1, <2>1, <2>3 DEF Invalidated
<1>2. CASE ~(Fetching(e) /\ e.data = NoData)
  BY <1>2, StartedCarries DEF Invalidated
<1>3. QED
  BY <1>1, <1>2

LEMMA ShowCarries ==
    ASSUME PickerTypes, NEW p, NEW s \in {session, session'}, Show(p, s), NEW k \in Keys
    PROVE  Carries(cache[k], cache'[k])
<1> DEFINE left == [q \in Keys |-> IF q = "list" THEN cache[q]
                                  ELSE [NoEntry EXCEPT !.data = cache[q].data]]
<1>1. PICK again \in SUBSET Mounted(p) :
        cache' = [q \in Keys |-> IF q \in again THEN Refetched(left[q], s) ELSE left[q]]
  BY DEF Show
<1>2. HasShape(left[k]) /\ (left[k] = cache[k] \/ left[k].req = NoFetch)
  BY EntryShape, NoEntryShape DEF HasShape
<1> HIDE DEF left
<1>3. Carries(cache[k], left[k]) /\ Carries(cache[k], Started(left[k], s, FALSE))
  BY <1>2, NothingCarries, StartedCarries DEF Carries
<1>4. cache'[k] \in {left[k], Started(left[k], s, FALSE)}
  BY <1>1 DEF Refetched
<1>5. QED
  BY <1>3, <1>4

LEMMA PageCarries ==
    ASSUME PickerTypes, OnThePage, NEW k \in Keys
    PROVE  Carries(cache[k], cache'[k])
<1>0. HasShape(cache[k]) /\ DOMAIN cache = Keys
  BY EntryShape DEF PickerTypes, CopiesTyped
<1>1. ASSUME NEW q \in Keys, NEW e, cache' = [cache EXCEPT ![q] = e],
             q = k => Carries(cache[k], e)
      PROVE  Carries(cache[k], cache'[k])
  BY <1>0, <1>1 DEF Carries
<1>2. ASSUME UNCHANGED cache PROVE Carries(cache[k], cache'[k])
  BY <1>2 DEF Carries
<1>3. ASSUME NEW q \in Keys, NEW a, Invalidate(q, a) PROVE Carries(cache[k], cache'[k])
  <2>1. CASE q \in Mounted(page)
    <3>1. cache' = [cache EXCEPT ![q] = Invalidated(cache[q], session, a)]
      BY <1>3, <2>1 DEF Invalidate
    <3>2. QED
      BY <1>0, <1>1, <3>1, InvalidatedCarries
  <2>2. CASE q \notin Mounted(page)
    BY <1>2, <1>3, <2>2 DEF Invalidate
  <2>3. QED
    BY <2>1, <2>2
<1>4. CASE Reload
  <2>1. cache'[k] \in {NoEntry, Started(NoEntry, session, FALSE)}
    BY <1>4 DEF Reload, Refetched
  <2>2. QED
    BY <2>1, NoEntryShape, NothingCarries, StartedCarries
<1>5. ASSUME NEW q \in Keys, Refetch(q) PROVE Carries(cache[k], cache'[k])
  <2>1. cache' = [cache EXCEPT ![q] = Started(cache[q], session, FALSE)]
    BY <1>5 DEF Refetch, Refetched
  <2>2. QED
    BY <1>0, <1>1, <2>1, StartedCarries
<1>6. ASSUME NEW q \in Keys, Serve(q) PROVE Carries(cache[k], cache'[k])
  <2>1. PICK d : cache' = [cache EXCEPT ![q].req.got = d]
    BY <1>6 DEF Serve
  <2>2. PICK e : e = [cache[q] EXCEPT !.req.got = d]
    OBVIOUS
  <2>3. cache' = [cache EXCEPT ![q] = e]
    BY <2>1, <2>2
  <2>4. q = k => Carries(cache[k], e)
    <3>1. ASSUME q = k PROVE e.req.login = cache[k].req.login
      BY <1>0, <2>2, <3>1 DEF HasShape
    <3>2. q = k => Fetching(cache[k]) /\ cache[k].req.got = NoData
      BY <1>6 DEF Serve
    <3>3. QED
      BY <3>1, <3>2 DEF Carries, GivenUp
  <2>5. QED
    BY <1>1, <2>3, <2>4
<1>7. ASSUME NEW q \in Keys, Answer(q) PROVE Carries(cache[k], cache'[k])
  <2>1. PICK e : e = [NoEntry EXCEPT !.data = cache[q].req.got]
    OBVIOUS
  <2>2. cache' = [cache EXCEPT ![q] = e] /\ e.req = NoFetch
    BY <1>7, <2>1, NoEntryShape DEF Answer, HasShape
  <2>3. QED
    BY <1>1, <2>2, NothingCarries
<1>8. ASSUME NEW q \in Keys, FetchFails(q) PROVE Carries(cache[k], cache'[k])
  <2>1. PICK e \in Failed(cache[q], session') : cache' = [cache EXCEPT ![q] = e]
    BY <1>8 DEF FetchFails, FailFetch
  <2>2. CASE e = [cache[q] EXCEPT !.err = TRUE, !.req = NoFetch]
    <3>1. q = k => e.req = NoFetch
      BY <1>0, <2>2 DEF HasShape
    <3>2. QED
      BY <1>1, <2>1, <3>1, NothingCarries
  <2>3. CASE e = Started(cache[q], session', cache[q].req.awaited)
    <3>1. q = k => Carries(cache[k], e)
      BY <1>0, <2>3, StartedCarries
    <3>2. QED
      BY <1>1, <2>1, <3>1
  <2>4. QED
    BY <2>1, <2>2, <2>3 DEF Failed
<1>9. ASSUME NEW q \in Keys, NotThere(q) \/ FetchRefused(q) PROVE Carries(cache[k], cache'[k])
  <2>1. PICK e : e = [cache[q] EXCEPT !.err = TRUE, !.req = NoFetch]
    OBVIOUS
  <2>2. cache' = [cache EXCEPT ![q] = e]
    BY <1>9, <2>1 DEF NotThere, FetchRefused
  <2>3. q = k => e.req = NoFetch
    BY <1>0, <2>1 DEF HasShape
  <2>4. QED
    BY <1>1, <2>2, <2>3, NothingCarries
<1>10. CASE StreamEvent
  BY <1>3, <1>10 DEF StreamEvent, Keys
<1>11. CASE Confirm \/ ListSettled
  <2>1. job.st \in Pending /\ job.order \in Orders
    BY <1>11 DEF Confirm, ListSettled, Pending, PickerTypes, JobTyped
  <2>2. job.order \in Keys /\ "list" \in Keys
    BY <2>1 DEF Keys
  <2>3. \E q \in {job.order, "list"} : Invalidate(q, TRUE)
    BY <1>11 DEF Confirm, ListSettled
  <2>4. QED
    BY <1>3, <2>2, <2>3
<1>12. ASSUME NEW o, \/ CreateOrder(o) \/ OthersChange(o) \/ DeletePicker(o)
                     \/ \E t : Lapse(t) \/ LateAnswer(t)
                     \/ \E to : Ask(o, to)
       PROVE  Carries(cache[k], cache'[k])
  BY <1>2, <1>12 DEF CreateOrder, OthersChange, DeletePicker, Lapse, LateAnswer, Ask
<1>13. CASE \/ Dismiss \/ StreamConnects \/ StreamBreaks
            \/ Apply \/ ChangeFails \/ ChangeRefused \/ DetailSettled \/ UNCHANGED pickerVars
  BY <1>2, <1>13 DEF Dismiss, StreamConnects, StreamBreaks, Apply, ChangeFails, ChangeRefused,
                     DetailSettled, pickerVars
<1>14. QED
  BY <1>4, <1>5, <1>6, <1>7, <1>8, <1>9, <1>10, <1>11, <1>12, <1>13 DEF OnThePage

\* Nobody waits for a fetch any more, only if somebody did.
LEMMA LateKept ==
    ASSUME [PickerNext]_pickerVars
    PROVE  late' \subseteq late \cup UNION {GivenUp(cache[k]) : k \in Keys}
<1>1. ASSUME NEW p, NEW s, Show(p, s)
      PROVE  late' \subseteq late \cup UNION {GivenUp(cache[k]) : k \in Keys}
  BY <1>1 DEF Show, Keys
<1>2. ASSUME late' \subseteq late
      PROVE  late' \subseteq late \cup UNION {GivenUp(cache[k]) : k \in Keys}
  BY <1>2
<1>3. ASSUME NEW k, NEW a, Invalidate(k, a)
      PROVE  late' \subseteq late \cup UNION {GivenUp(cache[q]) : q \in Keys}
  <2>1. CASE k \in Mounted(page)
    <3>1. k \in Keys
      BY <2>1 DEF Mounted, Keys
    <3>2. late' \subseteq late \cup GivenUp(cache[k])
      BY <1>3, <2>1 DEF Invalidate
    <3>3. QED
      BY <3>1, <3>2
  <2>2. CASE k \notin Mounted(page)
    BY <1>3, <2>2 DEF Invalidate
  <2>3. QED
    BY <2>1, <2>2
<1>4. CASE StreamEvent \/ Confirm \/ ListSettled
  BY <1>3, <1>4 DEF StreamEvent, Confirm, ListSettled
<1>5. late' \subseteq late \/ StreamEvent \/ Confirm \/ ListSettled \/ \E p, s : Show(p, s)
  BY DEF PickerNext, Login, Logout, Reload, Dismiss, StreamConnects, StreamBreaks, OpenPage,
         OpenOrder, Go, CreateOrder, OthersChange, DeletePicker, Refetch, Serve, Answer,
         FetchFails, NotThere, FetchRefused, LateAnswer, Lapse, Ask, Apply, ChangeFails,
         ChangeRefused, DetailSettled, pickerVars
<1>6. QED
  BY <1>1, <1>2, <1>4, <1>5

\* A change that is sent is the one that was, or is sent now.
LEMMA JobKept ==
    ASSUME PickerTypes, [PickerNext]_pickerVars, job'.st = "sent"
    PROVE  (job.st = "sent" /\ job'.login = job.login) \/ job'.login = session
<1>0. {"st", "order", "own", "login", "watched"} \subseteq DOMAIN job
  BY DEF PickerTypes, JobTyped
<1>1. CASE UNCHANGED job
  BY <1>1
<1>2. ASSUME NEW p, NEW s, Show(p, s) PROVE job.st = "sent" /\ job'.login = job.login
  <2>1. job' # NoJob
    <3>1. NoJob.st = "idle"
      BY DEF NoJob
    <3>2. job'.st = "sent"
      OBVIOUS
    <3>3. QED
      BY <3>1, <3>2
  <2>2. job' = [job EXCEPT !.watched = FALSE]
    BY <1>2, <2>1 DEF Show
  <2>3. QED
    BY <1>0, <2>2
<1>3. ASSUME NEW how \in {"error", "success"}, job' = Ended(how) PROVE FALSE
  BY <1>0, <1>3 DEF Ended, NoJob
<1>4. ASSUME NEW o, NEW to, Ask(o, to) PROVE job'.login = session
  BY <1>4 DEF Ask
<1>5. CASE Reload
  BY <1>5 DEF Reload, NoJob
<1>6. CASE Apply
  <2>1. PICK n : job' = [job EXCEPT !.st = "done", !.own = n]
    BY <1>6 DEF Apply
  <2>2. QED
    BY <1>0, <2>1
<1>7. CASE Confirm \/ ListSettled
  <2>1. PICK x \in {"list", "detail"} : job' = [job EXCEPT !.st = x]
    BY <1>7 DEF Confirm, ListSettled
  <2>2. QED
    BY <1>0, <2>1
<1>8. CASE ChangeFails \/ ChangeRefused \/ DetailSettled
  BY <1>3, <1>8 DEF ChangeFails, ChangeRefused, DetailSettled
<1>9. \/ UNCHANGED job \/ Reload \/ Apply \/ Confirm \/ ListSettled
      \/ ChangeFails \/ ChangeRefused \/ DetailSettled
      \/ (\E p, s : Show(p, s)) \/ \E o, to : Ask(o, to)
  BY DEF PickerNext, Login, Logout, Dismiss, StreamConnects, StreamEvent, StreamBreaks, OpenPage,
         OpenOrder, Go, CreateOrder, OthersChange, DeletePicker, Refetch, Serve, Answer,
         FetchFails, NotThere, FetchRefused, LateAnswer, Lapse, pickerVars
<1>10. QED
  BY <1>1, <1>2, <1>4, <1>5, <1>6, <1>7, <1>8, <1>9

\* No request takes a token that is neither the session's nor on its way already.
LEMMA NoNewTokens ==
    ASSUME PickerTypes, [PickerNext]_pickerVars
    PROVE  Unanswered' \subseteq Unanswered \cup {session, session'}
<1>1. ASSUME NEW k \in Keys PROVE GivenUp(cache[k])' \subseteq Unanswered \cup {session, session'}
  <2>1. OnThePage \/ \E p : \E s \in {session, session'} : Show(p, s)
    BY DEF PickerNext, OnThePage, Login, Logout, OpenPage, OpenOrder, Go
  <2>2. Carries(cache[k], cache'[k])
    BY <2>1, PageCarries, ShowCarries
  <2>3. GivenUp(cache[k])' = GivenUp(cache'[k])
    BY DEF GivenUp, Fetching
  <2>4. QED
    BY <2>2, <2>3 DEF Carries, Unanswered
<1>2. late' \subseteq Unanswered
  BY LateKept DEF Unanswered
<1>3. ASSUME NEW t \in Logins, job'.st = "sent", job'.login = t
      PROVE  t \in Unanswered \cup {session}
  BY <1>3, JobKept DEF Unanswered
<1>4. QED
  BY <1>1, <1>2, <1>3 DEF Unanswered

\* A session that ends without the picker's leaving ends with a refused token.
LEMMA SessionEnds ==
    ASSUME JobInv, [PickerNext]_pickerVars, session # 0
    PROVE  \/ session' = session
           \/ session' = 0 /\ (page' = "login" \/ Unanswered \cap lapsed # {})
<1>1. ASSUME NEW t \in Unanswered, Answered401(t)
      PROVE  session' = session \/ (session' = 0 /\ Unanswered \cap lapsed # {})
  BY <1>1 DEF Answered401, EndsSession
<1>2. ASSUME NEW k \in Keys, FetchRefused(k) PROVE \E t \in Unanswered : Answered401(t)
  <2>1. cache[k].req.login \in Unanswered
    BY <1>2 DEF FetchRefused, Unanswered, GivenUp
  <2>2. QED
    BY <1>2, <2>1 DEF FetchRefused
<1>3. ASSUME NEW t, LateAnswer(t) PROVE \E u \in Unanswered : Answered401(u)
  BY <1>3 DEF LateAnswer, Unanswered
<1>4. CASE ChangeRefused
  <2>1. job.login \in Unanswered /\ Answered401(job.login)
    BY <1>4 DEF ChangeRefused, Unanswered, JobInv
  <2>2. QED
    BY <1>1, <2>1
<1>5. CASE Logout
  BY <1>5 DEF Logout, Show
<1>6. \/ session' = session \/ Logout \/ ChangeRefused
      \/ (\E k \in Keys : FetchRefused(k)) \/ \E t : LateAnswer(t)
  BY DEF PickerNext, Login, Reload, Dismiss, StreamConnects, StreamEvent, StreamBreaks, OpenPage,
         OpenOrder, Go, CreateOrder, OthersChange, DeletePicker, Refetch, Serve, Answer,
         FetchFails, NotThere, Lapse, Ask, Apply, ChangeFails, Confirm, ListSettled,
         DetailSettled, sessionVars, pickerVars
<1>7. QED
  BY <1>1, <1>2, <1>3, <1>4, <1>5, <1>6

(* For any number of orders, logins and failures: while a picker stays, requests of
   earlier logins only end, whatever is joined, tried again, invalidated or given up;
   and he stays until he leaves or the token of a request on its way is refused. *)
THEOREM PickerNoOldTokenReturns == PickerSpec => NoOldTokenReturns
<1>1. PickerInit => PickerTypes
  BY PickerTypesInit
<1>2. PickerTypes /\ CopiesInv /\ JobInv /\ [PickerNext]_pickerVars => PickerTypes'
  BY PickerTypesStep
<1>3. PickerTypes /\ JobInv /\ [PickerNext]_pickerVars =>
        [session # 0 =>
           \/ session' = session /\ Unanswered' \subseteq Unanswered \cup {session}
           \/ session' = 0 /\ (page' = "login" \/ Unanswered \cap lapsed # {})]_pickerVars
  BY NoNewTokens, SessionEnds
<1>4. QED
  BY <1>1, <1>2, <1>3, PickerInvariants, PTL DEF PickerSpec, NoOldTokenReturns
=============================================================================
