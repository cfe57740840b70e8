---------------------------- MODULE OrdersProofs ----------------------------
(* Proofs about the orders: types, who owns an order, and which statuses an *)
(* order can have had, for any number of orders, pickers and requests.     *)
EXTENDS Orders, TLAPS

\* What a slot holds when a request is in it.
LEMMA BusyRequest ==
    ASSUME TypeOK, NEW r \in Requests, req[r].pc # "idle"
    PROVE  /\ req[r] \in Busy
           /\ req[r].order \in Orders
           /\ req[r].by \in Pickers \cup {Customer}
           /\ req[r].target \in Statuses
BY DEF TypeOK, Busy, Idle

LEMMA InitTypes == Init => TypeOK
BY DEF Init, TypeOK

\* Every step keeps the types.
LEMMA TypesStep == TypeOK /\ [Next]_ordersVars => TypeOK'
<1> SUFFICES ASSUME TypeOK, [Next]_ordersVars
             PROVE  TypeOK'
    OBVIOUS
<1> "NEW" \in Statuses /\ "CANCELLED" \in Statuses
    BY DEF Statuses
<1>1. CASE UNCHANGED ordersVars
    BY <1>1 DEF TypeOK, ordersVars
<1>2. ASSUME NEW o \in Orders, CreateOrder(o)
      PROVE  TypeOK'
    BY <1>2 DEF CreateOrder, Commit, TypeOK
<1>3. ASSUME NEW r \in Requests, NEW o \in Orders, BeginCancel(r, o)
      PROVE  TypeOK'
    BY <1>3 DEF BeginCancel, Enter, TypeOK, Busy
<1>4. ASSUME NEW r \in Requests, NEW o \in Orders, NEW p \in Pickers,
             NEW t \in Statuses, BeginPick(r, o, p, t)
      PROVE  TypeOK'
    BY <1>4 DEF BeginPick, MayMove, Enter, TypeOK, Busy
<1>5. ASSUME NEW r \in Requests, CheckPick(r)
      PROVE  TypeOK'
  <2>1. req[r] \in Busy
      BY <1>5, BusyRequest DEF CheckPick, OwnStore
  <2> QED
      BY <1>5, <2>1 DEF CheckPick, OwnStore, Advance, Enter, TypeOK, Busy
<1>6. ASSUME NEW r \in Requests, ClaimWrite(r)
      PROVE  TypeOK'
  <2>1. req[r].order \in Orders /\ req[r].by \in Pickers /\ req[r].target \in Statuses
      BY <1>6, BusyRequest DEF ClaimWrite, NeedsClaim, FreeFor, AccountExists
  <2> QED
      BY <1>6, <2>1
      DEF ClaimWrite, NeedsClaim, FreeFor, AccountExists, Commit, Leave, TypeOK
<1>7. ASSUME NEW r \in Requests, PlainWrite(r)
      PROVE  TypeOK'
  <2>1. req[r].order \in Orders /\ req[r].target \in Statuses
      BY <1>7, BusyRequest DEF PlainWrite, NeedsClaim
  <2> QED
      BY <1>7, <2>1 DEF PlainWrite, NeedsClaim, Commit, Leave, TypeOK
<1>8. ASSUME NEW r \in Requests, Abandon(r)
      PROVE  TypeOK'
    BY <1>8 DEF Abandon, Leave, TypeOK
<1>9. ASSUME NEW o \in Orders, NEW t \in Statuses, AdminWrite(o, t)
      PROVE  TypeOK'
    BY <1>9 DEF AdminWrite, TypeOK
<1>10. ASSUME NEW p \in Pickers, DeletePicker(p)
       PROVE  TypeOK'
    BY <1>10 DEF DeletePicker, Unassign, TypeOK
<1>11. ASSUME NEW p \in Pickers, NEW s \in Stores, BindPicker(p, s)
       PROVE  TypeOK'
    BY <1>11 DEF BindPicker, TypeOK
<1> QED
    BY <1>1, <1>2, <1>3, <1>4, <1>5, <1>6, <1>7, <1>8, <1>9, <1>10, <1>11
    DEF Next, Step, Admin

\* Every variable keeps its type in every reachable state.
THEOREM OrdersTypeCorrect == Spec => []TypeOK
<1> QED
    BY InitTypes, TypesStep, PTL DEF Spec

-----------------------------------------------------------------------------
(* The inductive invariant: what the safety invariants need to know of the *)
(* rows, and of the requests that have read them.                          *)

\* A row exists exactly when the order has had a status.
Placed ==
    \A o \in Orders : /\ status[o] = Absent => seen[o] = {} /\ o \notin overridden
                      /\ status[o] # Absent => "NEW" \in seen[o]

StatusRecorded ==
    \A o \in Orders \ overridden : status[o] # Absent => status[o] \in seen[o]

BindingRecorded == \A p \in Pickers : store[p] \in Stores => store[p] \in been[p]

Grounded(o, t) ==
    o \in overridden \/ \E s \in seen[o] : IsValidStateTransition(s, t)

\* What a request has checked stays true of the history, if not of the row.
RequestOK(r) ==
    req[r].pc # "idle" =>
        /\ status[req[r].order] # Absent
        /\ Grounded(req[r].order, req[r].target)
        /\ req[r].by = Customer => req[r].target = "CANCELLED" /\ req[r].pc = "write"
        /\ req[r].pc = "write" /\ req[r].by # Customer =>
               StoreOf[req[r].order] \in been[req[r].by]

RequestsOK == \A r \in Requests : RequestOK(r)

IInv ==
    /\ TypeOK
    /\ Placed
    /\ StatusRecorded
    /\ BindingRecorded
    /\ RequestsOK
    /\ ClaimsExclusive
    /\ NoDanglingPicker
    /\ NoStageSkipped
    /\ WorkIsClaimed
    /\ ClaimsFromOwnStore

LEMMA InitInv == Init => IInv
<1> SUFFICES ASSUME Init PROVE IInv
    OBVIOUS
<1>1. TypeOK
    BY InitTypes
<1>2. Placed /\ StatusRecorded /\ BindingRecorded /\ RequestsOK
    BY NamesAssumption
    DEF Init, Placed, StatusRecorded, BindingRecorded, RequestsOK, RequestOK, Idle
<1>3. ClaimsExclusive /\ NoStageSkipped /\ WorkIsClaimed /\ ClaimsFromOwnStore
    BY DEF Init, ClaimsExclusive, NoStageSkipped, WorkIsClaimed, ClaimsFromOwnStore
<1>4. NoDanglingPicker
    BY NamesAssumption DEF Init, NoDanglingPicker, Gone
<1> QED
    BY <1>1, <1>2, <1>3, <1>4 DEF IInv

\* A commit along the table keeps what is said of rows and their history, and
\* takes nothing away from what other requests have checked.
LEMMA CommitKeeps ==
    ASSUME TypeOK, Placed, StatusRecorded, NoStageSkipped,
           NEW o \in Orders, NEW t \in Statuses, Commit(o, t),
           overridden' = overridden, status[o] # Absent, Grounded(o, t)
    PROVE  /\ Placed'
           /\ StatusRecorded'
           /\ NoStageSkipped'
           /\ \A x \in Orders : status[x] # Absent => status'[x] # Absent
           /\ \A x \in Orders : seen[x] \subseteq seen'[x]
           /\ \A x \in Orders : seen'[x] \subseteq seen[x] \cup (IF x = o THEN {t} ELSE {})
<1>1. t # Absent
    BY NamesAssumption
<1>2. \A x \in Orders : status'[x] = IF x = o THEN t ELSE status[x]
    BY DEF Commit, TypeOK
<1>3. \A x \in Orders : seen'[x] = IF x = o /\ o \notin overridden
                                  THEN seen[x] \cup {t} ELSE seen[x]
    BY DEF Commit, TypeOK
<1>4. Placed'
    BY <1>1, <1>2, <1>3 DEF Placed
<1>5. StatusRecorded'
    BY <1>2, <1>3 DEF StatusRecorded
<1>6. NoStageSkipped'
  <2> SUFFICES ASSUME NEW x \in Orders \ overridden, NEW u \in seen'[x] \ {"NEW"}
               PROVE  \E s \in seen'[x] : IsValidStateTransition(s, u)
      BY DEF NoStageSkipped
  <2>1. CASE u \in seen[x]
      BY <1>3, <2>1 DEF NoStageSkipped
  <2>2. CASE u \notin seen[x]
    <3>1. x = o /\ u = t
        BY <1>3, <2>2
    <3> QED
        BY <1>3, <3>1 DEF Grounded
  <2> QED
      BY <2>1, <2>2
<1> QED
    BY <1>1, <1>2, <1>3, <1>4, <1>5, <1>6

\* What the other requests have checked survives every step that removes no
\* row and no history; the one in slot r is for the step itself to answer for.
LEMMA RequestsKeep ==
    ASSUME TypeOK, RequestsOK,
           \A x \in Orders : status[x] # Absent => status'[x] # Absent,
           \A x \in Orders : seen[x] \subseteq seen'[x],
           \A p \in Pickers : been[p] \subseteq been'[p],
           overridden \subseteq overridden',
           NEW r \in Requests,
           \A x \in Requests \ {r} : req'[x] = req[x],
           RequestOK(r)'
    PROVE  RequestsOK'
<1> SUFFICES ASSUME NEW x \in Requests, x # r, req[x].pc # "idle"
             PROVE  RequestOK(x)'
    BY DEF RequestsOK, RequestOK
<1>1. req'[x] = req[x] /\ RequestOK(x)
    BY DEF RequestsOK
<1>2. /\ req[x].order \in Orders
      /\ req[x].by # Customer => req[x].by \in Pickers
    BY BusyRequest
<1>3. Grounded(req[x].order, req[x].target) => Grounded(req[x].order, req[x].target)'
    BY <1>1, <1>2 DEF Grounded
<1> QED
    BY <1>1, <1>2, <1>3 DEF RequestOK

\* A request that leaves its slot leaves nothing to answer for.
LEMMA LeaveKeeps ==
    ASSUME TypeOK, NEW r \in Requests, Leave(r)
    PROVE  RequestOK(r)' /\ \A x \in Requests \ {r} : req'[x] = req[x]
BY DEF Leave, Idle, TypeOK, RequestOK

\* A step that only moves a request keeps all that is said of the rows.
LEMMA RowsKeep ==
    ASSUME IInv, UNCHANGED <<status, picker, store, claims, seen, been, overridden>>
    PROVE  /\ Placed' /\ StatusRecorded' /\ BindingRecorded' /\ ClaimsExclusive'
           /\ NoDanglingPicker' /\ NoStageSkipped' /\ WorkIsClaimed'
           /\ ClaimsFromOwnStore'
BY DEF IInv, Placed, StatusRecorded, BindingRecorded, ClaimsExclusive,
       NoDanglingPicker, Gone, NoStageSkipped, WorkIsClaimed, ClaimsFromOwnStore

LEMMA BeginCancelKeeps ==
    ASSUME IInv, NEW r \in Requests, NEW o \in Orders, BeginCancel(r, o)
    PROVE  RequestsOK'
<1>1. status[o] # Absent /\ status[o] \in Statuses
    BY NamesAssumption DEF BeginCancel, Cancellable, Statuses
<1>2. Grounded(o, "CANCELLED")'
    BY <1>1 DEF BeginCancel, Grounded, IInv, StatusRecorded
<1>3. /\ req'[r] = [pc |-> "write", order |-> o, by |-> Customer, target |-> "CANCELLED"]
      /\ \A x \in Requests \ {r} : req'[x] = req[x]
    BY DEF BeginCancel, Enter, IInv, TypeOK
<1>4. RequestOK(r)'
    BY <1>1, <1>2, <1>3 DEF RequestOK, BeginCancel
<1> QED
    BY <1>3, <1>4, RequestsKeep DEF IInv, BeginCancel

LEMMA BeginPickKeeps ==
    ASSUME IInv, NEW r \in Requests, NEW o \in Orders, NEW p \in Pickers,
           NEW t \in Statuses, BeginPick(r, o, p, t)
    PROVE  RequestsOK'
<1>1. status[o] # Absent /\ Grounded(o, t)'
    BY DEF BeginPick, MayMove, Grounded, IInv, StatusRecorded
<1>2. /\ req'[r] = [pc |-> "check", order |-> o, by |-> p, target |-> t]
      /\ \A x \in Requests \ {r} : req'[x] = req[x]
    BY DEF BeginPick, MayMove, Enter, IInv, TypeOK
<1>3. RequestOK(r)'
    BY <1>1, <1>2, NamesAssumption DEF RequestOK, BeginPick, MayMove
<1> QED
    BY <1>2, <1>3, RequestsKeep DEF IInv, BeginPick, MayMove

LEMMA CheckPickKeeps ==
    ASSUME IInv, NEW r \in Requests, CheckPick(r)
    PROVE  RequestsOK'
<1>1. /\ req[r].order \in Orders
      /\ req[r].by \in Pickers
      /\ RequestOK(r)
    BY BusyRequest DEF CheckPick, OwnStore, IInv, RequestsOK, RequestOK
<1>2. StoreOf[req[r].order] \in been[req[r].by]
    BY <1>1, StoreAssumption DEF CheckPick, OwnStore, IInv, BindingRecorded
<1>3. /\ req'[r] = [pc |-> "write", order |-> req[r].order,
                    by |-> req[r].by, target |-> req[r].target]
      /\ \A x \in Requests \ {r} : req'[x] = req[x]
    BY DEF CheckPick, OwnStore, Advance, Enter, IInv, TypeOK
<1>4. Grounded(req[r].order, req[r].target)'
  <2>1. Grounded(req[r].order, req[r].target)
      BY <1>1 DEF RequestOK, CheckPick, OwnStore
  <2>2. req'[r].order = req[r].order /\ req'[r].target = req[r].target
      BY <1>3
  <2> QED
      BY <2>1, <2>2 DEF Grounded, CheckPick, OwnStore
<1>5. RequestOK(r)'
    BY <1>1, <1>2, <1>3, <1>4, NamesAssumption DEF RequestOK, CheckPick, OwnStore
<1> QED
    BY <1>3, <1>5, RequestsKeep DEF IInv, CheckPick, OwnStore

LEMMA CreateOrderKeeps ==
    ASSUME IInv, NEW o \in Orders, CreateOrder(o)
    PROVE  IInv'
<1>1. TypeOK'
    BY TypesStep DEF IInv, Next
<1>2. o \notin overridden /\ seen[o] = {} /\ "NEW" # Absent
    BY NamesAssumption DEF CreateOrder, IInv, Placed, Statuses
<1>3. /\ \A x \in Orders : status'[x] = IF x = o THEN "NEW" ELSE status[x]
      /\ \A x \in Orders : seen'[x] = IF x = o THEN {"NEW"} ELSE seen[x]
      /\ UNCHANGED <<picker, store, req, claims, been, overridden>>
    BY <1>2 DEF CreateOrder, Commit, IInv, TypeOK
<1>4. Placed' /\ StatusRecorded'
    BY <1>2, <1>3 DEF IInv, Placed, StatusRecorded
<1>5. NoStageSkipped' /\ WorkIsClaimed'
    BY <1>3 DEF IInv, NoStageSkipped, WorkIsClaimed
<1>6. RequestsOK'
  <2> SUFFICES ASSUME NEW r \in Requests, req[r].pc # "idle"
               PROVE  RequestOK(r)'
      BY <1>3 DEF RequestsOK, RequestOK
  <2>1. RequestOK(r) /\ req[r].order \in Orders
      BY BusyRequest DEF IInv, RequestsOK
  <2>2. req[r].order # o
      BY <2>1 DEF RequestOK, CreateOrder
  <2>3. Grounded(req[r].order, req[r].target)'
      BY <1>3, <2>1, <2>2 DEF RequestOK, Grounded
  <2> QED
      BY <1>3, <2>1, <2>2, <2>3 DEF RequestOK
<1>7. BindingRecorded' /\ ClaimsExclusive' /\ NoDanglingPicker' /\ ClaimsFromOwnStore'
    BY <1>3 DEF IInv, BindingRecorded, ClaimsExclusive, NoDanglingPicker, Gone,
                ClaimsFromOwnStore
<1> QED
    BY <1>1, <1>4, <1>5, <1>6, <1>7 DEF IInv

\* The step that two pickers race for.
LEMMA ClaimWriteKeeps ==
    ASSUME IInv, NEW r \in Requests, ClaimWrite(r)
    PROVE  IInv'
<1> DEFINE o == req[r].order
           p == req[r].by
           t == req[r].target
<1>1. TypeOK'
    BY TypesStep DEF IInv, Next, Step
<1>2. /\ o \in Orders /\ p \in Pickers /\ t \in Statuses
      /\ RequestOK(r)
    BY BusyRequest
    DEF ClaimWrite, NeedsClaim, FreeFor, AccountExists, IInv, RequestsOK
<1>3. /\ Commit(o, t)
      /\ status[o] # Absent
      /\ Grounded(o, t)
      /\ StoreOf[o] \in been[p]
    BY <1>2 DEF ClaimWrite, NeedsClaim, FreeFor, AccountExists, RequestOK
<1>4. /\ picker[o] \in {NoPicker, p}
      /\ \A x \in Orders : picker'[x] = IF x = o THEN p ELSE picker[x]
      /\ \A x \in Orders : claims'[x] = IF x = o THEN claims[x] \cup {p} ELSE claims[x]
      /\ p \notin Gone
      /\ UNCHANGED <<store, been, overridden>>
    BY <1>2 DEF ClaimWrite, NeedsClaim, FreeFor, AccountExists, IInv, TypeOK, Gone
<1>5. /\ Placed' /\ StatusRecorded' /\ NoStageSkipped'
      /\ \A x \in Orders : status[x] # Absent => status'[x] # Absent
      /\ \A x \in Orders : seen[x] \subseteq seen'[x]
      /\ \A x \in Orders : seen'[x] \subseteq seen[x] \cup (IF x = o THEN {t} ELSE {})
    BY <1>2, <1>3, <1>4, CommitKeeps DEF IInv
<1>6. RequestsOK'
    BY <1>4, <1>5, LeaveKeeps, RequestsKeep
    DEF ClaimWrite, NeedsClaim, FreeFor, AccountExists, IInv
<1>7. ClaimsExclusive'
  <2>1. claims[o] \subseteq Gone \cup {p}
      BY <1>2, <1>4, NamesAssumption DEF IInv, ClaimsExclusive, TypeOK
  <2>2. Gone' = Gone
      BY <1>4 DEF Gone
  <2> SUFFICES ASSUME NEW x \in Orders, NEW y \in claims'[x]
               PROVE  picker'[x] = y \/ y \in Gone
      BY <2>2 DEF ClaimsExclusive
  <2>3. CASE x = o
    <3>1. claims'[x] = claims[o] \cup {p} /\ picker'[x] = p
        BY <1>4, <2>3
    <3>2. y \in Gone \cup {p}
        BY <2>1, <3>1
    <3> QED
        BY <3>1, <3>2
  <2>4. CASE x # o
      BY <1>4, <2>4 DEF IInv, ClaimsExclusive
  <2> QED
      BY <2>3, <2>4
<1>8. NoDanglingPicker'
    BY <1>4 DEF IInv, NoDanglingPicker, Gone
<1>9. WorkIsClaimed'
    BY <1>4, <1>5 DEF IInv, WorkIsClaimed
<1>10. BindingRecorded'
    BY <1>4 DEF IInv, BindingRecorded
<1>11. ClaimsFromOwnStore'
  <2> SUFFICES ASSUME NEW x \in Orders, NEW y \in claims'[x]
               PROVE  StoreOf[x] \in been[y]
      BY <1>4 DEF ClaimsFromOwnStore
  <2>1. CASE x = o /\ y = p
      BY <1>3, <2>1
  <2>2. CASE ~(x = o /\ y = p)
    <3>1. y \in claims[x]
        BY <1>4, <2>2
    <3> HIDE DEF o, p, t
    <3> QED
        BY <3>1 DEF IInv, ClaimsFromOwnStore
  <2> QED
      BY <2>1, <2>2
<1> QED
    BY <1>1, <1>5, <1>6, <1>7, <1>8, <1>9, <1>10, <1>11 DEF IInv

\* A write without a claim reaches no status that needs one: from NEW the table
\* leads only to a claim or to CANCELLED, and from CANCELLED nowhere.
LEMMA PlainWriteKeeps ==
    ASSUME IInv, NEW r \in Requests, PlainWrite(r)
    PROVE  IInv'
<1> DEFINE o == req[r].order
           t == req[r].target
<1>1. TypeOK'
    BY TypesStep DEF IInv, Next, Step
<1>2. /\ o \in Orders /\ t \in Statuses
      /\ RequestOK(r)
    BY BusyRequest DEF PlainWrite, NeedsClaim, IInv, RequestsOK
<1>3. /\ Commit(o, t)
      /\ status[o] # Absent
      /\ Grounded(o, t)
      /\ t \notin Claiming
    BY <1>2 DEF PlainWrite, NeedsClaim, RequestOK, Claiming
<1>4. UNCHANGED <<picker, store, claims, been, overridden>>
    BY DEF PlainWrite, NeedsClaim
<1>5. /\ Placed' /\ StatusRecorded' /\ NoStageSkipped'
      /\ \A x \in Orders : status[x] # Absent => status'[x] # Absent
      /\ \A x \in Orders : seen[x] \subseteq seen'[x]
      /\ \A x \in Orders : seen'[x] \subseteq seen[x] \cup (IF x = o THEN {t} ELSE {})
    BY <1>2, <1>3, <1>4, CommitKeeps DEF IInv
<1>6. RequestsOK'
    BY <1>4, <1>5, LeaveKeeps, RequestsKeep DEF PlainWrite, NeedsClaim, IInv
<1>7. WorkIsClaimed'
  <2> SUFFICES ASSUME NEW x \in Orders \ overridden, claims[x] = {}
               PROVE  seen'[x] \subseteq {"NEW", "CANCELLED"}
      BY <1>4 DEF WorkIsClaimed
  <2>1. seen[x] \subseteq {"NEW", "CANCELLED"}
      BY DEF IInv, WorkIsClaimed
  <2>2. x = o => t = "CANCELLED"
      BY <1>3, <2>1 DEF Grounded, IsValidStateTransition, Transitions, Claiming
  <2> QED
      BY <1>5, <2>1, <2>2
<1>8. ClaimsExclusive' /\ NoDanglingPicker' /\ ClaimsFromOwnStore' /\ BindingRecorded'
    BY <1>4 DEF IInv, ClaimsExclusive, NoDanglingPicker, Gone, ClaimsFromOwnStore,
                BindingRecorded
<1> QED
    BY <1>1, <1>5, <1>6, <1>7, <1>8 DEF IInv

LEMMA AdminWriteKeeps ==
    ASSUME IInv, NEW o \in Orders, NEW t \in Statuses, AdminWrite(o, t)
    PROVE  IInv'
<1>1. TypeOK'
    BY TypesStep DEF IInv, Next, Admin
<1>2. /\ status[o] # Absent /\ t # Absent
      /\ \A x \in Orders : status'[x] = IF x = o THEN t ELSE status[x]
      /\ overridden' = overridden \cup {o}
      /\ UNCHANGED <<picker, store, req, claims, seen, been>>
    BY NamesAssumption DEF AdminWrite, IInv, TypeOK
<1>3. Placed' /\ StatusRecorded' /\ NoStageSkipped' /\ WorkIsClaimed'
    BY <1>2 DEF IInv, Placed, StatusRecorded, NoStageSkipped, WorkIsClaimed
<1>4. RequestsOK'
  <2> SUFFICES ASSUME NEW r \in Requests PROVE RequestOK(r)'
      BY DEF RequestsOK
  <2>1. RequestOK(r)
      BY DEF IInv, RequestsOK
  <2>2. req[r].pc # "idle" => req[r].order \in Orders
      BY BusyRequest DEF IInv
  <2> QED
      BY <1>2, <2>1, <2>2 DEF RequestOK, Grounded
<1>5. ClaimsExclusive' /\ NoDanglingPicker' /\ ClaimsFromOwnStore' /\ BindingRecorded'
    BY <1>2 DEF IInv, ClaimsExclusive, NoDanglingPicker, Gone, ClaimsFromOwnStore,
                BindingRecorded
<1> QED
    BY <1>1, <1>3, <1>4, <1>5 DEF IInv

LEMMA BindPickerKeeps ==
    ASSUME IInv, NEW p \in Pickers, NEW s \in Stores, BindPicker(p, s)
    PROVE  IInv'
<1>1. TypeOK'
    BY TypesStep DEF IInv, Next, Admin
<1>2. /\ store[p] # Deleted /\ s # Deleted
      /\ \A x \in Pickers : store'[x] = IF x = p THEN s ELSE store[x]
      /\ \A x \in Pickers : been'[x] = IF x = p THEN been[x] \cup {s} ELSE been[x]
      /\ UNCHANGED <<status, picker, req, claims, seen, overridden>>
    BY NamesAssumption DEF BindPicker, IInv, TypeOK
<1>3. Gone' = Gone
    BY <1>2 DEF Gone
<1>4. Placed' /\ StatusRecorded' /\ NoStageSkipped' /\ WorkIsClaimed'
    BY <1>2 DEF IInv, Placed, StatusRecorded, NoStageSkipped, WorkIsClaimed
<1>5. RequestsOK'
  <2> SUFFICES ASSUME NEW r \in Requests PROVE RequestOK(r)'
      BY DEF RequestsOK
  <2>1. RequestOK(r)
      BY DEF IInv, RequestsOK
  <2>2. req[r].pc # "idle" => req[r].by \in Pickers \cup {Customer}
      BY BusyRequest DEF IInv
  <2> QED
      BY <1>2, <2>1, <2>2 DEF RequestOK, Grounded
<1>6. ClaimsExclusive' /\ NoDanglingPicker'
    BY <1>2, <1>3 DEF IInv, ClaimsExclusive, NoDanglingPicker
<1>7. ClaimsFromOwnStore'
    BY <1>2 DEF IInv, TypeOK, ClaimsFromOwnStore
<1>8. BindingRecorded'
    BY <1>2 DEF IInv, BindingRecorded
<1> QED
    BY <1>1, <1>4, <1>5, <1>6, <1>7, <1>8 DEF IInv

LEMMA DeletePickerKeeps ==
    ASSUME IInv, NEW p \in Pickers, DeletePicker(p)
    PROVE  IInv'
<1>1. TypeOK'
    BY TypesStep DEF IInv, Next, Admin
<1>2. /\ \A x \in Pickers : store'[x] = IF x = p THEN Deleted ELSE store[x]
      /\ \A o \in Orders : picker'[o] = IF picker[o] = p THEN NoPicker ELSE picker[o]
      /\ UNCHANGED <<status, req, claims, seen, been, overridden>>
    BY DEF DeletePicker, Unassign, IInv, TypeOK
<1>3. Gone' = Gone \cup {p}
    BY <1>2 DEF Gone
<1>4. Placed' /\ StatusRecorded' /\ NoStageSkipped' /\ WorkIsClaimed'
    BY <1>2 DEF IInv, Placed, StatusRecorded, NoStageSkipped, WorkIsClaimed
<1>5. RequestsOK'
    BY <1>2 DEF IInv, RequestsOK, RequestOK, Grounded
<1>6. ClaimsExclusive' /\ ClaimsFromOwnStore'
    BY <1>2, <1>3 DEF IInv, ClaimsExclusive, ClaimsFromOwnStore
<1>7. NoDanglingPicker'
    BY <1>2, <1>3, NamesAssumption DEF IInv, NoDanglingPicker, Gone
<1>8. BindingRecorded'
    BY <1>2, NamesAssumption DEF IInv, BindingRecorded
<1> QED
    BY <1>1, <1>4, <1>5, <1>6, <1>7, <1>8 DEF IInv

\* The invariant is inductive.
LEMMA InvStep == IInv /\ [Next]_ordersVars => IInv'
<1> SUFFICES ASSUME IInv, [Next]_ordersVars
             PROVE  IInv'
    OBVIOUS
<1>1. TypeOK'
    BY TypesStep DEF IInv
<1>2. CASE UNCHANGED ordersVars
  <2>1. RequestsOK'
      BY <1>2 DEF ordersVars, IInv, RequestsOK, RequestOK, Grounded
  <2> QED
      BY <1>1, <1>2, <2>1, RowsKeep DEF ordersVars, IInv
<1>3. ASSUME NEW o \in Orders, CreateOrder(o)
      PROVE  IInv'
    BY <1>3, CreateOrderKeeps
<1>4. ASSUME NEW r \in Requests, NEW o \in Orders, BeginCancel(r, o)
      PROVE  IInv'
    BY <1>1, <1>4, RowsKeep, BeginCancelKeeps DEF BeginCancel, IInv
<1>5. ASSUME NEW r \in Requests, NEW o \in Orders, NEW p \in Pickers,
             NEW t \in Statuses, BeginPick(r, o, p, t)
      PROVE  IInv'
    BY <1>1, <1>5, RowsKeep, BeginPickKeeps DEF BeginPick, MayMove, IInv
<1>6. ASSUME NEW r \in Requests, CheckPick(r)
      PROVE  IInv'
    BY <1>1, <1>6, RowsKeep, CheckPickKeeps DEF CheckPick, OwnStore, IInv
<1>7. ASSUME NEW r \in Requests, ClaimWrite(r)
      PROVE  IInv'
    BY <1>7, ClaimWriteKeeps
<1>8. ASSUME NEW r \in Requests, PlainWrite(r)
      PROVE  IInv'
    BY <1>8, PlainWriteKeeps
<1>9. ASSUME NEW r \in Requests, Abandon(r)
      PROVE  IInv'
  <2>1. RequestsOK'
      BY <1>9, LeaveKeeps, RequestsKeep DEF Abandon, IInv
  <2> QED
      BY <1>1, <1>9, <2>1, RowsKeep DEF Abandon, IInv
<1>10. ASSUME NEW o \in Orders, NEW t \in Statuses, AdminWrite(o, t)
       PROVE  IInv'
    BY <1>10, AdminWriteKeeps
<1>11. ASSUME NEW p \in Pickers, DeletePicker(p)
       PROVE  IInv'
    BY <1>11, DeletePickerKeeps
<1>12. ASSUME NEW p \in Pickers, NEW s \in Stores, BindPicker(p, s)
       PROVE  IInv'
    BY <1>12, BindPickerKeeps
<1> QED
    BY <1>2, <1>3, <1>4, <1>5, <1>6, <1>7, <1>8, <1>9, <1>10, <1>11, <1>12
    DEF Next, Step, Admin

LEMMA OrdersInvariant == Spec => []IInv
<1> QED
    BY InitInv, InvStep, PTL DEF Spec

-----------------------------------------------------------------------------
\* Two pickers who both read an order while it was free never both win it:
\* whoever was told so owns it until the account is deleted.
THEOREM OrdersClaimsExclusive == Spec => []ClaimsExclusive
<1>1. IInv => ClaimsExclusive
    BY DEF IInv
<1> QED
    BY <1>1, OrdersInvariant, PTL

\* No order points at a deleted account.
THEOREM OrdersNoDanglingPicker == Spec => []NoDanglingPicker
<1>1. IInv => NoDanglingPicker
    BY DEF IInv
<1> QED
    BY <1>1, OrdersInvariant, PTL

\* Without the administrator, no interleaving of requests makes an order skip a
\* stage of the table.
THEOREM OrdersStages == Spec => []NoStageSkipped
<1>1. IInv => NoStageSkipped
    BY DEF IInv
<1> QED
    BY <1>1, OrdersInvariant, PTL

\* No order is worked on by nobody: what has been past NEW and CANCELLED was
\* claimed, or written by the administrator.
THEOREM OrdersWorkIsClaimed == Spec => []WorkIsClaimed
<1>1. IInv => WorkIsClaimed
    BY DEF IInv
<1> QED
    BY <1>1, OrdersInvariant, PTL

\* Every claim was made from the order's own store.
THEOREM OrdersOwnStore == Spec => []ClaimsFromOwnStore
<1>1. IInv => ClaimsFromOwnStore
    BY DEF IInv
<1> QED
    BY <1>1, OrdersInvariant, PTL

-----------------------------------------------------------------------------
(* The handlers implement the contract. *)

\* Both modules read the same table.
LEMMA SameTable ==
    /\ Contract!Claiming = Claiming
    /\ Contract!Statuses = Statuses
    /\ \A s, t : Contract!IsValidStateTransition(s, t) <=> IsValidStateTransition(s, t)
BY DEF Claiming, Contract!Claiming, Statuses, Contract!Statuses,
       IsValidStateTransition, Contract!IsValidStateTransition, Transitions,
       Contract!Transitions

LEMMA InitContract == Init => Contract!Init
BY NamesAssumption DEF Init, Contract!Init, Gone

\* A step that moves only a request is no step of the contract.
LEMMA QuietStutters ==
    ASSUME UNCHANGED <<picker, store, seen, overridden>>
    PROVE  UNCHANGED Contract!contractVars
BY DEF Contract!contractVars, Gone

LEMMA CreateIsPlace ==
    ASSUME IInv, NEW o \in Orders, CreateOrder(o)
    PROVE  Contract!Place(o)
BY DEF IInv, Placed, CreateOrder, Commit, Contract!Place, Contract!Reach, Gone

LEMMA ClaimIsTake ==
    ASSUME IInv, NEW r \in Requests, ClaimWrite(r)
    PROVE  Contract!Take(req[r].order, req[r].by, req[r].target)
<1>1. /\ RequestOK(r)
      /\ req[r].target \in Claiming
    BY DEF ClaimWrite, NeedsClaim, FreeFor, AccountExists, IInv, RequestsOK
<1>2. Contract!Follows(req[r].order, req[r].target)
    BY <1>1, SameTable
    DEF RequestOK, ClaimWrite, NeedsClaim, FreeFor, AccountExists, Grounded,
        Contract!Follows
<1>3. Contract!Reach(req[r].order, req[r].target)
    BY DEF ClaimWrite, NeedsClaim, FreeFor, AccountExists, Commit, Contract!Reach
<1>4. Gone' = Gone /\ req[r].by \notin Gone
    BY DEF ClaimWrite, NeedsClaim, FreeFor, AccountExists, Gone
<1> QED
    BY <1>1, <1>2, <1>3, <1>4, SameTable
    DEF ClaimWrite, NeedsClaim, FreeFor, AccountExists, Contract!Take

LEMMA PlainIsProgress ==
    ASSUME IInv, NEW r \in Requests, PlainWrite(r)
    PROVE  Contract!Progress(req[r].order, req[r].target)
<1>1. /\ RequestOK(r)
      /\ req[r].target \notin Claiming
    BY DEF PlainWrite, NeedsClaim, IInv, RequestsOK, RequestOK, Claiming
<1>2. Contract!Follows(req[r].order, req[r].target)
    BY <1>1, SameTable
    DEF RequestOK, PlainWrite, NeedsClaim, Grounded, Contract!Follows
<1>3. Contract!Reach(req[r].order, req[r].target)
    BY DEF PlainWrite, NeedsClaim, Commit, Contract!Reach
<1>4. Gone' = Gone
    BY DEF PlainWrite, NeedsClaim, Gone
<1> QED
    BY <1>1, <1>2, <1>3, <1>4, SameTable
    DEF PlainWrite, NeedsClaim, Contract!Progress

LEMMA AdminIsOverride ==
    ASSUME IInv, NEW o \in Orders, NEW t \in Statuses, AdminWrite(o, t)
    PROVE  Contract!Override(o)
BY DEF IInv, Placed, AdminWrite, Contract!Override, Gone

LEMMA DeleteIsRelease ==
    ASSUME IInv, NEW p \in Pickers, DeletePicker(p)
    PROVE  Contract!Release(p)
<1>1. Gone' = Gone \cup {p}
    BY DEF DeletePicker, Unassign, Gone, IInv, TypeOK
<1> QED
    BY <1>1 DEF DeletePicker, Unassign, Contract!Release

LEMMA BindStutters ==
    ASSUME IInv, NEW p \in Pickers, NEW s \in Stores, BindPicker(p, s)
    PROVE  UNCHANGED Contract!contractVars
<1>1. Gone' = Gone
    BY NamesAssumption DEF BindPicker, Gone, IInv, TypeOK
<1> QED
    BY <1>1 DEF BindPicker, Contract!contractVars

LEMMA StepContract == IInv /\ [Next]_ordersVars => [Contract!Next]_Contract!contractVars
<1> SUFFICES ASSUME IInv, [Next]_ordersVars
             PROVE  Contract!Next \/ UNCHANGED Contract!contractVars
    OBVIOUS
<1>1. CASE UNCHANGED ordersVars
    BY <1>1, QuietStutters DEF ordersVars
<1>2. ASSUME NEW o \in Orders, CreateOrder(o)
      PROVE  Contract!Next
    BY <1>2, CreateIsPlace DEF Contract!Next
<1>3. ASSUME NEW r \in Requests, NEW o \in Orders, BeginCancel(r, o)
      PROVE  UNCHANGED Contract!contractVars
    BY <1>3, QuietStutters DEF BeginCancel
<1>4. ASSUME NEW r \in Requests, NEW o \in Orders, NEW p \in Pickers,
             NEW t \in Statuses, BeginPick(r, o, p, t)
      PROVE  UNCHANGED Contract!contractVars
    BY <1>4, QuietStutters DEF BeginPick, MayMove
<1>5. ASSUME NEW r \in Requests, CheckPick(r)
      PROVE  UNCHANGED Contract!contractVars
    BY <1>5, QuietStutters DEF CheckPick, OwnStore
<1>6. ASSUME NEW r \in Requests, ClaimWrite(r)
      PROVE  Contract!Next
  <2>1. req[r].order \in Orders /\ req[r].by \in Pickers /\ req[r].target \in Statuses
      BY <1>6, BusyRequest DEF ClaimWrite, NeedsClaim, FreeFor, AccountExists, IInv
  <2> QED
      BY <1>6, <2>1, ClaimIsTake, SameTable DEF Contract!Next
<1>7. ASSUME NEW r \in Requests, PlainWrite(r)
      PROVE  Contract!Next
  <2>1. req[r].order \in Orders /\ req[r].target \in Statuses
      BY <1>7, BusyRequest DEF PlainWrite, NeedsClaim, IInv
  <2> QED
      BY <1>7, <2>1, PlainIsProgress, SameTable DEF Contract!Next
<1>8. ASSUME NEW r \in Requests, Abandon(r)
      PROVE  UNCHANGED Contract!contractVars
    BY <1>8, QuietStutters DEF Abandon
<1>9. ASSUME NEW o \in Orders, NEW t \in Statuses, AdminWrite(o, t)
      PROVE  Contract!Next
    BY <1>9, AdminIsOverride DEF Contract!Next
<1>10. ASSUME NEW p \in Pickers, DeletePicker(p)
       PROVE  Contract!Next
    BY <1>10, DeleteIsRelease DEF Contract!Next
<1>11. ASSUME NEW p \in Pickers, NEW s \in Stores, BindPicker(p, s)
       PROVE  UNCHANGED Contract!contractVars
    BY <1>11, BindStutters
<1> QED
    BY <1>1, <1>2, <1>3, <1>4, <1>5, <1>6, <1>7, <1>8, <1>9, <1>10, <1>11
    DEF Next, Step, Admin

\* Every behaviour of the handlers, in-flight requests and all, is one of the
\* contract.
THEOREM OrdersImplementContract == Spec => KeepsContract
<1> QED
    BY InitContract, StepContract, OrdersInvariant, PTL
    DEF Spec, KeepsContract, Contract!Spec
=============================================================================
