---------------------------- MODULE TotalsProofs ----------------------------
(* Proofs about the money of an order: what its totals can be while edits *)
(* overlap, and when they are exact, for any prices, fees and requests.   *)
EXTENDS OrderTotals, TLAPS

\* Fees are natural numbers of kopecks, and so is everything on a bill.
LEMMA FeeNat == ASSUME NEW n \in Nat PROVE Fee(n) \in Nat
<1> DEFINE m == n * FeePercent
<1>1. m \in Nat
    BY MoneyAssumption
<1> HIDE DEF m
<1>2. (m + 50) \div 100 \in Nat
    BY <1>1
<1> QED
    BY <1>2 DEF Fee, m

LEMMA BillType ==
    ASSUME NEW n \in Nat, NEW extra \in Nat
    PROVE  Bill(n, extra) \in [items : Nat, fee : Nat, total : Nat]
<1>1. Fee(n) \in Nat
    BY FeeNat
<1> QED
    BY <1>1, MoneyAssumption DEF Bill

LEMMA SurchargeNat == ASSUME NEW o PROVE Surcharge(o) \in Nat
BY MoneyAssumption DEF Surcharge

\* What a slot holds when a request is in it.
LEMMA BusyEdit ==
    ASSUME TypeOK, NEW r \in Requests, edit[r].pc # "idle"
    PROVE  /\ edit[r] \in Busy
           /\ edit[r].order \in Orders
           /\ edit[r].item \in Items
           /\ edit[r].snapshot \subseteq Items
BY DEF TypeOK, Busy, Idle

\* The sum a recalculation writes is that of its snapshot.
LEMMA NewSumNat ==
    ASSUME TypeOK, NEW r \in Requests, edit[r].pc = "write"
    PROVE  NewSum(r) \in Nat
BY BusyEdit, MoneyAssumption DEF NewSum

-----------------------------------------------------------------------------
LEMMA InitTypes == Init => TypeOK
BY DEF Init, TypeOK

\* Every step keeps the types.
LEMMA TypesStep == TypeOK /\ [Next]_totalsVars => TypeOK'
<1> SUFFICES ASSUME TypeOK, [Next]_totalsVars
             PROVE  TypeOK'
    OBVIOUS
<1>1. CASE UNCHANGED totalsVars
    BY <1>1 DEF TypeOK, totalsVars
<1>2. ASSUME NEW o \in Orders, CreateOrder(o)
      PROVE  TypeOK'
  <2>1. Ordered[o] \subseteq Items /\ Worth[Ordered[o]] \in Nat
      BY OrderedAssumption, MoneyAssumption
  <2>2. Bill(Worth[Ordered[o]], Surcharge(o)) \in [items : Nat, fee : Nat, total : Nat]
      BY <2>1, BillType, SurchargeNat
  <2> QED
      BY <1>2, <2>1, <2>2 DEF CreateOrder, TypeOK
<1>3. ASSUME NEW o \in Orders, ChangeStatus(o)
      PROVE  TypeOK'
    BY <1>3 DEF ChangeStatus, TypeOK
<1>4. ASSUME NEW i \in Items, DeleteProduct(i)
      PROVE  TypeOK'
    BY <1>4 DEF DeleteProduct, TypeOK
<1>5. ASSUME NEW r \in Requests, NEW o \in Orders, NEW i \in Items,
             NEW pc \in {"insert", "delete"}, Begin(r, o, i, pc)
      PROVE  TypeOK'
    BY <1>5 DEF Begin, TypeOK, Busy
<1>6. ASSUME NEW r \in Requests, InsertItem(r)
      PROVE  TypeOK'
  <2>1. edit[r] \in Busy /\ edit[r].order \in Orders /\ edit[r].item \in Items
      BY <1>6, BusyEdit DEF InsertItem
  <2>2. Worth[rows[edit[r].order] \cup {edit[r].item}] \in Nat
      BY <2>1, MoneyAssumption DEF TypeOK
  <2> QED
      BY <1>6, <2>1, <2>2 DEF InsertItem, ChangeRows, Move, TypeOK, Busy
<1>7. ASSUME NEW r \in Requests, DeleteItem(r)
      PROVE  TypeOK'
  <2>1. edit[r] \in Busy /\ edit[r].order \in Orders /\ edit[r].item \in Items
      BY <1>7, BusyEdit DEF DeleteItem
  <2>2. Worth[rows[edit[r].order] \ {edit[r].item}] \in Nat
      BY <2>1, MoneyAssumption DEF TypeOK
  <2> QED
      BY <1>7, <2>1, <2>2 DEF DeleteItem, ChangeRows, Move, TypeOK, Busy
<1>8. ASSUME NEW r \in Requests, RecalcSnapshot(r)
      PROVE  TypeOK'
  <2>1. edit[r] \in Busy /\ edit[r].order \in Orders
      BY <1>8, BusyEdit DEF RecalcSnapshot
  <2>2. Visible(r) \subseteq Items
      BY <2>1 DEF Visible, TypeOK
  <2> QED
      BY <1>8, <2>1, <2>2 DEF RecalcSnapshot, TypeOK, Busy
<1>9. ASSUME NEW r \in Requests, RecalcWrite(r)
      PROVE  TypeOK'
  <2>1. edit[r].order \in Orders
      BY <1>9, BusyEdit DEF RecalcWrite
  <2>2. RecalcBill(edit[r].order, NewSum(r)) \in [items : Nat, fee : Nat, total : Nat]
      BY <1>9, NewSumNat, BillType DEF RecalcWrite, RecalcBill
  <2> QED
      BY <1>9, <2>1, <2>2 DEF RecalcWrite, Finish, TypeOK
<1>10. ASSUME NEW r \in Requests, Abandon(r)
       PROVE  TypeOK'
    BY <1>10, BusyEdit DEF Abandon, Finish, TypeOK
<1> QED
    BY <1>1, <1>2, <1>3, <1>4, <1>5, <1>6, <1>7, <1>8, <1>9, <1>10
    DEF Next, Step, BeginAdd, BeginRemove

\* Every variable keeps its type in every reachable state; no total is negative.
THEOREM TotalsTypeCorrect == Spec => []TypeOK
<1> QED
    BY InitTypes, TypesStep, PTL DEF Spec

-----------------------------------------------------------------------------
(* The inductive invariant: what an order was worth is on record, and a    *)
(* snapshot is of its order's rows, past or (if not overtaken) present.    *)

\* A request edits an order that exists.
EditsPlaced == \A r \in Requests : edit[r].pc # "idle" => edit[r].order \in placed

\* What the rows of an order are worth now is among what they have been worth.
RowsRecorded == \A o \in placed : Worth[rows[o]] \in sums[o]

\* The sum in a recalculation's snapshot is on record too.
SnapshotRecorded ==
    \A r \in Requests : edit[r].pc = "write" =>
        Worth[edit[r].snapshot] \in sums[edit[r].order]

\* A snapshot is of the present rows, unless they changed under one.
SnapshotCurrent ==
    \A r \in Requests : edit[r].pc = "write" /\ edit[r].order \notin overtaken =>
        edit[r].snapshot = rows[edit[r].order]

IInv ==
    /\ TypeOK
    /\ EditsPlaced
    /\ RowsRecorded
    /\ SnapshotRecorded
    /\ SnapshotCurrent
    /\ BilledWhatWasThere
    /\ TotalsBelongTogether
    /\ ExactUnlessOvertaken

LEMMA IInvInit == Init => IInv
<1> SUFFICES ASSUME Init
             PROVE  IInv
    OBVIOUS
<1> QED
    BY InitTypes
    DEF Init, IInv, EditsPlaced, RowsRecorded, SnapshotRecorded, SnapshotCurrent,
        BilledWhatWasThere, TotalsBelongTogether, ExactUnlessOvertaken, Idle

\* A statement of an edit changes the rows of its order: InsertItem and DeleteItem.
LEMMA ChangeStep ==
    ASSUME IInv, TypeOK', NEW r \in Requests, NEW s \in SUBSET Items,
           edit[r].pc \in {"insert", "delete"},
           ChangeRows(edit[r].order, s), Move(r, "recalc"),
           UNCHANGED <<placed, totals, broken>>
    PROVE  IInv'
<1> DEFINE o == edit[r].order
<1>1. edit[r] \in Busy /\ o \in placed /\ o \in Orders
    BY BusyEdit DEF IInv, EditsPlaced
<1>2. /\ edit'[r].pc = "recalc" /\ edit'[r].order = o
      /\ \A x \in Requests \ {r} : edit'[x] = edit[x]
    BY <1>1 DEF Move, IInv, TypeOK, Busy
<1>3. /\ rows'[o] = s /\ sums'[o] = sums[o] \cup {Worth[s]}
      /\ \A x \in Orders \ {o} : rows'[x] = rows[x] /\ sums'[x] = sums[x]
      /\ overtaken \subseteq overtaken'
      /\ \A x \in Requests : edit[x].pc = "write" /\ edit[x].order = o => o \in overtaken'
    BY <1>1 DEF ChangeRows, IInv, TypeOK
<1>4. placed \subseteq Orders /\ \A x \in Requests : edit[x].pc # "idle" => edit[x].order \in Orders
    BY BusyEdit DEF IInv, TypeOK
<1> HIDE DEF o
<1>5. EditsPlaced'
    BY <1>1, <1>2 DEF IInv, EditsPlaced
<1>6. RowsRecorded'
    BY <1>3, <1>4 DEF IInv, RowsRecorded
<1>7. SnapshotRecorded'
    BY <1>2, <1>3, <1>4 DEF IInv, SnapshotRecorded
<1>8. SnapshotCurrent'
    BY <1>2, <1>3, <1>4 DEF IInv, SnapshotCurrent
<1>9. BilledWhatWasThere'
    BY <1>3, <1>4 DEF IInv, BilledWhatWasThere
<1>10. TotalsBelongTogether'
    BY DEF IInv, TotalsBelongTogether
<1>11. ExactUnlessOvertaken'
  <2> SUFFICES ASSUME NEW x \in placed \ (overtaken' \cup broken), ~Unsettled(x)'
               PROVE  totals[x].items = Worth[rows'[x]]
      BY DEF ExactUnlessOvertaken
  <2>1. x # o
      BY <1>2 DEF Unsettled
  <2>2. ~Unsettled(x)
      BY <1>2, <2>1, <1>1 DEF Unsettled, o
  <2> QED
      BY <2>1, <2>2, <1>3, <1>4 DEF IInv, ExactUnlessOvertaken
<1> QED
    BY <1>5, <1>6, <1>7, <1>8, <1>9, <1>10, <1>11 DEF IInv

LEMMA IInvStep == IInv /\ [Next]_totalsVars => IInv'
<1> SUFFICES ASSUME IInv, [Next]_totalsVars
             PROVE  IInv'
    OBVIOUS
<1> USE DEF IInv
<1> TypeOK'
    BY TypesStep
<1>1. CASE UNCHANGED totalsVars
    BY <1>1
    DEF totalsVars, EditsPlaced, RowsRecorded, SnapshotRecorded, SnapshotCurrent,
        BilledWhatWasThere, TotalsBelongTogether, ExactUnlessOvertaken, Unsettled
<1>2. ASSUME NEW o \in Orders, CreateOrder(o)
      PROVE  IInv'
  <2>1. /\ o \notin placed /\ placed' = placed \cup {o}
        /\ rows'[o] = Ordered[o] /\ sums'[o] = {Worth[Ordered[o]]}
        /\ totals'[o] = Bill(Worth[Ordered[o]], Surcharge(o))
        /\ \A x \in Orders \ {o} :
              rows'[x] = rows[x] /\ sums'[x] = sums[x] /\ totals'[x] = totals[x]
        /\ UNCHANGED <<edit, overtaken, broken>>
      BY <1>2 DEF CreateOrder, TypeOK
  <2>2. placed \subseteq Orders
        /\ \A r \in Requests : edit[r].pc # "idle" => edit[r].order \in Orders \ {o}
      BY <2>1, BusyEdit DEF TypeOK, EditsPlaced
  <2>3. EditsPlaced'
      BY <2>1 DEF EditsPlaced
  <2>4. RowsRecorded'
      BY <2>1, <2>2 DEF RowsRecorded
  <2>5. SnapshotRecorded'
      BY <2>1, <2>2 DEF SnapshotRecorded
  <2>6. SnapshotCurrent'
      BY <2>1, <2>2 DEF SnapshotCurrent
  <2>7. totals'[o].items = Worth[Ordered[o]]
      BY <2>1 DEF Bill
  <2>8. BilledWhatWasThere'
      BY <2>1, <2>2, <2>7 DEF BilledWhatWasThere
  <2>9. TotalsBelongTogether'
      BY <2>1, <2>2, <2>7 DEF TotalsBelongTogether
  <2>10. ExactUnlessOvertaken'
      BY <2>1, <2>2, <2>7 DEF ExactUnlessOvertaken, Unsettled
  <2> QED
      BY <2>3, <2>4, <2>5, <2>6, <2>8, <2>9, <2>10
<1>3. ASSUME NEW o \in Orders, ChangeStatus(o)
      PROVE  IInv'
    BY <1>3
    DEF ChangeStatus, EditsPlaced, RowsRecorded, SnapshotRecorded, SnapshotCurrent,
        BilledWhatWasThere, TotalsBelongTogether, ExactUnlessOvertaken, Unsettled
<1>4. ASSUME NEW r \in Requests, NEW o \in Orders, NEW i \in Items,
             NEW pc \in {"insert", "delete"}, Begin(r, o, i, pc)
      PROVE  IInv'
  <2>1. /\ edit[r].pc = "idle" /\ o \in placed
        /\ edit'[r].pc = pc /\ edit'[r].order = o
        /\ \A x \in Requests \ {r} : edit'[x] = edit[x]
        /\ UNCHANGED <<placed, rows, totals, sums, overtaken, broken>>
      BY <1>4 DEF Begin, MayEdit, TypeOK, Idle
  <2>2. EditsPlaced' /\ SnapshotRecorded' /\ SnapshotCurrent'
      BY <2>1 DEF EditsPlaced, SnapshotRecorded, SnapshotCurrent
  <2>3. RowsRecorded' /\ BilledWhatWasThere' /\ TotalsBelongTogether'
      BY <2>1 DEF RowsRecorded, BilledWhatWasThere, TotalsBelongTogether
  <2>4. \A x \in Orders : Unsettled(x)' <=> Unsettled(x)
      BY <2>1 DEF Unsettled
  <2>5. ExactUnlessOvertaken'
      BY <2>1, <2>4 DEF ExactUnlessOvertaken, TypeOK
  <2> QED
      BY <2>2, <2>3, <2>5
<1>5. ASSUME NEW r \in Requests, InsertItem(r)
      PROVE  IInv'
  <2>1. rows[edit[r].order] \cup {edit[r].item} \in SUBSET Items
      BY <1>5, BusyEdit DEF InsertItem, TypeOK
  <2> QED
      BY <1>5, <2>1, ChangeStep DEF InsertItem
<1>6. ASSUME NEW r \in Requests, DeleteItem(r)
      PROVE  IInv'
  <2>1. rows[edit[r].order] \ {edit[r].item} \in SUBSET Items
      BY <1>6, BusyEdit DEF DeleteItem, TypeOK
  <2> QED
      BY <1>6, <2>1, ChangeStep DEF DeleteItem
<1>7. ASSUME NEW r \in Requests, RecalcSnapshot(r)
      PROVE  IInv'
  <2> DEFINE o == edit[r].order
  <2>1. edit[r] \in Busy /\ o \in placed
      BY <1>7, BusyEdit DEF RecalcSnapshot, EditsPlaced
  <2>2. /\ edit[r].pc = "recalc" /\ edit'[r].pc = "write"
        /\ edit'[r].order = o /\ edit'[r].snapshot = rows[o]
        /\ \A x \in Requests \ {r} : edit'[x] = edit[x]
        /\ UNCHANGED <<placed, rows, totals, sums, overtaken, broken>>
      BY <1>7, <2>1 DEF RecalcSnapshot, Visible, TypeOK, Busy
  <2> HIDE DEF o
  <2>3. EditsPlaced'
      BY <2>1, <2>2 DEF EditsPlaced
  <2>4. SnapshotRecorded'
      BY <2>1, <2>2 DEF SnapshotRecorded, RowsRecorded
  <2>5. SnapshotCurrent'
      BY <2>1, <2>2 DEF SnapshotCurrent
  <2>6. RowsRecorded' /\ BilledWhatWasThere' /\ TotalsBelongTogether'
      BY <2>2 DEF RowsRecorded, BilledWhatWasThere, TotalsBelongTogether
  <2>7. \A x \in Orders : Unsettled(x)' <=> Unsettled(x)
      BY <2>2 DEF Unsettled, o
  <2>8. ExactUnlessOvertaken'
      BY <2>2, <2>7 DEF ExactUnlessOvertaken, TypeOK
  <2> QED
      BY <2>3, <2>4, <2>5, <2>6, <2>8
<1>8. ASSUME NEW r \in Requests, RecalcWrite(r)
      PROVE  IInv'
  <2> DEFINE o == edit[r].order
             n == Worth[edit[r].snapshot]
  <2>1. o \in placed /\ o \in Orders
      BY <1>8, BusyEdit DEF RecalcWrite, EditsPlaced
  <2>2. /\ edit[r].pc = "write" /\ edit'[r].pc = "idle"
        /\ totals'[o] = Bill(n, 0)
        /\ \A x \in Orders \ {o} : totals'[x] = totals[x]
        /\ \A x \in Requests \ {r} : edit'[x] = edit[x]
        /\ UNCHANGED <<placed, rows, sums, overtaken, broken>>
      BY <1>8, <2>1 DEF RecalcWrite, RecalcBill, NewSum, Finish, TypeOK, Idle
  <2>3. totals'[o].items = n
      BY <2>2 DEF Bill
  <2>4. n \in sums[o] /\ (o \notin overtaken => n = Worth[rows[o]])
      BY <2>2 DEF SnapshotRecorded, SnapshotCurrent
  <2> HIDE DEF o, n
  <2>5. EditsPlaced' /\ SnapshotRecorded' /\ SnapshotCurrent'
      BY <2>2 DEF EditsPlaced, SnapshotRecorded, SnapshotCurrent
  <2>6. RowsRecorded'
      BY <2>2 DEF RowsRecorded
  <2>7. BilledWhatWasThere'
      BY <2>2, <2>3, <2>4 DEF BilledWhatWasThere, TypeOK
  <2>8. TotalsBelongTogether'
      BY <2>2, <2>3 DEF TotalsBelongTogether, TypeOK
  <2>9. \A x \in Orders \ {o} : Unsettled(x)' <=> Unsettled(x)
      BY <2>2 DEF Unsettled, o
  <2>10. ExactUnlessOvertaken'
      BY <2>2, <2>3, <2>4, <2>9 DEF ExactUnlessOvertaken, TypeOK
  <2> QED
      BY <2>5, <2>6, <2>7, <2>8, <2>10
<1>9. ASSUME NEW r \in Requests, Abandon(r)
      PROVE  IInv'
  <2>1. /\ edit'[r].pc = "idle"
        /\ \A x \in Requests \ {r} : edit'[x] = edit[x]
        /\ broken \subseteq broken'
        /\ edit[r].pc \in {"recalc", "write"} => edit[r].order \in broken'
        /\ UNCHANGED <<placed, rows, totals, sums, overtaken>>
      BY <1>9 DEF Abandon, Finish, TypeOK, Idle
  <2>2. EditsPlaced' /\ SnapshotRecorded' /\ SnapshotCurrent'
      BY <2>1 DEF EditsPlaced, SnapshotRecorded, SnapshotCurrent
  <2>3. RowsRecorded' /\ BilledWhatWasThere' /\ TotalsBelongTogether'
      BY <2>1 DEF RowsRecorded, BilledWhatWasThere, TotalsBelongTogether
  <2>4. \A x \in placed \ broken' : Unsettled(x)' <=> Unsettled(x)
      BY <2>1 DEF Unsettled
  <2>5. ExactUnlessOvertaken'
      BY <2>1, <2>4 DEF ExactUnlessOvertaken
  <2> QED
      BY <2>2, <2>3, <2>5
<1>10. ASSUME NEW i \in Items, DeleteProduct(i)
       PROVE  IInv'
    BY <1>10
    DEF DeleteProduct, EditsPlaced, RowsRecorded, SnapshotRecorded, SnapshotCurrent,
        BilledWhatWasThere, TotalsBelongTogether, ExactUnlessOvertaken, Unsettled
<1> HIDE DEF IInv
<1> QED
    BY <1>1, <1>2, <1>3, <1>4, <1>5, <1>6, <1>7, <1>8, <1>9, <1>10
    DEF Next, Step, BeginAdd, BeginRemove

LEMMA TotalsInvariant == Spec => []IInv
<1> QED
    BY IInvInit, IInvStep, PTL DEF Spec

-----------------------------------------------------------------------------
\* The amount an order asks for is what its rows were worth at some moment,
\* however its edits overlap and wherever they fail.
THEOREM TotalsBilled == Spec => []BilledWhatWasThere
<1>1. IInv => BilledWhatWasThere
    BY DEF IInv
<1> QED
    BY <1>1, TotalsInvariant, PTL

\* Items, fee and total of an order are always of one recalculation.
THEOREM TotalsTogether == Spec => []TotalsBelongTogether
<1>1. IInv => TotalsBelongTogether
    BY DEF IInv
<1> QED
    BY <1>1, TotalsInvariant, PTL

\* Totals are exact between edits, except after a lost recalculation or one
\* under which the rows changed: there is no third way to get them wrong.
THEOREM TotalsExact == Spec => []ExactUnlessOvertaken
<1>1. IInv => ExactUnlessOvertaken
    BY DEF IInv
<1> QED
    BY <1>1, TotalsInvariant, PTL
=============================================================================
