----------------------------- MODULE OrderTotals -----------------------------
(***************************************************************************)
(* The money of an order: the rows of order_items, and the totals that the *)
(* orders table keeps of them.  CreateOrder writes both in one transaction.*)
(* A picker who adds or removes an item afterwards writes the row in one   *)
(* statement and recalculates in another.                                  *)
(*                                                                         *)
(* The recalculation is one UPDATE whose sums are sub-selects.  It is two  *)
(* steps here: PostgreSQL (READ COMMITTED) gives a statement one snapshot  *)
(* when it starts, and an UPDATE that finds its row changed since, waits   *)
(* and goes on with the new row; its sub-selects still see the snapshot.   *)
(* GetOrder's statements are one step: what they read is not used again.   *)
(***************************************************************************)
EXTENDS Naturals

CONSTANTS
    Orders,
    Items,        \* ids of rows of order_items
    Ordered,      \* the rows CreateOrder inserts for an order
    Worth,        \* SUM(price * quantity) over a set of rows, in kopecks
    FeePercent, DeliveryFee, ExpressFee,
    Express,      \* orders with express delivery
    Requests,     \* slots for a picker's requests in flight
    NoOrder, NoItem

ASSUME OrderedAssumption ==
    /\ Ordered \in [Orders -> SUBSET Items]
    /\ \A o, x \in Orders : o # x => Ordered[o] \cap Ordered[x] = {}
ASSUME MoneyAssumption ==
    /\ Worth \in [SUBSET Items -> Nat]
    /\ FeePercent \in Nat /\ DeliveryFee \in Nat /\ ExpressFee \in Nat
ASSUME IdsAssumption == NoOrder \notin Orders /\ NoItem \notin Items

VARIABLES
    placed,      \* orders that exist
    final,       \* those that are CANCELLED or DELIVERED
    rows,        \* the rows of order_items, by order
    used,        \* ids of rows that exist or existed
    nameless,    \* rows whose product was deleted: they have no name left
    totals,      \* items_total, service_fee and final_total of an order
    edit,        \* the request in each slot
    sums,        \* history: what an order's rows have been worth
    overtaken,   \* history: orders whose rows changed under a recalculation
    broken       \* history: orders with an edit that ended before its recalculation

totalsVars == <<placed, final, rows, used, nameless, totals, edit, sums, overtaken, broken>>

Idle == [pc |-> "idle", order |-> NoOrder, item |-> NoItem, snapshot |-> {}]

Busy == [pc : {"insert", "delete", "recalc", "write"}, order : Orders,
         item : Items, snapshot : SUBSET Items]

TypeOK ==
    /\ placed \subseteq Orders
    /\ final \subseteq placed
    /\ rows \in [Orders -> SUBSET used]
    /\ used \subseteq Items
    /\ nameless \subseteq Items
    /\ totals \in [Orders -> [items : Nat, fee : Nat, total : Nat]]
    /\ edit \in [Requests -> Busy \cup {Idle}]
    /\ sums \in [Orders -> SUBSET Nat]
    /\ overtaken \subseteq Orders
    /\ broken \subseteq Orders

\* The ids a picker's insert may be given: uuids, never one in use or used before.
Fresh == Items \ (used \cup UNION {Ordered[o] : o \in Orders})

-----------------------------------------------------------------------------
\* Both places that compute a fee divide by 100 into a column of two decimals.
Fee(n) == (n * FeePercent + 50) \div 100

Surcharge(o) == IF o \in Express THEN ExpressFee ELSE 0

Bill(n, extra) ==
    [items |-> n, fee |-> Fee(n), total |-> n + Fee(n) + DeliveryFee + extra]

Init ==
    /\ placed = {}
    /\ final = {}
    /\ rows = [o \in Orders |-> {}]
    /\ used = {}
    /\ nameless = {}
    /\ totals = [o \in Orders |-> [items |-> 0, fee |-> 0, total |-> 0]]
    /\ edit = [r \in Requests |-> Idle]
    /\ sums = [o \in Orders |-> {}]
    /\ overtaken = {}
    /\ broken = {}

\* CreateOrder: the totals are computed from the lines that are inserted.
CreateOrder(o) ==
    /\ o \notin placed
    /\ placed' = placed \cup {o}
    /\ rows' = [rows EXCEPT ![o] = Ordered[o]]
    /\ used' = used \cup Ordered[o]
    /\ totals' = [totals EXCEPT ![o] = Bill(Worth[Ordered[o]], Surcharge(o))]
    /\ sums' = [sums EXCEPT ![o] = {Worth[Ordered[o]]}]
    /\ UNCHANGED <<final, nameless, edit, overtaken, broken>>

\* A status becomes final, or stops being final (see Orders).
ChangeStatus(o) ==
    /\ o \in placed
    /\ final' \in {final \cup {o}, final \ {o}}
    /\ UNCHANGED <<placed, rows, used, nameless, totals, edit, sums, overtaken, broken>>

\* The administrator deletes a product: ON DELETE SET NULL leaves the rows
\* that CreateOrder inserted, with neither a product nor a name of their own.
DeleteProduct(i) ==
    /\ \E o \in placed : i \in Ordered[o] \cap rows[o]
    /\ nameless' = nameless \cup {i}
    /\ UNCHANGED <<placed, final, rows, used, totals, edit, sums, overtaken, broken>>

-----------------------------------------------------------------------------
(* The picker's AddItem and RemoveItem. *)

Move(r, pc) == edit' = [edit EXCEPT ![r].pc = pc]

Finish(r) == edit' = [edit EXCEPT ![r] = Idle]

\* GetOrder and the check of the status it read.  The items are read for the
\* answer; a row without a name fails the scan, and with it the request.
MayEdit(o) == o \in placed \ final /\ rows[o] \cap nameless = {}

Begin(r, o, i, pc) ==
    /\ edit[r] = Idle
    /\ MayEdit(o)
    /\ edit' = [edit EXCEPT ![r] = [pc |-> pc, order |-> o, item |-> i, snapshot |-> {}]]
    /\ UNCHANGED <<placed, final, rows, used, nameless, totals, sums, overtaken, broken>>

BeginAdd(r, o, i) == i \in Fresh /\ Begin(r, o, i, "insert")

\* The picker's screen offers the items of the order it shows.
BeginRemove(r, o, i) == i \in rows[o] /\ Begin(r, o, i, "delete")

\* The statement of an edit on order o has left it with the rows s.
ChangeRows(o, s) ==
    /\ rows' = [rows EXCEPT ![o] = s]
    /\ sums' = [sums EXCEPT ![o] = @ \cup {Worth[s]}]
    /\ overtaken' = IF \E x \in Requests : edit[x].pc = "write" /\ edit[x].order = o
                    THEN overtaken \cup {o} ELSE overtaken

InsertItem(r) ==
    LET o == edit[r].order
    IN  /\ edit[r].pc = "insert"
        /\ edit[r].item \in Fresh
        /\ used' = used \cup {edit[r].item}
        /\ ChangeRows(o, rows[o] \cup {edit[r].item})
        /\ Move(r, "recalc")
        /\ UNCHANGED <<placed, final, nameless, totals, broken>>

\* A row that is no longer there is an error; nothing is recalculated then.
DeleteItem(r) ==
    LET o == edit[r].order
    IN  /\ edit[r].pc = "delete"
        /\ edit[r].item \in rows[o]
        /\ ChangeRows(o, rows[o] \ {edit[r].item})
        /\ Move(r, "recalc")
        /\ UNCHANGED <<placed, final, used, nameless, totals, broken>>

\* Fault: the recalculation does not see the row that was just written.
WithoutItem(r) == rows[edit[r].order] \ {edit[r].item}

Visible(r) == rows[edit[r].order]

RecalcSnapshot(r) ==
    /\ edit[r].pc = "recalc"
    /\ edit' = [edit EXCEPT ![r].pc = "write", ![r].snapshot = Visible(r)]
    /\ UNCHANGED <<placed, final, rows, used, nameless, totals, sums, overtaken, broken>>

\* Fault: the total is carried forward by the price of the item.
Adjusted(r) == totals[edit[r].order].items + Worth[{edit[r].item}]

\* Fault: the price of the item is taken off, whether it was there or not.
Deducted(r) == totals[edit[r].order].items - Worth[{edit[r].item}]

NewSum(r) == Worth[edit[r].snapshot]

\* Fault: the fee of the previous totals is kept.
KeepFee(o, n) == [totals[o] EXCEPT !.items = n, !.total = n + @ - totals[o].items]

\* delivery_fee is added, delivery_surcharge is not.
RecalcBill(o, n) == Bill(n, 0)

RecalcWrite(r) ==
    LET o == edit[r].order
    IN  /\ edit[r].pc = "write"
        /\ totals' = [totals EXCEPT ![o] = RecalcBill(o, NewSum(r))]
        /\ Finish(r)
        /\ UNCHANGED <<placed, final, rows, used, nameless, sums, overtaken, broken>>

\* A statement fails, the row is gone, the request context ends, the process
\* stops: what was written stays.
Abandon(r) ==
    /\ edit[r].pc # "idle"
    /\ broken' = IF edit[r].pc \in {"recalc", "write"}
                 THEN broken \cup {edit[r].order} ELSE broken
    /\ Finish(r)
    /\ UNCHANGED <<placed, final, rows, used, nameless, totals, sums, overtaken>>

-----------------------------------------------------------------------------
Step(r) ==
    \/ \E o \in Orders, i \in Items : BeginAdd(r, o, i) \/ BeginRemove(r, o, i)
    \/ InsertItem(r)
    \/ DeleteItem(r)
    \/ RecalcSnapshot(r)
    \/ RecalcWrite(r)
    \/ Abandon(r)

Next ==
    \/ \E o \in Orders : CreateOrder(o) \/ ChangeStatus(o)
    \/ \E i \in Items : DeleteProduct(i)
    \/ \E r \in Requests : Step(r)

Spec == Init /\ [][Next]_totalsVars

-----------------------------------------------------------------------------
(* Correctness. *)

\* An edit of o has written its row and not yet its totals.
Unsettled(o) == \E r \in Requests : edit[r].pc \in {"recalc", "write"} /\ edit[r].order = o

\* Whatever overlaps, fails or is lost: the amount an order asks for is what its
\* rows were worth at some moment, never a mixture of two edits.
BilledWhatWasThere == \A o \in placed : totals[o].items \in sums[o]

\* The three totals belong together: they are the bill of one sum.  The
\* surcharge of express delivery is part of it only until the first edit.
TotalsBelongTogether ==
    \A o \in placed : \E extra \in {0, Surcharge(o)} :
        totals[o] = Bill(totals[o].items, extra)

\* An order none of whose edits lost its second statement, and whose rows never
\* changed while a recalculation held its snapshot, has exact totals whenever
\* no edit is between its two statements: that window is the only one.
ExactUnlessOvertaken ==
    \A o \in placed \ (overtaken \cup broken) :
        ~Unsettled(o) => totals[o].items = Worth[rows[o]]

\* docs/GO_LEARNING_GUIDE.md:119 and :121: the single UPDATE leaves "no window
\* between reading and writing", and when two pickers change an order at once
\* "SQL sorts it out": totals are exact once the edits of an order are done.
TotalsSettle ==
    \A o \in placed \ broken :
        ~Unsettled(o) => totals[o].items = Worth[rows[o]]
=============================================================================
