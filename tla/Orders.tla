------------------------------- MODULE Orders -------------------------------
(***************************************************************************)
(* The life of an order: the customer creates and cancels it, the pickers  *)
(* of its store move it on, the administrator overwrites it, and accounts  *)
(* of pickers are created, moved to another store and deleted meanwhile.   *)
(*                                                                         *)
(* Every SQL statement of these handlers is a transaction of its own       *)
(* (except in CreateOrder and DeletePicker, which use WithTx), and nothing *)
(* is locked between them.  A request is therefore a few steps, one per    *)
(* statement that reads or writes what another request may change: read    *)
(* the order, read the picker's store, write.  What a handler computes     *)
(* from a row it has read happens in the step that read it.  What          *)
(* a handler does after its last write (hub.Notify, push, Telegram) leaves *)
(* the tables alone, so its slot returns to "idle" with that write.        *)
(***************************************************************************)
EXTENDS OrderStatus

CONSTANTS
    Orders,
    Guests,       \* orders without a user_id
    Pickers,
    Stores,
    StoreOf,      \* the store of an order
    Requests,     \* slots for requests in flight
    AdminTargets, \* the statuses the administrator writes (all of them in the code)
    Customer,     \* who asks, when it is not a picker
    NoPicker,     \* picker_id is NULL
    NoOrder,
    Absent,       \* no such row yet
    Unhired, Deleted   \* the store of an account that does not exist yet, any more

ASSUME GuestsAssumption == Guests \subseteq Orders
ASSUME StoreAssumption == StoreOf \in [Orders -> Stores]
ASSUME AdminAssumption == AdminTargets \subseteq Statuses
ASSUME NamesAssumption ==
    /\ NoPicker \notin Pickers
    /\ Customer \notin Pickers
    /\ NoOrder \notin Orders
    /\ Absent \notin Statuses
    /\ {Unhired, Deleted} \cap Stores = {}
    /\ Unhired # Deleted

VARIABLES
    status,      \* orders.status
    picker,      \* orders.picker_id
    store,       \* users.store_id of each picker
    req,         \* the request in each slot
    claims,      \* history: the pickers whose claim of an order succeeded
    seen,        \* history: the statuses an order had, until the administrator wrote it
    been,        \* history: the stores a picker has been bound to
    overridden   \* history: the orders the administrator has written

ordersVars == <<status, picker, store, req, claims, seen, been, overridden>>

Idle == [pc |-> "idle", order |-> NoOrder, by |-> Customer, target |-> Absent]

Busy == [pc : {"check", "write"}, order : Orders,
         by : Pickers \cup {Customer}, target : Statuses]

TypeOK ==
    /\ status \in [Orders -> Statuses \cup {Absent}]
    /\ picker \in [Orders -> Pickers \cup {NoPicker}]
    /\ store \in [Pickers -> Stores \cup {Unhired, Deleted}]
    /\ req \in [Requests -> Busy \cup {Idle}]
    /\ claims \in [Orders -> SUBSET Pickers]
    /\ seen \in [Orders -> SUBSET Statuses]
    /\ been \in [Pickers -> SUBSET Stores]
    /\ overridden \subseteq Orders

Init ==
    /\ status = [o \in Orders |-> Absent]
    /\ picker = [o \in Orders |-> NoPicker]
    /\ store = [p \in Pickers |-> Unhired]
    /\ req = [r \in Requests |-> Idle]
    /\ claims = [o \in Orders |-> {}]
    /\ seen = [o \in Orders |-> {}]
    /\ been = [p \in Pickers |-> {}]
    /\ overridden = {}

-----------------------------------------------------------------------------
(* Requests, step by step. *)

\* The slot of request r moves to pc, for target t of order o, asked by p.
Enter(r, pc, o, p, t) ==
    req' = [req EXCEPT ![r] = [pc |-> pc, order |-> o, by |-> p, target |-> t]]

Advance(r, pc) == Enter(r, pc, req[r].order, req[r].by, req[r].target)
Leave(r) == req' = [req EXCEPT ![r] = Idle]

\* One UPDATE of orders.status has committed.
Commit(o, t) ==
    /\ status' = [status EXCEPT ![o] = t]
    /\ seen' = IF o \in overridden THEN seen ELSE [seen EXCEPT ![o] = @ \cup {t}]

-----------------------------------------------------------------------------
(* What the handlers check, each beside what a bug would make of it. *)

\* Fault: the transition is not validated.
MayMoveAnywhere(o, t) == status[o] \notin Final \cup {Absent}

MayMove(o, t) ==
    /\ status[o] \notin Final \cup {Absent}
    /\ IsValidStateTransition(status[o], t)

\* Fault: any picker may touch any store's orders.
AnyStore(p, o) == store[p] \in Stores

OwnStore(p, o) == store[p] = StoreOf[o]

\* Fault: only the second claiming status is written with picker_id.
NeedsClaimLate(t) == t = "ASSEMBLING"

NeedsClaim(t) == t \in Claiming

\* Fault: the UPDATE of a claim has no condition on picker_id.
Unconditional(o, p) == TRUE

\* WHERE picker_id IS NULL OR picker_id = $2
FreeFor(o, p) == picker[o] \in {NoPicker, p}

\* Fault: orders.picker_id is no foreign key.
NoKey(p) == TRUE

\* FOREIGN KEY (picker_id) REFERENCES users (id)
AccountExists(p) == store[p] # Deleted

\* Fault: the orders of a deleted account keep pointing at it.
KeepAssigned(p) == UNCHANGED picker

\* Fault: the orders of a deleted account are marked instead of freed.
MarkDeleted(p) ==
    picker' = [o \in Orders |-> IF picker[o] = p THEN Deleted ELSE picker[o]]

Unassign(p) ==
    picker' = [o \in Orders |-> IF picker[o] = p THEN NoPicker ELSE picker[o]]

-----------------------------------------------------------------------------
\* CreateOrder: the order, its items, delivery and payment in one transaction.
CreateOrder(o) ==
    /\ status[o] = Absent
    /\ Commit(o, "NEW")
    /\ UNCHANGED <<picker, store, req, claims, been, overridden>>

\* CancelOrderByUser, up to its write.
BeginCancel(r, o) ==
    /\ req[r] = Idle
    /\ o \notin Guests
    /\ status[o] \in Cancellable
    /\ IsValidStateTransition(status[o], "CANCELLED")
    /\ Enter(r, "write", o, Customer, "CANCELLED")
    /\ UNCHANGED <<status, picker, store, claims, seen, been, overridden>>

\* The picker's UpdateStatus reads the order, and refuses on what it read.
BeginPick(r, o, p, t) ==
    /\ req[r] = Idle
    /\ store[p] # Unhired
    /\ MayMove(o, t)
    /\ picker[o] \in {NoPicker, p}
    /\ Enter(r, "check", o, p, t)
    /\ UNCHANGED <<status, picker, store, claims, seen, been, overridden>>

\* ... then reads the picker's own row: the order must be of the picker's store.
CheckPick(r) ==
    /\ req[r].pc = "check"
    /\ OwnStore(req[r].by, req[r].order)
    /\ Advance(r, "write")
    /\ UNCHANGED <<status, picker, store, claims, seen, been, overridden>>

\* UpdateStatusAndAssignPicker: the order must still be free or the picker's
\* own, and the foreign key wants the picker's account to exist.
ClaimWrite(r) ==
    LET o == req[r].order
        p == req[r].by
        t == req[r].target
    IN  /\ req[r].pc = "write"
        /\ p # Customer
        /\ NeedsClaim(t)
        /\ FreeFor(o, p)
        /\ AccountExists(p)
        /\ picker' = [picker EXCEPT ![o] = p]
        /\ claims' = [claims EXCEPT ![o] = @ \cup {p}]
        /\ Commit(o, t)
        /\ Leave(r)
        /\ UNCHANGED <<store, been, overridden>>

\* UpdateStatus of either repository: WHERE id = $2, and nothing else.
PlainWrite(r) ==
    /\ req[r].pc = "write"
    /\ req[r].by = Customer \/ ~NeedsClaim(req[r].target)
    /\ Commit(req[r].order, req[r].target)
    /\ Leave(r)
    /\ UNCHANGED <<picker, store, claims, been, overridden>>

\* The handler returns before its next step: a check refuses, a statement
\* fails or matches no row, the request context ends, the process stops.
Abandon(r) ==
    /\ req[r] # Idle
    /\ Leave(r)
    /\ UNCHANGED <<status, picker, store, claims, seen, been, overridden>>

-----------------------------------------------------------------------------
(* The administrator: each handler is one statement or one transaction. *)

\* UpdateOrderStatus of the admin service checks that the status exists.
AdminWrite(o, t) ==
    /\ status[o] # Absent
    /\ t \in AdminTargets
    /\ status' = [status EXCEPT ![o] = t]
    /\ overridden' = overridden \cup {o}
    /\ UNCHANGED <<picker, store, req, claims, seen, been>>

\* CreatePicker and UpdatePickerStore: an account is bound to a store.  Ids
\* are fresh, so a deleted account does not come back.
BindPicker(p, s) ==
    /\ store[p] # Deleted
    /\ store[p] # s
    /\ store' = [store EXCEPT ![p] = s]
    /\ been' = [been EXCEPT ![p] = @ \cup {s}]
    /\ UNCHANGED <<status, picker, req, claims, seen, overridden>>

\* DeletePicker: both statements in one transaction, which the foreign key
\* orders before or after any claim by the same picker.
DeletePicker(p) ==
    /\ store[p] \in Stores
    /\ store' = [store EXCEPT ![p] = Deleted]
    /\ Unassign(p)
    /\ UNCHANGED <<status, req, claims, seen, been, overridden>>

-----------------------------------------------------------------------------
Step(r) ==
    \/ \E o \in Orders : \/ BeginCancel(r, o)
                         \/ \E p \in Pickers, t \in Statuses : BeginPick(r, o, p, t)
    \/ CheckPick(r)
    \/ ClaimWrite(r)
    \/ PlainWrite(r)
    \/ Abandon(r)

Admin ==
    \/ \E o \in Orders, t \in Statuses : AdminWrite(o, t)
    \/ \E p \in Pickers : DeletePicker(p) \/ \E s \in Stores : BindPicker(p, s)

Next ==
    \/ \E o \in Orders : CreateOrder(o)
    \/ \E r \in Requests : Step(r)
    \/ Admin

Spec == Init /\ [][Next]_ordersVars

-----------------------------------------------------------------------------
(* Correctness. *)

Gone == {p \in Pickers : store[p] = Deleted}

\* A picker who was answered "accepted" or "assembling" owns the order until
\* the account is deleted: two pickers, or two tablets of one, never both win
\* an order, although both read it while it was free.
ClaimsExclusive ==
    \A o \in Orders : \A p \in claims[o] : picker[o] = p \/ p \in Gone

\* An order points only at accounts that exist (the foreign key of the
\* migration), whatever claims were in flight when an account was deleted.
NoDanglingPicker == \A o \in Orders : picker[o] \notin Gone

\* Unless the administrator wrote the order, every status it has had was
\* entered along the table from another status it has had: races may turn an
\* order back, they never let it skip a stage.
NoStageSkipped ==
    \A o \in Orders \ overridden : \A t \in seen[o] \ {"NEW"} :
        \E s \in seen[o] : IsValidStateTransition(s, t)

\* Unless the administrator wrote it, an order that has been past NEW and
\* CANCELLED was claimed by a picker.
WorkIsClaimed ==
    \A o \in Orders \ overridden :
        seen[o] \subseteq {"NEW", "CANCELLED"} \/ claims[o] # {}

\* A picker claims only orders of a store the picker has been bound to,
\* although the binding may change at any step of the request.
ClaimsFromOwnStore ==
    \A o \in Orders : \A p \in claims[o] : StoreOf[o] \in been[p]

Contract == INSTANCE OrderContract WITH
    stages <- seen, owner <- picker, exempt <- overridden, gone <- Gone

\* The handlers implement the contract: every step of theirs is a step of it.
KeepsContract == Contract!Spec

\* models/order.go:130-131 calls DELIVERED and CANCELLED final: without the
\* administrator, an order that has been in one of them is there still.
FinalIsFinal ==
    \A o \in Orders \ overridden : \A f \in Final \cap seen[o] : status[o] = f
=============================================================================
