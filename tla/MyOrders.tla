------------------------------ MODULE MyOrders ------------------------------
(***************************************************************************)
(* The customer's orders on his screen (Frontend/client-app): the profile  *)
(* drawer with its list and the sheet of one order, its cancellation, shown *)
(* before the server agrees, and the ways a notification opens an order.   *)
(*                                                                         *)
(* As in PickerApp, an order is the sequence of statuses its row has had   *)
(* and a copy of it an index into that sequence; Hoped stands for the      *)
(* status CANCELLED that the screen shows ahead of the server.             *)
(***************************************************************************)
EXTENDS OrderStatus, Naturals, Sequences, FiniteSets, Functions

CONSTANTS
    Mine,        \* the customer's orders
    Begin,       \* bound: the statuses they have when the page is loaded
    Pages,       \* the orders that the loaded pages of the list may hold
    Pushed,      \* bound: the orders that pushes are about
    OthersWrite, \* bound: the statuses that other people give an order
    MaxRows,     \* bound: statuses of an order
    MaxMoves,    \* bound: changes of statuses
    MaxTrouble,  \* bound: failed requests
    Nothing

Hoped == 0
Copy == [id : Mine, ver : 0 .. MaxRows, items : BOOLEAN]
\* The pages of the list loaded so far.
Listings == [Mine -> Copy \cup {Nothing}]

ASSUME MyOrdersAssumption ==
    /\ Nothing \notin Mine \cup Copy /\ Pages \subseteq SUBSET Mine /\ Pushed \subseteq Mine
    /\ Begin \cup OthersWrite \subseteq Statuses
    /\ MaxRows \in Nat \ {0} /\ MaxMoves \in Nat /\ MaxTrouble \in Nat

VARIABLES
    rows,      \* server: the statuses of each order
    signed,    \* is the session being restored, or whose is it?
    drawer,    \* profileOpen
    pending,   \* pendingOrderId
    initial,   \* initialOrderId
    dirty,     \* has the drawer been rendered and its effect not yet run?
    list,      \* the cache of the orders query
    listing,   \* is the list being fetched?
    opening,   \* getOrder of an initialOrderId on the way
    picked,    \* selectedOrder
    full,      \* the copy the open sheet shows
    asks,      \* getOrder of the open sheet on the way
    cancel,    \* cancelOrder on the way
    dropped,   \* history: an order that a push asked for and nobody will open
    stale,     \* history: the open sheet was not told what was picked or rolled back
    trouble

drawerVars == <<drawer, pending, initial, dirty, dropped>>
sheetVars == <<picked, full, asks, stale>>
listVars == <<list, listing, opening>>
orderVars == <<rows, signed, drawerVars, listVars, sheetVars, cancel, trouble>>

NoCancel == [st |-> "idle", prev |-> Nothing, here |-> FALSE]
NoListing == [o \in Mine |-> Nothing]

MyOrdersTypeOK ==
    /\ rows \in [Mine -> Seq(Statuses)] /\ \A o \in Mine : Len(rows[o]) \in 1 .. MaxRows
    /\ signed \in {"restoring", "in", "out"}
    /\ drawer \in BOOLEAN /\ dirty \in BOOLEAN /\ listing \in BOOLEAN /\ stale \in BOOLEAN
    /\ {pending, initial, dropped} \subseteq Mine \cup {Nothing}
    /\ list \in Listings
    /\ opening \subseteq Mine /\ asks \subseteq Mine
    /\ {picked, full} \subseteq Copy \cup {Nothing}
    /\ cancel.st \in {"idle", "sent", "checked", "done", "refused"}
    /\ cancel.st # "idle" => cancel.prev \in Copy /\ cancel.prev.ver # Hoped
    /\ trouble \in 0 .. MaxTrouble
    \* A sheet is on the screen exactly when there is something to show in it.
    /\ (full # Nothing) = (drawer /\ picked # Nothing)

\* The page is loaded, perhaps by a push that names an order in the address.
MyOrdersInit ==
    /\ rows \in [Mine -> {<<s>> : s \in Begin}]
    /\ signed = "restoring"
    /\ pending \in Pushed \cup {Nothing}
    /\ drawer = FALSE /\ initial = Nothing /\ dirty = FALSE /\ dropped = Nothing
    /\ list = NoListing /\ listing = FALSE /\ opening = {}
    /\ picked = Nothing /\ full = Nothing /\ asks = {} /\ stale = FALSE
    /\ cancel = NoCancel
    /\ trouble = 0

Fails == trouble < MaxTrouble /\ trouble' = trouble + 1
\* The row of an order gets another status.
Moves(o, s) ==
    /\ Len(rows[o]) < MaxRows
    /\ SumFunction([p \in Mine |-> Len(rows[p]) - 1]) < MaxMoves
    /\ rows' = [rows EXCEPT ![o] = Append(@, s)]

Current(o) == rows[o][Len(rows[o])]
Fetched(o) == [id |-> o, ver |-> Len(rows[o]), items |-> TRUE]

\* React runs the effects of a render before the next event.
Settled == ~dirty /\ pending = Nothing

Rendered == dirty' = (drawer' /\ initial' # Nothing)

\* Fault: the sheet asks for the order it was opened for, and for no other.
SelectOnce(c) ==
    /\ picked' = c
    /\ IF full # Nothing
       THEN UNCHANGED <<full, asks, stale>>
       ELSE /\ full' = IF drawer THEN c ELSE Nothing
            /\ asks' = IF drawer /\ ~c.items THEN {c.id} ELSE {}
            /\ stale' = FALSE

\* setSelectedOrder(c): an open sheet keeps what it shows, and asks for the new
\* order only when the copy it is given has no items.
Select(c) ==
    /\ picked' = c
    /\ IF full # Nothing
       THEN LET other == c.id # picked.id
            IN  /\ full' = full
                /\ asks' = IF other /\ ~c.items THEN asks \cup {c.id} ELSE asks
                /\ stale' = (stale \/ (other /\ (c.items \/ asks # {})))
       ELSE /\ full' = IF drawer THEN c ELSE Nothing
            /\ asks' = IF drawer /\ ~c.items THEN {c.id} ELSE {}
            /\ stale' = FALSE

-----------------------------------------------------------------------------
(* Opening the drawer, by hand or for a notification. *)

SessionRestored(who) ==
    /\ signed = "restoring"
    /\ pending = Nothing
    /\ who \in {"in", "out"}
    /\ signed' = who
    /\ UNCHANGED <<rows, drawerVars, listVars, sheetVars, cancel, trouble>>

\* A click on a push message, or on "open the order" of OrderUpdateModal.
PushClicked(o) ==
    /\ Settled
    /\ pending' = o
    /\ UNCHANGED <<rows, signed, drawer, initial, dirty, dropped, listVars, sheetVars,
                   cancel, trouble>>

\* The drawer is shown: its list is fetched, unless it is fresh.
ShowDrawer ==
    /\ drawer' = TRUE
    /\ listing' \in {TRUE, listing \/ list = NoListing}
    /\ full' = IF drawer THEN full ELSE picked
    /\ asks' = IF drawer \/ picked = Nothing \/ picked.items THEN asks ELSE {picked.id}

\* The effect of page.tsx: a guest's wish to open an order is forgotten.
OpenPending ==
    /\ pending # Nothing
    /\ pending' = Nothing
    /\ IF signed = "in"
       THEN ShowDrawer /\ initial' = pending /\ Rendered /\ UNCHANGED dropped
       ELSE /\ dropped' = IF signed = "restoring" THEN pending ELSE dropped
            /\ UNCHANGED <<drawer, initial, dirty, listing, full, asks>>
    /\ UNCHANGED <<rows, signed, list, opening, picked, stale, cancel, trouble>>

OpenDrawer ==
    /\ Settled /\ signed = "in" /\ ~drawer
    /\ ShowDrawer
    /\ UNCHANGED <<rows, signed, pending, initial, dirty, dropped, list, opening, picked,
                   stale, cancel, trouble>>

CloseDrawer ==
    /\ Settled /\ drawer /\ picked = Nothing
    /\ drawer' = FALSE /\ initial' = Nothing
    /\ UNCHANGED <<rows, signed, pending, dirty, dropped, listVars, sheetVars, cancel,
                   trouble>>

\* The effect of ProfileDrawer depends on a list that is new in every render:
\* it selects the order it was opened for again and again, or asks for it.
SelectInitial ==
    /\ dirty
    /\ dirty' = FALSE
    /\ IF list[initial] # Nothing
       THEN Select(list[initial]) /\ UNCHANGED opening
       ELSE opening' = opening \cup {initial} /\ UNCHANGED sheetVars
    /\ UNCHANGED <<rows, signed, drawer, pending, initial, dropped, list, listing, cancel,
                   trouble>>

\* Nothing cancels it when the drawer is closed or another order is opened.
OpeningAnswers(o) ==
    /\ Settled /\ o \in opening
    /\ opening' = opening \ {o}
    /\ Select(Fetched(o))
    /\ UNCHANGED <<drawer, initial>> /\ Rendered
    /\ UNCHANGED <<rows, signed, pending, dropped, list, listing, cancel, trouble>>

OpeningFails(o) ==
    /\ Settled /\ o \in opening
    /\ Fails
    /\ opening' = opening \ {o}
    /\ UNCHANGED <<rows, signed, drawerVars, list, listing, sheetVars, cancel>>

\* The pages that answer hold some of the orders, without their items.
ListAnswers ==
    /\ Settled /\ listing
    /\ listing' = FALSE
    /\ \E S \in Pages :
         list' = [o \in Mine |-> IF o \in S THEN [Fetched(o) EXCEPT !.items = FALSE] ELSE Nothing]
    /\ UNCHANGED <<drawer, initial>> /\ Rendered
    /\ UNCHANGED <<rows, signed, pending, dropped, opening, sheetVars, cancel, trouble>>

-----------------------------------------------------------------------------
(* The sheet of one order. *)

PickOrder(o) ==
    /\ Settled /\ drawer /\ picked = Nothing
    /\ list[o] # Nothing
    /\ Select(list[o])
    /\ UNCHANGED <<drawer, initial>> /\ Rendered
    /\ UNCHANGED <<rows, signed, pending, dropped, listVars, cancel, trouble>>

CloseOrder ==
    /\ Settled /\ full # Nothing
    /\ picked' = Nothing /\ full' = Nothing /\ asks' = {} /\ stale' = FALSE
    /\ cancel' = [cancel EXCEPT !.here = FALSE]
    /\ UNCHANGED <<drawer, initial>> /\ Rendered
    /\ UNCHANGED <<rows, signed, pending, dropped, listVars, trouble>>

\* Whichever answer comes last is shown.
DetailAnswers(o) ==
    /\ Settled /\ o \in asks
    /\ full' = Fetched(o)
    /\ asks' = asks \ {o}
    /\ UNCHANGED <<rows, signed, drawerVars, listVars, picked, stale, cancel, trouble>>

DetailFails(o) ==
    /\ Settled /\ o \in asks
    /\ Fails
    /\ asks' = asks \ {o}
    /\ stale' = (stale \/ full.id # picked.id)
    /\ UNCHANGED <<rows, signed, drawerVars, listVars, picked, full, cancel>>

\* Fault: the button is there until the order is final.
UntilFinal(s) == s \notin Final

\* cancellableStatuses: the button of handleCancel.
CanCancel(s) == s \in {"NEW", "ACCEPTED_BY_PICKER", "NEEDS_CONFIRMATION", "ASSEMBLING"}

Listed(c) == [list EXCEPT ![c.id] = IF @ = Nothing THEN Nothing ELSE c]

\* At once CANCELLED in the sheet and in the list.
Cancel ==
    /\ Settled /\ full # Nothing /\ cancel.st = "idle"
    /\ full.ver # Hoped /\ CanCancel(rows[full.id][full.ver])
    /\ LET hope == [full EXCEPT !.ver = Hoped]
       IN  /\ full' = hope /\ picked' = hope /\ list' = Listed(hope)
           /\ cancel' = [st |-> "sent", prev |-> full, here |-> TRUE]
    /\ stale' = (stale \/ full.id # picked.id)
    /\ UNCHANGED <<drawer, initial>> /\ Rendered
    /\ UNCHANGED <<rows, signed, pending, dropped, listing, opening, asks, trouble>>

\* CancelOrderByUser reads the order and decides, then writes whatever the order
\* has become meanwhile (see Orders).
ServeCancel ==
    /\ cancel.st = "sent"
    /\ cancel' = [cancel EXCEPT !.st =
                    IF Current(cancel.prev.id) \in Cancellable THEN "checked" ELSE "refused"]
    /\ UNCHANGED <<rows, signed, drawerVars, listVars, sheetVars, trouble>>

WriteCancel ==
    /\ cancel.st = "checked"
    /\ Moves(cancel.prev.id, "CANCELLED")
    /\ cancel' = [cancel EXCEPT !.st = "done"]
    /\ UNCHANGED <<signed, drawerVars, listVars, sheetVars, trouble>>

Cancelled ==
    /\ Settled /\ cancel.st = "done"
    /\ cancel' = NoCancel
    /\ UNCHANGED <<rows, signed, drawerVars, listVars, sheetVars, trouble>>

\* Fault: the list keeps the status that was hoped for.
ListedNot(c) == IF c.id \in Mine THEN list ELSE NoListing

\* The copy the list is given back.
RollBack(c) == Listed(c)

\* Refused or lost: the sheet, if it is still the same one, and the list get
\* the copy of before; a sheet that was closed is opened again.
CancelFails ==
    /\ Settled
    /\ \/ cancel.st = "refused" /\ UNCHANGED trouble
       \/ cancel.st \in {"sent", "checked", "done"} /\ Fails
    /\ LET was == cancel.prev
       IN  /\ IF cancel.here /\ full # Nothing
              THEN /\ full' = was /\ picked' = was /\ UNCHANGED asks
                   /\ stale' = (stale \/ ~(asks \subseteq {was.id}))
              ELSE IF full # Nothing /\ full.ver = Hoped
              THEN picked' = was /\ stale' = TRUE /\ UNCHANGED <<full, asks>>
              ELSE Select(was)
           /\ list' = RollBack(was)
    /\ cancel' = NoCancel
    /\ UNCHANGED <<drawer, initial>> /\ Rendered
    /\ UNCHANGED <<rows, signed, pending, dropped, listing, opening>>

-----------------------------------------------------------------------------
(* The picker, the courier, and the administrator, who may write any status, as
   may a request that was decided on an older one (see Orders). *)

OthersMove(o, s) ==
    /\ s # Current(o)
    /\ Moves(o, s)
    /\ UNCHANGED <<signed, drawerVars, listVars, sheetVars, cancel, trouble>>

MyOrdersNext ==
    \/ \E who \in {"in", "out"} : SessionRestored(who)
    \/ OpenPending \/ OpenDrawer \/ CloseDrawer
    \/ SelectInitial \/ ListAnswers \/ CloseOrder
    \/ Cancel \/ ServeCancel \/ WriteCancel \/ Cancelled \/ CancelFails
    \/ \E o \in Pushed : PushClicked(o)
    \/ \E o \in Mine :
         \/ OpeningAnswers(o) \/ OpeningFails(o) \/ PickOrder(o)
         \/ DetailAnswers(o) \/ DetailFails(o)
         \/ \E s \in OthersWrite : OthersMove(o, s)

MyOrdersSpec == MyOrdersInit /\ [][MyOrdersNext]_orderVars

-----------------------------------------------------------------------------
(* Correctness. *)

\* The client's table of cancellable statuses is the server's: a cancellation
\* asked for under the current version of an order is not refused.
CancelWorks ==
    cancel.st = "sent" /\ cancel.prev.ver = Len(rows[cancel.prev.id]) =>
        Current(cancel.prev.id) \in Cancellable

WasCancelled(o) == \E i \in DOMAIN rows[o] : rows[o][i] = "CANCELLED"

\* No order is shown as cancelled that has not been, once the cancellation has
\* ended, neither in the list nor in the sheet, unless the sheet was opened from
\* the list while its cancellation was under way.
NoFalseCancel ==
    cancel.st = "idle" =>
        /\ \A o \in Mine : list[o] # Nothing /\ list[o].ver = Hoped => WasCancelled(o)
        /\ full # Nothing /\ full.ver = Hoped /\ ~stale => WasCancelled(full.id)

\* The sheet shows, and would cancel, the order that was picked last, as soon as
\* nothing is on the way, unless it was open for another one and was not told.
RightOrderShown == full # Nothing /\ asks = {} /\ ~stale => full.id = picked.id

\* public/sw.js:52-53, "on a cold start the client reads ?order=<id> from the URL
\* and opens the modal": whoever turns out to be signed in gets his order.
PushOpensTheOrder == signed = "in" => dropped = Nothing
=============================================================================
