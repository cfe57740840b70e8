-------------------------------- MODULE Cart --------------------------------
(***************************************************************************)
(* The customer's cart (Frontend/client-app): CartContext with its copy in *)
(* the browser's storage, everything that puts products into it, and the   *)
(* cart tab that turns it into an order over a network that may fail.      *)
(*                                                                         *)
(* A line of the cart is a product with its options.  The order of lines   *)
(* is abstracted: it only tells which product's store is compared.         *)
(***************************************************************************)
EXTENDS Integers, FiniteSets, Functions

CONSTANTS
    Products,
    StoreOf,     \* the store of a product
    OptionsOf,   \* what the product sheet can select for a product's options
    Plain,       \* no options
    Amount,      \* the recipe: how much of each product, 0 for none
    Past,        \* an order of the customer's history: how much of each product
    MaxQty,      \* bound: quantity of a line
    MaxOrders,   \* bound: orders in flight
    MaxFaults,   \* bound: failed requests and reloads
    NoProduct

Lines == {l \in Products \X ((UNION {OptionsOf[p] : p \in Products}) \cup {Plain}) :
            l[2] \in OptionsOf[l[1]] \cup {Plain}}
Carts == [Lines -> 0 .. MaxQty]
Ids == 1 .. MaxOrders
Empty == [l \in Lines |-> 0]

ASSUME CartAssumption ==
    /\ NoProduct \notin Products
    /\ MaxQty \in Nat \ {0} /\ MaxOrders \in Nat /\ MaxFaults \in Nat
    /\ Amount \in [Products -> Nat] /\ Past \in [Products -> Nat]
    /\ \A p, q \in Products : Past[p] > 0 /\ Past[q] > 0 => StoreOf[p] = StoreOf[q]

VARIABLES
    items,     \* CartContext: quantity of each line
    saved,     \* localStorage
    started,   \* the restored cart has been rendered
    conflict,  \* pendingProduct of the dialog about another store
    ticked,    \* recipe sheet: the ingredients marked as added
    recipe,    \* is the recipe sheet open?
    view,      \* the cart tab, "away" when another tab is shown
    reqs,      \* the orders in flight
    repeat,    \* "repeat this order" of the customer's history
    due,       \* history: put in, not taken out and not yet ordered
    slips,     \* history: what went wrong in a way the code does not exclude
    faults

cartVars == <<items, saved, started, conflict, ticked, recipe, view, reqs,
              repeat, due, slips, faults>>
dialogVars == <<conflict, ticked, recipe>>

NoReq == [st |-> "none", lines |-> Empty, here |-> FALSE]
NoRepeat == [st |-> "idle", empty |-> FALSE, here |-> FALSE, lines |-> Empty]
InFlight == {i \in Ids : reqs[i].st \in {"sent", "accepted"}}
Accepted == {i \in InFlight : reqs[i].st = "accepted"}

CartTypeOK ==
    /\ items \in Carts /\ saved \in Carts
    /\ started \in BOOLEAN /\ recipe \in BOOLEAN
    /\ conflict \in Products \cup {NoProduct}
    /\ ticked \subseteq Products
    /\ view \in {"away", "cart", "checkout", "success"}
    /\ reqs \in [Ids -> [st : {"none", "sent", "accepted"}, lines : Carts, here : BOOLEAN]]
    /\ repeat \in [st : {"idle", "asked", "asking"}, empty : BOOLEAN,
                   here : BOOLEAN, lines : [Lines -> Nat]]
    /\ due \in [Lines -> Int]
    /\ slips \subseteq {"set", "edited", "again", "unanswered", "repeat", "restore",
                  "unticked"}
    /\ faults \in 0 .. MaxFaults

CartInit ==
    /\ items = Empty /\ saved = Empty
    /\ started = TRUE
    /\ conflict = NoProduct /\ ticked = {} /\ recipe = FALSE
    /\ view = "away"
    /\ reqs = [i \in Ids |-> NoReq]
    /\ repeat = NoRepeat
    /\ due = Empty /\ slips = {}
    /\ faults = 0

Mishap == faults < MaxFaults /\ faults' = faults + 1

-----------------------------------------------------------------------------
(* CartContext. *)

\* What is due is only followed up to the first slip.
Slip(new, d) ==
    /\ slips' = IF slips = {} THEN new ELSE slips
    /\ due' = IF slips' = {} THEN d ELSE Empty

In(c) == {l \in Lines : c[l] > 0}

\* The render after a change saves the cart.  A change the customer makes
\* himself is also made to what is due; one made while an order is in flight is
\* a slip, since the answer will clear the cart.
Becomes(c, d, new) ==
    /\ c \in Carts
    /\ items' = c
    /\ saved' = c
    /\ Slip(new \cup IF InFlight = {} THEN {} ELSE {"edited"}, d)

Keeps == UNCHANGED <<items, saved, due, slips>>

\* Nothing covers the page: no dialog, no open order of the profile.
Free == started /\ conflict = NoProduct /\ ~repeat.here

\* Fault: nobody compares the stores.
AnyStore(c, p) == p \in Products

\* addItem refuses a product of another store than the first line's.
SameStore(c, p) == \A l \in In(c) : StoreOf[l[1]] = StoreOf[p]

Plus(c, l, n) == [c EXCEPT ![l] = @ + n]

\* Tiles of products: a store, the favourites, the home page.
Tiles == Free /\ view = "away" /\ ~recipe

\* The "+" of a tile.
AddTile(p) ==
    /\ Tiles
    /\ IF SameStore(items, p)
       THEN Becomes(Plus(items, <<p, Plain>>, 1), Plus(due, <<p, Plain>>, 1), {})
            /\ UNCHANGED conflict
       ELSE Keeps /\ conflict' = p
    /\ UNCHANGED <<started, ticked, recipe, view, reqs, repeat, faults>>

\* handleAddToCart of the product sheet: one is added, then the line's quantity
\* is set to what the sheet shows, whatever the line held before.
FromSheet(l, n) == IF n = 1 THEN Plus(items, l, 1) ELSE [items EXCEPT ![l] = n]

\* The button of the sheet, dead until every required group has a value.
AddFromSheet(l, n) ==
    /\ Free
    /\ view = "away"
    /\ n > 0
    /\ l[2] = Plain => OptionsOf[l[1]] = {}
    /\ IF SameStore(items, l[1])
       THEN /\ Becomes(FromSheet(l, n),
                       Plus(due, l, n),
                       IF n > 1 /\ items[l] > 0 THEN {"set"} ELSE {})
            /\ UNCHANGED conflict
       ELSE Keeps /\ conflict' = l[1]
    /\ UNCHANGED <<started, ticked, recipe, view, reqs, repeat, faults>>

\* The conflict dialog: one plain product instead of the cart, or nothing.
Replace ==
    /\ conflict # NoProduct
    /\ LET c == Plus(Empty, <<conflict, Plain>>, 1) IN Becomes(c, c, {})
    /\ conflict' = NoProduct
    /\ UNCHANGED <<started, ticked, recipe, view, reqs, repeat, faults>>

Keep ==
    /\ conflict # NoProduct
    /\ conflict' = NoProduct
    /\ Keeps
    /\ UNCHANGED <<started, ticked, recipe, view, reqs, repeat, faults>>

\* The tab is closed and opened again.  The first render saves an empty cart
\* before the one that was read is rendered: see Restored.  Nobody reads the
\* answers that were waited for.
Reload ==
    /\ Mishap
    /\ items' = IF started THEN saved ELSE Empty  \* read, not yet rendered
    /\ saved' = Empty
    /\ started' = FALSE
    /\ conflict' = NoProduct /\ ticked' = {} /\ recipe' = FALSE
    /\ view' = "away"
    /\ reqs' = [i \in Ids |-> NoReq]
    /\ repeat' = NoRepeat
    /\ Slip((IF started THEN {} ELSE {"restore"})
              \cup (IF InFlight = {} THEN {} ELSE {"unanswered"}), due)

Restored ==
    /\ ~started
    /\ started' = TRUE
    /\ saved' = items
    /\ UNCHANGED <<items, dialogVars, view, reqs, repeat, due, slips, faults>>

-----------------------------------------------------------------------------
(* The recipe sheet. *)

\* Fault: the sheet offers the products of every store.
VisibleAnywhere(s) == {p \in Products : s \in Range(StoreOf) /\ Amount[p] > 0}

\* RecipeDetailModal shows the ingredients of one store, the one with most.
Visible(s) == {p \in Products : StoreOf[p] = s /\ Amount[p] > 0}

BestStore ==
    CHOOSE s \in Range(StoreOf) :
        \A t \in Range(StoreOf) : Cardinality(Visible(t)) <= Cardinality(Visible(s))

Recipe == Visible(BestStore)

OpenRecipe ==
    /\ Free /\ view = "away" /\ ~recipe
    /\ recipe' = TRUE /\ ticked' = {}
    /\ Keeps
    /\ UNCHANGED <<started, conflict, view, reqs, repeat, faults>>

CloseRecipe ==
    /\ Free /\ recipe
    /\ recipe' = FALSE /\ ticked' = {}
    /\ Keeps
    /\ UNCHANGED <<started, conflict, view, reqs, repeat, faults>>

\* Every addItem of one click compares with the items of the last render.
AddIngredients(S) ==
    IF \A p \in S : SameStore(items, p)
    THEN LET more(c) == [l \in Lines |-> IF l[2] = Plain /\ l[1] \in S
                                         THEN c[l] + Amount[l[1]] ELSE c[l]]
         IN  Becomes(more(items), more(due), {}) /\ UNCHANGED conflict
    ELSE Keeps /\ \E p \in S : conflict' = p

\* They are marked as added even when the cart has refused them.
AddAll ==
    /\ Free /\ recipe
    /\ Recipe # {}
    /\ AddIngredients(Recipe)
    /\ ticked' = Recipe
    /\ UNCHANGED <<started, recipe, view, reqs, repeat, faults>>

\* Taking the mark off removes the product's plain line, whatever it holds.
ToggleIngredient(p) ==
    /\ Free /\ recipe
    /\ p \in Recipe
    /\ IF p \in ticked
       THEN /\ Becomes([items EXCEPT ![<<p, Plain>>] = 0],
                       [due EXCEPT ![<<p, Plain>>] = @ - Amount[p]],
                       IF items[<<p, Plain>>] = Amount[p] THEN {} ELSE {"unticked"})
            /\ ticked' = ticked \ {p}
            /\ UNCHANGED conflict
       ELSE AddIngredients({p}) /\ ticked' = ticked \cup {p}
    /\ UNCHANGED <<started, recipe, view, reqs, repeat, faults>>

-----------------------------------------------------------------------------
(* The cart tab. *)

\* The "+", "-" and "remove" of a line, and "clear".
SetLine(l, n) ==
    /\ Free /\ view = "cart"
    /\ items[l] > 0
    /\ n \in {0, items[l] - 1, items[l] + 1}
    /\ Becomes([items EXCEPT ![l] = n], [due EXCEPT ![l] = @ + n - items[l]], {})
    /\ UNCHANGED <<started, dialogVars, view, reqs, repeat, faults>>

ClearCart ==
    /\ Free /\ view = "cart"
    /\ items # Empty
    /\ Becomes(Empty, [l \in Lines |-> due[l] - items[l]], {})
    /\ UNCHANGED <<started, dialogVars, view, reqs, repeat, faults>>

\* The tab bar, or the recipe sheet after "add all".
EnterCart ==
    /\ started /\ view = "away" /\ ~repeat.here
    /\ view' = "cart"
    /\ recipe' = FALSE /\ ticked' = {}
    /\ Keeps
    /\ UNCHANGED <<started, conflict, reqs, repeat, faults>>

\* Leaving the tab drops its state, "loading" too; its request goes on.
LeaveCart ==
    /\ Free /\ view # "away"
    /\ view' = "away"
    /\ reqs' = [i \in Ids |-> [reqs[i] EXCEPT !.here = FALSE]]
    /\ Keeps
    /\ UNCHANGED <<started, dialogVars, repeat, faults>>

\* The forms: a closed store, a bad phone or no address keeps the step back.
ToCheckout ==
    /\ Free /\ view = "cart" /\ items # Empty
    /\ view' = "checkout"
    /\ Keeps
    /\ UNCHANGED <<started, dialogVars, reqs, repeat, faults>>

\* "Back", which stays enabled, and "fine" under an order that was made.
BackToCart ==
    /\ Free
    /\ \/ view = "checkout" /\ items # Empty
       \/ view = "success"
    /\ view' = "cart"
    /\ Keeps
    /\ UNCHANGED <<started, dialogVars, reqs, repeat, faults>>

\* Fault: the button is not disabled while an order is being made.
NeverLoading == MaxOrders = 0

Loading == \E i \in InFlight : reqs[i].here

Submit ==
    /\ Free /\ view = "checkout" /\ items # Empty
    /\ ~Loading
    /\ \E i \in Ids :
         /\ reqs[i].st = "none" /\ \A j \in 1 .. i - 1 : reqs[j].st # "none"
         /\ reqs' = [reqs EXCEPT ![i] = [st |-> "sent", lines |-> items, here |-> TRUE]]
    /\ Slip(IF \A i \in InFlight : reqs[i].here THEN {} ELSE {"again"}, due)
    /\ UNCHANGED <<items, saved, started, dialogVars, view, repeat, faults>>

\* The server stores the order (see Orders).
Accept(i) ==
    /\ reqs[i].st = "sent"
    /\ reqs' = [reqs EXCEPT ![i].st = "accepted"]
    /\ Slip({}, [l \in Lines |-> due[l] - reqs[i].lines[l]])
    /\ UNCHANGED <<items, saved, started, dialogVars, view, repeat, faults>>

OrderEnds(i) == [reqs EXCEPT ![i] = NoReq]

\* Its answer clears the cart, also when the tab has been left.
OrderMade(i) ==
    /\ reqs[i].st = "accepted"
    /\ reqs' = OrderEnds(i)
    /\ items' = Empty /\ saved' = Empty
    /\ view' = IF reqs[i].here THEN "success" ELSE view
    /\ UNCHANGED <<started, dialogVars, repeat, due, slips, faults>>

\* Fault: a failed order clears the cart too.
ClearedAnyway == items' = Empty /\ saved' = Empty

AfterFailure == UNCHANGED <<items, saved>>

\* Refused, or lost on the way there or back: the code cannot tell which.
OrderFails(i) ==
    /\ i \in InFlight
    /\ Mishap
    /\ reqs' = OrderEnds(i)
    /\ AfterFailure
    /\ Slip(IF reqs[i].st = "accepted" THEN {"unanswered"} ELSE {}, due)
    /\ UNCHANGED <<started, dialogVars, view, repeat>>

-----------------------------------------------------------------------------
(* "Repeat this order" in the customer's profile. *)

\* handleRepeat looks at the cart of this moment and asks for the products.
AskRepeat ==
    /\ Free /\ ~recipe /\ repeat.st = "idle"
    /\ repeat' = [st |-> "asked", empty |-> items = Empty, here |-> TRUE, lines |-> Empty]
    /\ Keeps
    /\ UNCHANGED <<started, dialogVars, view, reqs, faults>>

\* The profile is left: what was asked for will still be applied.
LeaveRepeat ==
    /\ repeat.st # "idle" /\ repeat.here
    /\ repeat' = IF repeat.st = "asking" THEN NoRepeat ELSE [repeat EXCEPT !.here = FALSE]
    /\ Keeps
    /\ UNCHANGED <<started, dialogVars, view, reqs, faults>>

\* The products that are still sold, without options.
RepeatAnswer ==
    /\ repeat.st = "asked"
    /\ \E S \in SUBSET {p \in Products : Past[p] > 0} :
         LET c == [l \in Lines |-> IF l[2] = Plain /\ l[1] \in S THEN Past[l[1]] ELSE 0]
         IN  IF S # {} /\ repeat.empty
             THEN Becomes(c, c, IF items = Empty THEN {} ELSE {"repeat"}) /\ repeat' = NoRepeat
             ELSE /\ Keeps
                  /\ repeat' = IF S # {} /\ repeat.here
                               THEN [st |-> "asking", empty |-> FALSE, here |-> TRUE, lines |-> c]
                               ELSE NoRepeat
    /\ UNCHANGED <<started, dialogVars, view, reqs, faults>>

\* The customer agrees to lose the cart.
ConfirmRepeat ==
    /\ repeat.st = "asking"
    /\ Becomes(repeat.lines, repeat.lines, {})
    /\ repeat' = NoRepeat
    /\ UNCHANGED <<started, dialogVars, view, reqs, faults>>

CartNext ==
    \/ \E p \in Products : AddTile(p) \/ ToggleIngredient(p)
    \/ \E l \in Lines : \E n \in 0 .. MaxQty : AddFromSheet(l, n) \/ SetLine(l, n)
    \/ Replace \/ Keep \/ Reload \/ Restored
    \/ OpenRecipe \/ CloseRecipe \/ AddAll
    \/ ClearCart \/ EnterCart \/ LeaveCart \/ ToCheckout \/ BackToCart \/ Submit
    \/ \E i \in Ids : Accept(i) \/ OrderMade(i) \/ OrderFails(i)
    \/ AskRepeat \/ LeaveRepeat \/ RepeatAnswer \/ ConfirmRepeat

CartSpec == CartInit /\ [][CartNext]_cartVars

-----------------------------------------------------------------------------
(* Correctness. *)

\* Whatever fills the cart -- tiles, sheets, a recipe, a repeated order, a
\* restored one, the conflict dialog -- it never mixes two stores.
OneStore ==
    /\ \A l, m \in In(items) : StoreOf[l[1]] = StoreOf[m[1]]
    /\ \A l, m \in In(saved) : StoreOf[l[1]] = StoreOf[m[1]]

\* The cart is exact: it holds what the customer has put into it, has not taken
\* out and has not ordered, plus the lines of the order that the server has stored
\* and not yet answered; and one order at most is in flight.  Nothing is lost or
\* ordered twice, unless one of the slips that the code lets happen has happened.
ExactCart ==
    slips = {} =>
        /\ \A i, j \in InFlight : i = j
        /\ Accepted = {} => \A l \in Lines : items[l] = due[l]
        /\ \A i \in Accepted, l \in Lines : items[l] = due[l] + reqs[i].lines[l]
=============================================================================
