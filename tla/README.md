# Laman: a verification project

Laman is a delivery service for groceries. Customers order from stores, the
pickers of a store assemble the orders, couriers bring them. The backend is one
Go process (Gin) over PostgreSQL, Redis and an object store; three browser
applications talk to it: the customer's (Next.js), the picker's and the
administrator's (Vite). This directory holds TLA+ modules for the parts where
requests, streams, rows and screens interact, TLC runs over small instances, and
TLAPS proofs for instances of every size.

Paths below are relative to the repository root; `internal/...` is short for
`Backend/internal/...`, and `client-app`, `picker-panel`, `admin-panel` for
`Frontend/...`.

## Inventory

| Component | State it keeps | Operations | Hard part |
|---|---|---|---|
| SSE hub (`internal/events`) | registry topic → subscriber → channel, under an RWMutex; channels of capacity 10 | Subscribe, Unsubscribe, Notify | sends run outside the lock; channels are closed by whoever finds them |
| Stream handlers (`orders`, `picker` Events) | one goroutine and one channel per open connection | subscribe, forward, deferred unsubscribe | reconnects, disconnects, write timeout |
| Orders (`internal/orders`, `internal/models/order.go`) | `orders.status`, items, delivery, payment | CreateOrder, CancelOrderByUser, reads | status decided on one statement's read, written by another |
| Picker (`internal/picker`) | `orders.status`, `orders.picker_id`, `order_items`, totals | UpdateStatus, AddItem, RemoveItem, reads | claims by two pickers, stale reads, totals that are not atomic |
| Admin (`internal/admin`) | every table | any status, pickers' accounts, catalog, import | overwrites, account changes under requests in flight |
| Catalog and its cache (`internal/catalog`, `internal/cache`) | products, stores, reviews; Redis copies of lists with a TTL | GetOrSet, Invalidate, CRUD | a late Set after an invalidation; which lists a change is told to |
| Auth (`internal/auth`, `middleware/auth.go`) | `auth_codes`, counters and revocations in Redis, JWTs | request and verify a code, register, login, logout | two-statement consumption, INCR then EXPIRE, degraded mode |
| Push (`internal/push`) | `push_subscriptions` | subscribe, unsubscribe, send (detached goroutines) | unordered, outcome only logged |
| Options, payments, delivery, users, favorites, banners | rows | CRUD, mostly one statement each | little |
| WithTx (`internal/database`) | a transaction | run, commit or roll back | used by CreateOrder, DeletePicker, DeleteStore and the import only |
| Picker's panel (`picker-panel`) | session in localStorage, query cache, a stream with reconnect, the alert about a cancellation | login, pages, refetch every 30 s and on events, changes of a status or of items | lost events, late refusals, answers older than the picker's own change |
| Customer's cart (`CartContext`, `CartTab`, `HomeTab`, `ProductModal`) | lines in React state and in localStorage; the dialog about another store; recipe's marks; orders in flight | add, set, replace, restore, order, repeat | closures over old renders, order of effects, lost answers |
| Customer's session and favourites (`AuthContext`, `FavoritesContext`, `AuthModal`) | user and token in memory, httpOnly cookie, dialog, hearts | restore, sign in, log out, toggle | late answers about an earlier session |
| Customer's orders (`ProfileDrawer`, `page.tsx`, `OrderNotificationContext`) | drawer, cached list, sheet of one order, pending order of a push | open, pick, cancel, close | optimistic changes and roll-backs, late sheets |
| Store page (`StoreDetailView`) | categories, filter, pages, observer, reviews, permission | choose, search, sort, scroll, add and delete a review | requests are never cancelled; effects watch what is not rendered |
| Finding stores (`page.tsx`, `HomeTab`, `Header`, `CategoriesTab`) | tab, open store, spinner, word, showcase, recipe, sheet | open, close, search, switch tabs | what is left behind, late answers |
| Administrator's panel (`admin-panel`) | credentials, section, React Query cache, forms | dozens of mutations, each naming the keys it invalidates | forgotten keys, fetches under way, double submission |

**How they interact.** A handler that changes an order writes the row with an
autocommitted statement, then calls `hub.Notify` (topic: the store, or the
customer), then push and Telegram. Events handlers receive from the channel
`Subscribe` gave them; the picker's panel refetches on an event and every 30 s.
Between two statements of one request every other request may run: there is no
row lock and no version column. The panel of the administrator changes the
catalog that the customer's page reads through the Redis cache. The parts of one
page share the user (AuthContext) and the open store (page.tsx) but keep their
lists apart.

**What makes each component correct.** Hub: no panic, no double close, every
live stream reachable, replaced streams end, messages stay on topic. Orders: one
picker per order, stages follow the table, final means final, no order points at
a deleted account, only the store's pickers claim. Totals: they match the items
after every edit. Cache: a copy is old for a named reason only. Picker's panel:
what it says has happened is what it shows, and the list catches up. Cart: one
store, nothing lost and nothing ordered twice. Session: requests are made as who
is on the screen. Orders on the screen: no false cancellation, the sheet is of
the order that was picked. Store page: pages without gaps, reviews exact.
Finding: what opens is what was asked for. Administrator's panel: acknowledged
changes are shown, nobody sees another's lists, one form makes one row. Auth: the
newest code works, no code is spent for nothing, attempts are forgotten in time.

`PROJECT.json` lists every component with what is modelled of it, and every
hazard with its line and the property that covers it, or why none does.

## Modules

| Module | What it is |
|---|---|
| `Hub` | the hub, the Events handlers' loops, and Notify's callers |
| `OrderStatus` | statuses and the transition table |
| `OrderContract` | the abstract specification: stages and owners of orders, no requests |
| `Orders` | the handlers on the orders and users tables, one step per SQL statement |
| `OrderTotals` | the rows and totals of orders, edited by pickers |
| `CatalogCache` | Redis before the catalog's lists |
| `SignUp` | signing up by e-mail on the server: the account's row, its codes, the counter of attempts |
| `PickerApp` | the picker's panel, with a server whose orders change |
| `Cart` | the customer's cart, the checkout, repeating an order |
| `Account` | who the customer is, and his favourites |
| `MyOrders` | the customer's orders on his screen |
| `StoreList`, `Reviews` | the two tabs of an open store |
| `Browse` | tabs, search, showcases, recipes, opening a store |
| `AdminPanel` | the administrator's panel |
| `MCHub`, `MCOrders`, `MCTotals`, `MCPicker`, `MCStoreList` | small instances |
| `MCScreens` | the screens, the cache and the sign-up side by side, and their small instance |
| `HubProofs`, `OrdersProofs`, `TotalsProofs`, `PickerAppProofs` | the theorems about `Hub`, `Orders`, `OrderTotals`, `PickerApp` |
| `AccountProofs` | those about what belongs to the customer: `Account`, `SignUp`, `MyOrders` |
| `ShopProofs` | those about shopping: `Browse`, `StoreList`, `Reviews`, `Cart` |
| `AdminProofs` | those about `AdminPanel` and `CatalogCache` |
| `ScreensProofs` | those about the composition in `MCScreens` |

Two conventions. An order that several parties see is the *sequence of the
statuses its row has had*; a copy of it on a screen is an index into that
sequence, its version (`PickerApp`, `MyOrders`). Similarly a list is the number
of changes its rows have had (`CatalogCache`), or whether it is as the server has
it (`AdminPanel`).

*History variables* record what the code does not keep. Some of them name
exceptions: `slips`, `lapses`, `oddities`, `late`, `tainted`, `stale`, `excused`,
`leftover`, `doubt`, `broken`, `halfway`, `stuck` and a code's fate `crossed` are set by exactly the steps after which the code can no
longer keep what the property says. They are part of what the project has found
out: the property says that there are no others.

### Hub

`mp` is the registry, flattened to a function from (topic, subscriber) to a
stream; an inner map that became empty is the same as none. Each activation of
an Events handler is a *stream* with a channel of its own (`buf`, `closed`), so
channels are named by their streams. `stream[c]` follows the handler: before
Subscribe, in its loop (`serving`), returned from the loop with the deferred
Unsubscribe still to run (`leaving`), gone. A call of Notify is named by its
message; `todo` is the slice it copied under the read lock.

| Action | Code |
|---|---|
| `Subscribe` | hub.go Subscribe; the lock makes it one step |
| `Unsubscribe` | hub.go Unsubscribe, run by `defer`; closes whatever is registered at the address |
| `Notify` | the copy under RLock |
| `Send`, `SendPanics` | one turn of the loop after RUnlock: delivered, dropped when full, or a panic that RecoveryMiddleware turns into a 500 |
| `Receive`, `SeeClosed`, `SeeDone` | the select of the Events loop. A closed channel yields what it still holds before it reports closed |
| `Cut` | the request context ends: peer gone, or WriteTimeout (60 s in cmd/api/main.go) fails a late write |
| `Restart` | the process stops and starts; the hub is memory only |

`latest` and `got` are history variables: who subscribed last at an address, and
what each stream wrote while its peer listened.

### Orders

`status` and `picker` are columns of `orders`, `store` is `users.store_id` of a
picker's account with the two values `Unhired` and `Deleted` for an account that
does not exist yet or any more. `req` holds the requests in flight. A handler is
cut at the statements that touch what another request may change:

| Action | Code |
|---|---|
| `CreateOrder` | orders/service.go, the transaction 336-364 |
| `BeginCancel` → `PlainWrite` | CancelOrderByUser: GetByID and its checks, then UpdateStatus |
| `BeginPick` → `CheckPick` → `ClaimWrite` or `PlainWrite` | picker UpdateStatus: read the order, read the picker's store, then one of the two UPDATEs |
| `Abandon` | a check refuses, a statement fails or matches no row, the context ends, the process dies |
| `AdminWrite` | admin UpdateOrderStatus: any known status, one statement |
| `BindPicker`, `DeletePicker` | CreatePicker and UpdatePickerStore; the transaction of DeletePicker |

Checks on a row are made when it is read, because nothing the handler computes
in between can change the values it holds. `ClaimWrite` re-reads the row: in
READ COMMITTED an UPDATE that waited for a row lock evaluates its WHERE on the
committed row, so the condition on `picker_id` is tested at the write. The
foreign key `orders.picker_id → users` (migration 20260307165135) makes a claim
by a deleted account fail. `claims`, `seen`, `been` and `overridden` are history
variables the properties speak of.

`OrderContract` says what is promised about an order with no request in it:
it enters a status along the table from *some* status it has had, it is owned by
one picker at a time, an owner leaves only when the account is deleted, and an
order the administrator wrote is exempt from the table only. It deliberately
does not say "from its current status": the code does not keep that, see
Findings.

### OrderTotals

`rows` are the ids of an order's rows of `order_items`, `totals` the three
columns of `orders`. Amounts are whole kopecks; `Worth` gives the sum of a set of
rows, so a price and a quantity are never looked at one by one. It is a constant,
which keeps the proofs free of induction over sums. Fees are rounded to two
decimals as the columns are.

| Action | Code |
|---|---|
| `CreateOrder` | orders/service.go: totals computed, then rows and totals in one transaction |
| `BeginAdd`, `BeginRemove` | AddItem and RemoveItem up to the check of the status |
| `InsertItem`, `DeleteItem` | AddOrderItem, RemoveOrderItem: one statement |
| `RecalcSnapshot`, `RecalcWrite` | RecalcOrderTotals: one UPDATE, whose sub-selects see the snapshot it started with and whose row may have to be waited for |
| `Abandon` | a statement fails, the context ends, the process stops |
| `DeleteProduct` | admin: ON DELETE SET NULL takes the name from rows of CreateOrder, and GetOrder then fails for pickers |
| `ChangeStatus` | an order becomes final or stops being so (module `Orders`) |

The surcharge of express delivery is part of the bill CreateOrder computes and
not of the recalculation's (`RecalcBill`): `TotalsBelongTogether` allows both.
CreateOrder computes fees in floating point and the recalculation in `numeric`;
on exact halves of a kopeck the two may round differently, which the model does
not show.

`sums`, `overtaken` and `broken` are history variables: what the rows have been
worth, which orders had rows change under a recalculation's snapshot, and which
had an edit that ended between its two statements.

### CatalogCache

One cached list is followed (`cacheKey`: categories, types of stores, stores, a
showcase, recipes, scenarios). `version` counts the changes of its rows, `copy`
is the version of what Redis holds. A request that missed is in `reading`, an
administrator's request that has changed rows and has not dropped the key yet in
`dropping`.

| Action | Code |
|---|---|
| `Misses`, `Fetches`, `Fills`, `GivesUp` | `cache.GetOrSet`: GET, `fetch`, SETEX, its early return |
| `Change` | an operation of catalog/service.go or admin/service.go; `Changes` says which lists show it, `Drops` which keys it drops |
| `Scan`, `Drop` | `InvalidatePattern` (SCAN, then DEL of what was found), or `Invalidate` (DEL alone, for the keys that are not patterns) |
| `DropIsLost` | Redis fails (its error is ignored), the request's context ends, the process stops |
| `Expires` | the TTL: 5, 10 or 30 minutes |

`excused` names why a copy may be old once nobody is to drop it: it was stored by
a read that a drop overtook, a drop was lost, or the operation is one of
`Forgetful`. A hit changes nothing and is not an action.

### SignUp

One address is followed through the two routes of its confirmation. `account` is
its row of `users`, `fate` what became of each row of `auth_codes`, `tries` and
`ticking` the counter in Redis and whether it has a TTL. `calls` are the requests
on their way, each at its next statement; `mailed` and `newest` are what the
customer has received.

| Action | Code |
|---|---|
| `RegisterWithEmail` | POST /auth/register up to its lookup of the address |
| `CreateUser` | the INSERT, refused by the unique index on the e-mail when another request came first |
| `InvalidateCodes`, `CreateAuthCode`, `SendOTP` | sendEmailOTP: three steps, with the error of the first ignored |
| `CheckAndIncrement`, `SetTTL` | otp_limiter.go: INCR, and EXPIRE by whoever counted 1; when Redis does not answer, nobody is refused |
| `GetAuthCode`, `MarkAuthCodeAsUsed`, `UpdateEmailVerified`, `Reset` | VerifyEmail after the limiter, one step per statement; the code is marked by its id, without a condition |
| `CallStops` | a statement or the mail fails, the context ends, the process stops |
| `CodeExpires`, `TriesExpire` | five minutes, and the TTL of the counter |

The four digits of two codes are taken to differ, and mails to arrive in the order
they were sent; counts above the limit are one value. Passwords and tokens decide
nothing here.

### PickerApp

One browser tab. `hist` is what each order's row has been, its status and its
`picker_id`; a copy of the order on the screen is a version, an index into that
history. Other people change the row too (`OthersChange`, `OthersWrite`). A login is
named by its number and carries its own token; a token may lapse (`lapsed`). `cache` is the query cache: data, error and
the fetch under way for the list and for each order; `late` are fetches that an
unmounted page or a newer fetch has cancelled, whose answers can still log
somebody out. `job` is the change the picker has asked for.

| Action | Code |
|---|---|
| `Login`, `Logout`, `Reload`, `Go`, `OpenOrder` | useLogin, AppShell, sessionStore, the router with RequireAuth |
| `Refetch`, `Serve`, `Answer`, `FetchFails`, `NotThere`, `FetchRefused` | a query of features/orders/hooks.ts through `httpRequest`, the handler's read in between |
| `Answered401`, `EndsSession`, `LateAnswer` | http.ts 44-51: a 401 clears whatever session there is |
| `Compare`, `Dismiss` | the effect of OrdersPage that compares statuses and shows the alert about a cancelled order, as part of every step that delivers a list |
| `Ask`, `Apply`, `Confirm`, `ListSettled`, `DetailSettled`, `ChangeFails`, `ChangeRefused` | a mutation: sent, executed by the server (`Legal` is its check), answered, and its `onSuccess`, which waits for both invalidated queries |
| `PanelTransitions`, `PickerAllowed`, `PickerActions` | the panel's own table and set (entities/order/model.ts 69-92) |
| `Legal`, `FreeFor`, `Written` | the server's check: store, final status, whose order it is, its own table (`OrderStatus`); and the row it writes |
| `StreamConnects`, `StreamEvent`, `StreamBreaks` | subscribePickerEvents and usePickerRealtime |
| `CreateOrder`, `OthersChange`, `DeletePicker`, `Lapse` | other people: customers, other pickers, the administrator; the expiry of a token |

The two tables are two definitions, so their agreement is a result and not an
assumption. The panel shows its buttons by the status only, also under an order
that another picker has taken; the server refuses these, and refuses no edit of
the items on that ground. `FreshButtonsWork` says exactly when a button may be
refused: the status has changed since, or another picker has the order, unless it was
shown as one's own. The store's stream is told of new orders and of a customer's
cancellation only, not of a picker's or the administrator's change (picker/service.go
190-204 tells the customer), which is why the interval matters.

A 401 to an old request logs out whoever is there (`EndsSession`), so the code does
not keep a late answer from ending a newer login. What it does keep to, and
`NoOldTokenReturns` says, is that this risk is confined to the requests
that were on their way at that login (`Unanswered`): retries, joins, invalidations
and given-up fetches make no further request with the old token.

`DeletePicker` does not delete the account the panel itself is signed in with.
`job.own` is the version shown when a change is asked for, then the one the change
made. `MaxFaults` bounds failed
requests, broken streams, reloads and lapses together.

### Cart

A line is a product with its options; `items` and `saved` give each line its
quantity. The order of lines is left out: it decides only which product's store is
compared, and all of them have the same one. `reqs` are the orders in flight;
`due` is what the customer has put in and neither taken out nor ordered. `ExactCart`
compares the two line by line: the cart holds what is due, plus the lines of the one
order that the server has stored (`Accepted`) and whose answer has not come, since
the cart is cleared by the answer.

| Action | Code |
|---|---|
| `AddTile`, `AddFromSheet`, `AddAll`, `ToggleIngredient` | tiles, ProductModal, the recipe's sheet, each through `addItem` and its conflict dialog |
| `Replace`, `Keep` | the dialog's two buttons |
| `SetLine`, `ClearCart`, `EnterCart`, `LeaveCart`, `ToCheckout`, `BackToCart` | CartTab and TabBar |
| `Submit`, `Accept`, `OrderMade`, `OrderFails` | handleOrder, with the server's part and the answer as steps of their own |
| `AskRepeat`, `RepeatAnswer`, `ConfirmRepeat`, `LeaveRepeat` | "repeat" in ProfileDrawer |
| `Reload`, `Restored` | the page is loaded anew, and the two effects of CartProvider: the first render writes the empty cart before the restored one is rendered |

`slips`: a reload before the restored cart is rendered (`restore`), an order stored
whose answer is lost (`unanswered`), a second order from a tab that was left
while the first was on its way (`again`), a cart changed while an order is on its
way and then cleared by its answer (`edited`), a sheet that sets a quantity
instead of adding to it (`set`), a mark taken off a line that holds more than the
recipe's (`unticked`), a repeated order that replaces a cart which was empty when
it was asked for (`repeat`).

### Account

`user` stands for the user and his token, which are set and cleared together;
`cookie` for the httpOnly cookie the browser sends by itself. `me`, `signing`,
`leaving`, `loads` and `toggles` are requests on their way; an answer sets the
cookie as it arrives. `wish` is whom the customer signed in as last.

| Action | Code |
|---|---|
| `ServeMe`, `MeAnswers`, `MeFails` | the effect of AuthProvider; `hydrated` when it has ended |
| `WantDialog`, `CloseDialog`, `SwitchMode`, `Register` | the dialog, rendered only when hydrated and without a user (`Dialog`) |
| `SignIn`, `SignedIn`, `SignInFails` | AuthForm: by password, or by a code; both end in `login` |
| `SignOut`, `SignedOut`, `SignOutFails` | `logout`: the user goes at once, the cookie when the request arrives |
| `Load`, `ServeLoad`, `LoadAnswers`, `LoadFails` | FavoritesProvider's effect, whenever there is a user or no more, and FavoritesTab's |
| `ToggleFavorite`, `ServeToggle`, `ToggleAnswers`, `ToggleFails` | the optimistic heart and its roll-back (`RolledBack`) |
| `ReloadPage` | everything on its way is forgotten |

`lapses`: a logout that arrives after the next sign-in, or never; a failed
/auth/me, which leaves a guest with a cookie; a user replaced by another without
the favourites being loaded anew; lists and refusals that arrive late or not at
all; two toggles of one heart at once.

### MyOrders

`rows` are the orders' statuses on the server, `list` the cached pages, `full` the
copy in the open sheet. `Hoped` is the version of a copy that shows CANCELLED
ahead of the server. The drawer opens by hand or for a `pending` order, which a
push names in the URL or, if a window is open, in a message.

| Action | Code |
|---|---|
| `SessionRestored`, `PushClicked`, `OpenPending`, `OpenDrawer`, `CloseDrawer` | page.tsx: the pending order and its effect, which drops it as long as nobody is authenticated |
| `SelectInitial`, `OpeningAnswers`, `OpeningFails` | ProfileDrawer's effect on `initialOrderId`: found in the cache, or asked for |
| `Listings`, `ListAnswers` | useOrdersInfinite |
| `PickOrder`, `DetailAnswers`, `DetailFails`, `CloseOrder` | the sheet, which keeps its own copy |
| `Cancel`, `Cancelled`, `CancelFails`, `NoCancel` | handleCancel: shown first, rolled back in the sheet and in the list on refusal (`RollBack`) |
| `ServeCancel`, `WriteCancel` | CancelOrderByUser: reads and checks, then writes; between the two the row may change |
| `OthersMove` | external: pickers, couriers and the administrator, who may write any status, as may a request that was decided on an older one (`OthersWrite`) |

### StoreList and Reviews

`StoreList`: a *filter* is a category, a search text and a sort order; an entry of
the page is its place in the listing of a filter, so gaps, repetitions and foreign
entries are visible. `asked` are the requests in the order they were sent; nothing
cancels one. `watched` says whether the observer looks at the sentinel that is on
the screen. Actions: `TreeAnswers`, `TreeFails` (the categories, with a target),
`Choose`, `CategoryCard`, `CategoryChip`, `SearchFor` (a filter changes, and the
effect asks for its first page), `FirstAnswers`, `FirstFails`, `LoadMore`,
`MoreAnswers`, `MoreFails`, `SwitchTab`. `tainted`: an answer for another filter
has come since the filter's own.

`Reviews`: `posted` is the server's, `reviews` the screen's, which says how often each
review is listed. Their order is left out: the code looks reviews up by id, and only
puts one back at the place it was taken from. `ServeReviews`,
`ReviewsAnswer`, `ReviewsFail` (loaded once), `OpenReviews`, `ServePermit`,
`PermitAnswers`, `PermitFails` (the permission, asked for whenever the tab is
opened), `AddReview`, `StoreReview`, `ReviewAdded`, `AddFails`, and `DeleteReview`,
`ServeDelete`, `DeleteAnswers`, `DeleteFails` with `PutBack`. `oddities`: the list
comes late or not at all, an answer to a review that was stored is lost, a
deletion succeeded and its answer was lost.

### Browse

page.tsx with the tabs under it. `place` is the tab, `store` the open store, `ways`
the requests of getStore, `waiting` the spinner, which takes the place of
everything else (`TabShown`). `home` is what the home page keeps for itself until
it is unmounted: word found, showcase, recipe, product sheet; `grid` the same for
the categories. Actions: `ChangeTab`, `Type`, `SortStore` (header), `OpenRow`,
`GoToStore`, `FromCart` (the three ways to a store), `StoreAnswers`, `StoreFails`,
`CloseStore`, and those of the sheets. `leftover`: a store was left by the tab bar,
or did not open, and its category and sorting stay for the next. `home.late`: an
answer to an older search or showcase came after the newer one.

### AdminPanel

The keys of React Query do not influence one another, so a behaviour follows one
key (`key`) and the operations that concern it; `cached` is its entry compared
with the server's list (`none`, `same` or `older`), with the fetch under way. An operation is
a mutation of a section. For each section the module says which keys it shows
(`StoreLists`, `GoodsKeys`, ...), and for each operation which keys' lists it
*changes* on the server and which keys its `onSuccess` *invalidates*
(`StoreOps`, `GoodsOps`, ...); `ListsCatchUp` is about the difference.

| Action | Code |
|---|---|
| `EnterPanel`, `LeavePanel` | handleLogin, which does not check the credentials, and handleLogout, which clears the cache (`Cleared`) |
| `Navigate`, `SetPane` | Layout and the panes of each section |
| `RefetchList`, `ServeList`, `ListArrives`, `ListFails` | a query: on mount, on invalidation, its answer |
| `Mutate`, `Write`, `MutationSucceeds`, `MutationFails`, `Retype` | a button (`ButtonEnabled`: most are disabled while pending, some are not), the server's write, the answer, and a form that is filled in anew |

What becomes of one creation form is followed in `form`: how many rows it made.
A picture is uploaded by a second request of the same mutation (`TwoRequests`).
`RefetchList` stands for the window's focus, which React Query refetches on, and for
the periodic fetches.

### MCScreens: the screens together

The parts of the customer's page, the administrator's panel, the cache and the
sign-up share only the server and the user, and none reads another's state except
as modelled above. A behaviour of `screens` therefore follows one of them (`part`), the others
staying in their initial states: the reachable states of the free composition
would be the product of theirs and say nothing more. What `AdminPanel` takes for
exact, the lists that come through the Redis cache, is the subject of
`CatalogCache`.

## Runs

| Run | Instance | Shows |
|---|---|---|
| `hub` | one store with a picker's two connections and a colleague's, a customer's topic nobody listens on; 3 messages (two for the store, one for the customer), capacity 1; fair handlers | `TypeOK`, `RegistryHoldsOpen`, `OpenIsRegistered`, `OnTopicOnce`, `NothingLeftBehind`, and `SupersededStreamsEnd` |
| `hub_panic` | as `hub`, without fairness | violates `NotifyNeverPanics` |
| `hub_reconnect` | as `hub`, without fairness | violates `NewestStreamStaysOpen` |
| `orders` | 1 order, 2 pickers, 2 stores, 2 requests in flight; the administrator resets to NEW, hires, moves and deletes | `TypeOK`, `ClaimsExclusive`, `NoDanglingPicker`, `NoStageSkipped`, `WorkIsClaimed`, `ClaimsFromOwnStore`, and the refinement `KeepsContract` |
| `orders_final` | 1 order, 2 pickers, 2 stores, 2 requests | violates `FinalIsFinal` |
| `totals` | 1 express order of one line, 2 rows to add, 2 requests in flight | `TypeOK`, `BilledWhatWasThere`, `TotalsBelongTogether`, `ExactUnlessOvertaken` |
| `totals_race` | as `totals` | violates `TotalsSettle` |
| `picker_app` | 1 order, the picker's own, a colleague's or placed later, with 2 versions; 2 logins, of pickers of two stores; 1 fault; fair queries | `PickerTypeOK`, `SuccessIsShown`, `FreshButtonsWork`, `NoOldTokenReturns`, and `ScreenCatchesUp` |
| `screens` | each screen, the cache and the sign-up, by itself (below) | `ScreensTypeOK` and one to three properties of each screen: `OneStore`, `ExactCart`; `ActsAsShown`, `FavoritesAreMine`; `CancelWorks`, `NoFalseCancel`, `RightOrderShown`; `ExactList`; `ReviewsExact`; `OneStoreAtATime`, `OpensAsAsked`, `ResultsMatch`; `ListsCatchUp`, `OneRowPerForm`, `NothingForStrangers`; and one of the server's parts: `CachedIsCurrent`, `SignUpSucceeds` |
| `push_open` | 1 order, a push | violates `PushOpensTheOrder` |
| `store_scroll` | a store of one category with two pages | violates `MoreIsReachable` |
| `review_again` | a customer who may write two reviews | violates `OneReviewEach` |

**Bounds, and why they are enough.**

*Hub.* Two connections at one address are what replacing needs, the third gives
Notify a second target, so that a panic or a drop in the middle of its loop is
distinguished from one at its end. Two messages on one topic fill and overflow a
channel of capacity 1, the third is of another topic. Streams and messages are
used once, which is why these systems stop and deadlock is not checked. Capacity
1 reaches full and empty; nothing depends on the 10 of the code.

*Orders.* Each race is between two requests, or a request and the administrator. A
request touches one order, so two orders interact only through a picker's account;
the proofs cover any number. An administrator's write ends the history the
properties speak of whatever its value, and resetting to NEW (`AdminTargets`) is the
one that lets the order be worked on again. Slots and pickers are symmetric and
the properties are safety properties, so symmetry is sound.

*Totals.* One row the order came with and two to add give every mix of two
overlapping edits; the prices differ, so that every set of rows has a sum of its
own.

*picker_app.* Two versions are a change and what was before it; the change may be
the picker's or another's. Two logins are needed for a late answer of the first to
meet the second. One fault: every exception needs one, and with it the liveness
property is not vacuous. The order is ASSEMBLED and
the picker's own, DELIVERED and a colleague's, or not there yet: a row with buttons and an owner,
one without buttons whose owner may be deleted, and one that begins as NEW and nobody's and may be claimed by
either. Others claim and cancel; the proofs take any rows and any status.

*screens.* `OneKind`: searches and showcases are not both on their way, since they
write different fields. `OneOfForms`: of the keys of products and categories, which
all work alike, one creation form each. The account is followed up to its first
lapse, after which the properties say nothing. Otherwise:

| Part | Bounds |
|---|---|
| cart | 2 products of 2 stores, at most 2 of each, 2 orders, 1 fault (a reload, a lost or refused order) |
| account | 2 users, 1 product, 2 requests of a kind at once, 1 mishap |
| orders | 2 orders, one of which a push names, 2 changes of statuses (others write ASSEMBLED or CANCELLED), 1 lost or refused answer |
| store | 2 categories, one with a child that is the target, a search; pages of 1; listings of 1, 2 and 3 entries, so less than, equal to and more than a page; 3 requests at once, 1 lost |
| reviews | 2 of the customer's own, 1 of another; the administrator may delete; 1 lost answer |
| browse | 2 stores, types, words and showcases, 1 recipe, 2 requests of a kind at once, 1 failure |
| panel | each of the keys in turn, 1 failure |
| cache | each of the six lists in turn, 2 readers, 2 administrators, 2 changes |
| signup | 2 requests at once, 2 codes, a limit of 2 attempts, 1 failure |

Two of a kind are what an overtaking needs; a third adds no new pair. A single
fault is what a slip by name needs, and the proofs cover any number where a
property is proved.

**Fairness.** `hub` assumes weak fairness of each handler's own steps
(`Handler(c)`): a goroutine that can run is eventually run by the Go scheduler, and
a write that stalls is failed by the server's WriteTimeout. Nothing is assumed of
peers, of Notify's callers or of the process staying up. `picker_app` assumes weak
fairness of the list's query: that the 30 s `refetchInterval` comes round
(`Refetch`), that the server reads (`Serve`), and that the browser delivers the
answer (`Answer`, `FetchRefused`). Faults are bounded, which says that failures do
not go on for ever; nothing is assumed of the stream. The other runs assume
nothing.

**Mutants.** Every property of a passing run has one in `PROJECT.json`: an operator
defined just before the definition it replaces (marked *Fault* in the modules), which
changes it the way a plausible bug would and which makes the property fail in the
run.

## Findings

1. **A notification can panic** (`hub_panic`). `Notify` sends to channels it
   copied before releasing the lock; a reconnect or disconnect closes one of them
   in between. The order's status is already committed when the handler answers
   500, the remaining subscribers get nothing, and in CreateOrder the push and
   Telegram messages are skipped. hub.go:19 calls the three methods safe to call
   from different goroutines.
2. **A reconnect ends the new connection** (`hub_reconnect`). The replaced
   handler's deferred `Unsubscribe` looks up by address and closes the
   replacement's channel. hub.go:38-39 and :54 speak of the old channel, and of
   *its* channel.
3. **A final status is left** (`orders_final`). A picker's accept that read the
   order before the customer's cancellation and writes after it brings the order
   back from CANCELLED. models/order.go:130-131 call the two statuses final.
   The same gap lets a cancellation land on an order that was assembled or
   handed to a courier after it was read.
4. **Totals may stay wrong after both edits are done** (`totals_race`). Of two
   overlapping recalculations of an order the one with the older snapshot may
   write last. docs/GO_LEARNING_GUIDE.md:119 and :121 say of this method that
   there is no window between reading and writing, and that SQL sorts out two
   pickers who change an order at once.
5. **A push on a cold start opens nothing** (`push_open`). page.tsx:44-48 drops the
   pending order as long as nobody is authenticated, which is so until /auth/me
   has answered. public/sw.js:52-53 says that the client reads `?order=<id>` and opens
   the sheet.
6. **Pages after the first may be out of reach** (`store_scroll`). The effect that
   creates the IntersectionObserver runs when `loadMore` changes. If the sentinel is
   not rendered then, and `loadMore` stays the same when it appears, nobody watches
   it. StoreDetailView.tsx:185 says that the observer watches the sentinel.
7. **Reviews again and again** (`review_again`). `CanUserReview` looks at delivered
   orders only; catalog/service.go:340-341 and StoreDetailView.tsx:812 say that
   whoever has written a review may not.

Smaller divergences, with no run of their own:

- README.md:68 says any status except DELIVERED may go to CANCELLED; the table
  allows no cancellation from WAITING_COURIER, COURIER_PICKED_UP and DELIVERING.
- catalog/service.go:356 drops showcases and recipes when a product changes, since
  they hold products. The administrator's UpdateProduct and DeleteProduct, and the
  deletion of a store or a category, leave them to their TTL (`Forgetful` in
  `CatalogCache`).
- admin/service.go:41-52 give the drop as what spares clients up to 5 minutes of an
  old list. A read that fetched before the change and stores after the drop
  (cache.go:62) brings the old list back for as long.
- auth/service.go:627 says that registering again sends the code again. So it does,
  and it keeps the first password whatever the second request says (:637).

## Proofs

For every value of the constants, under the assumptions named in the modules:
`Hub` (`CapAssumption`, `NoStreamAssumption`, `AddressAssumption`), `Orders`
(`GuestsAssumption`, `StoreAssumption`, `AdminAssumption`, `NamesAssumption`),
`OrderTotals` (`OrderedAssumption`, `MoneyAssumption`, `IdsAssumption`), and one or two
each in the modules of the screens, `SignUp` and `CatalogCache`. They say that names
of different kinds differ (`None` is no store, `Nothing` neither an order nor a
copy), that functions have their domains and the tree of a store is a sequence of
its categories, that amounts and bounds are natural numbers, that there is a review
the customer may write, and in `Cart` that the order to repeat is of one store, as
every order is. TLC evaluates them in every run.

Every invariant that a run checks is stated by a theorem.

**Hub.**
- `HubTypeCorrect`: types, including that no channel exceeds its capacity. It is
  inductive as it stands.
- `HubRegistryCorrect` and `HubOpenRegistered`, from `RegistryInv`. Neither property is
  inductive alone: Unsubscribe of a stream may only close the entry at the stream's
  own address, which needs the address of what is registered from the first, and
  removes an open channel's entry only by closing it, which the second needs.
- `HubNothingLeft`, from `QueueInv`: a stream that has left its loop without being cut
  is `Finished`, its channel empty and closed, so that no later send can reach it.
- `HubOnTopicOnce`, from `DeliveryInv`: what a peer has got, what its channel holds
  and what Notify is still to send are different messages, all of the topic.
- `HubSupersededIsClosed` and `HubSupersededDrains`, which are `SupersededStreamsEnd` without
  its fairness. The registry holds none but the newest stream of an address
  (`RegistryHoldsNewest`), so by `OpenIsRegistered` a handler that was replaced serves a
  closed channel; while it serves, its channel only shrinks, and with every
  step of its own.

**Orders.**
- `OrdersTypeCorrect`, then `IInv`: the five safety invariants of `Orders` with
  four facts they rest on. `Placed`: a row exists exactly when it has had a
  status. `StatusRecorded`: the current status is in the order's history unless
  the administrator wrote it. `BindingRecorded`: a picker's current store is in
  the picker's history. `RequestsOK`: what a request has checked may no longer
  hold of the row but holds of the *history*: the order exists, its target
  follows from a status the order has had, and once past the store check the
  picker has been bound to the order's store. That is why races can turn an order
  back but never let it skip a stage.
- From `IInv`: `OrdersClaimsExclusive`, `OrdersNoDanglingPicker`, `OrdersStages`,
  `OrdersWorkIsClaimed`, `OrdersOwnStore`.
- `OrdersImplementContract`: `Spec => Contract!Spec` under the mapping
  stages ← `seen`, owner ← `picker`, exempt ← `overridden`, gone ← deleted
  accounts. Initial states map to initial states, and each action of `Orders` to
  one of the contract's or to a stutter, using `IInv` for the guards of `Take`
  and `Progress`.

**Totals.**
- `TotalsTypeCorrect`, `TotalsBilled`, `TotalsTogether`, `TotalsExact`: for any
  prices, fees and number of edits in flight. The invariant `IInv` of
  `TotalsProofs` adds four facts: an edit's order exists, the worth of the rows
  and of every snapshot is on record in `sums`, and a snapshot not marked as
  overtaken is the present rows. From the last, a recalculation's write makes the
  totals exact; any other change leaves an edit unsettled, or the order marked.
  `TotalsExact` thus says that Finding 4 and a lost second statement are all that
  can go wrong.

**Picker's panel.**
- `PickerTyped`, from `PickerTypes`, in five groups of variables: among them that a
  fetch or a change under way carries the token of a login that was made.
- `PickerFreshButtonsWork`. `CopiesInv`: every copy, shown or on its way, is a version
  the order has had. `JobInv`: a change under way was offered by the panel's table for
  the version it was asked under. `OwnerKept`: an order whose version had a picker
  of the panel's logins has him still, since nobody else's write, claim or deletion
  changes `picker_id` to another. `TablesAgree` compares the two tables.
- `PickerNoOldTokenReturns`, an action property: the tokens that a step puts on their
  way are the session's (`NoNewTokens`, from `Carries`, `LateKept` and `JobKept`, one for each place
  where a token may be), and a session ends by its own page or by a refusal
  (`SessionEnds`). `PickerSession`: there is none but the newest login's.
- `PickerSuccessIsShown`, from `CopiesInv` and `JobInv` (after a
  success the page's copy, and every answer on its way, has the picker's change,
  since the invalidation cancelled older fetches).
- `PickerScreenNeverGoesBack`, an action property: no step replaces what is shown of an
  order by an older version of it, whichever fetches were joined, given up or tried
  again. From `InOrder`: the answer on its way to an entry of the cache is not older
  than the copy there. `Moves` lists all that a step may do to an entry.

**Customer.**
- `AccountTyped`. `AccountActsAsShown`, from `RestoreInv` (until the question about the
  old session has ended nothing else is on the way, and its answer is about the cookie
  that is still there) and `WishInv` (without a lapse the user is the wish, and so is
  the cookie once the logouts have arrived).
- `AccountFavoritesAreMine`, from `HeartsInv` (over `OneToggle` and `Synced`). The property
  speaks of moments when nothing is on the way and is far from inductive: the
  invariant says what the screen and the server have for each heart while its own
  toggle is asked or served, that no product has two toggles at once, and that
  each of them was asked for by the user on the screen.
- `MyOrdersTyped`, `MyOrdersCancelWorks`, `MyOrdersNoFalseCancel`,
  `MyOrdersRightOrderShown`. `KnownInv`: every copy, wherever it lies or travels, is a
  version its row has had, or is hoped for, so that a copy of the newest version has
  the row's status. `HopeInv`: a copy that shows CANCELLED ahead of the server belongs
  to the cancellation under way, or the row has been cancelled, which others may undo (`Lasting`), or
  the sheet is stale. `SheetInv`: a sheet that is not stale waits for nothing but the
  order picked last, and does wait for it unless it shows it.
- `SignUpAlwaysSucceeds`, with the types `SignUpTypes`, from `SignUpInv`, for any number
  of requests, codes, attempts and failures. `CodesToSend` is what makes it inductive: a
  code still to be sent is nobody else's, has not been sent, and may be crossed by
  another request but not replaced, so that sending it makes the newest code one that
  works or is crossed.

**Shop.**
- `BrowseTyped`, `BrowseOneStore`, `BrowseOpensAsAsked`, from `WaysInv` and `GoalInv`: while
  a store is on its way none is open, and category and sorting are those of the store
  that is open or on its way, until one has been left behind. `ProductInv` says that
  the way out of a product's sheet is to a store.
- `BrowseResultsMatch`, from `SearchInv` and `ShowcaseInv`: what was answered is of the
  word, or of the showcase, on the screen, or an older answer came after it; and as long as
  it has not been answered the newest of the requests on the way is the one for it.
  `HiddenInv` says that a page which is unmounted keeps nothing.
- `StoreListTyped`, `StoreListExact`, from `StoreListInv`. `NewestFirst`: until the filter on
  the screen has been answered, the newest of the first pages on the way is its own.
  `WaitsInv`: a spinner turns only over a request that is on the way, and only a list
  that is shown has its sentinel watched. `NotYet`: nothing is asked for before the
  categories have come.
- `ReviewsTypesHold`, `ReviewsStayExact`, from `CardsInv`: the screen's list is the
  server's but for the review whose addition is under way and those whose deletion
  is, none of which is shown, and no review is both; the server has one that is being
  deleted until the request arrives.
- `CartTyped`. `CartOneStore`, from `StoresInv`: the cart, its saved copy and the lines
  that "repeat" asks about are each of one store. `CartStaysExact`, from `ExactInv`:
  once the cart has been restored its copy equals it, and without a slip an order in
  flight is the only one and made of exactly the lines that are in the cart (`OnWay`),
  so that its answer, which clears the cart, takes out what was ordered.

**Administrator's panel and cache.**
- `AdminTyped`, `AdminNothingForStrangers`, from `CredentialsInv`: before a login nothing
  has been asked for, after a stranger's nothing has been read, including by a fetch
  still on its way; that is what clearing the cache at logout must achieve.
- `AdminListsCatchUp`, from `OlderInv` and `JobsAreInv`: when the list on the screen, or
  the answer on its way to it, is older than the server's, a change is still to be
  acknowledged (`Acknowledging`), or one of the marks named in the property is set. `JobInv`:
  a mutation which is still shown is one of the section on the screen and of what is
  opened in it. So its success has the list asked for again, unless the list
  is not on the screen or the entry is marked (`OlderStep`).
- `AdminOneRowPerForm`, from `FormsInv`: a form has one mutation in flight at most, and
  has made a row only if that mutation's answer is still to come (`Halfway`), or an
  answer was lost.
- `CacheTyped`, `CacheCachedIsCurrent`, from `FetchInv`: a request about to store what it has
  read has read the rows as they are, or is marked late, or somebody is still to drop
  the key.

**Composition.**
- `ScreensImplementParts`: the specification that `screens` runs implies that of each of
  its nine parts, whatever part is followed: initial states are initial states, and a
  step of the whole is a step of one part and leaves the variables of the others as
  they are. So all that is proved of a part holds of the whole: `ScreensTyped` gets
  its nine conjuncts from the nine type theorems, and `ScreensKeepPromise` the other
  17 properties of the run from theirs.

Each property and each invariant was model-checked before it was proved.

**Only model-checked.** `SupersededStreamsEnd` (but for its safety half, above) and
`ScreenCatchesUp`, since liveness under fairness is beyond the prover; and the
properties of the seven runs that expect a violation, which do not hold.

## Not modelled, and why

*Server.* Of authentication: passwords, tokens with their revocation, which appear
as what they are to others (`lapsed`, the cookie), and the routes for telephone
numbers kept for testing (auth/handler.go:77). Push, whose sends nothing depends on. Options,
payments, delivery, users, favorites and banners: single statements. File parsing
in the import. The answer of a request (status codes, JSON), logging, metrics and
Telegram. `OrderService.UpdateOrderStatus` and `AssignPicker` have no route or
caller. Expiry of accounts' tokens is left out of `Orders`: a request of a deleted
picker is possible there, as it is in the code until the token expires.

*Applications.* The customer's: the carousel, the charity dialog, the choice of a
city, the fields of the checkout form (address, time, comment), the
administrator's editing of an open store on the customer's page, and the
customer's event stream, which changes no list. The picker's: analytics and profile pages, which
only read, sounds, push subscription and the theme. The administrator's: what is
typed into a form, and what a row shows besides having changed. Skeletons, themes
and layout everywhere.
