----------------------------- MODULE AdminPanel -----------------------------
(***************************************************************************)
(* The administrator's panel (Frontend/admin-panel): its sections, the     *)
(* lists they show out of one cache of queries (React Query: every list is *)
(* stale at once, a mutation invalidates keys when it succeeds), and the   *)
(* forms and buttons that change what the lists show.                      *)
(*                                                                         *)
(* The keys of the cache do not influence each other: a behaviour follows  *)
(* one of them, chosen at its start, and the operations that concern it.   *)
(* Of the stores, recipes, blocks and products that can be opened one is   *)
(* "this", the one whose lists are followed, the others are "other".       *)
(***************************************************************************)
EXTENDS Integers, FiniteSets

CONSTANTS
    Crowded,     \* bound: keys with two mutations, of one operation, in flight; others: one
    MaxUpsets    \* bound: failed requests

ASSUME PanelAssumption == MaxUpsets \in Nat

-----------------------------------------------------------------------------
(* The sections: which lists each shows, and which of them belong to what is *)
(* opened in it; the operations of each, with the keys whose lists the       *)
(* server changes and the keys that are invalidated.                         *)

Op(s, n, a, t) == [section |-> s, name |-> n, affects |-> a, tells |-> t, inner |-> FALSE]
\* An operation on what is opened in the section.
Inner(s, n, a, t) == [Op(s, n, a, t) EXCEPT !.inner = TRUE]
\* What is invalidated is exactly what is changed.
Ops(s, names, keys) == {Op(s, n, keys, keys) : n \in names}
Inners(s, names, keys) == {Inner(s, n, keys, keys) : n \in names}

\* For each kind of rows: the lists the server makes of them; the lists of the
\* section (the name ends in Lists); what is changed there and what is told (Ops);
\* the forms and dialogs whose button is disabled until the answer (Forms, Dialogs).

DashboardLists == {"stats", "all-orders"}

StoreKeys == {"stores", "admin-stores"}
StoreLists == {"admin-stores", "store-category-meta"}
StoreOps == Ops("stores", {"create", "edit", "delete", "archive", "restore"}, StoreKeys)
StoreForms == {"stores"} \X {"create", "edit"}
StoreDialogs == {"stores"} \X {"delete", "archive", "restore"}

\* A store that is opened: its own form, its categories and its products.
StoreGoods == {"store-subcategories", "store-products", "option-groups"}
StoreEdit == Inners("stores", {"edit store"}, StoreKeys)
StoreEditForm == {"stores"} \X {"edit store"}

SubcategoryKeys == {"store-subcategories"}
SubcategoryOps ==
    {Inner("stores", "create category", SubcategoryKeys, {"store-subcategories"}),
     Inner("stores", "create subcategory", SubcategoryKeys, {"store-subcategories"}),
     Inner("stores", "rename subcategory", SubcategoryKeys,
           {"store-subcategories", "store-products"}),
     Inner("stores", "delete subcategory", SubcategoryKeys \cup {"store-products"},
           {"store-subcategories", "store-products"})}
SubcategoryForms ==
    {"stores"} \X {"create category", "create subcategory", "rename subcategory"}
SubcategoryDialog == {"stores"} \X {"delete subcategory"}

GoodsKeys == {"store-products", "store-subcategories", "products-search"}

\* Fault: a product's change is told to its own list only.
OneListTold ==
    {Inner("stores", n, GoodsKeys, {"store-products"})
       : n \in {"create product", "update product", "delete product"}}

GoodsOps ==
    {Inner("stores", n, GoodsKeys, {"store-products", "store-subcategories"})
       : n \in {"create product", "update product", "delete product"}}
GoodsForm == {"stores"} \X {"create product"}
GoodsEditForm == {"stores"} \X {"update product"}
GoodsDialog == {"stores"} \X {"delete product"}

OptionKeys == {"option-groups"}
OptionOps == Inners("stores", {"create group", "delete group", "create value", "delete value"},
                    OptionKeys)
GroupForm == {"stores"} \X {"create group"}
ValueForm == {"stores"} \X {"create value"}

ProductLists == {"products-search"}
ProductOps ==
    {Inner("products", n, GoodsKeys, {"products-search"})
       : n \in {"create", "update", "delete", "import"}}
ImportForm == {"products"} \X {"import"}
ProductForms == {"products"} \X {"create", "update"}

\* The blocks of the showcase, and the block of a scenario.
FeaturedKeys == {"featured"}
FeaturedLists == {"featured"}
FeaturedOps == Inners("vitrina", {"add product", "remove product"}, FeaturedKeys)
FeaturedForm == {"vitrina"} \X {"add product"}

ScenarioKeys == {"scenarios"}
ScenarioLists == {"scenarios"}
ScenarioOps ==
    Ops("scenarios", {"create", "update", "delete"}, ScenarioKeys)
      \cup Inners("scenarios", {"add product", "remove product"}, FeaturedKeys)
ScenarioForm == {"scenarios"} \X {"create", "update"}
ScenarioBlock == {"scenarios"} \X {"add product", "remove product"}

RecipeKeys == {"recipes", "recipe-detail"}
RecipeLists == {"recipes"}
RecipeDetail == {"recipe-detail"}
RecipeOps ==
    Ops("recipes", {"create", "delete"}, RecipeLists)
      \cup {Op("recipes", "update", RecipeKeys, RecipeLists)}
      \cup Inners("recipes", {"add ingredient", "remove ingredient"}, RecipeDetail)
RecipeForms == {"recipes"} \X {"create", "update"}
IngredientForm == {"recipes"} \X {"add ingredient"}

OrderKeys == {"all-orders", "stats"}
OrderLists == {"all-orders"}
OrderOps == {Op("orders", "status", OrderKeys, {"all-orders"})}
OrderRow == {"orders"} \X {"status"}

CategoryKeys == {"store-category-meta"}
CategoryLists == {"store-category-meta", "stores"}
CategoryOps ==
    Ops("categories", {"create", "save"}, CategoryKeys)
      \cup {Op("categories", "change category", StoreKeys, {"stores"}),
            Op("categories", "delete", CategoryKeys \cup StoreKeys,
               {"store-category-meta", "stores"})}
CategoryPage == {"categories"} \X {"save"}
CategoryDialogs == {"categories"} \X {"change category", "delete"}
CategoryForm == {"categories"} \X {"create"}

TreeKeys == {"admin-categories"}
TreeLists == {"admin-categories"}
TreeOps == Ops("product-categories", {"create", "create subcategory", "rename", "delete"},
               TreeKeys)
TreeForms == {"product-categories"} \X {"create", "create subcategory", "rename"}
TreeDialog == {"product-categories"} \X {"delete"}

PickerKeys == {"pickers"}
PickerLists == {"pickers"}
PickerOps == Ops("pickers", {"create", "edit", "delete"}, PickerKeys)
               \cup {Op("pickers", "password", {}, {})}
PickerForms == {"pickers"} \X {"create", "edit"}
PickerDialogs == {"pickers"} \X {"password", "delete"}

BannerKeys == {"banners"}
BannerLists == {"banners"}
BannerOps == Ops("banners", {"create", "save", "delete"}, BannerKeys)
BannerForm == {"banners"} \X {"create", "save"}

AdminSections == {"dashboard", "stores", "products", "vitrina", "recipes", "orders",
                  "scenarios", "categories", "product-categories", "pickers", "banners"}

AdminOps == StoreOps \cup StoreEdit \cup SubcategoryOps \cup GoodsOps \cup OptionOps
              \cup ProductOps \cup FeaturedOps \cup ScenarioOps \cup RecipeOps \cup OrderOps
              \cup CategoryOps \cup TreeOps \cup PickerOps \cup BannerOps

\* The lists of a section, and those of what is opened in it.
Outer == {<<"dashboard", k>> : k \in DashboardLists}
           \cup {<<"stores", k>> : k \in StoreLists}
           \cup {<<"recipes", k>> : k \in RecipeLists \cup {"stores"}}
           \cup {<<"scenarios", k>> : k \in ScenarioLists}
           \cup {<<"categories", k>> : k \in CategoryLists}
           \cup {<<"product-categories", k>> : k \in TreeLists}
           \cup {<<"pickers", k>> : k \in PickerLists \cup {"stores"}}
           \cup {<<"banners", k>> : k \in BannerLists}
           \cup {<<"orders", k>> : k \in OrderLists} \cup {<<"products", "stores">>}
Opened == {<<"stores", k>> : k \in StoreGoods}
            \cup {<<"products", k>> : k \in ProductLists}
            \cup {<<s, k>> : s \in {"vitrina", "scenarios"}, k \in FeaturedLists}
            \cup {<<"recipes", k>> : k \in RecipeDetail}

Keys == {l[2] : l \in Outer \cup Opened}
DetailKeys == {l[2] : l \in Opened}
PublicKeys == {"stores", "store-category-meta", "products-search"}

\* Mutations of two requests: the row, then its picture.
Pictured == {"create", "edit", "edit store", "save"}
PicturedSections == {"stores", "banners", "categories"}
TwoRequests(op) ==
    /\ op.name \in Pictured /\ op.section \in PicturedSections
    /\ op.name = "create" => op.section = "banners"

\* All others can be pressed again while their mutation is pending: what is deleted
\* from a list, an ingredient, a product of the showcase, an option.
Guarded == StoreForms \cup StoreDialogs \cup StoreEditForm \cup SubcategoryForms
             \cup SubcategoryDialog \cup GoodsForm \cup GoodsEditForm \cup GoodsDialog
             \cup GroupForm \cup ValueForm \cup ImportForm \cup ProductForms
             \cup FeaturedForm \cup ScenarioForm \cup ScenarioBlock \cup RecipeForms
             \cup IngredientForm \cup OrderRow \cup CategoryPage \cup CategoryDialogs
             \cup CategoryForm \cup TreeForms \cup TreeDialog \cup PickerForms
             \cup PickerDialogs \cup BannerForm

Creates == {op \in AdminOps : op.name \in {"create", "create product", "create category",
              "create subcategory", "create group", "create value", "add product",
              "add ingredient"}}

-----------------------------------------------------------------------------
VARIABLES
    creds,    \* whose credentials the panel uses: it does not check them itself
    section,  \* page
    pane,     \* what is opened in the section
    key,      \* the key that is followed
    cached,   \* its entry in the cache, against the list the server has
    jobs,     \* the mutations in flight
    form,     \* the creation form that is followed, and what became of its input
    upsets

panelVars == <<creds, section, pane, key, cached, jobs, form, upsets>>

\* A list that was fetched is the server's own, or older than it.
Idle == [st |-> "idle", late |-> FALSE]
AskedAgain == [Idle EXCEPT !.st = "asked"]

\* History: "late" of a fetch, a change was acknowledged after the server had read
\* the list and the fetch goes on; "doubt", the panel cannot know that the list is
\* older than the server's.
NoEntry == [data |-> "none", failed |-> FALSE, doubt |-> FALSE, fetch |-> Idle]

NoForm == [copies |-> 0, lost |-> FALSE]

Job == [op : AdminOps, on : {"this", "other"}, at : {"closed", "this", "other"},
        by : {"admin", "stranger"}, st : {"asked", "half", "done"}, typed : BOOLEAN,
        shown : BOOLEAN]

\* The lists of what is opened are on the screen with it.
OnScreen(c, s, p) ==
    /\ c # "nobody"
    /\ <<s, key>> \in Outer \/ (p = "this" /\ <<s, key>> \in Opened)
Seen == OnScreen(creds, section, pane)

AdminTypeOK ==
    /\ creds \in {"nobody", "admin", "stranger"}
    /\ section \in AdminSections /\ pane \in {"closed", "this", "other"}
    /\ key \in Keys
    /\ cached \in [data : {"none", "same", "older"}, failed : BOOLEAN, doubt : BOOLEAN,
                   fetch : [st : {"idle", "asked", "same", "older"}, late : BOOLEAN]]
    /\ jobs \subseteq Job /\ Cardinality(jobs) <= 2
    /\ form.op \in Creates /\ form.copies \in 0 .. MaxUpsets + 3
    /\ form.lost \in BOOLEAN
    /\ upsets \in 0 .. MaxUpsets
    \* A list on the screen has been asked for, and nothing shows before the login.
    /\ Seen => cached.data # "none" \/ cached.failed \/ cached.fetch # Idle
    /\ creds = "nobody" => cached = NoEntry

\* A mutation concerns the followed list.
Hits(j) == key \in j.op.affects /\ (key \in DetailKeys => j.on = "this")

FormOf(op) == [op |-> op, copies |-> 0, lost |-> FALSE]
Concern(k) == {op \in AdminOps : k \in op.affects \cup op.tells}

\* The forms that add to the list; for a list without one, the banners'.
Followable ==
    {op \in Creates : key \in op.affects \/ (op.section = "banners"
                                               /\ \A o \in Creates : key \notin o.affects)}

AdminInit ==
    /\ creds = "nobody" /\ section = "dashboard" /\ pane = "closed"
    /\ key \in Keys
    /\ cached = NoEntry
    /\ jobs = {}
    /\ form \in {FormOf(op) : op \in Followable}
    /\ upsets = 0

MaxJobs == IF key \in Crowded THEN 2 ELSE 1
Upset == upsets < MaxUpsets /\ upsets' = upsets + 1

-----------------------------------------------------------------------------
(* Credentials, sections and what is opened in them. *)

\* A list that comes to the screen is fetched, unless it is being fetched already.
Mounts(c, s, p) ==
    cached' = IF OnScreen(c, s, p) /\ ~Seen /\ cached.fetch = Idle
              THEN [cached EXCEPT !.fetch = AskedAgain] ELSE cached

\* What a form held is gone with its component.
Emptied(f, op) == [f EXCEPT !.copies = 0, !.lost = FALSE]
Untyped(js) == {[j EXCEPT !.typed = FALSE] : j \in js}
Hidden(js) == {[j EXCEPT !.typed = FALSE, !.shown = FALSE] : j \in js}

EnterPanel(c) ==
    /\ creds = "nobody"
    /\ creds' = c
    /\ Mounts(c, section, pane)
    /\ UNCHANGED <<section, pane, key, jobs, form, upsets>>

\* Fault: the lists of the last administrator stay in the cache.
KeepsLists == [cached EXCEPT !.fetch = Idle]

Cleared == NoEntry

\* handleLogout.  The section is kept.
LeavePanel ==
    /\ creds # "nobody"
    /\ creds' = "nobody" /\ pane' = "closed"
    /\ cached' = Cleared
    /\ jobs' = Hidden(jobs) /\ form' = Emptied(form, form.op)
    /\ UNCHANGED <<section, key, upsets>>

\* The sections that show the list or change it; for it all others are alike.
Concerned == {l[1] : l \in {m \in Outer \cup Opened : m[2] = key}}
               \cup {op.section : op \in Concern(key)} \cup {"dashboard"}

\* The showcase always shows one of its blocks.
FirstPane(s) == IF s = "vitrina" THEN "this" ELSE "closed"

Navigate(s) ==
    /\ creds # "nobody" /\ s # section
    /\ section' = s /\ pane' = FirstPane(s)
    /\ Mounts(creds, s, FirstPane(s))
    /\ jobs' = Hidden(jobs) /\ form' = Emptied(form, form.op)
    /\ UNCHANGED <<creds, key, upsets>>

\* A store takes the place of the list of stores; the others open beside theirs.
\* Without the list nothing can be opened.
SetPane(p) ==
    /\ creds # "nobody" /\ p # pane
    /\ section \in {l[1] : l \in Opened}
    /\ section = "vitrina" => p # "closed"
    /\ section = "stores" => "closed" \in {p, pane}
    /\ creds = "stranger" => section \in {"products", "vitrina"}
    /\ pane' = p
    /\ Mounts(creds, section, p)
    /\ IF section = "stores" /\ p = "closed"
       THEN jobs' = Hidden(jobs) /\ form' = Emptied(form, form.op)
       ELSE /\ jobs' = {IF j.shown /\ section # "stores" THEN [j EXCEPT !.at = p] ELSE j
                          : j \in jobs}
            /\ UNCHANGED form
    /\ UNCHANGED <<creds, section, key, upsets>>

-----------------------------------------------------------------------------
(* Fetches. *)

\* The window gets the focus, or the time of a periodic fetch has come.
RefetchList ==
    /\ Seen /\ cached.fetch = Idle
    /\ cached' = [cached EXCEPT !.fetch = AskedAgain]
    /\ UNCHANGED <<creds, section, pane, key, jobs, form, upsets>>

ServeList ==
    /\ cached.fetch.st = "asked"
    /\ creds = "admin" \/ key \in PublicKeys
    /\ cached' = [cached EXCEPT !.fetch.st = "same"]
    /\ UNCHANGED <<creds, section, pane, key, jobs, form, upsets>>

ListArrives ==
    /\ cached.fetch.st \in {"same", "older"}
    /\ cached' = [NoEntry EXCEPT !.data = cached.fetch.st, !.doubt = cached.fetch.late]
    /\ UNCHANGED <<creds, section, pane, key, jobs, form, upsets>>

\* With its retries; what was cached stays.
ListFails ==
    /\ cached.fetch # Idle
    /\ IF creds = "admin" \/ key \in PublicKeys THEN Upset ELSE UNCHANGED upsets
    /\ cached' = [cached EXCEPT !.failed = TRUE, !.fetch = Idle]
    /\ UNCHANGED <<creds, section, pane, key, jobs, form>>

-----------------------------------------------------------------------------
(* Mutations. *)

\* Fault: a button can be pressed again at once.
NeverDisabled(op) == TRUE

ButtonEnabled(op) ==
    \/ <<op.section, op.name>> \notin Guarded
    \/ \A j \in jobs : j.op = op => ~j.shown

\* In a list, any row; in what is opened, itself.
Mutate(op, x) ==
    /\ creds # "nobody" /\ section = op.section
    /\ op.inner => pane = x
    /\ ~op.inner => (section = "stores" => pane = "closed")
    /\ creds = "stranger" => op.name = "create"
    /\ ButtonEnabled(op)
    /\ Cardinality(jobs) < MaxJobs /\ \A j \in jobs : j.op = op
    /\ jobs' = jobs \cup {[op |-> op, on |-> x, at |-> pane, by |-> creds, st |-> "asked",
                           typed |-> op = form.op, shown |-> TRUE]}
    /\ jobs' # jobs
    /\ UNCHANGED <<creds, section, pane, key, cached, form, upsets>>

\* The administrator types something else into the creation form.
Retype ==
    /\ form.copies > 0
    /\ form' = Emptied(form, form.op) /\ jobs' = Untyped(jobs)
    /\ UNCHANGED <<creds, section, pane, key, cached, upsets>>

Older(d) == IF d = "same" THEN "older" ELSE d
Outdated == [cached EXCEPT !.data = Older(@), !.fetch.st = Older(@)]

\* The server changes the row, and after it the picture when there is one.
Write(j, st) ==
    /\ j.by = "admin"
    /\ \/ j.st = "asked" /\ st \in IF TwoRequests(j.op) THEN {"half", "done"} ELSE {"done"}
       \/ j.st = "half" /\ st = "done"
    /\ cached' = IF Hits(j) THEN Outdated ELSE cached
    /\ jobs' = (jobs \ {j}) \cup {[j EXCEPT !.st = st]}
    /\ form' = IF j.typed /\ j.st = "asked" THEN [form EXCEPT !.copies = @ + 1] ELSE form
    /\ UNCHANGED <<creds, section, pane, key, upsets>>

\* A fetch that has read an older list goes on; the list may stay as it is.
Unsure(stays) == [cached EXCEPT !.fetch.late = (@ \/ cached.fetch.st = "older"),
                                !.doubt = (@ \/ (stays /\ cached.data = "older"))]

\* onError: the form stays as it is, and no list is fetched.
MutationFails(j) ==
    /\ IF j.by = "admin" THEN Upset ELSE UNCHANGED upsets
    /\ jobs' = jobs \ {j}
    /\ cached' = IF j.st # "asked" /\ Hits(j) THEN Unsure(TRUE) ELSE cached
    /\ form' = IF j.typed /\ j.st # "asked" THEN [form EXCEPT !.lost = TRUE] ELSE form
    /\ UNCHANGED <<creds, section, pane, key>>

\* The keys are those of the last render of the section, not of the click.
Told(j) == key \in j.op.tells /\ (key \in DetailKeys => j.at = "this")

\* The recipe that is open keeps the title it had; and a section does not tell what
\* it does not show at the end, also when the administrator has gone there meanwhile.
Overlooked(j) == Hits(j) /\ ~Told(j) /\ (key = "recipe-detail" \/ ~j.shown)

\* invalidateQueries: a list on the screen is fetched again, and an older fetch of
\* it is given up, unless it is the first: that one goes on.
Restarts(j) == Told(j) /\ Seen /\ (cached.data # "none" \/ cached.fetch = Idle)

\* onSuccess; a deleted recipe closes whichever one is open.
MutationSucceeds(j) ==
    /\ j.st = "done"
    /\ jobs' = IF j.typed THEN Untyped(jobs \ {j}) ELSE jobs \ {j}
    /\ form' = IF j.typed THEN Emptied(form, form.op) ELSE form
    /\ cached' =
         IF Restarts(j) THEN [cached EXCEPT !.fetch = AskedAgain]
         ELSE IF Hits(j) THEN Unsure(Overlooked(j)) ELSE cached
    /\ pane' = IF j.shown /\ j.op.section = "recipes" /\ j.op.name = "delete" THEN "closed"
               ELSE pane
    /\ UNCHANGED <<creds, section, key, upsets>>

PanelNext ==
    \/ \E c \in {"admin", "stranger"} : EnterPanel(c)
    \/ LeavePanel \/ RefetchList \/ ServeList \/ ListArrives \/ ListFails \/ Retype
    \/ \E s \in Concerned : Navigate(s)
    \/ \E p \in {"closed", "this", "other"} : SetPane(p)
    \/ \E op \in Concern(key), x \in {"this", "other"} : Mutate(op, x)
    \/ \E j \in jobs : MutationFails(j) \/ MutationSucceeds(j)
                         \/ \E st \in {"half", "done"} : Write(j, st)

PanelSpec == AdminInit /\ [][PanelNext]_panelVars

-----------------------------------------------------------------------------
(* Correctness. *)

\* A list on the screen that is not being fetched shows every change that was
\* acknowledged, whichever section made it and wherever the administrator went
\* meanwhile, unless the last fetch failed, or a change failed after the server
\* had made it, or was acknowledged while a fetch it does not restart was on its
\* way with an older list, or belongs to the open recipe's own title, or was made
\* in a section that no longer showed the list and was left before the answer.
ListsCatchUp ==
    /\ Seen /\ cached.data # "none" /\ cached.fetch = Idle
    /\ ~cached.failed /\ ~cached.doubt
    /\ \A j \in jobs : Hits(j) => j.st = "asked"
    => cached.data = "same"

\* What was typed into a creation form becomes one row, unless an answer was lost
\* or the picture refused after the row had been made: then the form is still
\* there and makes another one.
OneRowPerForm == form.copies > 1 => form.lost

\* Whoever enters with other credentials sees none of the lists that were fetched
\* with the administrator's.
NothingForStrangers == creds = "stranger" /\ key \notin PublicKeys => cached.data = "none"
=============================================================================
