----------------------------- MODULE AdminProofs -----------------------------
(***************************************************************************)
(* What administrators change: whose lists their panel shows, when the     *)
(* lists have caught up and how many rows a form makes, for any number of  *)
(* failed requests, whatever key is followed and whichever keys are        *)
(* crowded; and when the server's cache of a list is old, for any number   *)
(* of readers and of changes.                                              *)
(***************************************************************************)
EXTENDS AdminPanel, CatalogCache, Functions, FiniteSetTheorems, TLAPS

HasShape(e) == "data" \in DOMAIN e /\ "fetch" \in DOMAIN e /\ "st" \in DOMAIN e.fetch

\* No list has been read for the entry: it has been asked for at most.
Unread(e) == e.data = "none" /\ e.fetch.st \in {"idle", "asked"}
Untouched(e) == e.data = "none" /\ e.fetch.st = "idle"

(* Nothing has been asked for before the login.  After a stranger's, no list
   that needs the administrator's credentials has been read. *)
CredentialsInv ==
    /\ HasShape(cached)
    /\ creds = "nobody" => Untouched(cached)
    /\ creds = "stranger" /\ key \notin PublicKeys => Unread(cached)

LEMMA NoEntryShape == HasShape(NoEntry) /\ Untouched(NoEntry)
BY DEF NoEntry, HasShape, Untouched, Idle

(* What does not read a list keeps the invariant. *)
LEMMA ReadsNothing ==
    ASSUME CredentialsInv, HasShape(cached'),
           Unread(cached) => Unread(cached'), Untouched(cached) => Untouched(cached'),
           UNCHANGED <<creds, key>>
    PROVE  CredentialsInv'
BY DEF CredentialsInv, HasShape, Unread, Untouched

(* A list that comes to the screen is asked for at most. *)
LEMMA MountsKeeps ==
    ASSUME HasShape(cached), NEW c, NEW s, NEW p, Mounts(c, s, p)
    PROVE  /\ HasShape(cached')
           /\ Unread(cached) => Unread(cached')
BY DEF Mounts, HasShape, Unread, AskedAgain, Idle

(* A write of the server makes older what there is. *)
LEMMA OutdatedKeeps ==
    ASSUME HasShape(cached)
    PROVE  /\ HasShape(Outdated)
           /\ Unread(cached) => Unread(Outdated)
           /\ Untouched(cached) => Untouched(Outdated)
BY DEF Outdated, Older, HasShape, Unread, Untouched

(* What the panel cannot know of a list does not change it. *)
LEMMA MarksKeep ==
    ASSUME NEW e, HasShape(e), NEW x, NEW y
    PROVE  LET f == [e EXCEPT !.fetch.late = x, !.doubt = y]
           IN  /\ HasShape(f)
               /\ Unread(e) => Unread(f)
               /\ Untouched(e) => Untouched(f)
BY DEF HasShape, Unread, Untouched

LEMMA UnsureKeeps ==
    ASSUME HasShape(cached), NEW b
    PROVE  /\ HasShape(Unsure(b))
           /\ Unread(cached) => Unread(Unsure(b))
           /\ Untouched(cached) => Untouched(Unsure(b))
BY MarksKeep DEF Unsure

LEMMA CredentialsStep ==
    ASSUME CredentialsInv, [PanelNext]_panelVars
    PROVE  CredentialsInv'
<1> HasShape(cached)
  BY DEF CredentialsInv
<1>1. ASSUME NEW c \in {"admin", "stranger"}, EnterPanel(c) PROVE CredentialsInv'
  <2>1. Mounts(c, section, pane) /\ creds = "nobody" /\ creds' = c /\ key' = key
    BY <1>1 DEF EnterPanel
  <2>2. Unread(cached)
    BY <2>1 DEF CredentialsInv, Untouched, Unread
  <2>3. HasShape(cached') /\ Unread(cached')
    BY <2>1, <2>2, MountsKeeps
  <2>4. QED
    BY <1>1, <2>1, <2>3 DEF CredentialsInv, HasShape, Unread
<1>2. CASE LeavePanel
  BY <1>2, NoEntryShape DEF LeavePanel, Cleared, CredentialsInv, HasShape, Untouched
<1>3. CASE RefetchList
  BY <1>3 DEF RefetchList, Seen, OnScreen, CredentialsInv, HasShape, Unread, AskedAgain, Idle
<1>4. CASE ServeList
  BY <1>4 DEF ServeList, CredentialsInv, HasShape, Untouched
<1>5. CASE ListArrives
  BY <1>5 DEF ListArrives, CredentialsInv, HasShape, Unread, Untouched, NoEntry, Idle
<1>6. CASE ListFails
  BY <1>6 DEF ListFails, CredentialsInv, HasShape, Unread, Untouched, Idle
<1>7. CASE Retype
  BY <1>7, ReadsNothing DEF Retype
<1>8. ASSUME NEW s \in Concerned, Navigate(s) PROVE CredentialsInv'
  <2>1. HasShape(cached') /\ (Unread(cached) => Unread(cached'))
    BY <1>8, MountsKeeps DEF Navigate
  <2>2. QED
    BY <1>8, <2>1 DEF Navigate, CredentialsInv, HasShape, Unread
<1>9. ASSUME NEW p \in {"closed", "this", "other"}, SetPane(p) PROVE CredentialsInv'
  <2>1. HasShape(cached') /\ (Unread(cached) => Unread(cached'))
    BY <1>9, MountsKeeps DEF SetPane
  <2>2. creds # "nobody" /\ UNCHANGED <<creds, key>>
    BY <1>9 DEF SetPane
  <2>3. QED
    BY <2>1, <2>2 DEF CredentialsInv, HasShape, Unread
<1>10. ASSUME NEW op \in Concern(key), NEW x \in {"this", "other"}, Mutate(op, x)
       PROVE  CredentialsInv'
  <2>1. UNCHANGED <<cached, creds, key>>
    BY <1>10 DEF Mutate
  <2>2. QED
    BY <2>1, ReadsNothing
<1>11. ASSUME NEW j \in jobs, NEW st \in {"half", "done"}, Write(j, st) PROVE CredentialsInv'
  <2>1. cached' \in {Outdated, cached} /\ UNCHANGED <<creds, key>>
    BY <1>11 DEF Write
  <2>2. QED
    BY <2>1, OutdatedKeeps, ReadsNothing
<1>12. ASSUME NEW j \in jobs, MutationFails(j) PROVE CredentialsInv'
  <2>1. cached' \in {Unsure(TRUE), cached} /\ UNCHANGED <<creds, key>>
    BY <1>12 DEF MutationFails
  <2>2. QED
    BY <2>1, UnsureKeeps, ReadsNothing
<1>13. ASSUME NEW j \in jobs, MutationSucceeds(j) PROVE CredentialsInv'
  <2>1. UNCHANGED <<creds, key>>
    BY <1>13 DEF MutationSucceeds
  <2>2. CASE Restarts(j)
    <3>1. cached' = [cached EXCEPT !.fetch = AskedAgain] /\ creds # "nobody"
      BY <1>13, <2>2 DEF MutationSucceeds, Restarts, Seen, OnScreen
    <3>2. HasShape(cached') /\ (Unread(cached) => Unread(cached'))
      BY <3>1 DEF HasShape, Unread, AskedAgain, Idle
    <3>3. QED
      BY <2>1, <3>1, <3>2 DEF CredentialsInv, HasShape, Unread
  <2>3. CASE ~Restarts(j)
    <3>1. cached' \in {Unsure(Overlooked(j)), cached}
      BY <1>13, <2>3 DEF MutationSucceeds
    <3>2. QED
      BY <2>1, <3>1, UnsureKeeps, ReadsNothing
  <2>4. QED
    BY <2>2, <2>3
<1>14. CASE UNCHANGED panelVars
  BY <1>14, ReadsNothing DEF panelVars
<1>15. QED
  BY <1>1, <1>2, <1>3, <1>4, <1>5, <1>6, <1>7, <1>8, <1>9, <1>10, <1>11, <1>12, <1>13, <1>14
     DEF PanelNext

(* Lists are cached under keys that do not name the credentials they were
   fetched with; still whoever enters after a logout, or with other credentials,
   is never shown one of the administrator's, whatever answers are late. *)
THEOREM AdminNothingForStrangers == PanelSpec => []NothingForStrangers
<1>1. AdminInit => CredentialsInv
  BY NoEntryShape DEF AdminInit, CredentialsInv
<1>2. CredentialsInv /\ [PanelNext]_panelVars => CredentialsInv'
  BY CredentialsStep
<1>3. CredentialsInv => NothingForStrangers
  BY DEF CredentialsInv, Unread, NothingForStrangers
<1>4. QED
  BY <1>1, <1>2, <1>3, PTL DEF PanelSpec

-----------------------------------------------------------------------------
(* What the operations change, tell and guard. *)

(* The keys of the lists that belong to what is opened in a section. *)
LEMMA DetailLists ==
    /\ DetailKeys = StoreGoods \cup ProductLists \cup FeaturedLists \cup RecipeDetail
    /\ \A k \in DetailKeys : \A s : <<s, k>> \notin Outer
<1>1. DetailKeys = StoreGoods \cup ProductLists \cup FeaturedLists \cup RecipeDetail
  <2>1. \A k \in DetailKeys :
           k \in StoreGoods \cup ProductLists \cup FeaturedLists \cup RecipeDetail
    BY DEF DetailKeys, Opened
  <2>2. ASSUME NEW k \in StoreGoods PROVE k \in DetailKeys
    <3>1. <<"stores", k>> \in Opened
      BY DEF Opened
    <3> QED BY <3>1 DEF DetailKeys
  <2>3. ASSUME NEW k \in ProductLists PROVE k \in DetailKeys
    <3>1. <<"products", k>> \in Opened
      BY DEF Opened
    <3> QED BY <3>1 DEF DetailKeys
  <2>4. ASSUME NEW k \in FeaturedLists PROVE k \in DetailKeys
    <3>1. <<"vitrina", k>> \in Opened
      BY DEF Opened
    <3> QED BY <3>1 DEF DetailKeys
  <2>5. ASSUME NEW k \in RecipeDetail PROVE k \in DetailKeys
    <3>1. <<"recipes", k>> \in Opened
      BY DEF Opened
    <3> QED BY <3>1 DEF DetailKeys
  <2> QED BY <2>1, <2>2, <2>3, <2>4, <2>5
<1>2. ASSUME NEW k \in DetailKeys, NEW s PROVE <<s, k>> \notin Outer
  BY <1>1 DEF Outer, StoreGoods, ProductLists, FeaturedLists, RecipeDetail, DashboardLists,
    StoreLists, RecipeLists, ScenarioLists, CategoryLists, TreeLists, PickerLists, BannerLists,
    OrderLists
<1> QED BY <1>1, <1>2

(* What a section changes and does not tell, it does not show either; but for the
   title of an open recipe. *)
TellsWhatItShows(op) ==
    \A k \in op.affects \ op.tells :
        k = "recipe-detail" \/ <<op.section, k>> \notin Outer \cup Opened

\* A creation that is pending disables its own button.
CreatesOnce(op) == op \in Creates => <<op.section, op.name>> \in Guarded

\* What is opened in a section is still open after the operations on it.
StaysOpen(op) ==
    (op.affects \cup op.tells) \cap DetailKeys # {} =>
        /\ op.section = "stores" => op.inner
        /\ ~(op.section = "recipes" /\ op.name = "delete")

Sound(op) ==
    /\ op.section \in AdminSections
    /\ TellsWhatItShows(op) /\ CreatesOnce(op) /\ StaysOpen(op)

(* What an operation is made of. *)
LEMMA OpFields ==
    \A s, n, a, t :
        /\ Op(s, n, a, t).section = s /\ Op(s, n, a, t).name = n
        /\ Op(s, n, a, t).affects = a /\ Op(s, n, a, t).tells = t
        /\ Inner(s, n, a, t).section = s /\ Inner(s, n, a, t).name = n
        /\ Inner(s, n, a, t).affects = a /\ Inner(s, n, a, t).tells = t
        /\ Inner(s, n, a, t).inner
BY DEF Op, Inner

(* Lists that a section changes without telling are not among its own. *)
LEMMA NotShown ==
    /\ <<"stores", "products-search">> \notin Outer \cup Opened
    /\ <<"products", "store-products">> \notin Outer \cup Opened
    /\ <<"products", "store-subcategories">> \notin Outer \cup Opened
    /\ <<"orders", "stats">> \notin Outer \cup Opened
    /\ <<"categories", "admin-stores">> \notin Outer \cup Opened
BY DEF Outer, Opened, StoreGoods, ProductLists, FeaturedLists, RecipeDetail, DashboardLists,
    StoreLists, RecipeLists, ScenarioLists, CategoryLists, TreeLists, PickerLists, BannerLists,
    OrderLists

(* The button of every creation form is disabled until the answer. *)
LEMMA GuardedForms ==
    /\ <<"stores", "create">> \in Guarded
    /\ <<"stores", "create category">> \in Guarded
    /\ <<"stores", "create subcategory">> \in Guarded
    /\ <<"stores", "create product">> \in Guarded
    /\ <<"stores", "create group">> \in Guarded
    /\ <<"stores", "create value">> \in Guarded
    /\ <<"products", "create">> \in Guarded
    /\ <<"vitrina", "add product">> \in Guarded
    /\ <<"scenarios", "create">> \in Guarded
    /\ <<"scenarios", "add product">> \in Guarded
    /\ <<"recipes", "create">> \in Guarded
    /\ <<"recipes", "add ingredient">> \in Guarded
    /\ <<"categories", "create">> \in Guarded
    /\ <<"product-categories", "create">> \in Guarded
    /\ <<"product-categories", "create subcategory">> \in Guarded
    /\ <<"pickers", "create">> \in Guarded
    /\ <<"banners", "create">> \in Guarded
BY DEF Guarded, StoreForms, SubcategoryForms, GoodsForm, GroupForm, ValueForm, ProductForms,
    FeaturedForm, ScenarioForm, ScenarioBlock, RecipeForms, IngredientForm, CategoryForm,
    TreeForms, PickerForms, BannerForm

DetailNames == {"store-subcategories", "store-products", "option-groups", "products-search",
                "featured", "recipe-detail"}

LEMMA DetailKeysAre == DetailKeys = DetailNames
BY DetailLists DEF DetailNames, StoreGoods, ProductLists, FeaturedLists, RecipeDetail

CreateNames == {"create", "create product", "create category", "create subcategory",
                "create group", "create value", "add product", "add ingredient"}

LEMMA IsSound ==
    ASSUME NEW op, op.section \in AdminSections,
           op.name \in CreateNames => <<op.section, op.name>> \in Guarded,
           TellsWhatItShows(op), StaysOpen(op)
    PROVE  Sound(op)
BY DEF Sound, CreatesOnce, Creates, CreateNames

(* Operations that tell exactly what they change, on rows and on what is opened. *)
LEMMA OpsAreSound ==
    ASSUME NEW s \in AdminSections, NEW names, NEW keys, NEW op \in Ops(s, names, keys),
           keys \cap DetailNames = {},
           \A n \in names \cap CreateNames : <<s, n>> \in Guarded
    PROVE  Sound(op)
<1>1. PICK n \in names : op = Op(s, n, keys, keys)
  BY DEF Ops
<1>2. op.section = s /\ op.name = n /\ op.affects = keys /\ op.tells = keys
  BY <1>1, OpFields
<1>3. StaysOpen(op)
  BY <1>2, DetailKeysAre DEF StaysOpen
<1>4. TellsWhatItShows(op)
  BY <1>2 DEF TellsWhatItShows
<1> QED BY <1>2, <1>3, <1>4, IsSound

LEMMA InnersAreSound ==
    ASSUME NEW s \in AdminSections, NEW names, NEW keys, NEW op \in Inners(s, names, keys),
           "delete" \notin names,
           \A n \in names \cap CreateNames : <<s, n>> \in Guarded
    PROVE  Sound(op)
<1>1. PICK n \in names : op = Inner(s, n, keys, keys)
  BY DEF Inners
<1>2. op.section = s /\ op.name = n /\ op.affects = keys /\ op.tells = keys /\ op.inner
  BY <1>1, OpFields
<1>3. StaysOpen(op)
  BY <1>2 DEF StaysOpen
<1>4. TellsWhatItShows(op)
  BY <1>2 DEF TellsWhatItShows
<1> QED BY <1>2, <1>3, <1>4, IsSound

(* Of every operation there is, section by section. *)
LEMMA StoreOpsAreSound ==
    ASSUME NEW op \in StoreOps \cup StoreEdit \cup SubcategoryOps \cup GoodsOps \cup OptionOps
    PROVE  Sound(op)
<1>0. "stores" \in AdminSections
  BY DEF AdminSections
<1>1. CASE op \in StoreOps
  <2>1. StoreKeys \cap DetailNames = {}
    BY DEF StoreKeys, DetailNames
  <2>2. \A n \in {"create", "edit", "delete", "archive", "restore"} \cap CreateNames :
           <<"stores", n>> \in Guarded
    BY GuardedForms DEF CreateNames
  <2> QED BY <1>0, <1>1, <2>1, <2>2, OpsAreSound DEF StoreOps
<1>2. CASE op \in StoreEdit
  BY <1>0, <1>2, InnersAreSound DEF StoreEdit, CreateNames
<1>3. CASE op \in OptionOps
  <2>2. \A n \in {"create group", "delete group", "create value", "delete value"}
                    \cap CreateNames : <<"stores", n>> \in Guarded
    BY GuardedForms DEF CreateNames
  <2> QED BY <1>0, <1>3, <2>2, InnersAreSound DEF OptionOps
<1>4. CASE op \in SubcategoryOps
  <2>1. /\ op.section = "stores" /\ op.inner
        /\ op.name \in {"create category", "create subcategory", "rename subcategory",
                        "delete subcategory"}
        /\ op.affects \subseteq op.tells
    <3>1. \E n, a, x :
             /\ op = Inner("stores", n, a, x)
             /\ n \in {"create category", "create subcategory", "rename subcategory",
                       "delete subcategory"}
             /\ a \subseteq x
      <4> DEFINE P(n, a, x) ==
            /\ op = Inner("stores", n, a, x)
            /\ n \in {"create category", "create subcategory", "rename subcategory",
                      "delete subcategory"}
            /\ a \subseteq x
      <4>1. \/ P("create category", SubcategoryKeys, {"store-subcategories"})
            \/ P("create subcategory", SubcategoryKeys, {"store-subcategories"})
            \/ P("rename subcategory", SubcategoryKeys, {"store-subcategories", "store-products"})
            \/ P("delete subcategory", SubcategoryKeys \cup {"store-products"},
                 {"store-subcategories", "store-products"})
        BY <1>4 DEF SubcategoryOps, SubcategoryKeys
      <4> HIDE DEF P
      <4>2. \E n, a, x : P(n, a, x)
        BY <4>1
      <4> QED BY <4>2 DEF P
    <3>2. PICK n, a, x :
             /\ op = Inner("stores", n, a, x)
             /\ n \in {"create category", "create subcategory", "rename subcategory",
                       "delete subcategory"}
             /\ a \subseteq x
      BY <3>1
    <3>3. op = Inner("stores", n, a, x)
      BY <3>2
    <3>4. op.section = "stores" /\ op.inner /\ op.name = n /\ op.affects = a /\ op.tells = x
      BY <3>3, OpFields
    <3> QED BY <3>2, <3>4
  <2>2. op.name \in CreateNames => <<op.section, op.name>> \in Guarded
    BY <2>1, GuardedForms DEF CreateNames
  <2>3. TellsWhatItShows(op) /\ StaysOpen(op)
    BY <2>1 DEF TellsWhatItShows, StaysOpen
  <2> QED BY <1>0, <2>1, <2>2, <2>3, IsSound
<1>5. CASE op \in GoodsOps
  <2>1. /\ op.section = "stores" /\ op.inner
        /\ op.name \in {"create product", "update product", "delete product"}
        /\ op.affects \ op.tells = {"products-search"}
    <3>1. PICK n : /\ n \in {"create product", "update product", "delete product"}
                   /\ op = Inner("stores", n, GoodsKeys, {"store-products", "store-subcategories"})
      BY <1>5 DEF GoodsOps
    <3>2. op = Inner("stores", n, GoodsKeys, {"store-products", "store-subcategories"})
      BY <3>1
    <3>3. /\ op.section = "stores" /\ op.inner /\ op.name = n /\ op.affects = GoodsKeys
          /\ op.tells = {"store-products", "store-subcategories"}
      BY <3>2, OpFields
    <3> QED BY <3>1, <3>3 DEF GoodsKeys
  <2>2. op.name \in CreateNames => <<op.section, op.name>> \in Guarded
    BY <2>1, GuardedForms DEF CreateNames
  <2>3. TellsWhatItShows(op) /\ StaysOpen(op)
    BY <2>1, NotShown DEF TellsWhatItShows, StaysOpen
  <2> QED BY <1>0, <2>1, <2>2, <2>3, IsSound
<1> QED BY <1>1, <1>2, <1>3, <1>4, <1>5
LEMMA OtherOpsAreSound ==
    ASSUME NEW op \in ProductOps \cup FeaturedOps \cup ScenarioOps \cup RecipeOps \cup OrderOps
                        \cup CategoryOps \cup TreeOps \cup PickerOps \cup BannerOps
    PROVE  Sound(op)
<1>0. {"products", "vitrina", "scenarios", "recipes", "orders", "categories",
       "product-categories", "pickers", "banners"} \subseteq AdminSections
  BY DEF AdminSections
<1>1. CASE op \in ProductOps
  <2>1. PICK n \in {"create", "update", "delete", "import"} :
           op = Op("products", n, GoodsKeys, {"products-search"})
                \/ op = Inner("products", n, GoodsKeys, {"products-search"})
    BY <1>1 DEF ProductOps
  <2>2. /\ op.section = "products" /\ op.name = n
        /\ op.affects \ op.tells = {"store-products", "store-subcategories"}
    BY <2>1, OpFields DEF GoodsKeys
  <2>3. op.name \in CreateNames => <<op.section, op.name>> \in Guarded
    BY <2>2, GuardedForms DEF CreateNames
  <2>4. TellsWhatItShows(op) /\ StaysOpen(op)
    BY <2>2, NotShown DEF TellsWhatItShows, StaysOpen
  <2> QED BY <1>0, <2>2, <2>3, <2>4, IsSound
<1>2. CASE op \in FeaturedOps
  <2>1. \A n \in {"add product", "remove product"} \cap CreateNames :
           <<"vitrina", n>> \in Guarded
    BY GuardedForms DEF CreateNames
  <2> QED BY <1>0, <1>2, <2>1, InnersAreSound DEF FeaturedOps
<1>3. CASE op \in ScenarioOps
  <2>1. \A n \in {"add product", "remove product"} \cap CreateNames :
           <<"scenarios", n>> \in Guarded
    BY GuardedForms DEF CreateNames
  <2>2. \A n \in {"create", "update", "delete"} \cap CreateNames :
           <<"scenarios", n>> \in Guarded
    BY GuardedForms DEF CreateNames
  <2>3. ScenarioKeys \cap DetailNames = {}
    BY DEF ScenarioKeys, DetailNames
  <2>4. "scenarios" \in AdminSections
    BY <1>0
  <2>5. CASE op \in Ops("scenarios", {"create", "update", "delete"}, ScenarioKeys)
    BY <2>2, <2>3, <2>4, <2>5, OpsAreSound
  <2>6. CASE op \in Inners("scenarios", {"add product", "remove product"}, FeaturedKeys)
    BY <2>1, <2>4, <2>6, InnersAreSound
  <2> QED BY <1>3, <2>5, <2>6 DEF ScenarioOps
<1>4. CASE op \in RecipeOps
  <2>0. "recipes" \in AdminSections
    BY <1>0
  <2>1. CASE op \in Ops("recipes", {"create", "delete"}, RecipeLists)
    <3>1. \A n \in {"create", "delete"} \cap CreateNames : <<"recipes", n>> \in Guarded
      BY GuardedForms DEF CreateNames
    <3>2. RecipeLists \cap DetailNames = {}
      BY DEF RecipeLists, DetailNames
    <3> QED BY <2>0, <2>1, <3>1, <3>2, OpsAreSound
  <2>2. CASE op \in Inners("recipes", {"add ingredient", "remove ingredient"}, RecipeDetail)
    <3>1. \A n \in {"add ingredient", "remove ingredient"} \cap CreateNames :
             <<"recipes", n>> \in Guarded
      BY GuardedForms DEF CreateNames
    <3> QED BY <2>0, <2>2, <3>1, InnersAreSound
  <2>3. CASE op = Op("recipes", "update", RecipeKeys, RecipeLists)
    <3>1. /\ op.section = "recipes" /\ op.name = "update"
          /\ op.affects \ op.tells \subseteq {"recipe-detail"}
      BY <2>3, OpFields DEF RecipeKeys, RecipeLists
    <3>2. TellsWhatItShows(op) /\ StaysOpen(op) /\ op.name \notin CreateNames
      BY <3>1 DEF TellsWhatItShows, StaysOpen, CreateNames
    <3> QED BY <2>0, <3>1, <3>2, IsSound
  <2> QED BY <1>4, <2>1, <2>2, <2>3 DEF RecipeOps
<1>5. CASE op \in OrderOps
  <2>1. op = Op("orders", "status", OrderKeys, {"all-orders"})
    BY <1>5 DEF OrderOps
  <2>2. op.section = "orders" /\ op.name = "status" /\ op.affects \ op.tells = {"stats"}
    BY <2>1, OpFields DEF OrderKeys
  <2>3. TellsWhatItShows(op) /\ StaysOpen(op) /\ op.name \notin CreateNames
    BY <2>2, NotShown DEF TellsWhatItShows, StaysOpen, CreateNames
  <2> QED BY <1>0, <2>2, <2>3, IsSound
<1>6. CASE op \in CategoryOps
  <2>0. "categories" \in AdminSections
    BY <1>0
  <2>1. CASE op \in Ops("categories", {"create", "save"}, CategoryKeys)
    <3>1. \A n \in {"create", "save"} \cap CreateNames : <<"categories", n>> \in Guarded
      BY GuardedForms DEF CreateNames
    <3>2. CategoryKeys \cap DetailNames = {}
      BY DEF CategoryKeys, DetailNames
    <3> QED BY <2>0, <2>1, <3>1, <3>2, OpsAreSound
  <2>2. CASE \/ op = Op("categories", "change category", StoreKeys, {"stores"})
             \/ op = Op("categories", "delete", CategoryKeys \cup StoreKeys,
                        {"store-category-meta", "stores"})
    <3>0. PICK n, x : /\ n \in {"change category", "delete"} /\ StoreKeys \ x = {"admin-stores"}
                      /\ \/ op = Op("categories", n, StoreKeys, x)
                         \/ /\ op = Op("categories", n, CategoryKeys \cup StoreKeys, x)
                            /\ CategoryKeys \subseteq x
      BY <2>2 DEF CategoryKeys, StoreKeys
    <3>3. \/ op = Op("categories", n, StoreKeys, x)
          \/ /\ op = Op("categories", n, CategoryKeys \cup StoreKeys, x)
             /\ CategoryKeys \subseteq x
      BY <3>0
    <3>4. /\ op.section = "categories" /\ op.name = n /\ op.tells = x
          /\ \/ op.affects = StoreKeys
             \/ op.affects = CategoryKeys \cup StoreKeys /\ CategoryKeys \subseteq x
      BY <3>3, OpFields
    <3>1. /\ op.section = "categories" /\ op.name \in {"change category", "delete"}
          /\ op.affects \ op.tells \subseteq {"admin-stores"}
      BY <3>0, <3>4
    <3>2. TellsWhatItShows(op) /\ StaysOpen(op) /\ op.name \notin CreateNames
      BY <3>1, NotShown DEF TellsWhatItShows, StaysOpen, CreateNames
    <3> QED BY <2>0, <3>1, <3>2, IsSound
  <2> QED BY <1>6, <2>1, <2>2 DEF CategoryOps
<1>7. CASE op \in TreeOps
  <2>1. /\ \A n \in {"create", "create subcategory", "rename", "delete"} \cap CreateNames :
              <<"product-categories", n>> \in Guarded
        /\ TreeKeys \cap DetailNames = {}
    BY GuardedForms DEF CreateNames, TreeKeys, DetailNames
  <2> QED BY <1>0, <1>7, <2>1, OpsAreSound DEF TreeOps
<1>8. CASE op \in PickerOps
  <2>0. "pickers" \in AdminSections
    BY <1>0
  <2>1. CASE op \in Ops("pickers", {"create", "edit", "delete"}, PickerKeys)
    <3>1. /\ \A n \in {"create", "edit", "delete"} \cap CreateNames : <<"pickers", n>> \in Guarded
          /\ PickerKeys \cap DetailNames = {}
      BY GuardedForms DEF CreateNames, PickerKeys, DetailNames
    <3> QED BY <2>0, <2>1, <3>1, OpsAreSound
  <2>2. CASE op = Op("pickers", "password", {}, {})
    <3>1. op.section = "pickers" /\ op.name = "password" /\ op.affects = {}
      BY <2>2, OpFields
    <3>2. TellsWhatItShows(op) /\ StaysOpen(op) /\ op.name \notin CreateNames
      BY <3>1 DEF TellsWhatItShows, StaysOpen, CreateNames
    <3> QED BY <2>0, <3>1, <3>2, IsSound
  <2> QED BY <1>8, <2>1, <2>2 DEF PickerOps
<1>9. CASE op \in BannerOps
  <2>1. /\ \A n \in {"create", "save", "delete"} \cap CreateNames : <<"banners", n>> \in Guarded
        /\ BannerKeys \cap DetailNames = {}
    BY GuardedForms DEF CreateNames, BannerKeys, DetailNames
  <2> QED BY <1>0, <1>9, <2>1, OpsAreSound DEF BannerOps
<1> QED BY <1>1, <1>2, <1>3, <1>4, <1>5, <1>6, <1>7, <1>8, <1>9

(* No operation changes a list its section shows without telling it, except for
   the open recipe; no creation can be pressed twice; and none of the operations
   that touch what is opened closes it. *)
LEMMA AdminOpsAreSound == \A op \in AdminOps : Sound(op)
BY StoreOpsAreSound, OtherOpsAreSound DEF AdminOps

-----------------------------------------------------------------------------
(* Entries of the cache and mutations in flight. *)

\* The entry of the followed key, and what each step makes of it.
Entry == [data : {"none", "same", "older"}, failed : BOOLEAN, doubt : BOOLEAN,
          fetch : [st : {"idle", "asked", "same", "older"}, late : BOOLEAN]]

LEMMA NoEntryIs == /\ NoEntry \in Entry /\ NoEntry.data = "none" /\ NoEntry.fetch.st = "idle"
                   /\ NoEntry.fetch.late = FALSE
BY DEF NoEntry, Entry, Idle

LEMMA IdleIs ==
    ASSUME NEW e \in Entry
    PROVE  e.fetch = Idle <=> e.fetch.st = "idle" /\ ~e.fetch.late
BY DEF Entry, Idle

LEMMA AskedIs ==
    ASSUME NEW e \in Entry, NEW f, f = [e EXCEPT !.fetch = AskedAgain]
    PROVE  /\ f \in Entry /\ f.data = e.data /\ f.failed = e.failed /\ f.doubt = e.doubt
           /\ f.fetch.st = "asked" /\ f.fetch.late = FALSE
BY DEF Entry, AskedAgain, Idle

LEMMA OutdatedIs ==
    ASSUME cached \in Entry, NEW f, f = Outdated
    PROVE  /\ f \in Entry /\ f.data = Older(cached.data) /\ f.failed = cached.failed
           /\ f.doubt = cached.doubt /\ f.fetch.st = Older(cached.fetch.st)
           /\ f.fetch.late = cached.fetch.late
BY DEF Outdated, Older, Entry

LEMMA UnsureIs ==
    ASSUME cached \in Entry, NEW b \in BOOLEAN, NEW f, f = Unsure(b)
    PROVE  /\ f \in Entry /\ f.data = cached.data /\ f.failed = cached.failed
           /\ f.fetch.st = cached.fetch.st
           /\ f.doubt <=> cached.doubt \/ (b /\ cached.data = "older")
           /\ f.fetch.late <=> cached.fetch.late \/ cached.fetch.st = "older"
BY DEF Unsure, Entry

LEMMA ServedIs ==
    ASSUME NEW e \in Entry, NEW f, f = [e EXCEPT !.fetch.st = "same"]
    PROVE  /\ f \in Entry /\ f.data = e.data /\ f.failed = e.failed /\ f.doubt = e.doubt
           /\ f.fetch.st = "same" /\ f.fetch.late = e.fetch.late
BY DEF Entry

Arrived == [NoEntry EXCEPT !.data = cached.fetch.st, !.doubt = cached.fetch.late]

LEMMA ArrivedIs ==
    ASSUME cached \in Entry, cached.fetch.st = "same" \/ cached.fetch.st = "older"
    PROVE  /\ Arrived \in Entry /\ Arrived.data = cached.fetch.st /\ Arrived.failed = FALSE
           /\ Arrived.doubt = cached.fetch.late
           /\ Arrived.fetch.st = "idle" /\ Arrived.fetch.late = FALSE
BY DEF Arrived, Entry, NoEntry, Idle

LEMMA FailedIs ==
    ASSUME NEW e \in Entry, NEW f, f = [e EXCEPT !.failed = TRUE, !.fetch = Idle]
    PROVE  /\ f \in Entry /\ f.data = e.data /\ f.failed = TRUE /\ f.doubt = e.doubt
           /\ f.fetch.st = "idle" /\ f.fetch.late = FALSE
BY DEF Entry, Idle

LEMMA EntryIs ==
    ASSUME NEW e \in Entry
    PROVE  e = NoEntry <=> /\ e.data = "none" /\ e.failed = FALSE /\ e.doubt = FALSE
                           /\ e.fetch.st = "idle" /\ e.fetch.late = FALSE
BY DEF Entry, NoEntry, Idle

\* The list is there, or has been asked for.
AskedFor(e) == e.data # "none" \/ e.failed \/ e.fetch # Idle

(* What coming to the screen does to the entry. *)
LEMMA Mounted ==
    ASSUME cached \in Entry, NEW c, NEW s, NEW p, Mounts(c, s, p)
    PROVE  /\ cached' \in Entry
           /\ cached'.data = cached.data /\ cached'.failed = cached.failed
           /\ cached'.doubt = cached.doubt
           /\ \/ cached' = cached
              \/ cached'.fetch.st = "asked" /\ cached'.fetch.late = FALSE
           /\ OnScreen(c, s, p) /\ ~Seen => cached'.fetch # Idle
<1>1. CASE OnScreen(c, s, p) /\ ~Seen /\ cached.fetch = Idle
  <2>1. cached' = [cached EXCEPT !.fetch = AskedAgain]
    BY <1>1 DEF Mounts
  <2>2. /\ cached' \in Entry /\ cached'.data = cached.data /\ cached'.failed = cached.failed
        /\ cached'.doubt = cached.doubt
        /\ cached'.fetch.st = "asked" /\ cached'.fetch.late = FALSE
    BY <2>1, AskedIs
  <2>3. cached'.fetch # Idle
    BY <2>2, IdleIs
  <2> QED BY <2>2, <2>3
<1>2. CASE ~(OnScreen(c, s, p) /\ ~Seen /\ cached.fetch = Idle)
  BY <1>2 DEF Mounts
<1> QED BY <1>1, <1>2

(* There are no more mutations after a map over them. *)
LEMMA ImageIsSmall ==
    ASSUME NEW S, NEW T, NEW f \in [S -> T], IsFiniteSet(S), Cardinality(S) <= 2,
           T = {f[x] : x \in S}
    PROVE  IsFiniteSet(T) /\ Cardinality(T) <= 2
<1>1. f \in Surjection(S, T)
  BY DEF Surjection
<1>2. IsFiniteSet(T) /\ Cardinality(T) <= Cardinality(S)
  BY <1>1, FS_Surjection
<1>3. Cardinality(S) \in Nat /\ Cardinality(T) \in Nat
  BY <1>2, FS_CardinalityType
<1> QED BY <1>2, <1>3

SmallJobs(js) == js \subseteq Job /\ IsFiniteSet(js) /\ Cardinality(js) <= 2

\* k is j, with its form or its section gone, or with something else opened there.
Follows(k, j) ==
    /\ k \in Job
    /\ k.op = j.op /\ k.on = j.on /\ k.by = j.by /\ k.st = j.st
    /\ k.typed => j.typed
    /\ k.shown => j.shown

(* What each way to change a mutation in flight leaves alone. *)
LEMMA HiddenFollows ==
    ASSUME NEW j \in Job, NEW k, k = [j EXCEPT !.typed = FALSE, !.shown = FALSE]
    PROVE  Follows(k, j) /\ ~k.typed /\ ~k.shown
BY DEF Job, Follows

LEMMA UntypedFollows ==
    ASSUME NEW j \in Job, NEW k, k = [j EXCEPT !.typed = FALSE]
    PROVE  Follows(k, j) /\ ~k.typed /\ (k.shown <=> j.shown) /\ k.at = j.at
BY DEF Job, Follows

LEMMA MovedFollows ==
    ASSUME NEW j \in Job, NEW p \in {"closed", "this", "other"}, NEW k, k = [j EXCEPT !.at = p]
    PROVE  Follows(k, j) /\ (k.shown <=> j.shown) /\ (k.typed <=> j.typed) /\ k.at = p
BY DEF Job, Follows

LEMMA WrittenIs ==
    ASSUME NEW j \in Job, NEW s \in {"half", "done"}, NEW k, k = [j EXCEPT !.st = s]
    PROVE  /\ k \in Job /\ k.op = j.op /\ k.on = j.on /\ k.by = j.by /\ k.st = s
           /\ (k.typed <=> j.typed) /\ (k.shown <=> j.shown) /\ k.at = j.at
BY DEF Job

(* Mutations in flight, each as it was or without its form or its section. *)
LEMMA MappedJobs ==
    ASSUME SmallJobs(jobs), NEW f, NEW js, js = {f[j] : j \in jobs},
           f = [j \in jobs |-> f[j]], \A j \in jobs : Follows(f[j], j)
    PROVE  /\ SmallJobs(js)
           /\ \A k \in js : \E j \in jobs : k = f[j] /\ Follows(k, j)
           /\ \A j \in jobs : f[j] \in js
<1>1. f \in [jobs -> js]
  OBVIOUS
<1>2. IsFiniteSet(js) /\ Cardinality(js) <= 2
  BY <1>1, ImageIsSmall DEF SmallJobs
<1>3. js \subseteq Job
  BY DEF Follows
<1> QED BY <1>2, <1>3 DEF SmallJobs

(* When a section is left; when a form is emptied; when something else opens. *)
LEMMA HiddenJobs ==
    ASSUME SmallJobs(jobs)
    PROVE  /\ SmallJobs(Hidden(jobs))
           /\ \A k \in Hidden(jobs) : ~k.typed /\ ~k.shown /\ \E j \in jobs : Follows(k, j)
           /\ \A j \in jobs : \E k \in Hidden(jobs) : Follows(k, j)
<1> DEFINE f == [j \in jobs |-> [j EXCEPT !.typed = FALSE, !.shown = FALSE]]
<1>1. Hidden(jobs) = {f[j] : j \in jobs} /\ f = [j \in jobs |-> f[j]]
  BY DEF Hidden
<1>2. ASSUME NEW j \in jobs PROVE Follows(f[j], j) /\ ~f[j].typed /\ ~f[j].shown
  <2>1. f[j] = [j EXCEPT !.typed = FALSE, !.shown = FALSE] /\ j \in Job
    BY DEF SmallJobs
  <2> HIDE DEF f
  <2> QED BY <2>1, HiddenFollows
<1> HIDE DEF f
<1> QED BY <1>1, <1>2, MappedJobs

LEMMA UntypedJobs ==
    ASSUME NEW S, S \subseteq jobs, SmallJobs(jobs)
    PROVE  /\ SmallJobs(Untyped(S))
           /\ \A k \in Untyped(S) :
                 ~k.typed /\ \E j \in S : Follows(k, j) /\ k.at = j.at /\ (k.shown <=> j.shown)
           /\ \A j \in S : \E k \in Untyped(S) : Follows(k, j)
<1> DEFINE f == [j \in S |-> [j EXCEPT !.typed = FALSE]]
<1>1. Untyped(S) = {f[j] : j \in S} /\ f \in [S -> Untyped(S)]
  BY DEF Untyped
<1>2. ASSUME NEW j \in S
      PROVE  Follows(f[j], j) /\ ~f[j].typed /\ f[j].at = j.at /\ (f[j].shown <=> j.shown)
  <2>1. f[j] = [j EXCEPT !.typed = FALSE] /\ j \in Job
    BY DEF SmallJobs
  <2> HIDE DEF f
  <2> QED BY <2>1, UntypedFollows
<1> HIDE DEF f
<1>3. IsFiniteSet(S) /\ Cardinality(S) <= 2
  <2>1. IsFiniteSet(S) /\ Cardinality(S) <= Cardinality(jobs)
    BY FS_Subset DEF SmallJobs
  <2> QED BY <2>1, FS_CardinalityType DEF SmallJobs
<1>4. IsFiniteSet(Untyped(S)) /\ Cardinality(Untyped(S)) <= 2
  BY <1>1, <1>3, ImageIsSmall
<1>5. Untyped(S) \subseteq Job
  BY <1>1, <1>2 DEF Follows
<1> QED BY <1>1, <1>2, <1>4, <1>5 DEF SmallJobs

\* What else is opened beside a list, the jobs started there go with it.
MovedJob(j, p) == IF j.shown /\ section # "stores" THEN [j EXCEPT !.at = p] ELSE j
Moved(p) == {MovedJob(j, p) : j \in jobs}

LEMMA MovedJobs ==
    ASSUME SmallJobs(jobs), NEW p \in {"closed", "this", "other"}
    PROVE  /\ SmallJobs(Moved(p))
           /\ \A j \in jobs : LET k == MovedJob(j, p) IN
                 /\ Follows(k, j) /\ (k.shown <=> j.shown) /\ (k.typed <=> j.typed)
                 /\ j.shown /\ section # "stores" => k.at = p
<1> DEFINE f == [j \in jobs |-> MovedJob(j, p)]
<1>1. Moved(p) = {f[j] : j \in jobs} /\ f = [j \in jobs |-> f[j]]
  BY DEF Moved
<1>2. ASSUME NEW j \in jobs
      PROVE  LET k == MovedJob(j, p) IN
             /\ Follows(k, j) /\ (k.shown <=> j.shown) /\ (k.typed <=> j.typed)
             /\ j.shown /\ section # "stores" => k.at = p
  <2>1. j \in Job
    BY DEF SmallJobs
  <2>2. CASE j.shown /\ section # "stores"
    BY <2>1, <2>2, MovedFollows DEF MovedJob
  <2>3. CASE ~(j.shown /\ section # "stores")
    BY <2>1, <2>3 DEF Follows, MovedJob
  <2> QED BY <2>2, <2>3
<1>3. \A j \in jobs : Follows(f[j], j)
  BY <1>2
<1> HIDE DEF f
<1> QED BY <1>1, <1>2, <1>3, MappedJobs

-----------------------------------------------------------------------------
(* The invariant of the panel. *)

PanelTypeInv ==
    /\ creds \in {"nobody", "admin", "stranger"}
    /\ section \in AdminSections /\ pane \in {"closed", "this", "other"}
    /\ key \in Keys
    /\ cached \in Entry
    /\ SmallJobs(jobs)
    /\ form \in [op : Creates, copies : Nat, lost : BOOLEAN]
    /\ upsets \in 0 .. MaxUpsets
    /\ Seen => AskedFor(cached)
    /\ creds = "nobody" => cached = NoEntry

(* There is no way to a section that is not one. *)
LEMMA ConcernedSections == Concerned \subseteq AdminSections
<1>1. \A l \in Outer \cup Opened : l[1] \in AdminSections
  BY DEF Outer, Opened, AdminSections
<1>2. \A op \in Concern(key) : op.section \in AdminSections
  BY AdminOpsAreSound DEF Sound, Concern
<1>3. "dashboard" \in AdminSections
  BY DEF AdminSections
<1> QED BY <1>1, <1>2, <1>3 DEF Concerned

(* A form whose component is gone is empty. *)
LEMMA EmptiedIs ==
    ASSUME NEW f \in [op : Creates, copies : Nat, lost : BOOLEAN], NEW g, g = Emptied(f, f.op)
    PROVE  /\ g \in [op : Creates, copies : Nat, lost : BOOLEAN]
           /\ g.op = f.op /\ g.copies = 0 /\ g.lost = FALSE
BY DEF Emptied

(* A mutation ends. *)
LEMMA JobsLess ==
    ASSUME SmallJobs(jobs), NEW j
    PROVE  SmallJobs(jobs \ {j})
<1>1. IsFiniteSet(jobs \ {j}) /\ Cardinality(jobs \ {j}) <= Cardinality(jobs)
  BY FS_Subset DEF SmallJobs
<1> QED BY <1>1, FS_CardinalityType DEF SmallJobs

(* A list that has been asked for stays so. *)
LEMMA AskedKept ==
    ASSUME cached \in Entry, cached' \in Entry, AskedFor(cached),
           cached'.data = "none" => cached.data = "none",
           cached.failed => cached'.failed \/ cached'.data # "none",
           cached'.fetch.st = "idle" /\ ~cached'.fetch.late =>
              \/ cached.fetch.st = "idle" /\ ~cached.fetch.late
              \/ cached'.data # "none" \/ cached'.failed
    PROVE  AskedFor(cached')
BY IdleIs DEF AskedFor

(* Every step keeps the types: a list on the screen has been asked for, and
   nothing is cached before the login. *)
LEMMA PanelTypeStep ==
    ASSUME PanelTypeInv, [PanelNext]_panelVars
    PROVE  PanelTypeInv'
<1> USE PanelAssumption
<1>a. SmallJobs(jobs) /\ cached \in Entry
  BY DEF PanelTypeInv
<1>1. ASSUME NEW c \in {"admin", "stranger"}, EnterPanel(c) PROVE PanelTypeInv'
  <2>1. Mounts(c, section, pane) /\ creds = "nobody" /\ creds' = c
        /\ UNCHANGED <<section, pane, key, jobs, form, upsets>>
    BY <1>1 DEF EnterPanel
  <2>2. cached' \in Entry /\ (OnScreen(c, section, pane) /\ ~Seen => cached'.fetch # Idle)
    BY <1>a, <2>1, Mounted
  <2>3. ~Seen
    BY <2>1 DEF Seen, OnScreen
  <2>4. Seen' => OnScreen(c, section, pane)
    BY <2>1 DEF Seen, OnScreen
  <2> QED BY <2>1, <2>2, <2>3, <2>4 DEF PanelTypeInv, SmallJobs, AskedFor
<1>2. CASE LeavePanel
  <2>1. /\ creds' = "nobody" /\ pane' = "closed" /\ cached' = NoEntry /\ jobs' = Hidden(jobs)
        /\ form' = Emptied(form, form.op) /\ UNCHANGED <<section, key, upsets>>
    BY <1>2 DEF LeavePanel, Cleared
  <2>2. SmallJobs(jobs') /\ ~Seen' /\ cached' \in Entry
    BY <1>a, <2>1, HiddenJobs, NoEntryIs DEF Seen, OnScreen
  <2>3. form' \in [op : Creates, copies : Nat, lost : BOOLEAN]
    BY <2>1, EmptiedIs DEF PanelTypeInv
  <2> QED BY <2>1, <2>2, <2>3 DEF PanelTypeInv
<1>3. CASE RefetchList
  <2>1. cached' = [cached EXCEPT !.fetch = AskedAgain] /\ Seen
        /\ UNCHANGED <<creds, section, pane, key, jobs, form, upsets>>
    BY <1>3 DEF RefetchList
  <2>2. cached' \in Entry /\ cached'.fetch # Idle
    <3>1. cached' \in Entry /\ cached'.fetch.st = "asked"
      BY <1>a, <2>1, AskedIs
    <3> QED BY <3>1, IdleIs
  <2>3. creds # "nobody"
    BY <2>1 DEF Seen, OnScreen
  <2> QED BY <2>1, <2>2, <2>3 DEF PanelTypeInv, SmallJobs, AskedFor
<1>4. CASE ServeList
  <2>1. cached' = [cached EXCEPT !.fetch.st = "same"] /\ cached.fetch.st = "asked"
        /\ UNCHANGED <<creds, section, pane, key, jobs, form, upsets>>
    BY <1>4 DEF ServeList
  <2>2. cached' \in Entry /\ cached'.fetch.st = "same"
    BY <1>a, <2>1, ServedIs
  <2>3. cached'.fetch # Idle
    BY <2>2, IdleIs
  <2>4. creds # "nobody"
    BY <2>1, NoEntryIs DEF PanelTypeInv
  <2> QED BY <2>1, <2>2, <2>3, <2>4 DEF PanelTypeInv, SmallJobs, AskedFor
<1>5. CASE ListArrives
  <2>1. cached' = Arrived
        /\ cached.fetch.st \in {"same", "older"}
        /\ UNCHANGED <<creds, section, pane, key, jobs, form, upsets>>
    BY <1>5 DEF ListArrives, Arrived
  <2>2. cached' \in Entry /\ cached'.data # "none"
    <3>1. cached' \in Entry /\ cached'.data = cached.fetch.st
      BY <1>a, <2>1, ArrivedIs
    <3> QED BY <2>1, <3>1
  <2>4. creds # "nobody"
    BY <2>1, NoEntryIs DEF PanelTypeInv
  <2> QED BY <2>1, <2>2, <2>4 DEF PanelTypeInv, SmallJobs, AskedFor
<1>6. CASE ListFails
  <2>1. cached' = [cached EXCEPT !.failed = TRUE, !.fetch = Idle] /\ cached.fetch # Idle
        /\ UNCHANGED <<creds, section, pane, key, jobs, form>>
    BY <1>6 DEF ListFails
  <2>2. cached' \in Entry /\ cached'.failed
    BY <1>a, <2>1, FailedIs
  <2>3. creds # "nobody"
    BY <2>1, NoEntryIs, IdleIs DEF PanelTypeInv
  <2>4. upsets' \in 0 .. MaxUpsets
    BY <1>6 DEF ListFails, Upset, PanelTypeInv
  <2> QED BY <2>1, <2>2, <2>3, <2>4 DEF PanelTypeInv, SmallJobs, AskedFor
<1>7. CASE Retype
  <2>1. form' = Emptied(form, form.op) /\ jobs' = Untyped(jobs)
        /\ UNCHANGED <<creds, section, pane, key, cached, upsets>>
    BY <1>7 DEF Retype
  <2>2. SmallJobs(jobs')
    BY <1>a, <2>1, UntypedJobs
  <2>3. form' \in [op : Creates, copies : Nat, lost : BOOLEAN]
    BY <2>1, EmptiedIs DEF PanelTypeInv
  <2>4. Seen' <=> Seen
    BY <2>1 DEF Seen, OnScreen
  <2> QED BY <2>1, <2>2, <2>3, <2>4 DEF PanelTypeInv, AskedFor
<1>8. ASSUME NEW s \in Concerned, Navigate(s) PROVE PanelTypeInv'
  <2>1. /\ creds # "nobody" /\ section' = s /\ pane' = FirstPane(s)
        /\ Mounts(creds, s, FirstPane(s)) /\ jobs' = Hidden(jobs)
        /\ form' = Emptied(form, form.op) /\ UNCHANGED <<creds, key, upsets>>
    BY <1>8 DEF Navigate
  <2>2. SmallJobs(jobs') /\ s \in AdminSections /\ pane' \in {"closed", "this", "other"}
    BY <1>a, <2>1, HiddenJobs, ConcernedSections DEF FirstPane
  <2>3. form' \in [op : Creates, copies : Nat, lost : BOOLEAN]
    BY <2>1, EmptiedIs DEF PanelTypeInv
  <2>4. /\ cached' \in Entry /\ cached'.data = cached.data /\ cached'.failed = cached.failed
        /\ cached' = cached \/ (cached'.fetch.st = "asked" /\ cached'.fetch.late = FALSE)
        /\ OnScreen(creds, s, FirstPane(s)) /\ ~Seen => cached'.fetch # Idle
    BY <1>a, <2>1, Mounted
  <2>5. Seen' => OnScreen(creds, s, FirstPane(s))
    BY <2>1 DEF Seen, OnScreen
  <2>6. Seen' => AskedFor(cached')
    <3>1. CASE Seen
      <4>1. AskedFor(cached)
        BY <3>1 DEF PanelTypeInv
      <4> QED BY <1>a, <2>4, <4>1, IdleIs DEF AskedFor
    <3>2. CASE ~Seen
      BY <2>4, <2>5, <3>2 DEF AskedFor
    <3> QED BY <3>1, <3>2
  <2> QED BY <2>1, <2>2, <2>3, <2>4, <2>6 DEF PanelTypeInv
<1>9. ASSUME NEW p \in {"closed", "this", "other"}, SetPane(p) PROVE PanelTypeInv'
  <2>1. /\ creds # "nobody" /\ pane' = p /\ Mounts(creds, section, p)
        /\ UNCHANGED <<creds, section, key, upsets>>
    BY <1>9 DEF SetPane
  <2>2. /\ SmallJobs(jobs')
        /\ form' \in [op : Creates, copies : Nat, lost : BOOLEAN]
    <3>1. CASE section = "stores" /\ p = "closed"
      <4>1. jobs' = Hidden(jobs) /\ form' = Emptied(form, form.op)
        BY <1>9, <3>1 DEF SetPane
      <4>2. form' \in [op : Creates, copies : Nat, lost : BOOLEAN]
        BY <4>1, EmptiedIs DEF PanelTypeInv
      <4> QED BY <1>a, <4>1, <4>2, HiddenJobs
    <3>2. CASE ~(section = "stores" /\ p = "closed")
      <4>1. jobs' = Moved(p) /\ UNCHANGED form
        BY <1>9, <3>2 DEF SetPane, Moved, MovedJob
      <4> QED BY <1>a, <4>1, MovedJobs DEF PanelTypeInv
    <3> QED BY <3>1, <3>2
  <2>4. /\ cached' \in Entry /\ cached'.data = cached.data /\ cached'.failed = cached.failed
        /\ cached' = cached \/ (cached'.fetch.st = "asked" /\ cached'.fetch.late = FALSE)
        /\ OnScreen(creds, section, p) /\ ~Seen => cached'.fetch # Idle
    BY <1>a, <2>1, Mounted
  <2>5. Seen' => OnScreen(creds, section, p)
    BY <2>1 DEF Seen, OnScreen
  <2>6. Seen' => AskedFor(cached')
    <3>1. CASE Seen
      <4>1. AskedFor(cached)
        BY <3>1 DEF PanelTypeInv
      <4> QED BY <1>a, <2>4, <4>1, IdleIs DEF AskedFor
    <3>2. CASE ~Seen
      BY <2>4, <2>5, <3>2 DEF AskedFor
    <3> QED BY <3>1, <3>2
  <2> QED BY <2>1, <2>2, <2>4, <2>6 DEF PanelTypeInv
<1>10. ASSUME NEW op \in Concern(key), NEW x \in {"this", "other"}, Mutate(op, x)
       PROVE  PanelTypeInv'
  <2> DEFINE j == [op |-> op, on |-> x, at |-> pane, by |-> creds, st |-> "asked",
                   typed |-> op = form.op, shown |-> TRUE]
  <2>1. /\ creds # "nobody" /\ Cardinality(jobs) < MaxJobs /\ jobs' = jobs \cup {j}
        /\ UNCHANGED <<creds, section, pane, key, cached, form, upsets>>
    BY <1>10 DEF Mutate
  <2>2. j \in Job
    <3>1. op \in AdminOps /\ creds \in {"admin", "stranger"}
      BY <2>1 DEF Concern, PanelTypeInv
    <3> QED BY <3>1 DEF Job, PanelTypeInv
  <2>3. SmallJobs(jobs')
    <3> HIDE DEF j
    <3>1. Cardinality(jobs) \in Nat /\ IsFiniteSet(jobs)
      BY <1>a, FS_CardinalityType DEF SmallJobs
    <3>2. Cardinality(jobs) <= 1
      BY <2>1, <3>1 DEF MaxJobs
    <3>3. /\ IsFiniteSet(jobs \cup {j})
          /\ Cardinality(jobs \cup {j}) =
                IF j \in jobs THEN Cardinality(jobs) ELSE Cardinality(jobs) + 1
      BY <3>1, FS_AddElement
    <3> QED BY <1>a, <2>1, <2>2, <3>1, <3>2, <3>3 DEF SmallJobs
  <2>4. Seen' <=> Seen
    BY <2>1 DEF Seen, OnScreen
  <2> HIDE DEF j
  <2> QED BY <2>1, <2>3, <2>4 DEF PanelTypeInv, AskedFor
<1>11. ASSUME NEW j \in jobs, NEW st \in {"half", "done"}, Write(j, st) PROVE PanelTypeInv'
  <2>1. /\ cached' = (IF Hits(j) THEN Outdated ELSE cached)
        /\ jobs' = (jobs \ {j}) \cup {[j EXCEPT !.st = st]}
        /\ form' = (IF j.typed /\ j.st = "asked" THEN [form EXCEPT !.copies = @ + 1] ELSE form)
        /\ UNCHANGED <<creds, section, pane, key, upsets>>
    BY <1>11 DEF Write
  <2>2. SmallJobs(jobs')
    <3>1. j \in Job /\ SmallJobs(jobs \ {j})
      BY <1>a, JobsLess DEF SmallJobs
    <3>2. PICK k : k = [j EXCEPT !.st = st]
      OBVIOUS
    <3>3. k \in Job
      BY <3>1, <3>2, WrittenIs
    <3>4. /\ IsFiniteSet(jobs) /\ Cardinality(jobs) \in Nat
          /\ Cardinality(jobs \ {j}) = Cardinality(jobs) - 1
      BY <1>a, FS_RemoveElement, FS_CardinalityType DEF SmallJobs
    <3>5. /\ IsFiniteSet((jobs \ {j}) \cup {k})
          /\ Cardinality((jobs \ {j}) \cup {k}) <= Cardinality(jobs \ {j}) + 1
      <4>1. IsFiniteSet(jobs \ {j}) /\ Cardinality(jobs \ {j}) \in Nat
        BY <3>1, FS_CardinalityType DEF SmallJobs
      <4> QED BY <4>1, FS_AddElement
    <3>6. Cardinality((jobs \ {j}) \cup {k}) <= 2
      <4>1. Cardinality((jobs \ {j}) \cup {k}) \in Nat
        BY <3>5, FS_CardinalityType
      <4> QED BY <1>a, <3>4, <3>5, <4>1 DEF SmallJobs
    <3> QED BY <2>1, <3>1, <3>2, <3>3, <3>5, <3>6 DEF SmallJobs
  <2>3. form' \in [op : Creates, copies : Nat, lost : BOOLEAN]
    BY <2>1 DEF PanelTypeInv
  <2>4. Seen' <=> Seen
    BY <2>1 DEF Seen, OnScreen
  <2>5. cached' \in Entry
    BY <1>a, <2>1, OutdatedIs
  <2>6. AskedFor(cached) => AskedFor(cached')
    <3>1. CASE cached' = Outdated
      <4>1. /\ cached'.data = Older(cached.data) /\ cached'.failed = cached.failed
            /\ cached'.fetch.st = Older(cached.fetch.st) /\ cached'.fetch.late = cached.fetch.late
        BY <1>a, <3>1, OutdatedIs
      <4> QED BY <1>a, <2>5, <4>1, AskedKept DEF Older
    <3>2. CASE cached' = cached
      BY <3>2
    <3> QED BY <2>1, <3>1, <3>2
  <2>7. creds = "nobody" => cached' = NoEntry
    <3>1. CASE cached' = Outdated /\ creds = "nobody"
      <4>1. /\ cached'.data = Older(cached.data) /\ cached'.failed = cached.failed
            /\ cached'.doubt = cached.doubt
            /\ cached'.fetch.st = Older(cached.fetch.st) /\ cached'.fetch.late = cached.fetch.late
        BY <1>a, <3>1, OutdatedIs
      <4>2. cached = NoEntry
        BY <3>1 DEF PanelTypeInv
      <4>3. Older("none") = "none" /\ Older("idle") = "idle"
        BY DEF Older
      <4> QED BY <1>a, <2>5, <4>1, <4>2, <4>3, EntryIs
    <3> QED BY <2>1, <3>1 DEF PanelTypeInv
  <2> QED BY <2>1, <2>2, <2>3, <2>4, <2>5, <2>6, <2>7 DEF PanelTypeInv
<1>u. ASSUME NEW b \in BOOLEAN, cached' = Unsure(b), creds' = creds
      PROVE  /\ cached' \in Entry
             /\ AskedFor(cached) => AskedFor(cached')
             /\ creds = "nobody" => cached' = NoEntry
  <2>1. /\ cached' \in Entry /\ cached'.data = cached.data /\ cached'.failed = cached.failed
        /\ cached'.fetch.st = cached.fetch.st
        /\ cached'.doubt <=> cached.doubt \/ (b /\ cached.data = "older")
        /\ cached'.fetch.late <=> cached.fetch.late \/ cached.fetch.st = "older"
    BY <1>a, <1>u, UnsureIs
  <2>2. AskedFor(cached) => AskedFor(cached')
    BY <1>a, <2>1, AskedKept
  <2>3. ASSUME creds = "nobody" PROVE cached' = NoEntry
    <3>1. cached = NoEntry
      BY <2>3 DEF PanelTypeInv
    <3>2. /\ cached.data = "none" /\ cached.failed = FALSE /\ cached.doubt = FALSE
          /\ cached.fetch.st = "idle" /\ cached.fetch.late = FALSE
      BY <1>a, <3>1, EntryIs
    <3>3. cached'.doubt = FALSE /\ cached'.fetch.late = FALSE
      <4>1. cached'.doubt \in BOOLEAN /\ cached'.fetch.late \in BOOLEAN
        BY <2>1 DEF Entry
      <4> QED BY <2>1, <3>2, <4>1
    <3> QED BY <2>1, <3>2, <3>3, EntryIs
  <2> QED BY <2>1, <2>2, <2>3
<1>12. ASSUME NEW j \in jobs, MutationFails(j) PROVE PanelTypeInv'
  <2>1. /\ jobs' = jobs \ {j} /\ cached' \in {Unsure(TRUE), cached}
        /\ form' \in {[form EXCEPT !.lost = TRUE], form}
        /\ UNCHANGED <<creds, section, pane, key>>
    BY <1>12 DEF MutationFails
  <2>2. upsets' \in 0 .. MaxUpsets
    BY <1>12 DEF MutationFails, Upset, PanelTypeInv
  <2>3. Seen' <=> Seen
    BY <2>1 DEF Seen, OnScreen
  <2>4. /\ cached' \in Entry
        /\ AskedFor(cached) => AskedFor(cached')
        /\ creds = "nobody" => cached' = NoEntry
    BY <1>a, <1>u, <2>1 DEF PanelTypeInv
  <2>5. form' \in [op : Creates, copies : Nat, lost : BOOLEAN]
    BY <2>1 DEF PanelTypeInv
  <2>6. SmallJobs(jobs')
    BY <1>a, <2>1, JobsLess
  <2> QED BY <2>1, <2>2, <2>3, <2>4, <2>5, <2>6 DEF PanelTypeInv
<1>13. ASSUME NEW j \in jobs, MutationSucceeds(j) PROVE PanelTypeInv'
  <2>1. /\ jobs' \in {Untyped(jobs \ {j}), jobs \ {j}}
        /\ form' \in {Emptied(form, form.op), form}
        /\ pane' \in {"closed", pane}
        /\ UNCHANGED <<creds, section, key, upsets>>
    BY <1>13 DEF MutationSucceeds
  <2>2. SmallJobs(jobs')
    <3>1. SmallJobs(jobs \ {j}) /\ jobs \ {j} \subseteq jobs
      BY <1>a, JobsLess
    <3>2. SmallJobs(Untyped(jobs \ {j}))
      BY <1>a, <3>1, UntypedJobs
    <3> QED BY <2>1, <3>1, <3>2
  <2>3. form' \in [op : Creates, copies : Nat, lost : BOOLEAN]
    BY <2>1, EmptiedIs DEF PanelTypeInv
  <2>4. Seen' => Seen
    BY <2>1 DEF Seen, OnScreen
  <2>5. /\ cached' \in Entry
        /\ Seen => AskedFor(cached')
        /\ creds = "nobody" => cached' = NoEntry
    <3>1. CASE Restarts(j)
      <4>1. cached' = [cached EXCEPT !.fetch = AskedAgain] /\ creds # "nobody"
        BY <1>13, <3>1 DEF MutationSucceeds, Restarts, Seen, OnScreen
      <4>2. cached' \in Entry /\ cached'.fetch.st = "asked"
        BY <1>a, <4>1, AskedIs
      <4> QED BY <4>1, <4>2, IdleIs DEF AskedFor
    <3>2. CASE ~Restarts(j)
      <4>1. Overlooked(j) \in BOOLEAN
        BY DEF Overlooked
      <4>2. cached' \in {Unsure(Overlooked(j)), cached}
        BY <1>13, <3>2 DEF MutationSucceeds
      <4> QED BY <1>a, <1>u, <2>1, <4>1, <4>2 DEF PanelTypeInv
    <3> QED BY <3>1, <3>2
  <2> QED BY <2>1, <2>2, <2>3, <2>4, <2>5 DEF PanelTypeInv
<1>14. CASE UNCHANGED panelVars
  BY <1>14 DEF panelVars, PanelTypeInv, SmallJobs, Seen, OnScreen, AskedFor
<1> QED
  BY <1>1, <1>2, <1>3, <1>4, <1>5, <1>6, <1>7, <1>8, <1>9, <1>10, <1>11, <1>12, <1>13, <1>14
     DEF PanelNext

(* A mutation in flight concerns the list; the server has done something for the
   administrator's only; those the section still shows belong to what is opened. *)
JobInv(j) ==
    /\ j.op \in Concern(key)
    /\ j.st # "asked" => j.by = "admin"
    /\ j.shown => j.op.section = section
    /\ j.shown /\ key \in DetailKeys => j.at = pane /\ (section = "stores" => pane # "closed")

JobsAreInv == \A j \in jobs : JobInv(j)

(* Pages are left and opened under the mutations; a mutation the section still
   shows belongs to it, and to what is opened in it. *)
LEMMA JobsStep ==
    ASSUME PanelTypeInv, JobsAreInv, [PanelNext]_panelVars
    PROVE  JobsAreInv'
<1>a. SmallJobs(jobs)
  BY DEF PanelTypeInv
\* What is hidden.
<1>h. ASSUME jobs' = Hidden(jobs), key' = key PROVE JobsAreInv'
  <2> SUFFICES ASSUME NEW k \in jobs' PROVE JobInv(k)'
    BY DEF JobsAreInv
  <2>1. PICK j \in jobs : Follows(k, j) /\ ~k.shown
    BY <1>a, <1>h, HiddenJobs
  <2> QED BY <1>h, <2>1 DEF JobsAreInv, JobInv, Follows, Concern
\* What keeps the section and the pane.
<1>k. ASSUME jobs' \subseteq jobs, UNCHANGED <<section, pane, key>> PROVE JobsAreInv'
  BY <1>k DEF JobsAreInv, JobInv, Concern
<1>1. CASE (\E c \in {"admin", "stranger"} : EnterPanel(c)) \/ RefetchList \/ ServeList
             \/ ListArrives \/ ListFails
  BY <1>1, <1>k DEF EnterPanel, RefetchList, ServeList, ListArrives, ListFails
<1>2. CASE LeavePanel \/ \E s \in Concerned : Navigate(s)
  BY <1>2, <1>h DEF LeavePanel, Navigate
<1>3. CASE Retype
  <2> SUFFICES ASSUME NEW k \in jobs' PROVE JobInv(k)'
    BY DEF JobsAreInv
  <2>1. jobs' = Untyped(jobs) /\ UNCHANGED <<section, pane, key>>
    BY <1>3 DEF Retype
  <2>2. PICK j \in jobs : Follows(k, j) /\ k.at = j.at
    BY <1>a, <2>1, UntypedJobs
  <2> QED BY <2>1, <2>2 DEF JobsAreInv, JobInv, Follows, Concern
<1>4. ASSUME NEW p \in {"closed", "this", "other"}, SetPane(p) PROVE JobsAreInv'
  <2>1. CASE section = "stores" /\ p = "closed"
    BY <1>4, <1>h, <2>1 DEF SetPane
  <2>2. CASE ~(section = "stores" /\ p = "closed")
    <3>1. /\ jobs' = Moved(p)
          /\ pane' = p /\ p # pane /\ UNCHANGED <<section, key>>
          /\ section = "stores" => "closed" \in {p, pane}
      BY <1>4, <2>2 DEF SetPane, Moved, MovedJob
    <3> SUFFICES ASSUME NEW k \in jobs' PROVE JobInv(k)'
      BY DEF JobsAreInv
    <3>2. PICK j \in jobs : k = MovedJob(j, p)
      BY <3>1 DEF Moved
    <3>3. /\ Follows(k, j) /\ JobInv(j)
          /\ j.shown /\ section # "stores" => k.at = p
      BY <1>a, <3>2, MovedJobs DEF JobsAreInv
    <3>4. j.shown /\ section = "stores" => key \notin DetailKeys
      BY <2>2, <3>1, <3>3 DEF JobInv
    <3> QED BY <3>1, <3>3, <3>4 DEF JobInv, Follows, Concern
  <2> QED BY <2>1, <2>2
<1>5. ASSUME NEW op \in Concern(key), NEW x \in {"this", "other"}, Mutate(op, x)
      PROVE  JobsAreInv'
  <2>0. PICK j : j = [op |-> op, on |-> x, at |-> pane, by |-> creds, st |-> "asked",
                      typed |-> op = form.op, shown |-> TRUE]
    OBVIOUS
  <2>1. /\ jobs' = jobs \cup {j} /\ UNCHANGED <<section, pane, key>>
        /\ section = op.section
        /\ op.inner => pane = x
    BY <1>5, <2>0 DEF Mutate
  <2>2. JobInv(j)'
    <3>1. Sound(op) /\ key \in op.affects \cup op.tells
      BY AdminOpsAreSound DEF Concern
    <3>2. key \in DetailKeys /\ section = "stores" => pane # "closed"
      BY <2>1, <3>1 DEF Sound, StaysOpen
    <3> QED BY <2>0, <2>1, <3>2 DEF JobInv, Concern
  <2>3. \A k \in jobs : JobInv(k)'
    BY <2>1 DEF JobsAreInv, JobInv, Concern
  <2> QED BY <2>1, <2>2, <2>3 DEF JobsAreInv
<1>6. ASSUME NEW j \in jobs, NEW st \in {"half", "done"}, Write(j, st) PROVE JobsAreInv'
  <2>1. /\ jobs' = (jobs \ {j}) \cup {[j EXCEPT !.st = st]} /\ j.by = "admin"
        /\ UNCHANGED <<section, pane, key>>
    BY <1>6 DEF Write
  <2>2. PICK k : k = [j EXCEPT !.st = st]
    OBVIOUS
  <2>3. k.op = j.op /\ k.by = j.by /\ k.at = j.at /\ (k.shown <=> j.shown)
    <3>1. j \in Job
      BY <1>a DEF SmallJobs
    <3> QED BY <2>2, <3>1, WrittenIs
  <2>4. JobInv(k)'
    <3>1. JobInv(j)
      BY DEF JobsAreInv
    <3> QED BY <2>1, <2>3, <3>1 DEF JobInv, Concern
  <2>5. \A l \in jobs : JobInv(l)'
    BY <2>1 DEF JobsAreInv, JobInv, Concern
  <2> QED BY <2>1, <2>2, <2>4, <2>5 DEF JobsAreInv
<1>7. ASSUME NEW j \in jobs, MutationFails(j) PROVE JobsAreInv'
  BY <1>7, <1>k DEF MutationFails
<1>8. ASSUME NEW j \in jobs, MutationSucceeds(j) PROVE JobsAreInv'
  <2>1. /\ jobs' \in {Untyped(jobs \ {j}), jobs \ {j}}
        /\ UNCHANGED <<section, key>>
        /\ pane' = IF j.shown /\ j.op.section = "recipes" /\ j.op.name = "delete" THEN "closed"
                   ELSE pane
    BY <1>8 DEF MutationSucceeds
  <2>2. \A k \in jobs' : \E l \in jobs : Follows(k, l) /\ k.at = l.at
    <3>1. jobs \ {j} \subseteq jobs
      OBVIOUS
    <3>2. \A k \in Untyped(jobs \ {j}) : \E l \in jobs \ {j} : Follows(k, l) /\ k.at = l.at
      BY <1>a, <3>1, UntypedJobs
    <3>3. \A k \in jobs : Follows(k, k)
      BY <1>a DEF SmallJobs, Follows
    <3> QED BY <2>1, <3>2, <3>3
  <2>3. key \in DetailKeys => pane' = pane
    <3>1. Sound(j.op) /\ key \in j.op.affects \cup j.op.tells
      BY AdminOpsAreSound DEF JobsAreInv, JobInv, Concern
    <3> QED BY <2>1, <3>1 DEF Sound, StaysOpen
  <2> SUFFICES ASSUME NEW k \in jobs' PROVE JobInv(k)'
    BY DEF JobsAreInv
  <2>4. PICK l \in jobs : Follows(k, l) /\ k.at = l.at
    BY <2>2
  <2> QED BY <2>1, <2>3, <2>4 DEF JobsAreInv, JobInv, Follows, Concern
<1>9. CASE UNCHANGED panelVars
  BY <1>9, <1>k DEF panelVars
<1> QED
  BY <1>1, <1>2, <1>3, <1>4, <1>5, <1>6, <1>7, <1>8, <1>9 DEF PanelNext

-----------------------------------------------------------------------------

\* The row of the followed form exists, and its answer is still to come.
Halfway == \E j \in jobs : j.typed /\ j.st # "asked"

(* A form has at most one mutation in flight, with what it still shows; it has
   made one row without an answer at most, unless an answer was lost, and no more
   rows than there were failed requests and this one. *)
FormsInv ==
    /\ \A j, k \in jobs : j.typed /\ k.typed => j = k
    /\ \A j \in jobs : j.typed => j.shown /\ j.op = form.op
    /\ ~form.lost => form.copies = 0 \/ (form.copies = 1 /\ Halfway)
    /\ form.copies <= upsets + 1
    /\ ~Halfway => form.copies <= upsets

(* Counters are not negative. *)
LEMMA NatSucc == ASSUME NEW n \in Nat PROVE 0 <= n /\ 0 <= n + 1
OBVIOUS

(* Every step of every mutation keeps the count of rows of the followed form. *)
LEMMA FormStep ==
    ASSUME PanelTypeInv, JobsAreInv, FormsInv, [PanelNext]_panelVars
    PROVE  FormsInv'
<1> USE PanelAssumption
<1>a. /\ SmallJobs(jobs) /\ upsets \in Nat
      /\ form \in [op : Creates, copies : Nat, lost : BOOLEAN]
  BY DEF PanelTypeInv
<1>b. upsets' \in Nat
  <2>1. PanelTypeInv'
    BY PanelTypeStep
  <2> QED BY <2>1 DEF PanelTypeInv
\* The form is empty, and no mutation in flight is its own.
<1>e. ASSUME form' = Emptied(form, form.op), \A k \in jobs' : ~k.typed PROVE FormsInv'
  <2>1. form'.copies = 0
    BY <1>a, <1>e, EmptiedIs
  <2>2. /\ \A j, k \in jobs' : j.typed /\ k.typed => j = k
        /\ \A j \in jobs' : j.typed => j.shown /\ j.op = form'.op
    <3>1. ASSUME NEW j \in jobs', j.typed PROVE FALSE
      BY <1>e, <3>1
    <3> QED BY <3>1, Zenon
  <2>3. form'.copies <= upsets' /\ form'.copies <= upsets' + 1
    <3>1. 0 <= upsets' /\ 0 <= upsets' + 1
      BY <1>b, NatSucc
    <3> QED BY <2>1, <3>1
  <2> QED BY <2>1, <2>2, <2>3 DEF FormsInv
\* A mutation of another form, or of none, ends.
<1>k. ASSUME jobs' = jobs, form' = form, upsets' >= upsets PROVE FormsInv'
  BY <1>a, <1>b, <1>k DEF FormsInv, Halfway
<1>1. CASE (\E c \in {"admin", "stranger"} : EnterPanel(c)) \/ RefetchList \/ ServeList
             \/ ListArrives
  BY <1>a, <1>1, <1>k DEF EnterPanel, RefetchList, ServeList, ListArrives
<1>2. CASE ListFails
  <2>1. upsets' >= upsets /\ jobs' = jobs /\ form' = form
    BY <1>a, <1>2 DEF ListFails, Upset
  <2> QED BY <1>k, <2>1
<1>3. CASE LeavePanel \/ \E s \in Concerned : Navigate(s)
  <2>1. jobs' = Hidden(jobs) /\ form' = Emptied(form, form.op)
    BY <1>3 DEF LeavePanel, Navigate
  <2> QED BY <1>a, <1>e, <2>1, HiddenJobs
<1>4. CASE Retype
  <2>1. jobs' = Untyped(jobs) /\ form' = Emptied(form, form.op)
    BY <1>4 DEF Retype
  <2> QED BY <1>a, <1>e, <2>1, UntypedJobs
<1>5. ASSUME NEW p \in {"closed", "this", "other"}, SetPane(p) PROVE FormsInv'
  <2>1. CASE section = "stores" /\ p = "closed"
    <3>1. jobs' = Hidden(jobs) /\ form' = Emptied(form, form.op)
      BY <1>5, <2>1 DEF SetPane
    <3> QED BY <1>a, <1>e, <3>1, HiddenJobs
  <2>2. CASE ~(section = "stores" /\ p = "closed")
    <3>1. jobs' = Moved(p) /\ UNCHANGED <<form, upsets>>
      BY <1>5, <2>2 DEF SetPane, Moved, MovedJob
    <3>2. \A j \in jobs : LET k == MovedJob(j, p) IN
             k \in jobs' /\ Follows(k, j) /\ (k.shown <=> j.shown) /\ (k.typed <=> j.typed)
      BY <1>a, <3>1, MovedJobs DEF Moved
    <3>6. \A k \in jobs' : \E j \in jobs : k = MovedJob(j, p)
      BY <3>1 DEF Moved
    <3>3. Halfway' <=> Halfway
      BY <3>2, <3>6 DEF Halfway, Follows
    <3>4. \A j, k \in jobs' : j.typed /\ k.typed => j = k
      BY <3>2, <3>6 DEF FormsInv
    <3>5. \A k \in jobs' : k.typed => k.shown /\ k.op = form'.op
      BY <3>1, <3>2, <3>6 DEF FormsInv, Follows
    <3> QED BY <3>1, <3>3, <3>4, <3>5 DEF FormsInv
  <2> QED BY <2>1, <2>2
<1>6. ASSUME NEW op \in Concern(key), NEW x \in {"this", "other"}, Mutate(op, x)
      PROVE  FormsInv'
  <2> DEFINE j == [op |-> op, on |-> x, at |-> pane, by |-> creds, st |-> "asked",
                   typed |-> op = form.op, shown |-> TRUE]
  <2>1. jobs' = jobs \cup {j} /\ ButtonEnabled(op) /\ UNCHANGED <<form, upsets>>
    BY <1>6 DEF Mutate
  <2>2. /\ j.op = op /\ j.st = "asked" /\ j.shown /\ (j.typed <=> op = form.op)
    OBVIOUS
  <2> HIDE DEF j
  <2>3. op = form.op => \A k \in jobs : ~k.typed
    <3>1. op = form.op => <<op.section, op.name>> \in Guarded
      <4>1. form.op \in Creates /\ form.op \in AdminOps
        BY <1>a DEF Creates
      <4> QED BY <4>1, AdminOpsAreSound DEF Sound, CreatesOnce
    <3> QED BY <2>1, <3>1 DEF ButtonEnabled, FormsInv
  <2>4. \A k, l \in jobs' : k.typed /\ l.typed => k = l
    BY <2>1, <2>2, <2>3 DEF FormsInv
  <2>5. \A k \in jobs' : k.typed => k.shown /\ k.op = form'.op
    BY <2>1, <2>2 DEF FormsInv
  <2>6. Halfway' <=> Halfway
    BY <2>1, <2>2 DEF Halfway
  <2> QED BY <2>1, <2>4, <2>5, <2>6 DEF FormsInv
<1>7. ASSUME NEW j \in jobs, NEW st \in {"half", "done"}, Write(j, st) PROVE FormsInv'
  <2>1. /\ jobs' = (jobs \ {j}) \cup {[j EXCEPT !.st = st]} /\ upsets' = upsets
        /\ form' = IF j.typed /\ j.st = "asked" THEN [form EXCEPT !.copies = @ + 1] ELSE form
    BY <1>7 DEF Write
  <2>2. PICK k : k = [j EXCEPT !.st = st]
    OBVIOUS
  <2>3. /\ k.op = j.op /\ k.st = st /\ st # "asked"
        /\ (k.shown <=> j.shown) /\ (k.typed <=> j.typed)
    <3>1. j \in Job
      BY <1>a DEF SmallJobs
    <3> QED BY <2>2, <3>1, WrittenIs
  <2>4. jobs' = (jobs \ {j}) \cup {k}
    BY <2>1, <2>2
  <2>5. form'.op = form.op /\ form'.lost = form.lost
    BY <1>a, <2>1
  <2>6. \A i, l \in jobs' : i.typed /\ l.typed => i = l
    BY <2>3, <2>4 DEF FormsInv
  <2>7. \A l \in jobs' : l.typed => l.shown /\ l.op = form'.op
    BY <2>3, <2>4, <2>5 DEF FormsInv
  <2>8. CASE j.typed /\ j.st = "asked"
    <3>1. ~Halfway
      BY <2>8 DEF FormsInv, Halfway
    <3>2. Halfway'
      BY <2>3, <2>4, <2>8 DEF Halfway
    <3>3. form'.copies = form.copies + 1
      BY <1>a, <2>1, <2>8
    <3> QED BY <1>a, <2>1, <2>5, <2>6, <2>7, <3>1, <3>2, <3>3 DEF FormsInv
  <2>9. CASE ~(j.typed /\ j.st = "asked")
    <3>1. Halfway' <=> Halfway
      BY <2>3, <2>4, <2>9 DEF Halfway
    <3> QED BY <2>1, <2>6, <2>7, <2>9, <3>1 DEF FormsInv
  <2> QED BY <2>8, <2>9
<1>8. ASSUME NEW j \in jobs, MutationFails(j) PROVE FormsInv'
  <2>1. /\ jobs' = jobs \ {j}
        /\ form' = IF j.typed /\ j.st # "asked" THEN [form EXCEPT !.lost = TRUE] ELSE form
        /\ IF j.by = "admin" THEN Upset ELSE UNCHANGED upsets
    BY <1>8 DEF MutationFails
  <2>2. form'.op = form.op /\ form'.copies = form.copies
    BY <1>a, <2>1
  <2>3. /\ \A i, l \in jobs' : i.typed /\ l.typed => i = l
        /\ \A l \in jobs' : l.typed => l.shown /\ l.op = form'.op
    BY <2>1, <2>2 DEF FormsInv
  <2>4. CASE j.typed /\ j.st # "asked"
    <3>1. upsets' = upsets + 1
      BY <2>1, <2>4 DEF JobsAreInv, JobInv, Upset
    <3>2. form'.lost
      BY <1>a, <2>1, <2>4
    <3> QED BY <1>a, <2>2, <2>3, <3>1, <3>2 DEF FormsInv
  <2>5. CASE ~(j.typed /\ j.st # "asked")
    <3>1. Halfway' <=> Halfway
      BY <2>1, <2>5 DEF Halfway
    <3>2. upsets' >= upsets /\ form' = form
      BY <1>a, <2>1, <2>5 DEF Upset
    <3> QED BY <1>a, <1>b, <2>3, <3>1, <3>2 DEF FormsInv
  <2> QED BY <2>4, <2>5
<1>9. ASSUME NEW j \in jobs, MutationSucceeds(j) PROVE FormsInv'
  <2>1. CASE j.typed
    <3>1. jobs' = Untyped(jobs \ {j}) /\ form' = Emptied(form, form.op)
      BY <1>9, <2>1 DEF MutationSucceeds
    <3>2. jobs \ {j} \subseteq jobs
      OBVIOUS
    <3>3. \A k \in jobs' : ~k.typed
      BY <1>a, <3>1, <3>2, UntypedJobs
    <3> QED BY <1>e, <3>1, <3>3
  <2>2. CASE ~j.typed
    <3>1. jobs' = jobs \ {j} /\ UNCHANGED <<form, upsets>>
      BY <1>9, <2>2 DEF MutationSucceeds
    <3>2. Halfway' <=> Halfway
      BY <2>2, <3>1 DEF Halfway
    <3> QED BY <3>1, <3>2 DEF FormsInv
  <2> QED BY <2>1, <2>2
<1>10. CASE UNCHANGED panelVars
  BY <1>10, <1>a, <1>k DEF panelVars
<1> QED
  BY <1>1, <1>2, <1>3, <1>4, <1>5, <1>6, <1>7, <1>8, <1>9, <1>10 DEF PanelNext

(* A change of the list is on its way to be acknowledged. *)
Acknowledging == \E j \in jobs : Hits(j) /\ j.st # "asked"

(* A list that is older than the server's is known to be, or a change is still
   to be acknowledged, or the list is being fetched again or failed to be. *)
OlderInv ==
    /\ cached.fetch.late => cached.fetch.st = "older"
    /\ cached.fetch.st = "older" /\ ~cached.fetch.late => Acknowledging
    /\ cached.data = "older" /\ ~cached.doubt /\ ~cached.failed /\ Seen
         /\ cached.fetch.st = "idle" => Acknowledging

(* A change that was to be acknowledged still is. *)
LEMMA FollowersAcknowledge ==
    ASSUME NEW S, key' = key, \A j \in S : \E k \in jobs' : Follows(k, j),
           \E j \in S : Hits(j) /\ j.st # "asked"
    PROVE  Acknowledging'
BY DEF Acknowledging, Hits, Follows

(* The heart of the matter: when a mutation is acknowledged, either the list is
   fetched again, or it is not on the screen, or it is known to be in doubt. *)
LEMMA OlderStep ==
    ASSUME PanelTypeInv, JobsAreInv, OlderInv, [PanelNext]_panelVars
    PROVE  OlderInv'
<1>a. SmallJobs(jobs) /\ cached \in Entry /\ \A j \in jobs : Follows(j, j)
  BY DEF PanelTypeInv, SmallJobs, Follows
\* A list comes to the screen, or leaves it.
<1>m. ASSUME NEW c, NEW s, NEW p, Mounts(c, s, p), Seen' => OnScreen(c, s, p), key' = key,
             \A j \in jobs : \E k \in jobs' : Follows(k, j)
      PROVE  OlderInv'
  <2>1. /\ cached'.data = cached.data /\ cached'.failed = cached.failed
        /\ cached'.doubt = cached.doubt
        /\ \/ cached' = cached
           \/ cached'.fetch.st = "asked" /\ cached'.fetch.late = FALSE
        /\ OnScreen(c, s, p) /\ ~Seen => cached'.fetch # Idle
    BY <1>a, <1>m, Mounted
  <2>2. Acknowledging => Acknowledging'
    BY <1>m, FollowersAcknowledge DEF Acknowledging
  <2>3. CASE cached' = cached
    <3>1. Seen' /\ cached.fetch.st = "idle" => Seen
      BY <1>a, <1>m, <2>1, <2>3, IdleIs DEF OlderInv
    <3> QED BY <2>2, <2>3, <3>1 DEF OlderInv
  <2>4. CASE cached'.fetch.st = "asked" /\ cached'.fetch.late = FALSE
    BY <2>4 DEF OlderInv
  <2> QED BY <2>1, <2>3, <2>4
\* What leaves the changes that are still to be acknowledged.
<1>k. ASSUME cached' = cached, key' = key, Seen' => Seen,
             \A j \in jobs : Hits(j) /\ j.st # "asked" => \E k \in jobs' : Follows(k, j)
      PROVE  OlderInv'
  <2>1. Acknowledging => Acknowledging'
    BY <1>k DEF Acknowledging, Hits, Follows
  <2> QED BY <1>k, <2>1 DEF OlderInv
<1>1. ASSUME NEW c \in {"admin", "stranger"}, EnterPanel(c) PROVE OlderInv'
  <2>1. Mounts(c, section, pane) /\ jobs' = jobs /\ key' = key
    BY <1>1 DEF EnterPanel
  <2>2. Seen' => OnScreen(c, section, pane)
    BY <1>1 DEF EnterPanel, Seen, OnScreen
  <2> QED BY <1>a, <1>m, <2>1, <2>2
<1>2. CASE LeavePanel
  <2>1. cached' = NoEntry
    BY <1>2 DEF LeavePanel, Cleared
  <2> QED BY <2>1, NoEntryIs DEF OlderInv
<1>3. CASE RefetchList
  <2>1. cached' = [cached EXCEPT !.fetch = AskedAgain]
    BY <1>3 DEF RefetchList
  <2>2. cached'.fetch.st = "asked" /\ cached'.fetch.late = FALSE
    BY <1>a, <2>1, AskedIs
  <2> QED BY <2>2 DEF OlderInv
<1>4. CASE ServeList
  <2>1. cached' = [cached EXCEPT !.fetch.st = "same"] /\ cached.fetch.st = "asked"
    BY <1>4 DEF ServeList
  <2>2. cached'.fetch.st = "same" /\ cached'.fetch.late = cached.fetch.late
    BY <1>a, <2>1, ServedIs
  <2> QED BY <2>1, <2>2 DEF OlderInv
<1>5. CASE ListArrives
  <2>1. cached' = Arrived /\ (cached.fetch.st = "same" \/ cached.fetch.st = "older")
        /\ jobs' = jobs /\ key' = key
    BY <1>5 DEF ListArrives, Arrived
  <2>2. /\ cached'.data = cached.fetch.st /\ cached'.doubt = cached.fetch.late
        /\ cached'.fetch.st = "idle" /\ cached'.fetch.late = FALSE
    BY <1>a, <2>1, ArrivedIs
  <2>3. Acknowledging => Acknowledging'
    BY <2>1 DEF Acknowledging, Hits
  <2> QED BY <2>2, <2>3 DEF OlderInv
<1>6. CASE ListFails
  <2>1. cached' = [cached EXCEPT !.failed = TRUE, !.fetch = Idle]
    BY <1>6 DEF ListFails
  <2>2. cached'.failed = TRUE /\ cached'.fetch.st = "idle" /\ cached'.fetch.late = FALSE
    BY <1>a, <2>1, FailedIs
  <2> QED BY <2>2 DEF OlderInv
<1>7. CASE Retype
  <2>1. jobs' = Untyped(jobs) /\ UNCHANGED <<creds, section, pane, key, cached>>
    BY <1>7 DEF Retype
  <2>2. \A j \in jobs : \E k \in jobs' : Follows(k, j)
    BY <1>a, <2>1, UntypedJobs
  <2> QED BY <1>k, <2>1, <2>2 DEF Seen, OnScreen
<1>8. ASSUME NEW s \in Concerned, Navigate(s) PROVE OlderInv'
  <2>1. Mounts(creds, s, FirstPane(s)) /\ jobs' = Hidden(jobs) /\ key' = key
    BY <1>8 DEF Navigate
  <2>2. Seen' => OnScreen(creds, s, FirstPane(s))
    BY <1>8 DEF Navigate, Seen, OnScreen
  <2>3. \A j \in jobs : \E k \in jobs' : Follows(k, j)
    BY <1>a, <2>1, HiddenJobs
  <2> QED BY <1>m, <2>1, <2>2, <2>3
<1>9. ASSUME NEW p \in {"closed", "this", "other"}, SetPane(p) PROVE OlderInv'
  <2>1. Mounts(creds, section, p) /\ key' = key
    BY <1>9 DEF SetPane
  <2>2. Seen' => OnScreen(creds, section, p)
    BY <1>9 DEF SetPane, Seen, OnScreen
  <2>3. jobs' = Hidden(jobs) \/ jobs' = Moved(p)
    BY <1>9 DEF SetPane, Moved, MovedJob
  <2>4. \A j \in jobs : \E k \in jobs' : Follows(k, j)
    <3>1. \A j \in jobs : \E k \in Moved(p) : Follows(k, j)
      BY <1>a, MovedJobs DEF Moved
    <3> QED BY <1>a, <2>3, <3>1, HiddenJobs
  <2> QED BY <1>m, <2>1, <2>2, <2>4
<1>10. ASSUME NEW op \in Concern(key), NEW x \in {"this", "other"}, Mutate(op, x)
       PROVE  OlderInv'
  <2>1. jobs \subseteq jobs' /\ UNCHANGED <<creds, section, pane, key, cached>>
    BY <1>10 DEF Mutate
  <2> QED BY <1>a, <1>k, <2>1 DEF Seen, OnScreen
<1>11. ASSUME NEW j \in jobs, NEW st \in {"half", "done"}, Write(j, st) PROVE OlderInv'
  <2>1. /\ cached' = (IF Hits(j) THEN Outdated ELSE cached)
        /\ jobs' = (jobs \ {j}) \cup {[j EXCEPT !.st = st]}
        /\ UNCHANGED <<creds, section, pane, key>>
    BY <1>11 DEF Write
  <2>2. PICK k : k = [j EXCEPT !.st = st]
    OBVIOUS
  <2>3. k.op = j.op /\ k.on = j.on /\ k.st = st /\ k \in jobs'
    <3>1. j \in Job
      BY <1>a DEF SmallJobs
    <3> QED BY <2>1, <2>2, <3>1, WrittenIs
  <2>4. CASE Hits(j)
    <3>1. Acknowledging'
      BY <2>1, <2>3, <2>4 DEF Acknowledging, Hits
    <3>2. /\ cached'.fetch.st = Older(cached.fetch.st)
          /\ cached'.fetch.late = cached.fetch.late
      BY <1>a, <2>1, <2>4, OutdatedIs
    <3> QED BY <3>1, <3>2 DEF OlderInv, Older
  <2>5. CASE ~Hits(j)
    <3>1. \A l \in jobs : Hits(l) /\ l.st # "asked" => \E i \in jobs' : Follows(i, l)
      BY <1>a, <2>1, <2>5
    <3> QED BY <1>k, <2>1, <2>5, <3>1 DEF Seen, OnScreen
  <2> QED BY <2>4, <2>5
<1>12. ASSUME NEW j \in jobs, MutationFails(j) PROVE OlderInv'
  <2>1. /\ jobs' = jobs \ {j}
        /\ cached' = IF j.st # "asked" /\ Hits(j) THEN Unsure(TRUE) ELSE cached
        /\ UNCHANGED <<creds, section, pane, key>>
    BY <1>12 DEF MutationFails
  <2>2. CASE j.st # "asked" /\ Hits(j)
    <3>1. /\ cached'.data = cached.data /\ cached'.fetch.st = cached.fetch.st
          /\ cached'.doubt <=> cached.doubt \/ cached.data = "older"
          /\ cached'.fetch.late <=> cached.fetch.late \/ cached.fetch.st = "older"
      BY <1>a, <2>1, <2>2, UnsureIs
    <3> QED BY <3>1 DEF OlderInv
  <2>3. CASE ~(j.st # "asked" /\ Hits(j))
    <3>1. \A l \in jobs : Hits(l) /\ l.st # "asked" => \E i \in jobs' : Follows(i, l)
      BY <1>a, <2>1, <2>3
    <3> QED BY <1>k, <2>1, <2>3, <3>1 DEF Seen, OnScreen
  <2> QED BY <2>2, <2>3
<1>13. ASSUME NEW j \in jobs, MutationSucceeds(j) PROVE OlderInv'
  <2>1. /\ jobs' \in {Untyped(jobs \ {j}), jobs \ {j}}
        /\ pane' \in {"closed", pane}
        /\ cached' = IF Restarts(j) THEN [cached EXCEPT !.fetch = AskedAgain]
                     ELSE IF Hits(j) THEN Unsure(Overlooked(j)) ELSE cached
        /\ UNCHANGED <<creds, section, key>>
    BY <1>13 DEF MutationSucceeds
  <2>2. Seen' => Seen
    BY <2>1 DEF Seen, OnScreen
  <2>3. CASE Restarts(j)
    <3>1. cached'.fetch.st = "asked" /\ cached'.fetch.late = FALSE
      BY <1>a, <2>1, <2>3, AskedIs
    <3> QED BY <3>1 DEF OlderInv
  <2>4. CASE ~Restarts(j) /\ Hits(j)
    <3>1. Overlooked(j) \in BOOLEAN
      BY DEF Overlooked
    <3>2. /\ cached'.data = cached.data /\ cached'.fetch.st = cached.fetch.st
          /\ cached'.doubt <=> cached.doubt \/ (Overlooked(j) /\ cached.data = "older")
          /\ cached'.fetch.late <=> cached.fetch.late \/ cached.fetch.st = "older"
      BY <1>a, <2>1, <2>4, <3>1, UnsureIs
    <3>3. cached.data = "older" /\ ~Overlooked(j) /\ cached.fetch.st = "idle" => ~Seen
      <4>1. SUFFICES ASSUME cached.data = "older", ~Overlooked(j),
                            cached.fetch.st = "idle", Seen
                     PROVE  FALSE
        OBVIOUS
      <4>2. ~Told(j)
        BY <2>4, <4>1 DEF Restarts
      <4>3. key # "recipe-detail" /\ j.shown
        BY <2>4, <4>1, <4>2 DEF Overlooked
      <4>4. j.op.section = section /\ j.op \in Concern(key)
            /\ (key \in DetailKeys => j.at = pane)
        BY <4>3 DEF JobsAreInv, JobInv
      <4>5. CASE key \notin j.op.tells
        <5>1. key \in j.op.affects \ j.op.tells /\ Sound(j.op)
          BY <2>4, <4>4, <4>5, AdminOpsAreSound DEF Hits, Concern
        <5>2. <<section, key>> \notin Outer \cup Opened
          BY <4>3, <4>4, <5>1 DEF Sound, TellsWhatItShows
        <5> QED BY <4>1, <5>2 DEF Seen, OnScreen
      <4>6. CASE key \in DetailKeys /\ j.at # "this"
        <5>1. <<section, key>> \notin Outer
          BY <4>6, DetailLists
        <5> QED BY <4>1, <4>4, <4>6, <5>1 DEF Seen, OnScreen
      <4> QED BY <4>2, <4>5, <4>6 DEF Told
    <3> QED BY <2>2, <3>2, <3>3 DEF OlderInv
  <2>5. CASE ~Restarts(j) /\ ~Hits(j)
    <3>1. cached' = cached
      BY <2>1, <2>5
    <3>2. \A l \in jobs \ {j} : \E i \in jobs' : Follows(i, l)
      <4>1. jobs \ {j} \subseteq jobs
        OBVIOUS
      <4>2. \A l \in jobs \ {j} : \E i \in Untyped(jobs \ {j}) : Follows(i, l)
        BY <1>a, <4>1, UntypedJobs
      <4> QED BY <1>a, <2>1, <4>2
    <3>3. \A l \in jobs : Hits(l) /\ l.st # "asked" => \E i \in jobs' : Follows(i, l)
      BY <2>5, <3>2
    <3> QED BY <1>k, <2>1, <2>2, <3>1, <3>3
  <2> QED BY <2>3, <2>4, <2>5
<1>14. CASE UNCHANGED panelVars
  BY <1>14, <1>a, <1>k DEF panelVars, Seen, OnScreen
<1> QED
  BY <1>1, <1>2, <1>3, <1>4, <1>5, <1>6, <1>7, <1>8, <1>9, <1>10, <1>11, <1>12, <1>13, <1>14
     DEF PanelNext

-----------------------------------------------------------------------------

\* The inductive invariant of the panel.
PanelInv == PanelTypeInv /\ JobsAreInv /\ FormsInv /\ OlderInv

(* It holds before the login, and every step keeps it. *)
LEMMA PanelInitially == AdminInit => PanelInv
<1> SUFFICES ASSUME AdminInit PROVE PanelInv
  OBVIOUS
<1>1. SmallJobs(jobs)
  BY FS_EmptySet DEF AdminInit, SmallJobs
<1>2. form \in [op : Creates, copies : Nat, lost : BOOLEAN] /\ form.copies = 0
  <2>1. PICK op \in Followable : form = [op |-> op, copies |-> 0, lost |-> FALSE]
    BY DEF AdminInit, FormOf
  <2> QED BY <2>1 DEF Followable
<1>3. ~Seen /\ "dashboard" \in AdminSections
  BY DEF AdminInit, Seen, OnScreen, AdminSections
<1>4. PanelTypeInv
  BY <1>1, <1>2, <1>3, NoEntryIs, PanelAssumption DEF AdminInit, PanelTypeInv
<1>5. JobsAreInv
  BY DEF AdminInit, JobsAreInv
<1>6. FormsInv
  BY <1>2 DEF AdminInit, FormsInv
<1>7. OlderInv
  BY NoEntryIs DEF AdminInit, OlderInv
<1> QED BY <1>4, <1>5, <1>6, <1>7 DEF PanelInv

LEMMA PanelInvariant == PanelSpec => []PanelInv
<1>1. PanelInv /\ [PanelNext]_panelVars => PanelInv'
  BY PanelTypeStep, JobsStep, FormStep, OlderStep DEF PanelInv
<1> QED BY <1>1, PanelInitially, PTL DEF PanelSpec

(* The panel keeps its types for any number of failed requests: a list on the
   screen has been asked for, nothing is cached before the login, and at most two
   mutations of a crowded key are in flight. *)
THEOREM AdminTyped == PanelSpec => []AdminTypeOK
<1>1. PanelInv => AdminTypeOK
  <2> SUFFICES ASSUME PanelInv PROVE AdminTypeOK
    OBVIOUS
  <2>1. form.copies \in 0 .. MaxUpsets + 3
    BY PanelAssumption DEF PanelInv, PanelTypeInv, FormsInv
  <2> QED BY <2>1 DEF PanelInv, PanelTypeInv, AdminTypeOK, SmallJobs, Entry, AskedFor
<1> QED BY <1>1, PanelInvariant, PTL

(* Whatever the section that makes a change and wherever the administrator goes
   before its answer: a list on the screen that is not being fetched shows every
   acknowledged change, but for the exceptions the property names. *)
THEOREM AdminListsCatchUp == PanelSpec => []ListsCatchUp
<1>1. PanelInv => ListsCatchUp
  <2> SUFFICES ASSUME PanelInv, Seen, cached.data # "none", cached.fetch = Idle,
                      ~cached.failed, ~cached.doubt,
                      \A j \in jobs : Hits(j) => j.st = "asked"
               PROVE  cached.data = "same"
    BY DEF ListsCatchUp
  <2>1. cached.fetch.st = "idle" /\ cached.data \in {"none", "same", "older"}
    BY IdleIs DEF PanelInv, PanelTypeInv, Entry, Idle
  <2>2. ~Acknowledging
    BY DEF Acknowledging
  <2> QED BY <2>1, <2>2 DEF PanelInv, OlderInv
<1> QED BY <1>1, PanelInvariant, PTL

(* However often a creation form is submitted, left and opened again, and
   whatever requests fail: a second row of what was typed once means that an
   answer was lost after the first one had been made. *)
THEOREM AdminOneRowPerForm == PanelSpec => []OneRowPerForm
<1>1. PanelInv => OneRowPerForm
  BY DEF PanelInv, PanelTypeInv, FormsInv, OneRowPerForm
<1> QED BY <1>1, PanelInvariant, PTL

-----------------------------------------------------------------------------
(* The server's cache. *)

IsRequest(q) == "st" \in DOMAIN q /\ "got" \in DOMAIN q /\ "late" \in DOMAIN q

KeysToDrop == \E w \in Writers : dropping[w] # "no"

(* A request that is about to store what it has read has read the rows as they
   are, or is known to be late, or whoever has changed them is still to drop
   the key: what it stores is then no older than CachedIsCurrent allows. *)
FetchInv ==
    /\ DOMAIN reading = Readers /\ reading = [r \in Readers |-> reading[r]]
    /\ \A r \in Readers : IsRequest(reading[r])
    /\ DOMAIN dropping = Writers /\ dropping = [w \in Writers |-> dropping[w]]
    /\ \A r \in Readers : reading[r].st = "fetched" =>
          reading[r].got = version \/ reading[r].late \/ KeysToDrop
    /\ CachedIsCurrent

(* Marking the late ones leaves none of which it is not known. *)
LEMMA OvertakenMarks ==
    ASSUME FetchInv, NEW new
    PROVE  /\ DOMAIN Overtaken(new) = Readers
           /\ Overtaken(new) = [r \in Readers |-> Overtaken(new)[r]]
           /\ \A r \in Readers : IsRequest(Overtaken(new)[r])
           /\ \A r \in Readers : Overtaken(new)[r].st = "fetched" =>
                 Overtaken(new)[r].got = new \/ Overtaken(new)[r].late
BY DEF Overtaken, FetchInv, IsRequest

(* An operation that changes the list drops it, or leaves it to its TTL. *)
LEMMA DropsOrLeaves ==
    ASSUME NEW op, cacheKey \in Changes(op), cacheKey \notin Drops(op)
    PROVE  LeavesToTTL(op)
BY DEF Drops, LeavesToTTL

LEMMA ChangeKeeps ==
    ASSUME FetchInv, NEW w \in Writers, NEW op \in Operations, Change(w, op)
    PROVE  FetchInv'
<1>0. /\ DOMAIN dropping' = Writers /\ dropping' = [v \in Writers |-> dropping'[v]]
      /\ UNCHANGED copy
  BY DEF FetchInv, Change
<1>1. CASE cacheKey \in Drops(op)
  <2>1. dropping'[w] = "due"
    BY <1>1 DEF FetchInv, Change
  <2>2. KeysToDrop'
    BY <2>1 DEF KeysToDrop
  <2>3. /\ DOMAIN reading' = Readers /\ reading' = [r \in Readers |-> reading'[r]]
        /\ \A r \in Readers : IsRequest(reading'[r])
    <3>1. CASE LeavesToTTL(op)
      BY <3>1, OvertakenMarks DEF Change
    <3>2. CASE ~LeavesToTTL(op)
      BY <3>2 DEF Change, FetchInv
    <3> QED BY <3>1, <3>2
  <2> QED BY <1>0, <2>2, <2>3 DEF FetchInv, CachedIsCurrent, KeysToDrop
<1>2. CASE cacheKey \notin Drops(op)
  <2>1. LeavesToTTL(op)
    BY <1>2, DropsOrLeaves DEF Change
  <2>2. excused' /\ reading' = Overtaken(version')
    BY <2>1 DEF Change
  <2> QED BY <1>0, <2>2, OvertakenMarks DEF FetchInv, CachedIsCurrent
<1> QED BY <1>1, <1>2

LEMMA DroppersKeep ==
    ASSUME FetchInv, NEW w \in Writers, Scan(w) \/ Drop(w) \/ DropIsLost(w)
    PROVE  FetchInv'
<1>0. DOMAIN dropping' = Writers /\ dropping' = [v \in Writers |-> dropping'[v]]
  BY DEF FetchInv, Scan, Drop, DropIsLost
<1>1. CASE Scan(w)
  <2>1. CASE copy = NoCopy
    <3>1. reading' = Overtaken(version) /\ UNCHANGED <<version, copy>>
      BY <1>1, <2>1 DEF Scan
    <3> QED BY <1>0, <2>1, <3>1, OvertakenMarks DEF FetchInv, CachedIsCurrent
  <2>2. CASE copy # NoCopy
    <3>1. dropping'[w] = "found" /\ UNCHANGED <<reading, version, copy, excused>>
      BY <1>1, <2>2 DEF Scan, FetchInv
    <3>2. KeysToDrop'
      BY <3>1 DEF KeysToDrop
    <3> QED BY <1>0, <3>1, <3>2 DEF FetchInv, CachedIsCurrent, KeysToDrop
  <2> QED BY <2>1, <2>2
<1>2. CASE Drop(w)
  <2>1. copy' = NoCopy /\ reading' = Overtaken(version) /\ UNCHANGED version
    BY <1>2 DEF Drop
  <2> QED BY <1>0, <2>1, OvertakenMarks DEF FetchInv, CachedIsCurrent
<1>3. CASE DropIsLost(w)
  <2>1. /\ reading' = Overtaken(version) /\ UNCHANGED <<version, copy>>
        /\ copy # version => excused'
    BY <1>3 DEF DropIsLost
  <2> QED BY <1>0, <2>1, OvertakenMarks DEF FetchInv, CachedIsCurrent
<1> QED BY <1>1, <1>2, <1>3

LEMMA RequestsKeep ==
    ASSUME FetchInv, NEW r \in Readers,
           Misses(r) \/ Fetches(r) \/ Fills(r) \/ GivesUp(r)
    PROVE  FetchInv'
<1>0. UNCHANGED <<version, dropping>> /\ (KeysToDrop' <=> KeysToDrop)
  BY DEF Misses, Fetches, Fills, GivesUp, KeysToDrop
<1>1. \A q \in Readers \ {r} : reading'[q] = reading[q]
  BY DEF FetchInv, Misses, Fetches, Fills, GivesUp
<1>2. /\ DOMAIN reading' = Readers /\ reading' = [q \in Readers |-> reading'[q]]
      /\ IsRequest(reading'[r])
  BY DEF FetchInv, Misses, Fetches, Fills, GivesUp, IsRequest, NotReading
<1>3. reading'[r].st = "fetched" => reading'[r].got = version
  <2>1. CASE Misses(r)
    BY <2>1 DEF FetchInv, Misses, IsRequest
  <2>2. CASE Fetches(r)
    BY <2>2 DEF FetchInv, Fetches, IsRequest
  <2>3. CASE Fills(r) \/ GivesUp(r)
    <3>1. reading'[r] = NotReading
      BY <2>3 DEF FetchInv, Fills, GivesUp
    <3> QED BY <3>1 DEF NotReading
  <2> QED BY <2>1, <2>2, <2>3
<1>4. CachedIsCurrent'
  <2>1. CASE Fills(r)
    <3>1. copy' = reading[r].got /\ excused' = reading[r].late /\ reading[r].st = "fetched"
      BY <2>1 DEF Fills
    <3> QED BY <1>0, <3>1 DEF FetchInv, CachedIsCurrent, KeysToDrop
  <2>2. CASE ~Fills(r)
    <3>1. UNCHANGED <<copy, excused>>
      BY <2>2 DEF Misses, Fetches, GivesUp
    <3> QED BY <1>0, <3>1 DEF FetchInv, CachedIsCurrent
  <2> QED BY <2>1, <2>2
<1> QED BY <1>0, <1>1, <1>2, <1>3, <1>4 DEF FetchInv

LEMMA CacheStepKeeps ==
    ASSUME FetchInv, [CacheNext]_cacheVars
    PROVE  FetchInv'
<1>1. CASE UNCHANGED cacheVars
  BY <1>1 DEF cacheVars, FetchInv, CachedIsCurrent, KeysToDrop
<1>2. CASE Expires
  BY <1>2 DEF Expires, FetchInv, CachedIsCurrent, KeysToDrop
<1> QED BY <1>1, <1>2, ChangeKeeps, DroppersKeep, RequestsKeep DEF CacheNext

(* For any number of readers, administrators and changes: a copy of a list is
   older than the rows only while a drop is due, or after a read that a drop
   has overtaken, a lost drop, or an operation that forgets the list. *)
THEOREM CacheCachedIsCurrent == CacheSpec => []CachedIsCurrent
<1>1. CacheInit => FetchInv
  BY DEF CacheInit, FetchInv, CachedIsCurrent, IsRequest, NotReading
<1>2. FetchInv /\ [CacheNext]_cacheVars => FetchInv'
  BY CacheStepKeeps
<1>3. FetchInv => CachedIsCurrent
  BY DEF FetchInv
<1> QED BY <1>1, <1>2, <1>3, PTL DEF CacheSpec
(* With the types: nothing has been read that was not there yet. *)
ReadVersions == \A r \in Readers : reading[r].got \in 0 .. version \cup {NoCopy}

(* What is marked as late is what it was. *)
LEMMA OvertakenTyped ==
    ASSUME CacheTypeOK, NEW new
    PROVE  /\ Overtaken(new) \in [Readers -> Reading]
           /\ \A r \in Readers : /\ Overtaken(new)[r].st = "fetched"
                                       <=> Overtaken(new)[r].got # NoCopy
                                 /\ Overtaken(new)[r].got = reading[r].got
<1>1. ASSUME NEW r \in Readers
      PROVE  /\ Overtaken(new)[r] \in Reading
             /\ Overtaken(new)[r].st = reading[r].st /\ Overtaken(new)[r].got = reading[r].got
  <2>1. reading[r] \in Reading
    BY DEF CacheTypeOK
  <2>2. Overtaken(new)[r] = IF reading[r].st = "fetched" /\ reading[r].got # new
                            THEN [reading[r] EXCEPT !.late = TRUE] ELSE reading[r]
    BY DEF Overtaken
  <2> QED BY <2>1, <2>2 DEF Reading
<1>2. Overtaken(new) \in [Readers -> Reading]
  BY <1>1 DEF Overtaken
<1> QED BY <1>1, <1>2 DEF CacheTypeOK

(* Every step keeps the types; a read takes rows that are there, and a copy
   comes from a read. *)
LEMMA CacheTypeStep ==
    ASSUME CacheTypeOK, ReadVersions, [CacheNext]_cacheVars
    PROVE  CacheTypeOK' /\ ReadVersions'
<1> USE CatalogCacheAssumption
<1>1. ASSUME NEW w \in Writers, NEW op \in Operations, Change(w, op)
      PROVE  CacheTypeOK' /\ ReadVersions'
  <2>1. /\ version' = version + 1 /\ version < MaxListVersion /\ UNCHANGED <<cacheKey, copy>>
        /\ excused' \in {TRUE, excused} /\ reading' \in {Overtaken(version'), reading}
        /\ dropping' = [dropping EXCEPT ![w] = IF cacheKey \in Drops(op) THEN "due" ELSE "no"]
    BY <1>1 DEF Change
  <2>2. dropping' \in [Writers -> {"no", "due", "found"}]
    BY <2>1 DEF CacheTypeOK
  <2>3. /\ version' \in 0 .. MaxListVersion /\ copy' \in 0 .. version' \cup {NoCopy}
        /\ excused' \in BOOLEAN
    <3>1. /\ version \in 0 .. MaxListVersion /\ copy \in 0 .. version \cup {NoCopy}
          /\ excused \in BOOLEAN
      BY DEF CacheTypeOK
    <3>2. version' \in 0 .. MaxListVersion /\ 0 .. version \subseteq 0 .. version'
      BY <2>1, <3>1
    <3> QED BY <2>1, <3>1, <3>2
  <2>4. /\ reading' \in [Readers -> Reading]
        /\ \A r \in Readers : reading'[r].st = "fetched" <=> reading'[r].got # NoCopy
        /\ \A r \in Readers : reading'[r].got = reading[r].got
    <3>1. CASE reading' = reading
      BY <3>1 DEF CacheTypeOK
    <3> QED BY <2>1, <3>1, OvertakenTyped
  <2>5. ReadVersions'
    <3>1. 0 .. version \subseteq 0 .. version'
      BY <2>1 DEF CacheTypeOK
    <3> QED BY <2>4, <3>1 DEF ReadVersions
  <2> QED BY <2>1, <2>2, <2>3, <2>4, <2>5 DEF CacheTypeOK
<1>2. ASSUME NEW w \in Writers, Scan(w) \/ Drop(w) \/ DropIsLost(w)
      PROVE  CacheTypeOK' /\ ReadVersions'
  <2>1. /\ UNCHANGED <<cacheKey, version>> /\ reading' \in {Overtaken(version), reading}
        /\ copy' \in {NoCopy, copy}
        /\ dropping' \in {[dropping EXCEPT ![w] = "no"], [dropping EXCEPT ![w] = "found"]}
    BY <1>2 DEF Scan, Drop, DropIsLost
  <2>2. excused' \in BOOLEAN
    BY <1>2 DEF Scan, Drop, DropIsLost, CacheTypeOK
  <2>3. dropping' \in [Writers -> {"no", "due", "found"}]
    BY <2>1 DEF CacheTypeOK
  <2>4. /\ reading' \in [Readers -> Reading]
        /\ \A r \in Readers : reading'[r].st = "fetched" <=> reading'[r].got # NoCopy
        /\ \A r \in Readers : reading'[r].got = reading[r].got
    <3>1. CASE reading' = reading
      BY <3>1 DEF CacheTypeOK
    <3> QED BY <2>1, <3>1, OvertakenTyped
  <2>5. ReadVersions'
    BY <2>1, <2>4 DEF ReadVersions
  <2> QED BY <2>1, <2>2, <2>3, <2>4, <2>5 DEF CacheTypeOK
<1>3. ASSUME NEW r \in Readers, Misses(r) \/ Fetches(r) \/ Fills(r) \/ GivesUp(r)
      PROVE  CacheTypeOK' /\ ReadVersions'
  <2>1. /\ UNCHANGED <<cacheKey, version, dropping>>
        /\ reading' = [reading EXCEPT ![r] = reading'[r]]
        /\ reading \in [Readers -> Reading] /\ reading[r] \in Reading
        /\ version \in 0 .. MaxListVersion
    BY <1>3 DEF Misses, Fetches, Fills, GivesUp, CacheTypeOK
  <2>2. /\ reading'[r] \in Reading /\ (reading'[r].st = "fetched" <=> reading'[r].got # NoCopy)
        /\ reading'[r].got \in {reading[r].got, version, NoCopy}
    <3>1. CASE Misses(r)
      <4>1. reading'[r] = [reading[r] EXCEPT !.st = "missed"] /\ reading[r].st = "idle"
        BY <2>1, <3>1 DEF Misses
      <4>2. reading[r].st = "fetched" <=> reading[r].got # NoCopy
        BY DEF CacheTypeOK
      <4>3. reading[r] \in Reading /\ reading[r].st = "idle" /\ reading'[r].got = reading[r].got
        BY <2>1, <4>1 DEF Reading
      <4>4. reading[r].got = NoCopy
        BY <4>2, <4>3
      <4>5. reading'[r] \in Reading /\ reading'[r].st = "missed"
        BY <4>1, <4>3 DEF Reading
      <4> QED BY <4>3, <4>4, <4>5
    <3>2. CASE Fetches(r)
      <4>1. reading'[r] = [reading[r] EXCEPT !.st = "fetched", !.got = version]
        BY <2>1, <3>2 DEF Fetches
      <4>2. reading'[r] \in Reading /\ reading'[r].st = "fetched" /\ reading'[r].got = version
        BY <2>1, <4>1 DEF Reading
      <4>3. version \in Nat
        BY <2>1
      <4> QED BY <4>2, <4>3
    <3>3. CASE Fills(r) \/ GivesUp(r)
      <4>1. reading'[r] = NotReading
        BY <2>1, <3>3 DEF Fills, GivesUp
      <4> QED BY <4>1 DEF NotReading, Reading
    <3> QED BY <1>3, <3>1, <3>2, <3>3
  <2>3. copy' \in 0 .. version' \cup {NoCopy} /\ excused' \in BOOLEAN
    <3>1. CASE Fills(r)
      <4>1. copy' = reading[r].got /\ excused' = reading[r].late
        BY <3>1 DEF Fills
      <4> QED BY <2>1, <4>1 DEF Reading, ReadVersions
    <3>2. CASE ~Fills(r)
      BY <1>3, <2>1, <3>2 DEF Misses, Fetches, GivesUp, CacheTypeOK
    <3> QED BY <3>1, <3>2
  <2>4. \A q \in Readers : q # r => reading'[q] = reading[q]
    BY <2>1
  <2>5. ReadVersions'
    BY <2>1, <2>2, <2>4 DEF ReadVersions
  <2> QED BY <2>1, <2>2, <2>3, <2>4, <2>5 DEF CacheTypeOK
<1>4. CASE Expires
  BY <1>4 DEF Expires, CacheTypeOK, ReadVersions
<1>5. CASE UNCHANGED cacheVars
  BY <1>5 DEF cacheVars, CacheTypeOK, ReadVersions
<1> QED BY <1>1, <1>2, <1>3, <1>4, <1>5 DEF CacheNext

(* Types of the cache for any number of readers, administrators and changes: a
   request has rows exactly when it is about to store them, and no copy is newer
   than the rows. *)
THEOREM CacheTyped == CacheSpec => []CacheTypeOK
<1>1. CacheInit => CacheTypeOK /\ ReadVersions
  <2> SUFFICES ASSUME CacheInit PROVE CacheTypeOK /\ ReadVersions
    OBVIOUS
  <2>1. NotReading \in Reading /\ NotReading.st = "idle" /\ NotReading.got = NoCopy
    BY DEF NotReading, Reading
  <2>2. 0 \in 0 .. MaxListVersion
    BY CatalogCacheAssumption
  <2>3. reading \in [Readers -> Reading] /\ \A r \in Readers : reading[r] = NotReading
    BY <2>1 DEF CacheInit
  <2>4. dropping \in [Writers -> {"no", "due", "found"}]
    BY DEF CacheInit
  <2> QED BY <2>1, <2>2, <2>3, <2>4 DEF CacheInit, CacheTypeOK, ReadVersions
<1> QED BY <1>1, CacheTypeStep, PTL DEF CacheSpec
=============================================================================
