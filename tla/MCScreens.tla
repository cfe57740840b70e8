------------------------------ MODULE MCScreens ------------------------------
(***************************************************************************)
(* The screens of the customer's page and of the administrator's panel,    *)
(* the server's cache before the catalog's lists that both show, and the   *)
(* sign-up by e-mail.  What they share is the server: a behaviour follows  *)
(* one of them, while the others stay as they are.                         *)
(***************************************************************************)
EXTENDS Cart, Account, MyOrders, StoreList, Reviews, Browse, AdminPanel,
        CatalogCache, SignUp

VARIABLE part  \* the screen that is followed, or the cache or the sign-up

screenVars == <<part, cartVars, accountVars, orderVars, storeListVars, reviewVars,
                browseVars, panelVars, cacheVars, signUpVars>>

-----------------------------------------------------------------------------
(* The small instance. *)

CONSTANTS bun, rye, milk, bakery, dairy, order1, order2, c1, c2

MCStoreOf == [k \in Products |-> IF k = milk THEN dairy ELSE bakery]
MCOptionsOf == [k \in Products |-> {}]
\* The recipe takes one of each, the order of the past one of the dairy's.
MCAmount == [k \in Products |-> 1]
MCPast == [k \in Products |-> IF k = milk THEN 1 ELSE 0]

MCTree == <<c1, c2>>
MCChildren == [t \in Tops |-> IF t = c1 THEN {rye} ELSE {}]
\* More than a page, a page, and more than a page of what is found.
MCCount == [f \in Filters |-> IF f[2] # NoText THEN 2 ELSE IF f[1] = c1 THEN 3 ELSE 1]

MCTypeOf == [s \in Stores |-> s]

-----------------------------------------------------------------------------
Parts == {"cart", "account", "orders", "store", "reviews", "browse", "panel", "cache", "signup"}

\* The others are left in one of their initial states.
Alone(x) ==
    /\ x # "account" => cookie = Nobody /\ favs = {}
    /\ x # "orders" => pending = Nothing
    /\ x # "store" => text = NoText
    /\ x # "reviews" => posted = Theirs
    /\ x # "panel" => key = "banners" /\ form.op.name = "create"
    /\ x # "cache" => cacheKey = "stores"

\* Bound: of the forms that add to a list of products or categories one is followed.
OneOfForms ==
    part = "panel" /\ key \in StoreGoods \cup ProductLists =>
      <<key, form.op.section, form.op.name>> \in
        {<<"store-subcategories", "stores", "create subcategory">>,
         <<"store-products", "stores", "create product">>,
         <<"option-groups", "stores", "create value">>,
         <<"products-search", "products", "create">>}

ScreensInit ==
    /\ part \in Parts
    /\ CartInit /\ AccountInit /\ MyOrdersInit /\ StoreListInit /\ ReviewsInit /\ BrowseInit
    /\ AdminInit /\ CacheInit /\ SignUpInit
    /\ Alone(part) /\ OneOfForms

\* Bound: searches and showcases are not asked for at once.
OneKind == answers'.searches = <<>> \/ answers'.featured = <<>>

\* A behaviour of the account is followed up to its first lapse.
ScreensNext ==
    /\ part' = part
    /\ \/ part = "cart" /\ CartNext
          /\ UNCHANGED <<accountVars, orderVars, storeListVars, reviewVars, browseVars,
                         panelVars, cacheVars, signUpVars>>
       \/ part = "account" /\ lapses = {} /\ AccountNext
          /\ UNCHANGED <<cartVars, orderVars, storeListVars, reviewVars, browseVars,
                         panelVars, cacheVars, signUpVars>>
       \/ part = "orders" /\ MyOrdersNext
          /\ UNCHANGED <<cartVars, accountVars, storeListVars, reviewVars, browseVars,
                         panelVars, cacheVars, signUpVars>>
       \/ part = "store" /\ StoreListNext
          /\ UNCHANGED <<cartVars, accountVars, orderVars, reviewVars, browseVars,
                         panelVars, cacheVars, signUpVars>>
       \/ part = "reviews" /\ ReviewsNext
          /\ UNCHANGED <<cartVars, accountVars, orderVars, storeListVars, browseVars,
                         panelVars, cacheVars, signUpVars>>
       \/ part = "browse" /\ BrowseNext /\ OneKind
          /\ UNCHANGED <<cartVars, accountVars, orderVars, storeListVars, reviewVars,
                         panelVars, cacheVars, signUpVars>>
       \/ part = "panel" /\ PanelNext
          /\ UNCHANGED <<cartVars, accountVars, orderVars, storeListVars, reviewVars,
                         browseVars, cacheVars, signUpVars>>
       \/ part = "cache" /\ CacheNext
          /\ UNCHANGED <<cartVars, accountVars, orderVars, storeListVars, reviewVars,
                         browseVars, panelVars, signUpVars>>
       \/ part = "signup" /\ SignUpNext
          /\ UNCHANGED <<cartVars, accountVars, orderVars, storeListVars, reviewVars,
                         browseVars, panelVars, cacheVars>>

ScreensSpec == ScreensInit /\ [][ScreensNext]_screenVars

\* The variables of what is followed have their types, and what its
\* TypeOK says of them.
ScreensTypeOK ==
    /\ part = "cart" => CartTypeOK
    /\ part = "account" => AccountTypeOK
    /\ part = "orders" => MyOrdersTypeOK
    /\ part = "store" => StoreListTypeOK
    /\ part = "reviews" => ReviewsTypeOK
    /\ part = "browse" => BrowseTypeOK
    /\ part = "panel" => AdminTypeOK
    /\ part = "cache" => CacheTypeOK
    /\ part = "signup" => SignUpTypeOK
=============================================================================
