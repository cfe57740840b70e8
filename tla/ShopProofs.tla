----------------------------- MODULE ShopProofs -----------------------------
(***************************************************************************)
(* The customer's shop, for any stores, products, reviews, tabs, words,    *)
(* requests and failures: which store opens and how, what is listed of it, *)
(* its reviews, and the cart.                                              *)
(***************************************************************************)
EXTENDS Browse, Cart, StoreList, Reviews, SequenceTheorems, FiniteSetTheorems, TLAPS

-----------------------------------------------------------------------------
(* Which store opens, and how. *)

(* The product whose sheet is open is one of a store. *)
ProductInv == "product" \in DOMAIN home /\ home.product \in Way \cup {None}

(* One store at most is on its way, and while it is none is open. *)
WaysInv ==
    /\ ways = <<>> \/ (ways = <<Head(ways)>> /\ Head(ways) \in Way)
    /\ waiting = (ways # <<>>)
    /\ waiting => store = None

(* The category and the order are those of the store that is open or on its way,
   and nothing without one, until a store has been left behind. *)
GoalInv ==
    /\ opened = [goal |-> opened.goal, sorted |-> opened.sorted]
    /\ ~leftover =>
        /\ store # None => goal = opened.goal /\ sorted = opened.sorted
        /\ waiting => goal = Head(ways).goal /\ sorted = FALSE
        /\ store = None /\ ~waiting => goal = None /\ sorted = FALSE

LEMMA ShellInit == BrowseInit => ProductInv /\ WaysInv /\ GoalInv
<1>1. BrowseInit => ProductInv
  BY DEF BrowseInit, ProductInv, NoHome
<1>2. BrowseInit => WaysInv
  BY DEF BrowseInit, WaysInv
<1>3. BrowseInit => GoalInv
  BY DEF BrowseInit, GoalInv
<1>4. QED
  BY <1>1, <1>2, <1>3

LEMMA OneOnItsWay ==
    ASSUME NEW w
    PROVE  Append(<<>>, w) = <<w>> /\ Head(<<w>>) = w /\ Tail(<<w>>) = <<>> /\ <<w>> # <<>>
OBVIOUS

LEMMA WaysLead == \A w \in Way : w.store # None
BY BrowseAssumption DEF Way

(* What is done to the home page leaves the open sheet alone. *)
LEMMA SheetKeeps ==
    ASSUME ProductInv, NEW h, "product" \in DOMAIN h, h.product \in Way \cup {None}, home' = h
    PROVE  ProductInv'
BY DEF ProductInv

LEMMA StaleKeeps ==
    ASSUME NEW h, "product" \in DOMAIN h, NEW l
    PROVE  "product" \in DOMAIN Stale(h, l) /\ Stale(h, l).product = h.product
BY DEF Stale

LEMMA MarkedKeeps ==
    ASSUME NEW h, "product" \in DOMAIN h, NEW l, NEW s, NEW i, NEW ok
    PROVE  "product" \in DOMAIN Marked(h, l, s, i, ok) /\ Marked(h, l, s, i, ok).product = h.product
BY DEF Marked

LEMMA ProductStep ==
    ASSUME ProductInv, [BrowseNext]_browseVars
    PROVE  ProductInv'
<1> USE DEF ProductInv
<1>1. CASE Unmounted
  BY <1>1 DEF Unmounted, NoHome
<1>2. CASE SearchClosed
  BY <1>2, StaleKeeps DEF SearchClosed
<1>3. CASE UNCHANGED home
  BY <1>3
<1>4. CASE GoToStore \/ StoreAnswers \/ \E w \in Way : FromCart(w)
  BY <1>1, <1>4 DEF GoToStore, StoreAnswers, FromCart, Ways
<1>5. CASE \/ StoreFails \/ CloseStore \/ SortStore \/ BackToTypes
           \/ (\E r \in Recipes : AskRecipe(r)) \/ \E s \in Stores : PickType(TypeOf[s])
  BY <1>3, <1>5 DEF StoreFails, CloseStore, Remounted, SortStore, BackToTypes,
     AskRecipe, PickType
<1>6. ASSUME NEW s \in Stores, OpenRow(s) PROVE ProductInv'
  BY <1>1, <1>6 DEF OpenRow
<1>7. ASSUME NEW t \in Tabs, ChangeTab(t) PROVE ProductInv'
  BY <1>1, <1>2, <1>7 DEF ChangeTab
<1>8. ASSUME NEW x \in Words \cup {None}, Type(x) PROVE ProductInv'
  BY <1>2, <1>3, <1>8, StaleKeeps DEF Type
<1>9. ASSUME NEW x, NEW i, SearchAnswers(i, x) PROVE ProductInv'
  <2>1. home' = [Marked(home, "search", answers.searches, i, x # None) EXCEPT !.found = x]
    BY <1>9 DEF SearchAnswers
  <2>2. QED
    BY <2>1, MarkedKeeps
<1>10. ASSUME NEW k, OpenShowcase(k) \/ CloseShowcase PROVE ProductInv'
  BY <1>10, StaleKeeps DEF OpenShowcase, CloseShowcase
<1>11. ASSUME NEW k, NEW i, ShowcaseAnswers(i, k) PROVE ProductInv'
  <2>1. home' = [Marked(home, "showcase", answers.featured, i, k # None) EXCEPT !.block = k]
    BY <1>11 DEF ShowcaseAnswers
  <2>2. QED
    BY <2>1, MarkedKeeps
<1>12. CASE OpenRecipes \/ CloseRecipes \/ RecipeAnswers \/ LeaveRecipe
  BY <1>12 DEF OpenRecipes, CloseRecipes, RecipeAnswers, LeaveRecipe
<1>13. ASSUME NEW w \in Way, OpenProduct(w) PROVE ProductInv'
  BY <1>13 DEF OpenProduct
<1>14. CASE CloseProduct
  BY <1>14 DEF CloseProduct
<1>15. CASE UNCHANGED browseVars
  BY <1>15 DEF browseVars
<1>16. QED
  BY <1>4, <1>5, <1>6, <1>7, <1>8, <1>9, <1>10, <1>11, <1>12, <1>13, <1>14, <1>15
     DEF BrowseNext

(* A store is only asked for when none is on its way and none is open. *)
LEMMA WaysKeep ==
    ASSUME WaysInv, GoalInv, TabShown, NEW w \in Way, Ways(w),
           UNCHANGED <<store, sorted, opened, leftover>>
    PROVE  WaysInv' /\ GoalInv'
<1>1. store = None /\ ~waiting /\ ways = <<>>
  BY DEF TabShown, WaysInv
<1>2. ways' = <<w>> /\ waiting' = TRUE /\ goal' = w.goal
  BY <1>1, OneOnItsWay DEF Ways
<1>3. Head(ways') = w /\ ways' # <<>>
  BY <1>2, OneOnItsWay
<1>4. WaysInv'
  BY <1>1, <1>2, <1>3 DEF WaysInv
<1>5. GoalInv'
  BY <1>1, <1>2, <1>3 DEF GoalInv
<1>6. QED
  BY <1>4, <1>5

(* What the tabs do with their own state is nothing to the shell. *)
LEMMA QuietShell ==
    ASSUME WaysInv, GoalInv,
           UNCHANGED <<store, ways, waiting, goal, sorted, opened, leftover>>
    PROVE  WaysInv' /\ GoalInv'
BY DEF WaysInv, GoalInv

LEMMA ShellStep ==
    ASSUME ProductInv, WaysInv, GoalInv, [BrowseNext]_browseVars
    PROVE  WaysInv' /\ GoalInv'
<1>1. CASE GoToStore
  BY <1>1, WaysKeep DEF GoToStore, AtHome, ProductInv
<1>2. ASSUME NEW w \in Way, FromCart(w) PROVE WaysInv' /\ GoalInv'
  BY <1>2, WaysKeep DEF FromCart
<1>3. CASE StoreAnswers
  <2>1. ways' = <<>> /\ ways # <<>> /\ waiting' = FALSE /\ Head(ways).store # None
    <3>1. ways = <<Head(ways)>> /\ Head(ways) \in Way /\ ways # <<>>
      BY <1>3 DEF StoreAnswers, WaysInv
    <3>2. Tail(ways) = <<>>
      BY <3>1, OneOnItsWay
    <3>3. QED
      BY <1>3, <3>1, <3>2, WaysLead DEF StoreAnswers
  <2>2. /\ opened' = [goal |-> Head(ways).goal, sorted |-> FALSE]
        /\ UNCHANGED <<goal, sorted, leftover>> /\ store' = Head(ways).store
    BY <1>3 DEF StoreAnswers
  <2>3. WaysInv'
    BY <2>1 DEF WaysInv
  <2>4. waiting /\ store = None
    BY <2>1 DEF WaysInv
  <2>5. GoalInv'
    BY <2>1, <2>2, <2>4 DEF GoalInv
  <2>6. QED
    BY <2>3, <2>5
<1>4. CASE StoreFails
  <2>1. ways' = <<>> /\ waiting' = FALSE /\ leftover' = TRUE /\ UNCHANGED opened
    BY <1>4, OneOnItsWay DEF StoreFails, WaysInv
  <2>2. QED
    BY <2>1 DEF WaysInv, GoalInv
<1>5. ASSUME NEW s \in Stores, OpenRow(s) PROVE WaysInv' /\ GoalInv'
  <2>1. store = None /\ ~waiting /\ ways = <<>>
    BY <1>5 DEF OpenRow, TabShown, WaysInv
  <2>2. /\ store' = s /\ opened' = [goal |-> None, sorted |-> FALSE]
        /\ UNCHANGED <<ways, waiting, goal, sorted, leftover>>
    BY <1>5 DEF OpenRow
  <2>3. QED
    BY <2>1, <2>2 DEF WaysInv, GoalInv
<1>6. CASE CloseStore
  <2>1. /\ store # None /\ store' = None /\ goal' = None /\ sorted' = FALSE
        /\ UNCHANGED <<ways, waiting, opened, leftover>>
    BY <1>6 DEF CloseStore, Forgets
  <2>2. ~waiting
    BY <2>1 DEF WaysInv
  <2>3. QED
    BY <2>1, <2>2 DEF WaysInv, GoalInv
<1>7. ASSUME NEW t \in Tabs, ChangeTab(t) PROVE WaysInv' /\ GoalInv'
  <2>1. /\ store' = None /\ leftover' = (leftover \/ store # None \/ waiting)
        /\ UNCHANGED <<ways, waiting, goal, sorted, opened>>
    BY <1>7 DEF ChangeTab
  <2>2. WaysInv'
    BY <2>1 DEF WaysInv
  <2>3. GoalInv'
    BY <2>1 DEF GoalInv
  <2>4. QED
    BY <2>2, <2>3
<1>8. CASE SortStore
  <2>1. /\ store # None /\ sorted' = ~sorted /\ opened' = [opened EXCEPT !.sorted = ~sorted]
        /\ UNCHANGED <<store, ways, waiting, goal, leftover>>
    BY <1>8 DEF SortStore
  <2>2. opened' = [goal |-> opened.goal, sorted |-> sorted'] /\ ~waiting
    BY <2>1 DEF GoalInv, WaysInv
  <2>3. WaysInv'
    BY <2>1 DEF WaysInv
  <2>4. GoalInv'
    BY <2>1, <2>2 DEF GoalInv
  <2>5. QED
    BY <2>3, <2>4
<1>9. ASSUME NEW x \in Words \cup {None}, Type(x) PROVE WaysInv' /\ GoalInv'
  BY <1>9, QuietShell DEF Type
<1>10. CASE UNCHANGED shellVars
  BY <1>10, QuietShell DEF shellVars
<1>11. CASE UNCHANGED browseVars
  BY <1>11, QuietShell DEF browseVars, shellVars
<1>12. QED
  BY <1>1, <1>2, <1>3, <1>4, <1>5, <1>6, <1>7, <1>8, <1>9, <1>10, <1>11
     DEF BrowseNext, SearchAnswers, OpenShowcase, CloseShowcase, ShowcaseAnswers, OpenRecipes,
         CloseRecipes, AskRecipe, RecipeAnswers, LeaveRecipe, OpenProduct, CloseProduct,
         PickType, BackToTypes

LEMMA ShellInvariant == BrowseSpec => [](ProductInv /\ WaysInv /\ GoalInv)
<1>1. ProductInv /\ WaysInv /\ GoalInv /\ [BrowseNext]_browseVars
        => (ProductInv /\ WaysInv /\ GoalInv)'
  BY ProductStep, ShellStep
<1>2. QED
  BY <1>1, ShellInit, PTL DEF BrowseSpec

(* getStore is never cancelled, yet no answer for one store can come after
   another has been asked for: the spinner covers everything that asks. *)
THEOREM BrowseOneStore == BrowseSpec => []OneStoreAtATime
<1>1. WaysInv => OneStoreAtATime
  BY DEF WaysInv, OneStoreAtATime
<1>2. QED
  BY <1>1, ShellInvariant, PTL

(* The category and the order a store opens with are those it was asked for with,
   unless an earlier store was left by the tab bar or did not open. *)
THEOREM BrowseOpensAsAsked == BrowseSpec => []OpensAsAsked
<1>1. GoalInv => OpensAsAsked
  BY DEF GoalInv, OpensAsAsked
<1>2. QED
  BY <1>1, ShellInvariant, PTL

-----------------------------------------------------------------------------
(* Types: what the tabs keep for themselves, and that they keep it only while
   they are shown. *)

PlaceTyped ==
    /\ place \in Tabs /\ store \in Stores \cup {None}
    /\ ways \in Seq(Way) /\ waiting \in BOOLEAN
    /\ goal \in Goals \cup {None} /\ sorted \in BOOLEAN /\ word \in Words \cup {None}
    /\ opened \in [goal : Goals \cup {None}, sorted : BOOLEAN] /\ leftover \in BOOLEAN

AnswersTyped ==
    /\ answers \in Answers
    /\ Len(answers.featured) <= MaxFlights /\ Len(answers.searches) <= MaxFlights

GridTyped == grid.type \in {TypeOf[s] : s \in Stores} \cup {None} /\ grid.stores \in BOOLEAN

HiddenInv ==
    /\ ~AtHome => home = NoHome /\ answers = NoAnswers
    /\ ~(TabShown /\ place = "categories") => grid = NoGrid

BrowseTypes ==
    PlaceTyped /\ home \in Home /\ AnswersTyped /\ GridTyped /\ flops \in 0 .. MaxFlops /\ HiddenInv

LEMMA BrowseTypesAre == BrowseTypes => BrowseTypeOK
<1> SUFFICES ASSUME BrowseTypes PROVE BrowseTypeOK
  OBVIOUS
<1>1. place # "home" \/ store # None \/ waiting => home = NoHome /\ answers = NoAnswers
  BY DEF BrowseTypes, HiddenInv, AtHome, TabShown
<1>2. place # "categories" \/ store # None \/ waiting => grid = NoGrid
  BY DEF BrowseTypes, HiddenInv, TabShown
<1>3. QED
  BY <1>1, <1>2 DEF BrowseTypes, PlaceTyped, AnswersTyped, GridTyped, BrowseTypeOK

LEMMA NoHomeTyped ==
    /\ NoHome \in Home /\ NoAnswers \in Answers
    /\ NoAnswers.featured = <<>> /\ NoAnswers.searches = <<>> /\ NoAnswers.recipe = None
    /\ NoHome.showcase = None /\ NoHome.recipe = None /\ NoHome.recipes = FALSE
    /\ NoHome.product = None /\ NoHome.found = None /\ NoHome.fresh = {} /\ NoHome.late = {}
<1>1. <<>> \in Seq(Showcases) /\ <<>> \in Seq(Words)
  OBVIOUS
<1>2. QED
  BY <1>1 DEF NoHome, Home, NoAnswers, Answers

LEMMA StaleTyped ==
    ASSUME NEW h \in Home, NEW l
    PROVE  /\ Stale(h, l) \in Home
           /\ Stale(h, l).fresh = h.fresh \ {l} /\ Stale(h, l).late = h.late \ {l}
           /\ Stale(h, l).showcase = h.showcase /\ Stale(h, l).block = h.block
           /\ Stale(h, l).found = h.found
BY DEF Stale, Home

LEMMA MarkedTyped ==
    ASSUME NEW h \in Home, NEW l \in Lists, NEW s, NEW i, NEW ok \in BOOLEAN
    PROVE  /\ Marked(h, l, s, i, ok) \in Home
           /\ Marked(h, l, s, i, ok).showcase = h.showcase
           /\ Marked(h, l, s, i, ok).block = h.block
           /\ Marked(h, l, s, i, ok).found = h.found
BY DEF Marked, Home

(* The answer is the first of the newest request, or comes after it or fails. *)
LEMMA MarkedIs ==
    ASSUME NEW h \in Home, NEW l \in Lists, NEW s, NEW i, NEW ok \in BOOLEAN, NEW m,
           m = Marked(h, l, s, i, ok)
    PROVE  /\ l \in m.fresh \ m.late => l \notin h.fresh /\ ~(i < Len(s)) /\ ok
           /\ l \notin m.fresh => l \notin h.fresh /\ i < Len(s)
           /\ \A k \in Lists : k # l =>
                (k \in m.fresh <=> k \in h.fresh) /\ (k \in m.late <=> k \in h.late)
BY DEF Marked, Home

LEMMA LastOfTwo ==
    ASSUME NEW S, NEW a \in Seq(S), NEW b \in Seq(S), Len(b) # 0
    PROVE  (a \o b)[Len(a) + Len(b)] = b[Len(b)]
<1>1. Len(a) \in Nat /\ Len(b) \in Nat /\ Len(a) + Len(b) \in Len(a) + 1 .. Len(a) + Len(b)
  OBVIOUS
<1>2. QED
  BY <1>1

LEMMA SplitAt ==
    ASSUME NEW n \in Nat, NEW i \in 1 .. n, i < n
    PROVE  n - i # 0 /\ (i - 1) + (n - i) = n - 1 /\ n - i \in 1 .. n - i /\ i + (n - i) = n
OBVIOUS

(* One answer less is waited for, and the newest is the same if it was not it. *)
LEMMA RemoveAtIs ==
    ASSUME NEW S, NEW s \in Seq(S), NEW i \in DOMAIN s
    PROVE  /\ RemoveAt(s, i) \in Seq(S) /\ Len(RemoveAt(s, i)) = Len(s) - 1
           /\ i < Len(s) => RemoveAt(s, i)[Len(RemoveAt(s, i))] = s[Len(s)]
<1>1. i \in 1 .. Len(s) /\ Len(s) \in Nat
  OBVIOUS
<1> DEFINE a == SubSeq(s, 1, i - 1)
<1> DEFINE b == SubSeq(s, i + 1, Len(s))
<1>2. a \in Seq(S) /\ Len(a) = i - 1
  BY <1>1
<1>3. b \in Seq(S) /\ Len(b) = Len(s) - i /\ \A j \in 1 .. Len(s) - i : b[j] = s[i + j]
  BY <1>1
<1> HIDE DEF a, b
<1>4. RemoveAt(s, i) = a \o b
  BY DEF RemoveAt, a, b
<1>5. a \o b \in Seq(S) /\ Len(a \o b) = Len(s) - 1
  BY <1>1, <1>2, <1>3
<1>6. ASSUME i < Len(s) PROVE (a \o b)[Len(s) - 1] = s[Len(s)]
  <2>1. Len(b) # 0 /\ Len(a) + Len(b) = Len(s) - 1 /\ Len(b) \in 1 .. Len(s) - i /\ i + Len(b) = Len(s)
    BY <1>1, <1>2, <1>3, <1>6, SplitAt
  <2>2. (a \o b)[Len(a) + Len(b)] = b[Len(b)]
    BY <1>2, <1>3, <2>1, LastOfTwo
  <2>3. b[Len(b)] = s[i + Len(b)]
    BY <1>3, <2>1
  <2>4. QED
    BY <2>1, <2>2, <2>3
<1>7. QED
  BY <1>4, <1>5, <1>6

LEMMA HeadTail ==
    ASSUME NEW S, NEW s \in Seq(S), s # <<>> PROVE Head(s) \in S /\ Tail(s) \in Seq(S)
OBVIOUS

LEMMA BrowseTypesInitial == BrowseInit => BrowseTypes
<1> SUFFICES ASSUME BrowseInit PROVE BrowseTypes
  OBVIOUS
<1>1. PlaceTyped
  <2>1. ways = <<>> /\ <<>> \in Seq(Way)
    BY EmptySeq DEF BrowseInit
  <2>2. opened \in [goal : Goals \cup {None}, sorted : BOOLEAN]
    BY DEF BrowseInit
  <2>3. QED
    BY <2>1, <2>2 DEF BrowseInit, PlaceTyped, Tabs
<1>2. home \in Home /\ AnswersTyped
  BY NoHomeTyped, BrowseAssumption DEF BrowseInit, AnswersTyped
<1>3. GridTyped /\ HiddenInv
  BY DEF BrowseInit, GridTyped, HiddenInv, NoGrid
<1>4. flops \in 0 .. MaxFlops
  BY BrowseAssumption DEF BrowseInit
<1>5. QED
  BY <1>1, <1>2, <1>3, <1>4 DEF BrowseTypes

LEMMA FlopTyped == ASSUME flops \in 0 .. MaxFlops, Flop PROVE flops' \in 0 .. MaxFlops
BY BrowseAssumption DEF Flop

LEMMA QuietPlace == PlaceTyped /\ UNCHANGED shellVars => PlaceTyped'
BY DEF PlaceTyped, shellVars

(* A step of the home page alone. *)
LEMMA HomeStep ==
    ASSUME BrowseTypes, AtHome, home' \in Home, AnswersTyped', UNCHANGED <<shellVars, grid>>,
           flops' \in 0 .. MaxFlops
    PROVE  BrowseTypes'
<1>1. PlaceTyped' /\ GridTyped'
  BY QuietPlace DEF BrowseTypes, GridTyped
<1>2. HiddenInv'
  BY DEF BrowseTypes, HiddenInv, AtHome, TabShown, shellVars
<1>3. QED
  BY <1>1, <1>2 DEF BrowseTypes

(* A step that takes what was shown off the screen. *)
LEMMA UnmountedTyped ==
    ASSUME Unmounted, PlaceTyped', flops' \in 0 .. MaxFlops
    PROVE  BrowseTypes'
<1>1. home' = NoHome /\ answers' = NoAnswers /\ grid' = NoGrid
  BY DEF Unmounted
<1>2. home' \in Home /\ AnswersTyped'
  BY <1>1, NoHomeTyped, BrowseAssumption DEF AnswersTyped
<1>3. GridTyped' /\ HiddenInv'
  BY <1>1 DEF GridTyped, HiddenInv, NoGrid
<1>4. QED
  BY <1>2, <1>3 DEF BrowseTypes

(* What is on the home page is there because it is shown. *)
LEMMA HomeOnScreen ==
    ASSUME BrowseTypes,
           \/ home.showcase # None \/ home.recipe # None \/ home.product # None \/ home.recipes
           \/ answers.searches # <<>> \/ answers.featured # <<>> \/ answers.recipe # None
    PROVE  AtHome
BY NoHomeTyped DEF BrowseTypes, HiddenInv

(* The page looks for its word when it is shown again. *)
LEMMA RemountedTyped ==
    ASSUME BrowseTypes, ~AtHome, PlaceTyped', flops' \in 0 .. MaxFlops, Remounted,
           UNCHANGED <<place, word>>, grid = NoGrid, store' = None, ~waiting'
    PROVE  BrowseTypes'
<1>1. home = NoHome /\ answers = NoAnswers /\ home' = home /\ grid' = grid
  BY DEF BrowseTypes, HiddenInv, Remounted
<1>2. CASE place = "home" /\ word # None
  <2>1. answers' = [answers EXCEPT !.searches = <<word>>]
    BY <1>2 DEF Remounted
  <2>2. word \in Words /\ <<word>> \in Seq(Words) /\ Len(<<word>>) = 1
    BY <1>2 DEF BrowseTypes, PlaceTyped
  <2>3. answers' \in Answers /\ answers'.featured = <<>> /\ answers'.searches = <<word>>
    BY <1>1, <2>1, <2>2, NoHomeTyped DEF Answers
  <2>4. AnswersTyped'
    BY <2>2, <2>3, BrowseAssumption DEF AnswersTyped
  <2>5. HiddenInv' /\ GridTyped'
    BY <1>1, <1>2 DEF BrowseTypes, GridTyped, HiddenInv, AtHome, TabShown
  <2>6. QED
    BY <1>1, <2>4, <2>5 DEF BrowseTypes
<1>3. CASE ~(place = "home" /\ word # None)
  <2>1. answers' = answers
    BY <1>3 DEF Remounted
  <2>2. HiddenInv' /\ GridTyped' /\ AnswersTyped'
    BY <1>1, <2>1 DEF BrowseTypes, GridTyped, AnswersTyped, HiddenInv
  <2>3. QED
    BY <1>1, <2>2 DEF BrowseTypes
<1>4. QED
  BY <1>2, <1>3

LEMMA SearchClosedTyped ==
    ASSUME BrowseTypes, SearchClosed PROVE home' \in Home /\ AnswersTyped'
<1>1. PICK h : h = Stale(home, "search")
  OBVIOUS
<1>2. h \in Home
  BY <1>1, StaleTyped DEF BrowseTypes
<1>3. home' = [h EXCEPT !.found = None] /\ answers' = [answers EXCEPT !.searches = <<>>]
  BY <1>1 DEF SearchClosed
<1>4. home' \in Home
  BY <1>2, <1>3 DEF Home
<1>5. answers' \in Answers /\ answers'.featured = answers.featured /\ answers'.searches = <<>>
  BY <1>3, EmptySeq DEF BrowseTypes, AnswersTyped, Answers
<1>6. QED
  BY <1>4, <1>5, EmptySeq, BrowseAssumption DEF BrowseTypes, AnswersTyped

LEMMA ShellTypes ==
    ASSUME BrowseTypes, WaysInv,
           \/ GoToStore \/ StoreAnswers \/ StoreFails \/ CloseStore \/ SortStore
           \/ \E w \in Way : FromCart(w)
           \/ \E s \in Stores : OpenRow(s)
           \/ \E t \in Tabs : ChangeTab(t)
    PROVE  BrowseTypes'
<1> PlaceTyped /\ flops \in 0 .. MaxFlops
  BY DEF BrowseTypes
<1>1. ASSUME NEW w \in Way, Ways(w) PROVE ways' \in Seq(Way) /\ waiting' = TRUE /\ goal' = w.goal
                                           /\ w.goal \in Goals \cup {None} /\ Unmounted
  BY <1>1 DEF Ways, Way, PlaceTyped
<1>2. ASSUME GoToStore PROVE BrowseTypes'
  <2>1. PICK w : w = home.product
    OBVIOUS
  <2>2. w \in Way
    BY <1>2, <2>1 DEF GoToStore, BrowseTypes, Home
  <2>3. Ways(w) /\ UNCHANGED <<place, store, sorted, word, opened, leftover, flops>>
    BY <1>2, <2>1 DEF GoToStore
  <2>4. PlaceTyped' /\ Unmounted
    BY <1>1, <2>2, <2>3 DEF PlaceTyped
  <2>5. QED
    BY <2>3, <2>4, UnmountedTyped
<1>3. ASSUME NEW w \in Way, FromCart(w) PROVE BrowseTypes'
  <2>1. Ways(w) /\ place' = "home" /\ word' = None /\ UNCHANGED <<store, sorted, opened, leftover, flops>>
    BY <1>3 DEF FromCart
  <2>2. PlaceTyped' /\ Unmounted
    BY <1>1, <2>1 DEF PlaceTyped, Tabs
  <2>3. QED
    BY <2>1, <2>2, UnmountedTyped
<1>4. ASSUME StoreAnswers PROVE BrowseTypes'
  <2>1. PICK w : w = Head(ways)
    OBVIOUS
  <2>2. w \in Way /\ w.store \in Stores /\ w.goal \in Goals \cup {None} /\ Tail(ways) \in Seq(Way)
    <3>1. ways \in Seq(Way) /\ ways # <<>>
      BY <1>4 DEF StoreAnswers, PlaceTyped
    <3>2. w \in Way /\ Tail(ways) \in Seq(Way)
      BY <2>1, <3>1, HeadTail
    <3>3. QED
      BY <3>2 DEF Way
  <2>3. /\ store' = w.store /\ opened' = [goal |-> w.goal, sorted |-> FALSE]
        /\ ways' = Tail(ways) /\ waiting' = FALSE /\ Unmounted
        /\ UNCHANGED <<place, goal, sorted, word, leftover, flops>>
    BY <1>4, <2>1 DEF StoreAnswers
  <2>4. PlaceTyped'
    BY <2>2, <2>3 DEF PlaceTyped
  <2>5. QED
    BY <2>3, <2>4, UnmountedTyped
<1>5. ASSUME StoreFails PROVE BrowseTypes'
  <2>1. /\ ways # <<>> /\ store' = None /\ ways' = Tail(ways) /\ waiting' = FALSE
        /\ leftover' = TRUE /\ Remounted /\ Flop /\ UNCHANGED <<place, goal, sorted, word, opened>>
    BY <1>5 DEF StoreFails
  <2>2. Tail(ways) \in Seq(Way) /\ waiting
    <3>1. ways \in Seq(Way) /\ waiting = (ways # <<>>)
      BY DEF PlaceTyped, WaysInv
    <3>2. QED
      BY <2>1, <3>1, HeadTail
  <2>3. PlaceTyped' /\ ~AtHome /\ grid = NoGrid
    BY <2>1, <2>2 DEF PlaceTyped, AtHome, TabShown, BrowseTypes, HiddenInv
  <2>4. QED
    BY <2>1, <2>3, FlopTyped, RemountedTyped
<1>6. ASSUME NEW s \in Stores, OpenRow(s) PROVE BrowseTypes'
  <2>1. /\ store' = s /\ opened' = [goal |-> None, sorted |-> FALSE] /\ Unmounted
        /\ UNCHANGED <<place, ways, waiting, goal, sorted, word, leftover, flops>>
    BY <1>6 DEF OpenRow
  <2>2. PlaceTyped'
    BY <2>1 DEF PlaceTyped
  <2>3. QED
    BY <2>1, <2>2, UnmountedTyped
<1>7. ASSUME CloseStore PROVE BrowseTypes'
  <2>1. /\ store # None /\ store' = None /\ goal' = None /\ sorted' = FALSE /\ Remounted
        /\ UNCHANGED <<place, ways, waiting, word, opened, leftover, flops>>
    BY <1>7 DEF CloseStore, Forgets
  <2>2. ~waiting
    BY <2>1 DEF WaysInv
  <2>3. PlaceTyped' /\ ~AtHome /\ grid = NoGrid
    BY <2>1 DEF PlaceTyped, AtHome, TabShown, BrowseTypes, HiddenInv
  <2>4. QED
    BY <2>1, <2>2, <2>3, RemountedTyped
<1>8. ASSUME NEW t \in Tabs, ChangeTab(t) PROVE BrowseTypes'
  <2>1. /\ place' = t /\ store' = None /\ word' = None
        /\ leftover' = (leftover \/ store # None \/ waiting)
        /\ UNCHANGED <<ways, waiting, goal, sorted, opened, flops>>
    BY <1>8 DEF ChangeTab
  <2>2. PlaceTyped'
    BY <2>1 DEF PlaceTyped
  <2>3. CASE Unmounted
    BY <2>1, <2>2, <2>3, UnmountedTyped
  <2>4. CASE t = place /\ TabShown /\ SearchClosed /\ UNCHANGED grid
    <3>1. home' \in Home /\ AnswersTyped'
      BY <2>4, SearchClosedTyped
    <3>2. (AtHome' <=> AtHome) /\ (TabShown' <=> TabShown) /\ place' = place
      BY <2>1, <2>4 DEF AtHome, TabShown
    <3>3. ~AtHome => home' = NoHome /\ answers' = NoAnswers
      <4>1. SUFFICES ASSUME ~AtHome PROVE home' = NoHome /\ answers' = NoAnswers
        OBVIOUS
      <4>2. home = NoHome /\ answers = NoAnswers
        BY <4>1 DEF BrowseTypes, HiddenInv
      <4>3. home' = [Stale(NoHome, "search") EXCEPT !.found = None]
            /\ answers' = [NoAnswers EXCEPT !.searches = <<>>]
        BY <2>4, <4>2 DEF SearchClosed
      <4>4. QED
        BY <4>3 DEF Stale, NoHome, NoAnswers
    <3>4. HiddenInv' /\ GridTyped'
      BY <2>4, <3>2, <3>3 DEF BrowseTypes, HiddenInv, GridTyped
    <3>5. QED
      BY <2>1, <2>2, <3>1, <3>4 DEF BrowseTypes
  <2>5. QED
    BY <1>8, <2>3, <2>4 DEF ChangeTab
<1>9. ASSUME SortStore PROVE BrowseTypes'
  <2>1. /\ store # None /\ sorted' = ~sorted /\ opened' = [opened EXCEPT !.sorted = ~sorted]
        /\ UNCHANGED <<place, store, ways, waiting, goal, word, leftover, home, answers, grid, flops>>
    BY <1>9 DEF SortStore
  <2>2. PlaceTyped'
    BY <2>1 DEF PlaceTyped
  <2>3. HiddenInv' /\ GridTyped' /\ AnswersTyped'
    BY <2>1 DEF BrowseTypes, HiddenInv, GridTyped, AnswersTyped, AtHome, TabShown
  <2>4. QED
    BY <2>1, <2>2, <2>3 DEF BrowseTypes
<1>10. QED
  BY <1>2, <1>3, <1>4, <1>5, <1>6, <1>7, <1>8, <1>9

LEMMA AskedTyped ==
    ASSUME NEW S, NEW s \in Seq(S), NEW x \in S, Len(s) < MaxFlights
    PROVE  /\ Asked(s, x) \in Seq(S) /\ Len(Asked(s, x)) <= MaxFlights
           /\ Asked(s, x) # <<>> /\ Asked(s, x)[Len(Asked(s, x))] = x
BY BrowseAssumption DEF Asked

(* The fields of the requests, replaced one by one. *)
LEMMA AnswersWith ==
    ASSUME AnswersTyped
    PROVE  /\ answers.searches \in Seq(Words) /\ answers.featured \in Seq(Showcases)
           /\ \A s \in Seq(Words) : Len(s) <= MaxFlights =>
                /\ [answers EXCEPT !.searches = s] \in Answers
                /\ [answers EXCEPT !.searches = s].searches = s
                /\ [answers EXCEPT !.searches = s].featured = answers.featured
           /\ \A s \in Seq(Showcases) : Len(s) <= MaxFlights =>
                /\ [answers EXCEPT !.featured = s] \in Answers
                /\ [answers EXCEPT !.featured = s].featured = s
                /\ [answers EXCEPT !.featured = s].searches = answers.searches
           /\ \A r \in Recipes \cup {None} :
                /\ [answers EXCEPT !.recipe = r] \in Answers
                /\ [answers EXCEPT !.recipe = r].featured = answers.featured
                /\ [answers EXCEPT !.recipe = r].searches = answers.searches
BY DEF AnswersTyped, Answers

LEMMA RemovedTyped ==
    ASSUME NEW S, NEW s \in Seq(S), NEW i \in DOMAIN s, Len(s) <= MaxFlights
    PROVE  RemoveAt(s, i) \in Seq(S) /\ Len(RemoveAt(s, i)) <= MaxFlights
<1>1. RemoveAt(s, i) \in Seq(S) /\ Len(RemoveAt(s, i)) = Len(s) - 1 /\ Len(s) \in Nat
  BY RemoveAtIs
<1>2. Len(s) - 1 <= MaxFlights
  BY <1>1, BrowseAssumption
<1>3. QED
  BY <1>1, <1>2

LEMMA SearchTypes ==
    ASSUME BrowseTypes,
           \/ \E x \in Words \cup {None} : Type(x) \/ \E i \in 1 .. MaxFlights : SearchAnswers(i, x)
           \/ \E k \in Showcases : OpenShowcase(k)
           \/ CloseShowcase
           \/ \E k \in Showcases \cup {None}, i \in 1 .. MaxFlights : ShowcaseAnswers(i, k)
    PROVE  BrowseTypes'
<1> PlaceTyped /\ AnswersTyped /\ home \in Home /\ flops \in 0 .. MaxFlops
  BY DEF BrowseTypes
<1>1. ASSUME NEW x \in Words \cup {None}, Type(x) PROVE BrowseTypes'
  <2>1. word' = x /\ UNCHANGED <<place, store, ways, waiting, goal, sorted, opened, leftover, grid, flops>>
    BY <1>1 DEF Type
  <2>2. PlaceTyped'
    BY <2>1 DEF PlaceTyped
  <2>3. CASE ~AtHome
    <3>1. UNCHANGED <<home, answers>>
      BY <1>1, <2>3 DEF Type
    <3>2. HiddenInv' /\ GridTyped' /\ AnswersTyped'
      BY <2>1, <3>1 DEF BrowseTypes, HiddenInv, GridTyped, AnswersTyped, AtHome, TabShown
    <3>3. QED
      BY <2>1, <2>2, <3>1, <3>2 DEF BrowseTypes
  <2>4. CASE AtHome
    <3>1. HiddenInv'
      BY <2>1, <2>4 DEF BrowseTypes, HiddenInv, AtHome, TabShown
    <3>2. home' \in Home /\ AnswersTyped'
      <4>1. CASE x = None
        BY <1>1, <2>4, <4>1, SearchClosedTyped DEF Type
      <4>2. CASE x # None
        <5>1. /\ Len(answers.searches) < MaxFlights
              /\ home' = Stale(home, "search")
              /\ answers' = [answers EXCEPT !.searches = Asked(answers.searches, x)]
          BY <1>1, <2>4, <4>2 DEF Type
        <5>2. home' \in Home
          BY <5>1, StaleTyped
        <5>3. answers.searches \in Seq(Words) /\ x \in Words
          BY <4>2, AnswersWith
        <5>4. PICK s \in Seq(Words) : s = Asked(answers.searches, x) /\ Len(s) <= MaxFlights
          BY <5>1, <5>3, AskedTyped
        <5>5. answers' \in Answers /\ answers'.searches = s /\ answers'.featured = answers.featured
          BY <5>1, <5>4, AnswersWith
        <5>6. QED
          BY <5>2, <5>4, <5>5 DEF AnswersTyped
      <4>3. QED
        BY <4>1, <4>2
    <3>3. GridTyped'
      BY <2>1 DEF BrowseTypes, GridTyped
    <3>4. QED
      BY <2>1, <2>2, <3>1, <3>2, <3>3 DEF BrowseTypes
  <2>5. QED
    BY <2>3, <2>4
<1>2. ASSUME NEW x \in Words \cup {None}, NEW i \in 1 .. MaxFlights, SearchAnswers(i, x) PROVE BrowseTypes'
  <2>1. /\ i \in DOMAIN answers.searches /\ UNCHANGED <<shellVars, grid>>
        /\ answers' = [answers EXCEPT !.searches = RemoveAt(answers.searches, i)]
        /\ home' = [Marked(home, "search", answers.searches, i, x # None) EXCEPT !.found = x]
    BY <1>2 DEF SearchAnswers
  <2>2. flops' \in 0 .. MaxFlops
    BY <1>2, FlopTyped DEF SearchAnswers
  <2>3. answers.searches \in Seq(Words) /\ Len(answers.searches) <= MaxFlights
    BY AnswersWith DEF AnswersTyped
  <2>4. answers.searches # <<>>
    BY <2>1, <2>3
  <2>5. PICK m : m = Marked(home, "search", answers.searches, i, x # None)
    OBVIOUS
  <2>6. m \in Home
    BY <2>5, MarkedTyped DEF Lists
  <2>7. home' \in Home
    BY <2>1, <2>5, <2>6 DEF Home
  <2>8. PICK s \in Seq(Words) : s = RemoveAt(answers.searches, i) /\ Len(s) <= MaxFlights
    BY <2>1, <2>3, RemovedTyped
  <2>9. answers' \in Answers /\ answers'.searches = s /\ answers'.featured = answers.featured
    BY <2>1, <2>8, AnswersWith
  <2>10. AnswersTyped'
    BY <2>8, <2>9 DEF AnswersTyped
  <2>11. QED
    BY <2>1, <2>2, <2>4, <2>7, <2>10, HomeOnScreen, HomeStep
<1>3. ASSUME NEW k \in Showcases, OpenShowcase(k) PROVE BrowseTypes'
  <2>1. /\ AtHome /\ Len(answers.featured) < MaxFlights /\ UNCHANGED <<shellVars, grid, flops>>
        /\ home' = [Stale(home, "showcase") EXCEPT !.showcase = k]
        /\ answers' = [answers EXCEPT !.featured = Asked(answers.featured, k)]
    BY <1>3 DEF OpenShowcase
  <2>2. PICK h : h = Stale(home, "showcase")
    OBVIOUS
  <2>3. h \in Home
    BY <2>2, StaleTyped
  <2>4. home' \in Home
    BY <2>1, <2>2, <2>3 DEF Home
  <2>5. answers.featured \in Seq(Showcases)
    BY AnswersWith
  <2>6. PICK s \in Seq(Showcases) : s = Asked(answers.featured, k) /\ Len(s) <= MaxFlights
    BY <2>1, <2>5, AskedTyped
  <2>7. answers' \in Answers /\ answers'.featured = s /\ answers'.searches = answers.searches
    BY <2>1, <2>6, AnswersWith
  <2>8. AnswersTyped'
    BY <2>6, <2>7 DEF AnswersTyped
  <2>9. QED
    BY <2>1, <2>4, <2>8, HomeStep
<1>4. ASSUME CloseShowcase PROVE BrowseTypes'
  <2>1. /\ home.showcase # None /\ UNCHANGED <<shellVars, answers, grid, flops>>
        /\ home' = [Stale(home, "showcase") EXCEPT !.showcase = None, !.block = None]
    BY <1>4 DEF CloseShowcase
  <2>2. PICK h : h = Stale(home, "showcase")
    OBVIOUS
  <2>3. h \in Home
    BY <2>2, StaleTyped
  <2>4. home' \in Home /\ AnswersTyped'
    BY <2>1, <2>2, <2>3 DEF Home, AnswersTyped
  <2>5. QED
    BY <2>1, <2>4, HomeOnScreen, HomeStep
<1>5. ASSUME NEW k \in Showcases \cup {None}, NEW i \in 1 .. MaxFlights, ShowcaseAnswers(i, k)
      PROVE  BrowseTypes'
  <2>1. /\ i \in DOMAIN answers.featured /\ UNCHANGED <<shellVars, grid>>
        /\ answers' = [answers EXCEPT !.featured = RemoveAt(answers.featured, i)]
        /\ home' = [Marked(home, "showcase", answers.featured, i, k # None) EXCEPT !.block = k]
    BY <1>5 DEF ShowcaseAnswers
  <2>2. flops' \in 0 .. MaxFlops
    BY <1>5, FlopTyped DEF ShowcaseAnswers
  <2>3. answers.featured \in Seq(Showcases) /\ Len(answers.featured) <= MaxFlights
    BY AnswersWith DEF AnswersTyped
  <2>4. answers.featured # <<>>
    BY <2>1, <2>3
  <2>5. PICK m : m = Marked(home, "showcase", answers.featured, i, k # None)
    OBVIOUS
  <2>6. m \in Home
    BY <2>5, MarkedTyped DEF Lists
  <2>7. home' \in Home
    BY <2>1, <2>5, <2>6 DEF Home
  <2>8. PICK s \in Seq(Showcases) : s = RemoveAt(answers.featured, i) /\ Len(s) <= MaxFlights
    BY <2>1, <2>3, RemovedTyped
  <2>9. answers' \in Answers /\ answers'.featured = s /\ answers'.searches = answers.searches
    BY <2>1, <2>8, AnswersWith
  <2>10. AnswersTyped'
    BY <2>8, <2>9 DEF AnswersTyped
  <2>11. QED
    BY <2>1, <2>2, <2>4, <2>7, <2>10, HomeOnScreen, HomeStep
<1>6. QED
  BY <1>1, <1>2, <1>3, <1>4, <1>5

LEMMA ProductTypes ==
    ASSUME BrowseTypes,
           \/ OpenRecipes \/ CloseRecipes \/ RecipeAnswers \/ LeaveRecipe \/ CloseProduct
           \/ \E r \in Recipes : AskRecipe(r)
           \/ \E w \in Way : OpenProduct(w)
    PROVE  BrowseTypes'
<1> AnswersTyped /\ home \in Home /\ flops \in 0 .. MaxFlops
  BY DEF BrowseTypes
<1>1. ASSUME answers' = answers PROVE AnswersTyped'
  BY <1>1 DEF AnswersTyped
<1>2. ASSUME OpenRecipes PROVE BrowseTypes'
  <2>1. AtHome /\ home' = [home EXCEPT !.recipes = TRUE] /\ UNCHANGED <<shellVars, answers, grid, flops>>
    BY <1>2 DEF OpenRecipes
  <2>2. home' \in Home
    BY <2>1 DEF Home
  <2>3. QED
    BY <1>1, <2>1, <2>2, HomeStep
<1>3. ASSUME CloseRecipes PROVE BrowseTypes'
  <2>1. home.recipes /\ home' = [home EXCEPT !.recipes = FALSE] /\ UNCHANGED <<shellVars, answers, grid, flops>>
    BY <1>3 DEF CloseRecipes
  <2>2. home' \in Home
    BY <2>1 DEF Home
  <2>3. QED
    BY <1>1, <2>1, <2>2, HomeOnScreen, HomeStep
<1>4. ASSUME RecipeAnswers PROVE BrowseTypes'
  <2>1. answers.recipe # None /\ answers' = [answers EXCEPT !.recipe = None] /\ UNCHANGED <<shellVars, grid>>
        /\ home' \in {home, [home EXCEPT !.recipe = answers.recipe]}
    BY <1>4 DEF RecipeAnswers
  <2>2. flops' \in 0 .. MaxFlops
    BY <1>4, FlopTyped DEF RecipeAnswers
  <2>3. answers.recipe \in Recipes
    BY <2>1 DEF AnswersTyped, Answers
  <2>4. home' \in Home
    BY <2>1, <2>3 DEF Home
  <2>5. AnswersTyped'
    BY <2>1, AnswersWith DEF AnswersTyped
  <2>6. QED
    BY <2>1, <2>2, <2>4, <2>5, HomeOnScreen, HomeStep
<1>5. ASSUME LeaveRecipe PROVE BrowseTypes'
  <2>1. home.recipe # None /\ home' = [home EXCEPT !.recipe = None] /\ UNCHANGED <<shellVars, answers, grid, flops>>
    BY <1>5 DEF LeaveRecipe
  <2>2. home' \in Home
    BY <2>1 DEF Home
  <2>3. QED
    BY <1>1, <2>1, <2>2, HomeOnScreen, HomeStep
<1>6. ASSUME CloseProduct PROVE BrowseTypes'
  <2>1. home.product # None /\ home' = [home EXCEPT !.product = None] /\ UNCHANGED <<shellVars, answers, grid, flops>>
    BY <1>6 DEF CloseProduct
  <2>2. home' \in Home
    BY <2>1 DEF Home
  <2>3. QED
    BY <1>1, <2>1, <2>2, HomeOnScreen, HomeStep
<1>7. ASSUME NEW r \in Recipes, AskRecipe(r) PROVE BrowseTypes'
  <2>1. AtHome /\ answers' = [answers EXCEPT !.recipe = r] /\ UNCHANGED <<shellVars, home, grid, flops>>
    BY <1>7 DEF AskRecipe
  <2>2. AnswersTyped'
    BY <2>1, AnswersWith DEF AnswersTyped
  <2>3. QED
    BY <2>1, <2>2, HomeStep
<1>8. ASSUME NEW w \in Way, OpenProduct(w) PROVE BrowseTypes'
  <2>1. AtHome /\ home' = [home EXCEPT !.product = w] /\ UNCHANGED <<shellVars, answers, grid, flops>>
    BY <1>8 DEF OpenProduct
  <2>2. home' \in Home
    BY <2>1 DEF Home
  <2>3. QED
    BY <1>1, <2>1, <2>2, HomeStep
<1>9. QED
  BY <1>2, <1>3, <1>4, <1>5, <1>6, <1>7, <1>8

LEMMA BrowseTypesStep ==
    ASSUME BrowseTypes, WaysInv, [BrowseNext]_browseVars
    PROVE  BrowseTypes'
<1>1. ASSUME UNCHANGED <<shellVars, home, answers, flops>>, GridTyped',
             (~(TabShown /\ place = "categories") => grid' = grid)
      PROVE  BrowseTypes'
  <2>1. PlaceTyped' /\ AnswersTyped'
    BY <1>1, QuietPlace DEF BrowseTypes, AnswersTyped
  <2>2. HiddenInv'
    BY <1>1 DEF BrowseTypes, HiddenInv, AtHome, TabShown, shellVars
  <2>3. QED
    BY <1>1, <2>1, <2>2 DEF BrowseTypes
<1>2. ASSUME NEW s \in Stores, PickType(TypeOf[s]) PROVE BrowseTypes'
  <2>1. /\ TabShown /\ place = "categories" /\ grid' = [type |-> TypeOf[s], stores |-> TRUE]
        /\ UNCHANGED <<shellVars, home, answers, flops>>
    BY <1>2 DEF PickType
  <2>2. GridTyped'
    BY <2>1 DEF GridTyped
  <2>3. QED
    BY <1>1, <2>1, <2>2
<1>3. ASSUME BackToTypes PROVE BrowseTypes'
  <2>1. /\ grid.stores /\ grid' = [grid EXCEPT !.stores = FALSE]
        /\ UNCHANGED <<shellVars, home, answers, flops>>
    BY <1>3 DEF BackToTypes
  <2>2. TabShown /\ place = "categories"
    BY <2>1 DEF BrowseTypes, HiddenInv, NoGrid
  <2>3. grid'.type \in {TypeOf[s] : s \in Stores} \cup {None} /\ grid'.stores \in BOOLEAN
    BY <2>1 DEF BrowseTypes, GridTyped
  <2>4. QED
    BY <1>1, <2>1, <2>2, <2>3 DEF GridTyped
<1>4. CASE UNCHANGED browseVars
  BY <1>1, <1>4 DEF browseVars, BrowseTypes, GridTyped
<1>5. QED
  BY <1>2, <1>3, <1>4, ShellTypes, SearchTypes, ProductTypes DEF BrowseNext

-----------------------------------------------------------------------------
(* Until the newest request of a list has been answered it is the last one that
   is waited for, and it is for what the screen is of. *)

SearchInv ==
    /\ "search" \notin home.fresh /\ answers.searches # <<>> =>
          answers.searches[Len(answers.searches)] = word
    /\ "search" \in home.fresh \ home.late => home.found = word

ShowcaseInv ==
    /\ home.showcase # None /\ "showcase" \notin home.fresh /\ answers.featured # <<>> =>
          answers.featured[Len(answers.featured)] = home.showcase
    /\ home.showcase # None /\ "showcase" \in home.fresh \ home.late =>
          home.block = home.showcase

(* Steps that touch neither list. *)
LEMMA QuietResults ==
    ASSUME SearchInv, ShowcaseInv, word' = word,
           answers'.searches = answers.searches, answers'.featured = answers.featured,
           home'.fresh = home.fresh, home'.late = home.late, home'.found = home.found,
           home'.showcase = home.showcase, home'.block = home.block
    PROVE  SearchInv' /\ ShowcaseInv'
BY DEF SearchInv, ShowcaseInv

(* Nothing is listed where nothing is shown. *)
LEMMA NoResults ==
    ASSUME home' = NoHome, answers'.featured = <<>>,
           answers'.searches # <<>> => answers'.searches[Len(answers'.searches)] = word'
    PROVE  SearchInv' /\ ShowcaseInv'
BY NoHomeTyped DEF SearchInv, ShowcaseInv

LEMMA UnmountedResults == Unmounted => SearchInv' /\ ShowcaseInv'
BY NoHomeTyped, NoResults DEF Unmounted

LEMMA RemountedResults ==
    ASSUME BrowseTypes, ~AtHome, Remounted, word' = word
    PROVE  SearchInv' /\ ShowcaseInv'
<1>1. home = NoHome /\ answers = NoAnswers /\ home' = home
  BY DEF BrowseTypes, HiddenInv, Remounted
<1>2. CASE place = "home" /\ word # None
  <2>1. answers' = [NoAnswers EXCEPT !.searches = <<word>>]
    BY <1>1, <1>2 DEF Remounted
  <2>2. answers'.featured = <<>> /\ answers'.searches = <<word>>
    BY <2>1 DEF NoAnswers
  <2>3. <<word>>[Len(<<word>>)] = word
    OBVIOUS
  <2>4. answers'.searches[Len(answers'.searches)] = word'
    BY <2>2, <2>3
  <2>5. QED
    BY <1>1, <2>2, <2>4, NoResults
<1>3. CASE ~(place = "home" /\ word # None)
  <2>1. answers' = NoAnswers
    BY <1>1, <1>3 DEF Remounted
  <2>2. QED
    BY <1>1, <2>1, NoHomeTyped, NoResults
<1>4. QED
  BY <1>2, <1>3

LEMMA SearchClosedResults ==
    ASSUME BrowseTypes, ShowcaseInv, SearchClosed
    PROVE  SearchInv' /\ ShowcaseInv'
<1>1. PICK h : h = Stale(home, "search")
  OBVIOUS
<1>2. /\ h \in Home /\ h.fresh = home.fresh \ {"search"} /\ h.late = home.late \ {"search"}
      /\ h.showcase = home.showcase /\ h.block = home.block
  BY <1>1, StaleTyped DEF BrowseTypes
<1>3. home' = [h EXCEPT !.found = None] /\ answers' = [answers EXCEPT !.searches = <<>>]
  BY <1>1 DEF SearchClosed
<1>4. /\ home'.fresh = h.fresh /\ home'.late = h.late
      /\ home'.showcase = h.showcase /\ home'.block = h.block
  BY <1>2, <1>3 DEF Home
<1>5. answers'.featured = answers.featured /\ answers'.searches = <<>>
  BY <1>3 DEF BrowseTypes, AnswersTyped, Answers
<1>6. SearchInv'
  BY <1>2, <1>4, <1>5 DEF SearchInv
<1>7. ShowcaseInv'
  BY <1>2, <1>4, <1>5 DEF ShowcaseInv
<1>8. QED
  BY <1>6, <1>7

LEMMA ResultsStep ==
    ASSUME BrowseTypes, WaysInv, SearchInv, ShowcaseInv, [BrowseNext]_browseVars
    PROVE  SearchInv' /\ ShowcaseInv'
<1> PlaceTyped /\ AnswersTyped /\ home \in Home
  BY DEF BrowseTypes
<1>1. CASE \/ GoToStore \/ StoreAnswers
           \/ \E w \in Way : FromCart(w)
           \/ \E s \in Stores : OpenRow(s)
  BY <1>1, UnmountedResults DEF GoToStore, FromCart, Ways, StoreAnswers, OpenRow
<1>2. CASE StoreFails
  <2>1. waiting /\ Remounted /\ word' = word
    BY <1>2 DEF StoreFails, WaysInv
  <2>2. QED
    BY <2>1, RemountedResults DEF AtHome, TabShown
<1>3. CASE CloseStore
  <2>1. store # None /\ Remounted /\ word' = word
    BY <1>3 DEF CloseStore
  <2>2. QED
    BY <2>1, RemountedResults DEF AtHome, TabShown
<1>4. ASSUME NEW t \in Tabs, ChangeTab(t) PROVE SearchInv' /\ ShowcaseInv'
  BY <1>4, UnmountedResults, SearchClosedResults DEF ChangeTab
<1>5. ASSUME NEW x \in Words \cup {None}, Type(x) PROVE SearchInv' /\ ShowcaseInv'
  <2>1. CASE ~AtHome
    <3>1. UNCHANGED <<home, answers>> /\ home = NoHome /\ answers = NoAnswers
      BY <1>5, <2>1 DEF Type, BrowseTypes, HiddenInv
    <3>2. QED
      BY <3>1, NoHomeTyped, NoResults
  <2>2. CASE AtHome /\ x = None
    BY <1>5, <2>2, SearchClosedResults DEF Type
  <2>3. CASE AtHome /\ x # None
    <3>1. /\ Len(answers.searches) < MaxFlights /\ word' = x
          /\ home' = Stale(home, "search")
          /\ answers' = [answers EXCEPT !.searches = Asked(answers.searches, x)]
      BY <1>5, <2>3 DEF Type
    <3>2. answers.searches \in Seq(Words) /\ x \in Words
      BY <2>3, AnswersWith
    <3>3. PICK s \in Seq(Words) : s = Asked(answers.searches, x) /\ Len(s) <= MaxFlights /\ s[Len(s)] = x
      BY <3>1, <3>2, AskedTyped
    <3>4. answers'.searches = s /\ answers'.featured = answers.featured
      BY <3>1, <3>3, AnswersWith
    <3>5. /\ home'.fresh = home.fresh \ {"search"} /\ home'.late = home.late \ {"search"}
          /\ home'.showcase = home.showcase /\ home'.block = home.block
      BY <3>1, StaleTyped
    <3>6. SearchInv'
      BY <3>1, <3>3, <3>4, <3>5 DEF SearchInv
    <3>7. ShowcaseInv'
      BY <3>4, <3>5 DEF ShowcaseInv
    <3>8. QED
      BY <3>6, <3>7
  <2>4. QED
    BY <2>1, <2>2, <2>3
<1>6. ASSUME NEW x \in Words \cup {None}, NEW i \in 1 .. MaxFlights, SearchAnswers(i, x)
      PROVE  SearchInv' /\ ShowcaseInv'
  <2>1. /\ i \in DOMAIN answers.searches /\ x \in {answers.searches[i], None} /\ word' = word
        /\ answers' = [answers EXCEPT !.searches = RemoveAt(answers.searches, i)]
        /\ home' = [Marked(home, "search", answers.searches, i, x # None) EXCEPT !.found = x]
    BY <1>6 DEF SearchAnswers, shellVars
  <2>2. answers.searches \in Seq(Words) /\ Len(answers.searches) <= MaxFlights
    BY AnswersWith DEF AnswersTyped
  <2>3. PICK m : m = Marked(home, "search", answers.searches, i, x # None)
    OBVIOUS
  <2>4. /\ m \in Home /\ m.showcase = home.showcase /\ m.block = home.block
        /\ "search" \in m.fresh \ m.late =>
              "search" \notin home.fresh /\ ~(i < Len(answers.searches)) /\ x # None
        /\ "search" \notin m.fresh => "search" \notin home.fresh /\ i < Len(answers.searches)
        /\ ("showcase" \in m.fresh <=> "showcase" \in home.fresh)
        /\ ("showcase" \in m.late <=> "showcase" \in home.late)
    <3>1. PICK ok \in BOOLEAN : ok = (x # None)
      OBVIOUS
    <3>2. m = Marked(home, "search", answers.searches, i, ok) /\ "search" \in Lists
      BY <2>3, <3>1 DEF Lists
    <3>3. m \in Home /\ m.showcase = home.showcase /\ m.block = home.block
      BY <3>2, MarkedTyped
    <3>4. /\ "search" \in m.fresh \ m.late =>
               "search" \notin home.fresh /\ ~(i < Len(answers.searches)) /\ ok
          /\ "search" \notin m.fresh => "search" \notin home.fresh /\ i < Len(answers.searches)
          /\ \A j \in Lists : j # "search" =>
               (j \in m.fresh <=> j \in home.fresh) /\ (j \in m.late <=> j \in home.late)
      BY <3>2, MarkedIs
    <3>5. "showcase" \in Lists /\ "showcase" # "search"
      BY DEF Lists
    <3>6. QED
      BY <3>1, <3>3, <3>4, <3>5
  <2>5. /\ home'.fresh = m.fresh /\ home'.late = m.late /\ home'.found = x
        /\ home'.showcase = m.showcase /\ home'.block = m.block
    BY <2>1, <2>3, <2>4 DEF Home
  <2>6. PICK s \in Seq(Words) : /\ s = RemoveAt(answers.searches, i) /\ Len(s) <= MaxFlights
                                /\ i < Len(answers.searches) =>
                                     s[Len(s)] = answers.searches[Len(answers.searches)]
    BY <2>1, <2>2, RemovedTyped, RemoveAtIs
  <2>7. answers'.searches = s /\ answers'.featured = answers.featured
    BY <2>1, <2>6, AnswersWith
  <2>8. answers.searches # <<>> /\ (~(i < Len(answers.searches)) => i = Len(answers.searches))
    BY <2>1, <2>2
  <2>9. SearchInv'
    <3>1. "search" \notin m.fresh => s[Len(s)] = word
      BY <2>4, <2>6, <2>8 DEF SearchInv
    <3>2. "search" \in m.fresh \ m.late => x = word
      BY <2>1, <2>4, <2>8 DEF SearchInv
    <3>3. QED
      BY <2>1, <2>5, <2>7, <3>1, <3>2 DEF SearchInv
  <2>10. ShowcaseInv'
    BY <2>4, <2>5, <2>7 DEF ShowcaseInv
  <2>11. QED
    BY <2>9, <2>10
<1>7. ASSUME NEW k \in Showcases, OpenShowcase(k) PROVE SearchInv' /\ ShowcaseInv'
  <2>1. /\ Len(answers.featured) < MaxFlights /\ word' = word
        /\ home' = [Stale(home, "showcase") EXCEPT !.showcase = k]
        /\ answers' = [answers EXCEPT !.featured = Asked(answers.featured, k)]
    BY <1>7 DEF OpenShowcase, shellVars
  <2>2. PICK h : h = Stale(home, "showcase")
    OBVIOUS
  <2>3. /\ h \in Home /\ h.fresh = home.fresh \ {"showcase"} /\ h.late = home.late \ {"showcase"}
        /\ h.found = home.found
    BY <2>2, StaleTyped
  <2>4. home'.fresh = h.fresh /\ home'.late = h.late /\ home'.found = h.found /\ home'.showcase = k
    BY <2>1, <2>2, <2>3 DEF Home
  <2>5. PICK s \in Seq(Showcases) : s = Asked(answers.featured, k) /\ Len(s) <= MaxFlights /\ s[Len(s)] = k
    BY <2>1, AnswersWith, AskedTyped
  <2>6. answers'.featured = s /\ answers'.searches = answers.searches
    BY <2>1, <2>5, AnswersWith
  <2>7. SearchInv'
    BY <2>1, <2>3, <2>4, <2>6 DEF SearchInv
  <2>8. ShowcaseInv'
    BY <2>3, <2>4, <2>5, <2>6 DEF ShowcaseInv
  <2>9. QED
    BY <2>7, <2>8
<1>8. ASSUME CloseShowcase PROVE SearchInv' /\ ShowcaseInv'
  <2>1. /\ word' = word /\ answers' = answers
        /\ home' = [Stale(home, "showcase") EXCEPT !.showcase = None, !.block = None]
    BY <1>8 DEF CloseShowcase, shellVars
  <2>2. PICK h : h = Stale(home, "showcase")
    OBVIOUS
  <2>3. /\ h \in Home /\ h.fresh = home.fresh \ {"showcase"} /\ h.late = home.late \ {"showcase"}
        /\ h.found = home.found
    BY <2>2, StaleTyped
  <2>4. home'.fresh = h.fresh /\ home'.late = h.late /\ home'.found = h.found /\ home'.showcase = None
    BY <2>1, <2>2, <2>3 DEF Home
  <2>5. QED
    BY <2>1, <2>3, <2>4 DEF SearchInv, ShowcaseInv
<1>9. ASSUME NEW k \in Showcases \cup {None}, NEW i \in 1 .. MaxFlights, ShowcaseAnswers(i, k)
      PROVE  SearchInv' /\ ShowcaseInv'
  <2>1. /\ i \in DOMAIN answers.featured /\ k \in {answers.featured[i], None} /\ word' = word
        /\ answers' = [answers EXCEPT !.featured = RemoveAt(answers.featured, i)]
        /\ home' = [Marked(home, "showcase", answers.featured, i, k # None) EXCEPT !.block = k]
    BY <1>9 DEF ShowcaseAnswers, shellVars
  <2>2. answers.featured \in Seq(Showcases) /\ Len(answers.featured) <= MaxFlights
    BY AnswersWith DEF AnswersTyped
  <2>3. PICK m : m = Marked(home, "showcase", answers.featured, i, k # None)
    OBVIOUS
  <2>4. /\ m \in Home /\ m.showcase = home.showcase /\ m.found = home.found
        /\ "showcase" \in m.fresh \ m.late =>
              "showcase" \notin home.fresh /\ ~(i < Len(answers.featured)) /\ k # None
        /\ "showcase" \notin m.fresh => "showcase" \notin home.fresh /\ i < Len(answers.featured)
        /\ ("search" \in m.fresh <=> "search" \in home.fresh)
        /\ ("search" \in m.late <=> "search" \in home.late)
    <3>1. PICK ok \in BOOLEAN : ok = (k # None)
      OBVIOUS
    <3>2. m = Marked(home, "showcase", answers.featured, i, ok) /\ "showcase" \in Lists
      BY <2>3, <3>1 DEF Lists
    <3>3. m \in Home /\ m.showcase = home.showcase /\ m.found = home.found
      BY <3>2, MarkedTyped
    <3>4. /\ "showcase" \in m.fresh \ m.late =>
               "showcase" \notin home.fresh /\ ~(i < Len(answers.featured)) /\ ok
          /\ "showcase" \notin m.fresh => "showcase" \notin home.fresh /\ i < Len(answers.featured)
          /\ \A j \in Lists : j # "showcase" =>
               (j \in m.fresh <=> j \in home.fresh) /\ (j \in m.late <=> j \in home.late)
      BY <3>2, MarkedIs
    <3>5. "search" \in Lists /\ "search" # "showcase"
      BY DEF Lists
    <3>6. QED
      BY <3>1, <3>3, <3>4, <3>5
  <2>5. /\ home'.fresh = m.fresh /\ home'.late = m.late /\ home'.found = m.found
        /\ home'.showcase = m.showcase /\ home'.block = k
    BY <2>1, <2>3, <2>4 DEF Home
  <2>6. PICK s \in Seq(Showcases) : /\ s = RemoveAt(answers.featured, i) /\ Len(s) <= MaxFlights
                                    /\ i < Len(answers.featured) =>
                                         s[Len(s)] = answers.featured[Len(answers.featured)]
    BY <2>1, <2>2, RemovedTyped, RemoveAtIs
  <2>7. answers'.featured = s /\ answers'.searches = answers.searches
    BY <2>1, <2>6, AnswersWith
  <2>8. answers.featured # <<>> /\ (~(i < Len(answers.featured)) => i = Len(answers.featured))
    BY <2>1, <2>2
  <2>9. ShowcaseInv'
    <3>1. home.showcase # None /\ "showcase" \notin m.fresh => s[Len(s)] = home.showcase
      BY <2>4, <2>6, <2>8 DEF ShowcaseInv
    <3>2. home.showcase # None /\ "showcase" \in m.fresh \ m.late => k = home.showcase
      BY <2>1, <2>4, <2>8 DEF ShowcaseInv
    <3>3. QED
      BY <2>4, <2>5, <2>7, <3>1, <3>2 DEF ShowcaseInv
  <2>10. SearchInv'
    BY <2>1, <2>4, <2>5, <2>7 DEF SearchInv
  <2>11. QED
    BY <2>9, <2>10
<1>10. CASE \/ SortStore \/ BackToTypes \/ OpenRecipes \/ CloseRecipes \/ LeaveRecipe \/ CloseProduct
            \/ \E s \in Stores : PickType(TypeOf[s])
            \/ \E w \in Way : OpenProduct(w)
  <2>1. /\ answers' = answers /\ word' = word
        /\ \/ home' = home
           \/ \E b \in BOOLEAN : home' = [home EXCEPT !.recipes = b]
           \/ home' = [home EXCEPT !.recipe = None]
           \/ \E w : home' = [home EXCEPT !.product = w]
    BY <1>10 DEF SortStore, BackToTypes, OpenRecipes, CloseRecipes, LeaveRecipe, CloseProduct,
                 PickType, OpenProduct, shellVars
  <2>2. /\ home'.fresh = home.fresh /\ home'.late = home.late /\ home'.found = home.found
        /\ home'.showcase = home.showcase /\ home'.block = home.block
    BY <2>1 DEF Home
  <2>3. QED
    BY <2>1, <2>2, QuietResults
<1>11. CASE RecipeAnswers \/ \E r \in Recipes : AskRecipe(r)
  <2>1. /\ word' = word
        /\ \E r : answers' = [answers EXCEPT !.recipe = r]
        /\ home' = home \/ \E r : home' = [home EXCEPT !.recipe = r]
    BY <1>11 DEF RecipeAnswers, AskRecipe, shellVars
  <2>2. /\ home'.fresh = home.fresh /\ home'.late = home.late /\ home'.found = home.found
        /\ home'.showcase = home.showcase /\ home'.block = home.block
    BY <2>1 DEF Home
  <2>3. answers'.searches = answers.searches /\ answers'.featured = answers.featured
    BY <2>1 DEF AnswersTyped, Answers
  <2>4. QED
    BY <2>1, <2>2, <2>3, QuietResults
<1>12. CASE UNCHANGED browseVars
  BY <1>12, QuietResults DEF browseVars, shellVars
<1>13. QED
  BY <1>1, <1>2, <1>3, <1>4, <1>5, <1>6, <1>7, <1>8, <1>9, <1>10, <1>11, <1>12 DEF BrowseNext

LEMMA ResultsInvariant == BrowseSpec => [](WaysInv /\ BrowseTypes /\ SearchInv /\ ShowcaseInv)
<1>1. BrowseInit => BrowseTypes /\ SearchInv /\ ShowcaseInv
  <2>1. BrowseInit => home = NoHome /\ answers = NoAnswers
    BY DEF BrowseInit
  <2>2. QED
    BY <2>1, BrowseTypesInitial, NoHomeTyped DEF SearchInv, ShowcaseInv
<1>2. WaysInv /\ BrowseTypes /\ SearchInv /\ ShowcaseInv /\ [BrowseNext]_browseVars
        => (BrowseTypes /\ SearchInv /\ ShowcaseInv)'
  BY BrowseTypesStep, ResultsStep
<1>3. QED
  BY <1>1, <1>2, ShellInvariant, PTL DEF BrowseSpec

(* Every variable of the page keeps its type, and a tab that is not shown keeps
   nothing: no answer can reach it. *)
THEOREM BrowseTyped == BrowseSpec => []BrowseTypeOK
<1>1. QED
  BY ResultsInvariant, BrowseTypesAre, PTL

(* The products listed are those of the search, or of the showcase, on the
   screen once its answer has come, in whatever order the answers of the earlier
   ones, which nobody cancels, come before it. *)
THEOREM BrowseResultsMatch == BrowseSpec => []ResultsMatch
<1>1. SearchInv /\ ShowcaseInv => ResultsMatch
  BY DEF SearchInv, ShowcaseInv, ResultsMatch
<1>2. QED
  BY <1>1, ResultsInvariant, PTL

-----------------------------------------------------------------------------
(* The products of an open store. *)

(* A request that is taken off the queue: those behind it move up by one. *)
LEMMA OthersMoveUp ==
    ASSUME NEW S, NEW s \in Seq(S), NEW i \in DOMAIN s
    PROVE  /\ RemoveAt(s, i) \in Seq(S) /\ Len(RemoveAt(s, i)) = Len(s) - 1
           /\ \A j \in 1 .. Len(s) - 1 : RemoveAt(s, i)[j] = s[IF j < i THEN j ELSE j + 1]
<1>1. i \in 1 .. Len(s) /\ Len(s) \in Nat
  OBVIOUS
<1> DEFINE a == SubSeq(s, 1, i - 1)
<1> DEFINE b == SubSeq(s, i + 1, Len(s))
<1>2. a \in Seq(S) /\ Len(a) = i - 1 /\ \A j \in 1 .. i - 1 : a[j] = s[j]
  BY <1>1
<1>3. b \in Seq(S) /\ Len(b) = Len(s) - i /\ \A j \in 1 .. Len(s) - i : b[j] = s[i + j]
  BY <1>1
<1> HIDE DEF a, b
<1>4. RemoveAt(s, i) = a \o b
  BY DEF RemoveAt, a, b
<1>5. a \o b \in Seq(S) /\ Len(a \o b) = Len(s) - 1
  BY <1>1, <1>2, <1>3
<1>6. ASSUME NEW j \in 1 .. Len(s) - 1 PROVE (a \o b)[j] = s[IF j < i THEN j ELSE j + 1]
  <2>1. CASE j < i
    <3>1. j \in 1 .. Len(a)
      BY <1>1, <1>2, <2>1
    <3>2. (a \o b)[j] = a[j]
      BY <1>2, <1>3, <3>1
    <3>3. QED
      BY <1>2, <2>1, <3>1, <3>2
  <2>2. CASE ~(j < i)
    <3>1. j - (i - 1) \in 1 .. Len(s) - i /\ j \in Nat /\ i + (j - (i - 1)) = j + 1
      BY <1>1, <2>2
    <3>2. j \in 1 .. Len(a) + Len(b) /\ Len(a) = i - 1 /\ ~(j <= Len(a))
      BY <1>1, <1>2, <1>3, <2>2
    <3>4. (a \o b)[j] = b[j - Len(a)]
      BY <1>2, <1>3, <3>2, ConcatProperties
    <3>3. QED
      BY <1>3, <2>2, <3>1, <3>2, <3>4
  <2>3. QED
    BY <2>1, <2>2
<1>7. QED
  BY <1>4, <1>5, <1>6

LEMMA OneElement == ASSUME NEW S, NEW x \in S PROVE <<x>> \in Seq(S) /\ Len(<<x>>) = 1 /\ <<x>>[1] = x
OBVIOUS

LEMMA TwoElements ==
    ASSUME NEW S, NEW x \in S, NEW y \in S
    PROVE  <<x, y>> \in Seq(S) /\ Len(<<x, y>>) = 2 /\ <<x, y>>[1] = x /\ <<x, y>>[2] = y
OBVIOUS

LEMMA NoElement == ASSUME NEW S PROVE <<>> \in Seq(S) /\ Len(<<>>) = 0
OBVIOUS

ProductsTyped ==
    /\ ready \in BOOLEAN /\ products \in BOOLEAN /\ watched \in BOOLEAN
    /\ top \in Tops \cup {NoNode} /\ sub \in Nodes \cup {NoNode}
    /\ text \in Texts \cup {NoText} /\ order \in Sorts
    /\ page \in Seq(Filters \X Nat) /\ offset \in Nat
    /\ more \in BOOLEAN /\ spinner \in BOOLEAN /\ fetching \in BOOLEAN
    /\ asked \in Seq(Ask) /\ Len(asked) <= MaxAsks
    /\ settled \in BOOLEAN /\ tainted \in BOOLEAN
    /\ losses \in 0 .. MaxLosses

(* What the screen waits for is on the way, and only a list has a sentinel. *)
WaitsInv ==
    /\ ready /\ spinner => Firsts # {}
    /\ fetching => DOMAIN asked \ Firsts # {}
    /\ watched => products /\ ~spinner /\ page # <<>>

(* Until the first page of the filter on the screen has come, the last of the
   first pages on their way is this one. *)
NewestFirst ==
    ready /\ ~settled => \E k \in Firsts : asked[k].of = Filter /\ \A j \in Firsts : j <= k

(* Nothing is asked for or looked at before the categories are known. *)
NotYet == ~ready => asked = <<>> /\ ~settled /\ ~watched

StoreListInv == ProductsTyped /\ WaitsInv /\ NewestFirst /\ NotYet /\ ExactList

LEMMA ListTypedIs == ProductsTyped /\ WaitsInv => StoreListTypeOK
BY DEF ProductsTyped, WaitsInv, StoreListTypeOK

LEMMA FilterTyped ==
    ASSUME NEW t \in Tops \cup {NoNode}, NEW s \in Nodes \cup {NoNode},
           NEW x \in Texts \cup {NoText}, NEW o \in Sorts
    PROVE  FilterOf(t, s, x, o) \in Filters
BY DEF FilterOf, Filters, Nodes

(* A page is a piece of the listing, and the server knows whether it is the last. *)
LEMMA PageIs ==
    ASSUME NEW f \in Filters, NEW at \in Nat
    PROVE  /\ PageAt(f, at) \in Seq(Filters \X Nat)
           /\ \A i \in 1 .. Len(PageAt(f, at)) : PageAt(f, at)[i] = <<f, at + i>>
           /\ at <= Count[f] => /\ at + Len(PageAt(f, at)) <= Count[f]
                                /\ HasMore(f, at) <=> at + Len(PageAt(f, at)) < Count[f]
<1>1. Count[f] \in Nat /\ PageSize \in Nat /\ PageSize > 0
  BY StoreListAssumption
<1>2. PICK n : n = IF at + PageSize < Count[f] THEN PageSize
                   ELSE IF at < Count[f] THEN Count[f] - at ELSE 0
  OBVIOUS
<1>3. n \in Nat
  BY <1>1, <1>2
<1>4. PageAt(f, at) = [i \in 1 .. n |-> <<f, at + i>>]
  BY <1>2 DEF PageAt
<1>5. PageAt(f, at) \in Seq(Filters \X Nat) /\ Len(PageAt(f, at)) = n
  BY <1>3, <1>4
<1>6. at <= Count[f] => at + n <= Count[f] /\ (at + PageSize < Count[f] <=> at + n < Count[f])
  BY <1>1, <1>2
<1>7. QED
  BY <1>4, <1>5, <1>6 DEF HasMore

(* The beginning of a listing. *)
Beginning(f, n) == [i \in 1 .. n |-> <<f, i>>]

LEMMA BeginningIs ==
    ASSUME NEW f \in Filters, NEW n \in Nat
    PROVE  /\ Beginning(f, n) \in Seq(Filters \X Nat) /\ Len(Beginning(f, n)) = n
           /\ \A i \in 1 .. n : Beginning(f, n)[i] = <<f, i>>
BY DEF Beginning

LEMMA FirstPage ==
    ASSUME NEW f \in Filters
    PROVE  PageAt(f, 0) = Beginning(f, Len(PageAt(f, 0)))
<1>1. PICK p \in Seq(Filters \X Nat) : p = PageAt(f, 0)
  BY PageIs
<1>2. \A i \in 1 .. Len(p) : p[i] = <<f, i>>
  BY <1>1, PageIs
<1>3. PICK n \in Nat : n = Len(p)
  BY <1>1
<1>4. PICK b \in Seq(Filters \X Nat) : b = Beginning(f, n)
  BY BeginningIs
<1>5. Len(b) = n /\ \A i \in 1 .. n : b[i] = <<f, i>>
  BY <1>4, BeginningIs
<1>6. p = b
  BY <1>2, <1>3, <1>5, SeqEqual
<1>7. QED
  BY <1>1, <1>3, <1>4, <1>6

LEMMA NextPage ==
    ASSUME NEW f \in Filters, NEW n \in Nat
    PROVE  Beginning(f, n) \o PageAt(f, n) = Beginning(f, n + Len(PageAt(f, n)))
<1>1. PICK p \in Seq(Filters \X Nat) : p = PageAt(f, n)
  BY PageIs
<1>2. \A i \in 1 .. Len(p) : p[i] = <<f, n + i>>
  BY <1>1, PageIs
<1>3. PICK b \in Seq(Filters \X Nat) : b = Beginning(f, n)
  BY BeginningIs
<1>4. Len(b) = n /\ \A i \in 1 .. n : b[i] = <<f, i>>
  BY <1>3, BeginningIs
<1>5. PICK m \in Nat : m = Len(p)
  BY <1>1
<1>5a. PICK l \in Nat : l = n + m
  OBVIOUS
<1>6. PICK c \in Seq(Filters \X Nat) : c = Beginning(f, l)
  BY BeginningIs
<1>7. Len(c) = l /\ \A i \in 1 .. l : c[i] = <<f, i>>
  BY <1>6, BeginningIs
<1>8. b \o p \in Seq(Filters \X Nat) /\ Len(b \o p) = l
  BY <1>5a, <1>4, <1>5, ConcatProperties
<1>9. ASSUME NEW i \in 1 .. l PROVE (b \o p)[i] = <<f, i>>
  <2>0. i \in 1 .. Len(b) + Len(p)
    BY <1>5a, <1>4, <1>5
  <2>1. CASE i <= n
    <3>1. (b \o p)[i] = b[i]
      BY <1>4, <2>0, <2>1, ConcatProperties
    <3>2. QED
      BY <1>4, <2>1, <3>1
  <2>2. CASE ~(i <= n)
    <3>1. i - n \in 1 .. m /\ n + (i - n) = i
      BY <1>5a, <2>2
    <3>2. (b \o p)[i] = p[i - n]
      BY <1>4, <2>0, <2>2, ConcatProperties
    <3>3. QED
      BY <1>2, <1>5, <3>1, <3>2
  <2>3. QED
    BY <2>1, <2>2
<1>10. b \o p = c
  BY <1>7, <1>8, <1>9, SeqEqual
<1>11. QED
  BY <1>5a, <1>1, <1>3, <1>5, <1>6, <1>10

LEMMA ExactIs ==
    ExactList <=> (settled /\ ~tainted => /\ page = Beginning(Filter, offset)
                                          /\ offset <= Count[Filter]
                                          /\ more = (offset < Count[Filter]))
BY DEF ExactList, Beginning

Earlier(i, j) == IF j < i THEN j ELSE j + 1
Later(i, k) == IF k < i THEN k ELSE k - 1

LEMMA AskedWithout ==
    ASSUME asked \in Seq(Ask), NEW i \in DOMAIN asked, asked' = Without(i)
    PROVE  /\ asked' \in Seq(Ask) /\ Len(asked') = Len(asked) - 1 /\ Len(asked) \in Nat
           /\ \A j \in DOMAIN asked' : /\ Earlier(i, j) \in DOMAIN asked /\ Earlier(i, j) # i
                                       /\ asked'[j] = asked[Earlier(i, j)]
           /\ \A k \in DOMAIN asked : k # i => /\ Later(i, k) \in DOMAIN asked'
                                               /\ asked'[Later(i, k)] = asked[k]
<1>1. asked' \in Seq(Ask) /\ Len(asked') = Len(asked) - 1 /\ Len(asked) \in Nat
  BY OthersMoveUp DEF Without
<1>2. \A j \in 1 .. Len(asked) - 1 : asked'[j] = asked[Earlier(i, j)]
  BY OthersMoveUp DEF Without, Earlier
<1>3. DOMAIN asked = 1 .. Len(asked) /\ DOMAIN asked' = 1 .. Len(asked) - 1
  BY <1>1
<1>4. i \in Nat
  BY <1>3
<1>5. \A j \in DOMAIN asked' : Earlier(i, j) \in DOMAIN asked /\ Earlier(i, j) # i
  BY <1>1, <1>3, <1>4 DEF Earlier
<1>6. \A k \in DOMAIN asked : k # i => /\ Later(i, k) \in DOMAIN asked'
                                       /\ Earlier(i, Later(i, k)) = k
  BY <1>1, <1>3, <1>4 DEF Earlier, Later
<1>7. QED
  BY <1>1, <1>2, <1>3, <1>5, <1>6

(* What is still on the way after an answer. *)
LEMMA StillAsked ==
    ASSUME asked \in Seq(Ask), NEW i \in DOMAIN asked, asked' = Without(i)
    PROVE  /\ (\E k \in Firsts : k # i) => Firsts' # {}
           /\ (\E k \in DOMAIN asked \ Firsts : k # i) => DOMAIN asked' \ Firsts' # {}
           /\ \A k \in Firsts : k # i /\ (\A j \in Firsts : j <= k) =>
                \E m \in Firsts' : asked'[m].of = asked[k].of /\ \A j \in Firsts' : j <= m
<1>1. ASSUME NEW k \in Firsts, k # i PROVE Later(i, k) \in Firsts' /\ asked'[Later(i, k)] = asked[k]
  BY <1>1, AskedWithout DEF Firsts
<1>2. ASSUME NEW k \in DOMAIN asked \ Firsts, k # i PROVE Later(i, k) \in DOMAIN asked' \ Firsts'
  BY <1>2, AskedWithout DEF Firsts
<1>3. ASSUME NEW k \in Firsts, k # i, \A j \in Firsts : j <= k, NEW j \in Firsts'
      PROVE  j <= Later(i, k)
  <2>1. j \in DOMAIN asked' /\ Earlier(i, j) \in Firsts
    BY AskedWithout DEF Firsts
  <2>2. Earlier(i, j) <= k
    BY <1>3, <2>1
  <2>3. j \in Nat /\ k \in Nat /\ i \in Nat
    <3>1. asked' \in Seq(Ask)
      BY AskedWithout
    <3>2. QED
      BY <2>1, <3>1 DEF Firsts
  <2>4. QED
    BY <1>3, <2>2, <2>3 DEF Earlier, Later
<1>4. QED
  BY <1>1, <1>2, <1>3

(* A changed filter asks for its first page behind everything else. *)
LEMMA RefetchedIs ==
    ASSUME ProductsTyped, WaitsInv, Refetched, Filter' \in Filters
    PROVE  /\ page' = <<>> /\ spinner' = TRUE /\ more' = TRUE /\ offset' = 0
           /\ watched' = FALSE /\ settled' = FALSE /\ tainted' = FALSE
           /\ fetching' \in BOOLEAN
           /\ asked' \in Seq(Ask) /\ Len(asked') <= MaxAsks
           /\ fetching' => DOMAIN asked' \ Firsts' # {}
           /\ \E k \in Firsts' : asked'[k].of = Filter' /\ \A j \in Firsts' : j <= k
<1>0. asked \in Seq(Ask) /\ fetching \in BOOLEAN /\ (fetching => DOMAIN asked \ Firsts # {})
  BY DEF ProductsTyped, WaitsInv
<1>1. PICK f : f = [of |-> Filter', at |-> 0, first |-> TRUE]
  OBVIOUS
<1>2. PICK g : g = [f EXCEPT !.first = FALSE]
  OBVIOUS
<1>3. /\ page' = <<>> /\ spinner' = TRUE /\ more' = TRUE /\ offset' = 0
      /\ watched' = FALSE /\ settled' = FALSE /\ tainted' = FALSE
      /\ Len(asked') <= MaxAsks
      /\ \/ asked' = Append(asked, f) /\ fetching' = fetching
         \/ asked' = asked \o <<f, g>> /\ fetching' = TRUE
  BY <1>1, <1>2 DEF Refetched, Filter
<1>4. f \in Ask /\ g \in Ask /\ f.first /\ f.of = Filter' /\ ~g.first
  BY <1>1, <1>2 DEF Ask
<1>5. PICK n \in Nat : n = Len(asked)
  BY <1>0
<1>6. CASE asked' = Append(asked, f) /\ fetching' = fetching
  <2>1. asked' \in Seq(Ask) /\ Len(asked') = n + 1 /\ asked'[n + 1] = f
        /\ \A j \in 1 .. n : asked'[j] = asked[j]
    BY <1>0, <1>4, <1>5, <1>6
  <2>2. DOMAIN asked' = 1 .. n + 1 /\ DOMAIN asked = 1 .. n
    BY <1>0, <1>5, <2>1
  <2>3. n + 1 \in Firsts' /\ asked'[n + 1].of = Filter' /\ \A j \in Firsts' : j <= n + 1
    BY <1>4, <2>1, <2>2 DEF Firsts
  <2>4. DOMAIN asked \ Firsts # {} => DOMAIN asked' \ Firsts' # {}
    BY <2>1, <2>2 DEF Firsts
  <2>5. QED
    BY <1>0, <1>3, <1>6, <2>1, <2>3, <2>4
<1>7. CASE asked' = asked \o <<f, g>> /\ fetching' = TRUE
  <2>0. PICK p \in Seq(Ask) : p = <<f, g>> /\ Len(p) = 2 /\ p[1] = f /\ p[2] = g
    BY <1>4, TwoElements
  <2>1. /\ asked' \in Seq(Ask) /\ Len(asked') = n + 2
        /\ \A j \in 1 .. n + 2 : asked'[j] = IF j <= n THEN asked[j] ELSE p[j - n]
    BY <1>0, <1>5, <1>7, <2>0, ConcatProperties
  <2>2. DOMAIN asked' = 1 .. n + 2
    BY <2>1
  <2>3. asked'[n + 1] = f /\ asked'[n + 2] = g
    <3>1. /\ n + 1 \in 1 .. n + 2 /\ ~(n + 1 <= n) /\ (n + 1) - n = 1
          /\ n + 2 \in 1 .. n + 2 /\ ~(n + 2 <= n) /\ (n + 2) - n = 2
      OBVIOUS
    <3>2. QED
      BY <2>0, <2>1, <3>1
  <2>4. n + 1 \in Firsts' /\ n + 2 \in DOMAIN asked' \ Firsts'
    BY <1>4, <2>2, <2>3 DEF Firsts
  <2>5. ASSUME NEW j \in Firsts' PROVE j <= n + 1
    <3>1. j \in 1 .. n + 2 /\ j # n + 2
      BY <2>2, <2>4 DEF Firsts
    <3>2. QED
      BY <3>1
  <2>6. QED
    BY <1>3, <1>4, <1>7, <2>1, <2>3, <2>4, <2>5
<1>8. QED
  BY <1>3, <1>6, <1>7

LEMMA LoseTyped == ASSUME losses \in 0 .. MaxLosses, Lose PROVE losses' \in 0 .. MaxLosses
BY StoreListAssumption DEF Lose

LEMMA RefetchKeeps ==
    ASSUME StoreListInv, Refetched, ready' = TRUE,
           top' \in Tops \cup {NoNode}, sub' \in Nodes \cup {NoNode},
           text' \in Texts \cup {NoText}, order' \in Sorts,
           products' = products, losses' \in 0 .. MaxLosses
    PROVE  StoreListInv'
<1>0. ProductsTyped /\ WaitsInv
  BY DEF StoreListInv
<1>1. Filter' \in Filters
  BY FilterTyped DEF Filter
<1>2. /\ page' = <<>> /\ spinner' = TRUE /\ more' = TRUE /\ offset' = 0
      /\ watched' = FALSE /\ settled' = FALSE /\ tainted' = FALSE
      /\ fetching' \in BOOLEAN
      /\ asked' \in Seq(Ask) /\ Len(asked') <= MaxAsks
      /\ fetching' => DOMAIN asked' \ Firsts' # {}
      /\ \E k \in Firsts' : asked'[k].of = Filter' /\ \A j \in Firsts' : j <= k
  BY <1>0, <1>1, RefetchedIs
<1>3. ProductsTyped'
  <2>1. page' \in Seq(Filters \X Nat) /\ products' \in BOOLEAN
    BY <1>0, <1>2, NoElement DEF ProductsTyped
  <2>2. QED
    BY <1>2, <2>1 DEF ProductsTyped
<1>4. WaitsInv'
  BY <1>2 DEF WaitsInv
<1>5. NewestFirst' /\ NotYet' /\ ExactList'
  BY <1>2 DEF NewestFirst, NotYet, ExactList
<1>6. QED
  BY <1>3, <1>4, <1>5 DEF StoreListInv

LEMMA FilterSteps ==
    ASSUME StoreListInv,
           \/ TreeAnswers \/ TreeFails
           \/ \E t \in Tops : CategoryCard(t)
           \/ \E s \in Nodes \cup {NoNode} : CategoryChip(s)
           \/ \E x \in Texts \cup {NoText}, o \in Sorts : SearchFor(x, o)
    PROVE  StoreListInv'
<1>0. ProductsTyped
  BY DEF StoreListInv
<1>1. /\ ready \in BOOLEAN /\ top \in Tops \cup {NoNode} /\ sub \in Nodes \cup {NoNode}
      /\ text \in Texts \cup {NoText} /\ order \in Sorts /\ losses \in 0 .. MaxLosses
  BY <1>0 DEF ProductsTyped
<1>2. CASE TreeAnswers
  <2>1. /\ ready' = TRUE /\ UNCHANGED <<text, order, products, losses>> /\ Refetched
    BY <1>2 DEF TreeAnswers
  <2>2. top' \in Tops \cup {NoNode} /\ sub' \in Nodes \cup {NoNode}
    <3>1. CASE \E t \in Tops : Target \in ChildrenOf[t]
      <4>1. PICK t \in Tops : t = (CHOOSE u \in Tops : Target \in ChildrenOf[u])
                              /\ Target \in ChildrenOf[t]
        BY <3>1
      <4>2. top' = t /\ sub' = Target
        BY <1>2, <3>1, <4>1 DEF TreeAnswers
      <4>3. Target \in Nodes
        BY <4>1 DEF Nodes
      <4>4. QED
        BY <4>2, <4>3
    <3>2. CASE ~ \E t \in Tops : Target \in ChildrenOf[t]
      <4>1. Tree # <<>> => Tree[1] \in Tops
        <5>1. Tree \in Seq(Tops)
          BY StoreListAssumption
        <5>2. Tree # <<>> => 1 \in DOMAIN Tree
          BY <5>1
        <5>3. QED
          BY <5>2 DEF Tops
      <4>2. /\ top' = IF Target \in Tops THEN Target ELSE IF Tree = <<>> THEN NoNode ELSE Tree[1]
            /\ sub' = NoNode
        BY <1>2, <3>2 DEF TreeAnswers
      <4>3. QED
        BY <4>1, <4>2
    <3>3. QED
      BY <3>1, <3>2
  <2>3. QED
    BY <1>1, <2>1, <2>2, RefetchKeeps
<1>3. CASE TreeFails
  <2>1. ready' = TRUE /\ UNCHANGED <<filterVars, products>> /\ Refetched /\ Lose
    BY <1>3 DEF TreeFails
  <2>2. losses' \in 0 .. MaxLosses
    BY <1>1, <2>1, LoseTyped
  <2>3. QED
    BY <1>1, <2>1, <2>2, RefetchKeeps DEF filterVars
<1>4. ASSUME NEW t \in Tops \cup {NoNode}, NEW s \in Nodes \cup {NoNode}, Choose(t, s)
      PROVE  StoreListInv'
  <2>1. /\ ready' = TRUE /\ top' = t /\ sub' = s
        /\ UNCHANGED <<text, order, products, losses>> /\ Refetched
    BY <1>1, <1>4 DEF Choose
  <2>2. QED
    BY <1>1, <1>4, <2>1, RefetchKeeps
<1>5. ASSUME NEW t \in Tops, CategoryCard(t) PROVE StoreListInv'
  BY <1>4, <1>5 DEF CategoryCard
<1>6. ASSUME NEW s \in Nodes \cup {NoNode}, CategoryChip(s) PROVE StoreListInv'
  BY <1>1, <1>4, <1>6 DEF CategoryChip
<1>7. ASSUME NEW x \in Texts \cup {NoText}, NEW o \in Sorts, SearchFor(x, o) PROVE StoreListInv'
  <2>1. text' = x /\ order' = o /\ UNCHANGED <<top, sub, ready, products, losses>>
    BY <1>7 DEF SearchFor
  <2>2. CASE ready
    <3>1. Refetched /\ ready' = TRUE
      BY <1>1, <1>7, <2>1, <2>2 DEF SearchFor
    <3>2. QED
      BY <1>1, <1>7, <2>1, <3>1, RefetchKeeps
  <2>3. CASE ~ready
    <3>1. UNCHANGED <<listingVars, asked, watched, markVars>>
      BY <1>7, <2>3 DEF SearchFor
    <3>2. ProductsTyped'
      BY <1>0, <1>7, <2>1, <3>1 DEF ProductsTyped, listingVars, markVars
    <3>3. WaitsInv'
      BY <2>1, <3>1 DEF StoreListInv, WaitsInv, Firsts, listingVars
    <3>4. /\ asked = <<>> /\ ~settled /\ ~watched /\ ~ready'
          /\ asked' = asked /\ settled' = settled /\ watched' = watched
      BY <2>1, <2>3, <3>1 DEF StoreListInv, NotYet, markVars
    <3>5. NewestFirst' /\ NotYet' /\ ExactList'
      BY <3>4 DEF NewestFirst, NotYet, ExactList
    <3>6. QED
      BY <3>2, <3>3, <3>5 DEF StoreListInv
  <2>4. QED
    BY <2>2, <2>3
<1>8. QED
  BY <1>2, <1>3, <1>5, <1>6, <1>7

LEMMA RewatchedIs ==
    ASSUME ProductsTyped, NEW changed, Rewatched(changed)
    PROVE  watched' \in BOOLEAN /\ (watched' => products /\ ~spinner' /\ page' # <<>>)
<1>1. watched \in BOOLEAN
  BY DEF ProductsTyped
<1>2. PICK there \in BOOLEAN : there = (products /\ ~spinner' /\ page' # <<>>)
  OBVIOUS
<1>3. watched' = IF changed THEN there ELSE watched /\ there
  BY <1>2 DEF Rewatched
<1>4. PICK both \in BOOLEAN : both = (watched /\ there)
  OBVIOUS
<1>5. watched' = there \/ watched' = both
  BY <1>3, <1>4
<1>6. QED
  BY <1>2, <1>4, <1>5, Zenon

LEMMA AskedOf ==
    ASSUME ProductsTyped, NEW i \in DOMAIN asked
    PROVE  asked[i] \in Ask /\ asked[i].of \in Filters /\ asked[i].at \in Nat
<1>1. asked \in Seq(Ask)
  BY DEF ProductsTyped
<1>2. asked[i] \in Ask
  BY <1>1
<1>3. QED
  BY <1>2 DEF Ask

LEMMA FewerAsked ==
    ASSUME ProductsTyped, NEW i \in DOMAIN asked, asked' = Without(i)
    PROVE  asked' \in Seq(Ask) /\ Len(asked') <= MaxAsks
<1>1. asked \in Seq(Ask) /\ Len(asked) <= MaxAsks
  BY DEF ProductsTyped
<1>2. asked' \in Seq(Ask) /\ Len(asked') = Len(asked) - 1 /\ Len(asked) \in Nat
  BY <1>1, AskedWithout
<1>3. QED
  BY <1>1, <1>2, StoreListAssumption

LEMMA FirstSteps ==
    ASSUME StoreListInv, NEW i, FirstAnswers(i) \/ FirstFails(i)
    PROVE  StoreListInv'
<1>0. ProductsTyped /\ WaitsInv /\ NewestFirst /\ NotYet
  BY DEF StoreListInv
<1>1. /\ i \in Firsts /\ i \in DOMAIN asked /\ asked' = Without(i) /\ spinner' = FALSE
      /\ UNCHANGED <<ready, filterVars, fetching, products>>
      /\ settled' = (settled \/ Newest(i))
  BY DEF FirstAnswers, FirstFails, Firsts
<1>2. asked \in Seq(Ask) /\ asked' \in Seq(Ask) /\ Len(asked') <= MaxAsks
  BY <1>0, <1>1, FewerAsked DEF ProductsTyped
<1>3. ready
  <2>1. asked # <<>>
    BY <1>1
  <2>2. QED
    BY <1>0, <2>1 DEF NotYet
<1>4. /\ \A k \in Firsts : k # i /\ (\A j \in Firsts : j <= k) =>
           \E m \in Firsts' : asked'[m].of = asked[k].of /\ \A j \in Firsts' : j <= m
      /\ (\E k \in DOMAIN asked \ Firsts : k # i) => DOMAIN asked' \ Firsts' # {}
  BY <1>1, <1>2, StillAsked
<1>5. Filter' = Filter
  BY <1>1 DEF Filter, filterVars
<1>6. NewestFirst'
  <2>1. SUFFICES ASSUME ~settled' PROVE \E k \in Firsts' : asked'[k].of = Filter' /\ \A j \in Firsts' : j <= k
    BY DEF NewestFirst
  <2>2. ~settled /\ ~Newest(i)
    BY <1>1, <2>1
  <2>3. PICK k \in Firsts : asked[k].of = Filter /\ \A j \in Firsts : j <= k
    BY <1>0, <1>3, <2>2 DEF NewestFirst
  <2>4. k # i
    BY <2>2, <2>3 DEF Newest
  <2>5. QED
    BY <1>4, <1>5, <2>3, <2>4
<1>7. NotYet'
  BY <1>1, <1>3 DEF NotYet
<1>8. /\ settled' \in BOOLEAN /\ tainted' \in BOOLEAN
      /\ page' \in Seq(Filters \X Nat) /\ offset' \in Nat /\ more' \in BOOLEAN
      /\ watched' \in BOOLEAN /\ (watched' => products /\ ~spinner' /\ page' # <<>>)
      /\ losses' \in 0 .. MaxLosses
  <2>1. settled' \in BOOLEAN
    <3>1. \A t \in BOOLEAN : settled' = t => settled' \in BOOLEAN
      OBVIOUS
    <3>2. (settled \/ Newest(i)) \in BOOLEAN
      OBVIOUS
    <3>3. QED
      BY <1>1, <3>1, <3>2, Zenon
  <2>2. tainted' \in BOOLEAN
    BY <1>0, <2>1 DEF FirstAnswers, FirstFails, ProductsTyped
  <2>3. CASE FirstAnswers(i)
    <3>1. asked[i].of \in Filters
      BY <1>0, <1>1, AskedOf
    <3>2. PICK p \in Seq(Filters \X Nat) : p = PageAt(asked[i].of, 0)
      BY <3>1, PageIs
    <3>3. page' = p /\ offset' = Len(p)
      BY <2>3, <3>2 DEF FirstAnswers
    <3>4. more' \in BOOLEAN
      BY <2>3 DEF FirstAnswers, HasMore
    <3>5. watched' \in BOOLEAN /\ (watched' => products /\ ~spinner' /\ page' # <<>>)
      BY <1>0, <2>3, RewatchedIs DEF FirstAnswers
    <3>6. losses' = losses
      BY <2>3 DEF FirstAnswers
    <3>7. QED
      BY <1>0, <2>1, <2>2, <3>2, <3>3, <3>4, <3>5, <3>6 DEF ProductsTyped
  <2>4. CASE FirstFails(i)
    <3>1. page' \in Seq(Filters \X Nat)
      BY <2>4, NoElement DEF FirstFails
    <3>2. losses' \in 0 .. MaxLosses
      BY <1>0, <2>4, LoseTyped DEF FirstFails, ProductsTyped
    <3>3. UNCHANGED <<more, offset>> /\ watched' = FALSE
      BY <2>4 DEF FirstFails
    <3>4. QED
      BY <1>0, <2>1, <2>2, <3>1, <3>2, <3>3 DEF ProductsTyped
  <2>5. QED
    BY <2>3, <2>4
<1>9. ProductsTyped'
  BY <1>0, <1>1, <1>2, <1>8 DEF ProductsTyped, filterVars
<1>10. WaitsInv'
  <2>1. fetching' => DOMAIN asked' \ Firsts' # {}
    BY <1>0, <1>1, <1>4 DEF WaitsInv
  <2>2. QED
    BY <1>1, <1>8, <2>1 DEF WaitsInv
<1>11. ExactList'
  <2>1. CASE FirstFails(i)
    BY <2>1 DEF FirstFails, ExactList
  <2>2. CASE FirstAnswers(i)
    <3>1. SUFFICES ASSUME settled', ~tainted' PROVE ExactList'
      BY DEF ExactList
    <3>2. ~settled /\ Newest(i)
      BY <1>1, <2>2, <3>1 DEF FirstAnswers
    <3>3. PICK k \in Firsts : asked[k].of = Filter /\ \A j \in Firsts : j <= k
      BY <1>0, <1>3, <3>2 DEF NewestFirst
    <3>4. k = i
      <4>1. k <= i /\ i <= k /\ i \in Nat /\ k \in Nat
        BY <1>1, <1>2, <3>2, <3>3 DEF Newest, Firsts
      <4>2. QED
        BY <4>1
    <3>5. PICK f \in Filters : f = Filter /\ asked[i].of = f
      BY <1>0, <1>1, <3>3, <3>4, AskedOf
    <3>6. PICK p \in Seq(Filters \X Nat) : p = PageAt(f, 0)
      BY PageIs
    <3>7. page' = p /\ offset' = Len(p) /\ more' = HasMore(f, 0)
      BY <2>2, <3>5, <3>6 DEF FirstAnswers
    <3>8. Count[f] \in Nat /\ 0 <= Count[f] /\ Len(p) \in Nat /\ 0 + Len(p) = Len(p)
      BY StoreListAssumption
    <3>9. Len(p) <= Count[f] /\ (HasMore(f, 0) <=> Len(p) < Count[f])
      BY <3>6, <3>8, PageIs
    <3>10. p = Beginning(f, Len(p))
      BY <3>6, FirstPage
    <3>11. HasMore(f, 0) \in BOOLEAN
      BY DEF HasMore
    <3>12. page' = Beginning(Filter', offset') /\ offset' <= Count[Filter'] /\ more' = (offset' < Count[Filter'])
      BY <1>5, <3>5, <3>7, <3>9, <3>10, <3>11
    <3>13. QED
      BY <3>12 DEF ExactList, Beginning
  <2>3. QED
    BY <2>1, <2>2
<1>12. QED
  BY <1>6, <1>7, <1>9, <1>10, <1>11 DEF StoreListInv

LEMMA MoreSteps ==
    ASSUME StoreListInv, NEW i, MoreAnswers(i) \/ MoreFails(i)
    PROVE  StoreListInv'
<1>0. ProductsTyped /\ WaitsInv /\ NewestFirst /\ NotYet /\ ExactList
  BY DEF StoreListInv
<1>1. /\ i \in DOMAIN asked /\ i \notin Firsts /\ asked' = Without(i) /\ fetching' = FALSE
      /\ UNCHANGED <<ready, filterVars, spinner, products, settled>>
      /\ Rewatched(TRUE)
  BY DEF MoreAnswers, MoreFails, markVars
<1>2. asked \in Seq(Ask) /\ asked' \in Seq(Ask) /\ Len(asked') <= MaxAsks
  BY <1>0, <1>1, FewerAsked DEF ProductsTyped
<1>3. ready
  <2>1. asked # <<>>
    BY <1>1
  <2>2. QED
    BY <1>0, <2>1 DEF NotYet
<1>4. /\ \A k \in Firsts : k # i /\ (\A j \in Firsts : j <= k) =>
           \E m \in Firsts' : asked'[m].of = asked[k].of /\ \A j \in Firsts' : j <= m
      /\ (\E k \in Firsts : k # i) => Firsts' # {}
  BY <1>1, <1>2, StillAsked
<1>5. Filter' = Filter
  BY <1>1 DEF Filter, filterVars
<1>6. NewestFirst'
  BY <1>0, <1>1, <1>3, <1>4, <1>5 DEF NewestFirst
<1>7. NotYet'
  BY <1>1, <1>3 DEF NotYet
<1>8. watched' \in BOOLEAN /\ (watched' => products /\ ~spinner' /\ page' # <<>>)
  BY <1>0, <1>1, RewatchedIs
<1>9. WaitsInv'
  <2>1. spinner => Firsts' # {}
    BY <1>0, <1>1, <1>3, <1>4 DEF WaitsInv
  <2>2. QED
    BY <1>1, <1>8, <2>1 DEF WaitsInv
<1>10. /\ tainted' \in BOOLEAN /\ losses' \in 0 .. MaxLosses
       /\ page' \in Seq(Filters \X Nat) /\ offset' \in Nat /\ more' \in BOOLEAN
  <2>1. CASE MoreAnswers(i)
    <3>1. asked[i].of \in Filters /\ asked[i].at \in Nat
      BY <1>0, <1>1, AskedOf
    <3>2. PICK p \in Seq(Filters \X Nat) : p = PageAt(asked[i].of, asked[i].at)
      BY <3>1, PageIs
    <3>3. page' = page \o p /\ offset' = offset + Len(p)
      BY <2>1, <3>2 DEF MoreAnswers, Advanced
    <3>4. more' \in BOOLEAN /\ losses' = losses
      BY <2>1 DEF MoreAnswers, HasMore
    <3>5. tainted' \in BOOLEAN
      <4>1. PICK new \in BOOLEAN :
              new = (tainted \/ (settled /\ <<asked[i].of, asked[i].at>> # <<Filter, offset>>))
        OBVIOUS
      <4>2. tainted' = new
        BY <2>1, <4>1 DEF MoreAnswers
      <4>3. QED
        BY <4>1, <4>2, Zenon
    <3>6. page \o p \in Seq(Filters \X Nat)
      BY <1>0, <3>2, ConcatProperties DEF ProductsTyped
    <3>7. QED
      BY <1>0, <3>2, <3>3, <3>4, <3>5, <3>6 DEF ProductsTyped
  <2>2. CASE MoreFails(i)
    <3>1. losses' \in 0 .. MaxLosses
      BY <1>0, <2>2, LoseTyped DEF MoreFails, ProductsTyped
    <3>2. UNCHANGED <<page, offset, more, tainted>>
      BY <2>2 DEF MoreFails, markVars
    <3>3. QED
      BY <1>0, <3>1, <3>2 DEF ProductsTyped
  <2>3. QED
    BY <2>1, <2>2
<1>11. ProductsTyped'
  BY <1>0, <1>1, <1>2, <1>8, <1>10 DEF ProductsTyped, filterVars
<1>12. ExactList'
  <2>1. CASE MoreFails(i)
    <3>1. UNCHANGED <<page, offset, more, settled, tainted>>
      BY <2>1 DEF MoreFails, markVars
    <3>2. QED
      BY <1>0, <1>5, <3>1 DEF ExactList
  <2>2. CASE MoreAnswers(i)
    <3>1. SUFFICES ASSUME settled', ~tainted' PROVE ExactList'
      BY DEF ExactList
    <3>2. settled /\ ~tainted /\ asked[i].of = Filter /\ asked[i].at = offset
      <4>1. tainted' = (tainted \/ (settled /\ <<asked[i].of, asked[i].at>> # <<Filter, offset>>))
        BY <2>2 DEF MoreAnswers
      <4>2. QED
        BY <1>1, <3>1, <4>1
    <3>3. PICK f \in Filters : f = Filter /\ asked[i].of = f
      BY <1>0, <1>1, <3>2, AskedOf
    <3>4. PICK n \in Nat : n = offset
      BY <1>0 DEF ProductsTyped
    <3>5. page = Beginning(f, n) /\ n <= Count[f]
      BY <1>0, <3>2, <3>3, <3>4 DEF ExactList, Beginning
    <3>6. PICK p \in Seq(Filters \X Nat) : p = PageAt(f, n)
      BY PageIs
    <3>7. page' = page \o p /\ offset' = n + Len(p) /\ more' = HasMore(f, n)
      BY <2>2, <3>2, <3>3, <3>4, <3>6 DEF MoreAnswers, Advanced
    <3>8. n + Len(p) <= Count[f] /\ (HasMore(f, n) <=> n + Len(p) < Count[f])
      BY <3>5, <3>6, PageIs
    <3>9. page \o p = Beginning(f, n + Len(p))
      BY <3>5, <3>6, NextPage
    <3>10. HasMore(f, n) \in BOOLEAN
      BY DEF HasMore
    <3>11. page' = Beginning(Filter', offset') /\ offset' <= Count[Filter'] /\ more' = (offset' < Count[Filter'])
      BY <1>5, <3>3, <3>7, <3>8, <3>9, <3>10
    <3>12. QED
      BY <3>11 DEF ExactList, Beginning
  <2>3. QED
    BY <2>1, <2>2
<1>13. QED
  BY <1>6, <1>7, <1>9, <1>11, <1>12 DEF StoreListInv

LEMMA ScrollSteps ==
    ASSUME StoreListInv, LoadMore \/ SwitchTab \/ UNCHANGED storeListVars
    PROVE  StoreListInv'
<1>0. ProductsTyped /\ WaitsInv /\ NewestFirst /\ NotYet /\ ExactList
  BY DEF StoreListInv
<1>1. UNCHANGED <<ready, filterVars, page, spinner, more, offset, markVars, losses>>
  BY DEF LoadMore, SwitchTab, storeListVars, listingVars
<1>2. Filter' = Filter
  BY <1>1 DEF Filter, filterVars
<1>3. ExactList'
  BY <1>0, <1>1, <1>2 DEF ExactList, markVars
<1>4. CASE LoadMore
  <2>1. PICK a : a = [of |-> Filter, at |-> offset, first |-> FALSE]
    OBVIOUS
  <2>2. /\ watched /\ Len(asked) < MaxAsks /\ asked' = Append(asked, a) /\ fetching' = TRUE
        /\ UNCHANGED <<products, watched>>
    BY <1>4, <2>1 DEF LoadMore
  <2>3. Filter \in Filters
    BY <1>0, FilterTyped DEF Filter, ProductsTyped
  <2>4. a \in Ask /\ ~a.first
    BY <1>0, <2>1, <2>3 DEF Ask, ProductsTyped
  <2>5. asked \in Seq(Ask) /\ Len(asked) \in Nat
    BY <1>0 DEF ProductsTyped
  <2>6. /\ asked' \in Seq(Ask) /\ Len(asked') = Len(asked) + 1 /\ asked'[Len(asked) + 1] = a
        /\ \A j \in 1 .. Len(asked) : asked'[j] = asked[j]
    BY <2>2, <2>4, <2>5
  <2>7. DOMAIN asked = 1 .. Len(asked) /\ DOMAIN asked' = 1 .. Len(asked) + 1
    BY <2>5, <2>6
  <2>8. Firsts' = Firsts
    <3>1. \A j \in DOMAIN asked' : j \in DOMAIN asked \/ j = Len(asked) + 1
      BY <2>5, <2>7
    <3>2. \A j : j \in Firsts' <=> j \in Firsts
      BY <2>4, <2>5, <2>6, <2>7, <3>1 DEF Firsts
    <3>3. QED
      BY <3>2
  <2>9. ProductsTyped'
    <3>1. Len(asked') <= MaxAsks
      BY <2>2, <2>5, <2>6, StoreListAssumption
    <3>2. QED
      BY <1>0, <1>1, <2>2, <2>6, <3>1 DEF ProductsTyped, filterVars, markVars
  <2>10. WaitsInv'
    <3>1. Len(asked) + 1 \in DOMAIN asked' \ Firsts'
      BY <2>4, <2>5, <2>6, <2>7 DEF Firsts
    <3>2. QED
      BY <1>0, <1>1, <2>2, <2>8, <3>1 DEF WaitsInv
  <2>11. NewestFirst'
    <3>1. \A k \in Firsts : asked'[k] = asked[k]
      BY <2>6, <2>7 DEF Firsts
    <3>2. QED
      BY <1>0, <1>1, <1>2, <2>8, <3>1 DEF NewestFirst, markVars
  <2>12. NotYet'
    <3>1. ready
      BY <1>0, <2>2 DEF NotYet
    <3>2. QED
      BY <1>1, <3>1 DEF NotYet
  <2>13. QED
    BY <1>3, <2>9, <2>10, <2>11, <2>12 DEF StoreListInv
<1>5. CASE SwitchTab \/ UNCHANGED storeListVars
  <2>1. UNCHANGED <<asked, fetching>> /\ (watched' = FALSE \/ UNCHANGED <<watched, products>>)
    BY <1>5 DEF SwitchTab, storeListVars, listingVars
  <2>2. products' \in BOOLEAN /\ watched' \in BOOLEAN
    BY <1>0, <1>5 DEF SwitchTab, storeListVars, ProductsTyped
  <2>3. Firsts' = Firsts
    BY <2>1 DEF Firsts
  <2>4. ProductsTyped'
    BY <1>0, <1>1, <2>1, <2>2 DEF ProductsTyped, filterVars, markVars
  <2>5. WaitsInv' /\ NewestFirst' /\ NotYet'
    BY <1>0, <1>1, <1>2, <2>1, <2>3 DEF WaitsInv, NewestFirst, NotYet, markVars
  <2>6. QED
    BY <1>3, <2>4, <2>5 DEF StoreListInv
<1>6. QED
  BY <1>4, <1>5

LEMMA StoreListInvariant == StoreListSpec => []StoreListInv
<1>1. ASSUME StoreListInit PROVE StoreListInv
  <2>1. ProductsTyped
    <3>1. asked \in Seq(Ask) /\ Len(asked) = 0 /\ page \in Seq(Filters \X Nat)
      BY <1>1, NoElement DEF StoreListInit
    <3>2. 0 <= MaxAsks /\ 0 \in 0 .. MaxLosses /\ Default \in Sorts
      BY StoreListAssumption
    <3>3. QED
      BY <1>1, <3>1, <3>2 DEF StoreListInit, ProductsTyped
  <2>2. WaitsInv /\ NewestFirst /\ NotYet /\ ExactList
    BY <1>1 DEF StoreListInit, WaitsInv, NewestFirst, NotYet, ExactList
  <2>3. QED
    BY <2>1, <2>2 DEF StoreListInv
<1>2. StoreListInv /\ [StoreListNext]_storeListVars => StoreListInv'
  BY FilterSteps, FirstSteps, MoreSteps, ScrollSteps DEF StoreListNext
<1>3. QED
  BY <1>1, <1>2, PTL DEF StoreListSpec

(* The types of the store page's variables; a skeleton and a running spinner have
   a request on its way, and only a list on the screen has a sentinel. *)
THEOREM StoreListTyped == StoreListSpec => []StoreListTypeOK
<1>1. StoreListInv => StoreListTypeOK
  BY ListTypedIs DEF StoreListInv
<1>2. QED
  BY <1>1, StoreListInvariant, PTL

(* For any categories, filters, sizes of pages and listings, and requests that
   overlap or fail: from the first page of the filter on the screen on, the list is
   the beginning of that filter's listing without gaps and repetitions, and "has
   more" is true of it, unless an answer meant for another list has come after. *)
THEOREM StoreListExact == StoreListSpec => []ExactList
<1>1. StoreListInv => ExactList
  BY DEF StoreListInv
<1>2. QED
  BY <1>1, StoreListInvariant, PTL

-----------------------------------------------------------------------------
(* The reviews of an open store. *)

Adding == [st : {"idle", "sent", "stored"}, what : SUBSET Ours, here : BOOLEAN]

ReviewsTyped ==
    /\ posted \subseteq written /\ written \subseteq All
    /\ reviews \in [All -> Nat]
    /\ got \in [st : {"asked", "read", "none"}, list : SUBSET All]
    /\ tab \in BOOLEAN
    /\ permit \in {"unknown", "yes", "no"} /\ permitting \in {"none", "asked", "yes", "no"}
    /\ adding \in Adding /\ Cardinality(adding.what) <= 1
    /\ adding.st # "idle" => \E r \in Ours : adding.what = {r}
    /\ removing \in SUBSET (All \X {"sent", "gone"})
    /\ oddities \subseteq {"late list", "no list", "lost answer", "late delete"}
    /\ glitches \in 0 .. MaxGlitches

(* Is its deletion on the way?  Is it written, and not yet on the screen? *)
Leaving(r) == \E x \in removing : x[1] = r
Coming(r) == adding.st # "idle" /\ r \in adding.what

(* As long as nothing odd has happened the server has what is to be deleted until
   it is deleted, only what it has is shown, neither what is to be deleted nor what
   is being added; and once the list has come all the rest is shown, once. *)
CardsInv ==
    /\ \A x, y \in removing : x[1] = y[1] => x = y
    /\ \A x \in removing : x[1] \in written /\ (x[2] = "sent" <=> x[1] \in posted)
    /\ adding.st = "sent" => adding.what \cap written = {}
    /\ adding.st = "stored" => adding.what \subseteq posted
    /\ \A r \in All : reviews[r] > 0 => r \in posted
    /\ \A r \in All : Leaving(r) \/ Coming(r) => reviews[r] = 0
    /\ \A r \in All : Coming(r) => ~Leaving(r)
    /\ got.st = "none" =>
         \A r \in All : r \in posted /\ ~Leaving(r) /\ ~Coming(r) => reviews[r] = 1

ReviewsInv == ReviewsTyped /\ (oddities = {} => CardsInv)

LEMMA ReviewsTypedIs == ReviewsInv => ReviewsTypeOK
<1> SUFFICES ASSUME ReviewsInv PROVE ReviewsTypeOK
  OBVIOUS
<1>1. ReviewsTyped
  BY DEF ReviewsInv
<1>2. oddities = {} => \A x \in removing : reviews[x[1]] = 0
  <2>1. \A x \in removing : x[1] \in All /\ Leaving(x[1])
    BY <1>1 DEF ReviewsTyped, Leaving
  <2>2. QED
    BY <2>1 DEF ReviewsInv, CardsInv
<1>3. QED
  BY <1>1, <1>2 DEF ReviewsTyped, ReviewsTypeOK, Adding

LEMMA CardsAre == ASSUME NEW S PROVE Cards(S) \in [All -> Nat] /\ \A r \in All : Cards(S)[r] = IF r \in S THEN 1 ELSE 0
BY DEF Cards

LEMMA CardsCount == ASSUME NEW f \in [All -> Nat], NEW r \in All PROVE f[r] + 1 \in Nat
OBVIOUS

LEMMA CardsChange ==
    ASSUME NEW f \in [All -> Nat], NEW r \in All, NEW n \in Nat,
           NEW g, g = [f EXCEPT ![r] = n]
    PROVE  g \in [All -> Nat] /\ \A q \in All : g[q] = IF q = r THEN n ELSE f[q]
OBVIOUS

LEMMA OddTyped ==
    ASSUME oddities \subseteq {"late list", "no list", "lost answer", "late delete"},
           NEW new \in SUBSET {"late list", "no list", "lost answer", "late delete"}, Odd(new)
    PROVE  oddities' \subseteq {"late list", "no list", "lost answer", "late delete"}
BY DEF Odd

LEMMA OddKeeps == ASSUME NEW new, Odd(new), oddities' = {} PROVE oddities = {} /\ new = {}
BY DEF Odd

LEMMA GlitchTyped == ASSUME glitches \in 0 .. MaxGlitches, Glitch PROVE glitches' \in 0 .. MaxGlitches
BY ReviewsAssumption DEF Glitch

(* What is left alone stays true. *)
LEMMA CardsQuiet ==
    ASSUME CardsInv, UNCHANGED <<posted, written, reviews, removing>>,
           adding'.st = adding.st, adding'.what = adding.what,
           got'.st = "none" => got.st = "none"
    PROVE  CardsInv'
BY DEF CardsInv, Leaving, Coming

LEMMA ListSteps ==
    ASSUME ReviewsInv, ServeReviews \/ ReviewsAnswer \/ ReviewsFail
    PROVE  ReviewsInv'
<1>0. ReviewsTyped /\ (oddities = {} => CardsInv)
  BY DEF ReviewsInv
<1>1. CASE ServeReviews
  <2>1. got' = [st |-> "read", list |-> posted]
        /\ UNCHANGED <<posted, written, reviews, sectionVars, adding, removing, oddities, glitches>>
    BY <1>1 DEF ServeReviews
  <2>2. ReviewsTyped'
    <3>1. posted \subseteq All
      BY <1>0 DEF ReviewsTyped
    <3>2. got' \in [st : {"asked", "read", "none"}, list : SUBSET All]
      BY <2>1, <3>1
    <3>3. QED
      BY <1>0, <2>1, <3>2 DEF ReviewsTyped, sectionVars
  <2>3. CardsInv => CardsInv'
    BY <2>1, CardsQuiet
  <2>4. QED
    BY <1>0, <2>1, <2>2, <2>3 DEF ReviewsInv
<1>2. CASE ReviewsAnswer
  <2>1. /\ reviews' = Cards(got.list) /\ got' = NoList
        /\ UNCHANGED <<posted, written, sectionVars, adding, removing, glitches>>
    BY <1>2 DEF ReviewsAnswer
  <2>2. got' \in [st : {"asked", "read", "none"}, list : SUBSET All] /\ got'.st = "none"
    BY <2>1 DEF NoList
  <2>3. oddities' \subseteq {"late list", "no list", "lost answer", "late delete"}
    BY <1>0, <1>2, OddTyped DEF ReviewsAnswer, ReviewsTyped
  <2>4. ReviewsTyped'
    BY <1>0, <2>1, <2>2, <2>3, CardsAre DEF ReviewsTyped, sectionVars
  <2>5. ASSUME oddities' = {} PROVE CardsInv'
    <3>1. removing = {} /\ adding.st # "stored" /\ got.list = posted /\ CardsInv
      BY <1>0, <1>2, <2>5, OddKeeps DEF ReviewsAnswer
    <3>2. \A r \in All : reviews'[r] = IF r \in posted THEN 1 ELSE 0
      BY <2>1, <3>1, CardsAre
    <3>3. \A r \in All : Coming(r) => r \notin posted
      BY <1>0, <3>1 DEF CardsInv, Coming, ReviewsTyped, Adding
    <3>4. QED
      BY <2>1, <3>1, <3>2, <3>3 DEF CardsInv, Leaving, Coming
  <2>6. QED
    BY <2>4, <2>5 DEF ReviewsInv
<1>3. CASE ReviewsFail
  <2>1. /\ reviews' = Cards({}) /\ got' = NoList /\ Odd({"no list"}) /\ Glitch
        /\ UNCHANGED <<posted, written, sectionVars, adding, removing>>
    BY <1>3 DEF ReviewsFail
  <2>2. got' \in [st : {"asked", "read", "none"}, list : SUBSET All]
    BY <2>1 DEF NoList
  <2>3. oddities' \subseteq {"late list", "no list", "lost answer", "late delete"} /\ oddities' # {}
    BY <1>0, <2>1 DEF Odd, ReviewsTyped
  <2>4. glitches' \in 0 .. MaxGlitches
    BY <1>0, <2>1, GlitchTyped DEF ReviewsTyped
  <2>5. ReviewsTyped'
    BY <1>0, <2>1, <2>2, <2>3, <2>4, CardsAre DEF ReviewsTyped, sectionVars
  <2>6. QED
    BY <2>3, <2>5 DEF ReviewsInv
<1>4. QED
  BY <1>1, <1>2, <1>3

LEMMA SectionSteps ==
    ASSUME ReviewsInv,
           \/ OpenReviews \/ CloseReviews \/ ServePermit \/ PermitAnswers \/ PermitFails
           \/ UNCHANGED reviewVars
    PROVE  ReviewsInv'
<1>0. ReviewsTyped /\ (oddities = {} => CardsInv)
  BY DEF ReviewsInv
<1>1. UNCHANGED <<posted, written, reviews, got, removing, oddities>>
  BY DEF OpenReviews, CloseReviews, ServePermit, PermitAnswers, PermitFails, reviewVars
<1>2. adding \in Adding
  BY <1>0 DEF ReviewsTyped
<1>3. adding' \in Adding /\ adding'.st = adding.st /\ adding'.what = adding.what
  <2>1. adding' = adding \/ adding' = [adding EXCEPT !.here = FALSE]
    BY DEF OpenReviews, CloseReviews, ServePermit, PermitAnswers, PermitFails, reviewVars
  <2>2. QED
    BY <1>2, <2>1 DEF Adding
<1>4. /\ tab' \in BOOLEAN
      /\ permit' \in {"unknown", "yes", "no"} /\ permitting' \in {"none", "asked", "yes", "no"}
  BY <1>0 DEF OpenReviews, CloseReviews, ServePermit, PermitAnswers, PermitFails, reviewVars,
     sectionVars, ReviewsTyped
<1>5. glitches' \in 0 .. MaxGlitches
  <2>1. Glitch \/ UNCHANGED glitches
    BY DEF OpenReviews, CloseReviews, ServePermit, PermitAnswers, PermitFails, reviewVars
  <2>2. QED
    BY <1>0, <2>1, GlitchTyped DEF ReviewsTyped
<1>6. ReviewsTyped'
  BY <1>0, <1>1, <1>3, <1>4, <1>5 DEF ReviewsTyped
<1>7. CardsInv => CardsInv'
  BY <1>1, <1>3, CardsQuiet
<1>8. QED
  BY <1>0, <1>1, <1>6, <1>7 DEF ReviewsInv

LEMMA AddSteps ==
    ASSUME ReviewsInv, (\E r \in All : AddReview(r)) \/ StoreReview \/ ReviewAdded \/ AddFails
    PROVE  ReviewsInv'
<1>0. ReviewsTyped /\ (oddities = {} => CardsInv)
  BY DEF ReviewsInv
<1>1. ASSUME NEW r \in All, AddReview(r) PROVE ReviewsInv'
  <2>1. /\ adding.st = "idle" /\ r \in Ours /\ r \notin written
        /\ adding' = [st |-> "sent", what |-> {r}, here |-> TRUE]
        /\ UNCHANGED <<posted, written, reviews, got, sectionVars, removing, oddities, glitches>>
    BY <1>1 DEF AddReview
  <2>2. adding' \in Adding /\ adding'.st = "sent" /\ adding'.what = {r}
    BY <2>1 DEF Adding
  <2>3. Cardinality(adding'.what) <= 1
    BY <2>2, FS_Singleton
  <2>4. ReviewsTyped'
    BY <1>0, <2>1, <2>2, <2>3 DEF ReviewsTyped, sectionVars
  <2>5. ASSUME CardsInv PROVE CardsInv'
    <3>1. r \notin posted
      BY <1>0, <2>1 DEF ReviewsTyped
    <3>2. reviews[r] = 0
      <4>1. reviews[r] \in Nat
        BY <1>0 DEF ReviewsTyped
      <4>2. ~(reviews[r] > 0)
        BY <2>5, <3>1 DEF CardsInv
      <4>3. QED
        BY <4>1, <4>2
    <3>3. ~Leaving(r)
      BY <2>1, <2>5 DEF CardsInv, Leaving
    <3>4. QED
      BY <2>1, <2>2, <2>5, <3>1, <3>2, <3>3 DEF CardsInv, Leaving, Coming
  <2>6. QED
    BY <1>0, <2>1, <2>4, <2>5 DEF ReviewsInv
<1>2. ASSUME adding.st # "idle" PROVE \E r \in Ours : adding.what = {r}
  BY <1>0, <1>2 DEF ReviewsTyped
<1>3. CASE StoreReview
  <2>1. /\ adding.st = "sent" /\ posted' = posted \cup adding.what /\ written' = written \cup adding.what
        /\ adding' = [adding EXCEPT !.st = "stored"]
        /\ UNCHANGED <<reviews, got, sectionVars, removing, oddities, glitches>>
    BY <1>3 DEF StoreReview
  <2>2. PICK r \in Ours : adding.what = {r}
    BY <1>2, <2>1
  <2>3. adding' \in Adding /\ adding'.st = "stored" /\ adding'.what = adding.what
    BY <1>0, <2>1 DEF ReviewsTyped, Adding
  <2>4. posted' = posted \cup {r} /\ written' = written \cup {r} /\ r \in All
    BY <2>1, <2>2 DEF All
  <2>5. ReviewsTyped'
    BY <1>0, <2>1, <2>2, <2>3, <2>4 DEF ReviewsTyped, sectionVars
  <2>6. ASSUME CardsInv PROVE CardsInv'
    <3>1. r \notin written
      BY <2>1, <2>2, <2>6 DEF CardsInv
    <3>2. \A x \in removing : x[1] \in posted' <=> x[1] \in posted
      BY <2>4, <2>6, <3>1 DEF CardsInv
    <3>3. \A q : Coming(q)' <=> Coming(q)
      BY <2>1, <2>3 DEF Coming
    <3>4. \A q : Leaving(q)' <=> Leaving(q)
      BY <2>1 DEF Leaving
    <3>5. Coming(r)
      BY <2>1, <2>2 DEF Coming
    <3>6. /\ \A q \in All : reviews'[q] > 0 => q \in posted'
          /\ \A q \in All : q \in posted' /\ ~Leaving(q) /\ ~Coming(q) => q \in posted
      BY <2>1, <2>4, <2>6, <3>5 DEF CardsInv
    <3>7. QED
      BY <2>1, <2>2, <2>3, <2>4, <2>6, <3>2, <3>3, <3>4, <3>6 DEF CardsInv
  <2>7. QED
    BY <1>0, <2>1, <2>5, <2>6 DEF ReviewsInv
<1>4. NoAdd \in Adding /\ NoAdd.st = "idle" /\ NoAdd.what = {} /\ Cardinality({}) <= 1
  BY FS_EmptySet DEF NoAdd, Adding
<1>5. CASE ReviewAdded
  <2>1. /\ adding.st = "stored" /\ adding' = NoAdd
        /\ UNCHANGED <<posted, written, got, tab, permitting, removing, oddities, glitches>>
        /\ \E q \in adding.what : reviews' = [reviews EXCEPT ![q] = @ + 1]
        /\ permit' = IF adding.here THEN "no" ELSE permit
    BY <1>5 DEF ReviewAdded
  <2>2. PICK r \in Ours : adding.what = {r}
    BY <1>2, <2>1
  <2>3. reviews' = [reviews EXCEPT ![r] = @ + 1] /\ r \in All
    BY <2>1, <2>2 DEF All
  <2>4. ReviewsTyped'
    <3>1. reviews' \in [All -> Nat]
      <4>1. reviews \in [All -> Nat]
        BY <1>0 DEF ReviewsTyped
      <4>2. reviews[r] + 1 \in Nat
        BY <2>3, <4>1, CardsCount
      <4>3. QED
        BY <2>3, <4>1, <4>2, CardsChange
    <3>2. permit' \in {"unknown", "yes", "no"}
      BY <1>0, <2>1 DEF ReviewsTyped
    <3>3. QED
      BY <1>0, <1>4, <2>1, <3>1, <3>2 DEF ReviewsTyped
  <2>5. ASSUME CardsInv PROVE CardsInv'
    <3>1. Coming(r) /\ r \in posted
      BY <2>1, <2>2, <2>5 DEF CardsInv, Coming
    <3>2. reviews[r] = 0 /\ ~Leaving(r)
      BY <2>3, <2>5, <3>1 DEF CardsInv
    <3>3. \A q \in All : reviews'[q] = IF q = r THEN 1 ELSE reviews[q]
      <4>1. reviews \in [All -> Nat]
        BY <1>0 DEF ReviewsTyped
      <4>2. reviews[r] + 1 = 1 /\ 1 \in Nat
        BY <3>2
      <4>3. QED
        BY <2>3, <4>1, <4>2, CardsChange
    <3>4. \A q : Leaving(q)' <=> Leaving(q)
      BY <2>1 DEF Leaving
    <3>5. \A q : ~Coming(q)' /\ (Coming(q) <=> q = r)
      BY <1>4, <2>1, <2>2 DEF Coming
    <3>6. QED
      BY <1>4, <2>1, <2>5, <3>1, <3>2, <3>3, <3>4, <3>5 DEF CardsInv
  <2>6. QED
    BY <1>0, <2>1, <2>4, <2>5 DEF ReviewsInv
<1>6. CASE AddFails
  <2>1. /\ adding.st # "idle" /\ adding' = NoAdd /\ Glitch
        /\ Odd(IF adding.st = "stored" THEN {"lost answer"} ELSE {})
        /\ UNCHANGED <<posted, written, reviews, got, sectionVars, removing>>
    BY <1>6 DEF AddFails
  <2>2. oddities' \subseteq {"late list", "no list", "lost answer", "late delete"}
    BY <1>0, <2>1, OddTyped DEF ReviewsTyped
  <2>3. glitches' \in 0 .. MaxGlitches
    BY <1>0, <2>1, GlitchTyped DEF ReviewsTyped
  <2>4. ReviewsTyped'
    BY <1>0, <1>4, <2>1, <2>2, <2>3 DEF ReviewsTyped, sectionVars
  <2>5. ASSUME oddities' = {} PROVE CardsInv'
    <3>1. CardsInv /\ adding.st # "stored"
      BY <1>0, <2>1, <2>5, OddKeeps
    <3>2. adding.st = "sent"
      BY <1>0, <2>1, <3>1 DEF ReviewsTyped, Adding
    <3>3. \A q \in All : Coming(q) => q \notin posted
      BY <1>0, <3>1, <3>2 DEF CardsInv, Coming, ReviewsTyped
    <3>4. \A q : Leaving(q)' <=> Leaving(q)
      BY <2>1 DEF Leaving
    <3>5. \A q : ~Coming(q)'
      BY <1>4, <2>1 DEF Coming
    <3>6. QED
      BY <1>4, <2>1, <3>1, <3>3, <3>4, <3>5 DEF CardsInv
  <2>6. QED
    BY <2>4, <2>5 DEF ReviewsInv
<1>7. QED
  BY <1>1, <1>3, <1>5, <1>6

LEMMA DeleteSteps ==
    ASSUME ReviewsInv,
           \/ \E r \in All : DeleteReview(r)
           \/ \E x \in removing : ServeDelete(x) \/ DeleteAnswers(x) \/ DeleteFails(x)
    PROVE  ReviewsInv'
<1>0. ReviewsTyped /\ (oddities = {} => CardsInv)
  BY DEF ReviewsInv
<1>1. /\ UNCHANGED <<written, got, sectionVars, adding>>
      /\ \A q : Coming(q)' <=> Coming(q)
  BY DEF DeleteReview, ServeDelete, DeleteAnswers, DeleteFails, Coming
<1>2. ASSUME posted' \subseteq written, reviews' \in [All -> Nat],
             removing' \in SUBSET (All \X {"sent", "gone"}),
             oddities' \subseteq {"late list", "no list", "lost answer", "late delete"},
             glitches' \in 0 .. MaxGlitches
      PROVE  ReviewsTyped'
  BY <1>0, <1>1, <1>2 DEF ReviewsTyped, sectionVars
<1>3. /\ posted \subseteq written /\ reviews \in [All -> Nat]
      /\ removing \in SUBSET (All \X {"sent", "gone"})
      /\ oddities \subseteq {"late list", "no list", "lost answer", "late delete"}
      /\ glitches \in 0 .. MaxGlitches
  BY <1>0 DEF ReviewsTyped
<1>4. ASSUME NEW r \in All, DeleteReview(r) PROVE ReviewsInv'
  <2>1. /\ reviews[r] > 0 /\ ~Leaving(r)
        /\ reviews' = [reviews EXCEPT ![r] = 0]
        /\ removing' = removing \cup {<<r, "sent">>}
        /\ UNCHANGED <<posted, oddities, glitches>>
    BY <1>4 DEF DeleteReview, Leaving
  <2>8. PICK y : y = <<r, "sent">>
    OBVIOUS
  <2>2. y = <<r, "sent">> /\ y[1] = r /\ y[2] = "sent"
    BY <2>8
  <2>3. reviews' \in [All -> Nat] /\ \A q \in All : reviews'[q] = IF q = r THEN 0 ELSE reviews[q]
    BY <1>3, <2>1, CardsChange
  <2>4. \A q : Leaving(q)' <=> Leaving(q) \/ q = r
    BY <2>1, <2>2 DEF Leaving
  <2>5. ASSUME CardsInv PROVE CardsInv'
    <3>1. r \in posted /\ ~Coming(r) /\ r \in written
      <4>1. reviews[r] # 0 /\ r \in posted
        BY <2>1, <2>5 DEF CardsInv
      <4>2. QED
        BY <1>3, <2>5, <4>1 DEF CardsInv
    <3>2. \A x, z \in removing' : x[1] = z[1] => x = z
      BY <2>1, <2>2, <2>5 DEF CardsInv, Leaving
    <3>3. \A x \in removing' : x[1] \in written' /\ (x[2] = "sent" <=> x[1] \in posted')
      BY <1>1, <2>1, <2>2, <2>5, <3>1 DEF CardsInv
    <3>4. QED
      BY <1>1, <2>1, <2>3, <2>4, <2>5, <3>1, <3>2, <3>3 DEF CardsInv
  <2>6. removing' \in SUBSET (All \X {"sent", "gone"})
    <3>1. y \in All \X {"sent", "gone"}
      BY <2>2
    <3>2. removing' = removing \cup {y}
      BY <2>1, <2>2
    <3>3. QED
      BY <1>3, <3>1, <3>2
  <2>7. QED
    BY <1>0, <1>2, <1>3, <2>1, <2>3, <2>5, <2>6 DEF ReviewsInv
<1>5. ASSUME NEW x \in removing PROVE x[1] \in All /\ x[2] \in {"sent", "gone"} /\ Leaving(x[1])
  BY <1>3 DEF Leaving
<1>6. ASSUME NEW x \in removing, ServeDelete(x) PROVE ReviewsInv'
  <2>1. PICK r \in All : r = x[1]
    BY <1>5
  <2>8. PICK y : y = <<r, "gone">>
    OBVIOUS
  <2>2. y = <<r, "gone">> /\ y[1] = r /\ y[2] = "gone"
    BY <2>8
  <2>3. /\ x[2] = "sent" /\ posted' = posted \ {r}
        /\ removing' = (removing \ {x}) \cup {y}
        /\ UNCHANGED <<reviews, oddities, glitches>>
    BY <1>6, <2>1, <2>2 DEF ServeDelete
  <2>4. \A q : Leaving(q)' <=> Leaving(q)
    BY <2>1, <2>2, <2>3 DEF Leaving
  <2>5. ASSUME CardsInv PROVE CardsInv'
    <3>1. reviews[r] = 0 /\ ~Coming(r) /\ r \in written
      BY <1>5, <2>1, <2>5 DEF CardsInv
    <3>2. \A z \in removing \ {x} : z[1] # r
      BY <2>1, <2>5 DEF CardsInv
    <3>3. \A w, z \in removing' : w[1] = z[1] => w = z
      BY <2>2, <2>3, <2>5, <3>2 DEF CardsInv
    <3>4. \A z \in removing' : z[1] \in written' /\ (z[2] = "sent" <=> z[1] \in posted')
      BY <1>1, <2>2, <2>3, <2>5, <3>1, <3>2 DEF CardsInv
    <3>5. adding'.st = "stored" => adding'.what \subseteq posted'
      BY <1>1, <2>3, <2>5, <3>1 DEF CardsInv, Coming
    <3>6. \A q \in All : reviews'[q] > 0 => q \in posted'
      BY <2>3, <2>5, <3>1 DEF CardsInv
    <3>7. QED
      BY <1>1, <2>3, <2>4, <2>5, <3>3, <3>4, <3>5, <3>6 DEF CardsInv
  <2>6. removing' \in SUBSET (All \X {"sent", "gone"}) /\ posted' \subseteq written
    BY <1>3, <2>2, <2>3
  <2>7. QED
    BY <1>0, <1>2, <1>3, <2>3, <2>5, <2>6 DEF ReviewsInv
<1>7. ASSUME NEW x \in removing, DeleteAnswers(x) PROVE ReviewsInv'
  <2>1. PICK r \in All : r = x[1]
    BY <1>5
  <2>2. /\ x[2] = "gone" /\ removing' = removing \ {x}
        /\ UNCHANGED <<posted, reviews, oddities, glitches>>
    BY <1>7 DEF DeleteAnswers
  <2>3. \A q : Leaving(q)' => Leaving(q)
    BY <2>2 DEF Leaving
  <2>4. \A q : q # r /\ Leaving(q) => Leaving(q)'
    BY <2>1, <2>2 DEF Leaving
  <2>5. ASSUME CardsInv PROVE CardsInv'
    <3>1. r \notin posted
      BY <2>1, <2>2, <2>5 DEF CardsInv
    <3>2. QED
      BY <1>1, <2>2, <2>3, <2>4, <2>5, <3>1 DEF CardsInv
  <2>6. removing' \in SUBSET (All \X {"sent", "gone"})
    BY <1>3, <2>2
  <2>7. QED
    BY <1>0, <1>2, <1>3, <2>2, <2>5, <2>6 DEF ReviewsInv
<1>8. ASSUME NEW x \in removing, DeleteFails(x) PROVE ReviewsInv'
  <2>1. PICK r \in All : r = x[1]
    BY <1>5
  <2>2. /\ removing' = removing \ {x} /\ Glitch
        /\ reviews' = [reviews EXCEPT ![r] = @ + 1]
        /\ Odd(IF x[2] = "gone" THEN {"late delete"} ELSE {})
        /\ UNCHANGED posted
    BY <1>8, <2>1 DEF DeleteFails, PutBack
  <2>3. \A q : Leaving(q)' => Leaving(q)
    BY <2>2 DEF Leaving
  <2>4. \A q : q # r /\ Leaving(q) => Leaving(q)'
    BY <2>1, <2>2 DEF Leaving
  <2>5. ASSUME oddities' = {} PROVE CardsInv'
    <3>1. CardsInv /\ x[2] # "gone"
      BY <1>0, <2>2, <2>5, OddKeeps
    <3>2. r \in posted
      BY <1>5, <2>1, <3>1 DEF CardsInv
    <3>3. reviews[r] = 0 /\ ~Coming(r)
      BY <1>5, <2>1, <3>1 DEF CardsInv
    <3>4. \A q \in All : reviews'[q] = IF q = r THEN 1 ELSE reviews[q]
      <4>1. reviews[r] + 1 = 1 /\ 1 \in Nat
        BY <3>3
      <4>2. QED
        BY <1>3, <2>2, <4>1, CardsChange
    <3>5. ~Leaving(r)'
      BY <2>1, <2>2, <3>1 DEF CardsInv, Leaving
    <3>6. QED
      BY <1>1, <2>2, <2>3, <2>4, <3>1, <3>2, <3>3, <3>4, <3>5 DEF CardsInv
  <2>6. oddities' \subseteq {"late list", "no list", "lost answer", "late delete"}
    BY <1>3, <2>2, OddTyped
  <2>7. glitches' \in 0 .. MaxGlitches
    BY <1>3, <2>2, GlitchTyped
  <2>8. removing' \in SUBSET (All \X {"sent", "gone"}) /\ reviews' \in [All -> Nat]
    <3>1. removing' \in SUBSET (All \X {"sent", "gone"})
      BY <1>3, <2>2
    <3>2. reviews[r] + 1 \in Nat
      BY <1>3, CardsCount
    <3>3. QED
      BY <1>3, <2>2, <3>1, <3>2, CardsChange
  <2>9. QED
    BY <1>2, <1>3, <2>2, <2>5, <2>6, <2>7, <2>8 DEF ReviewsInv
<1>9. QED
  BY <1>4, <1>6, <1>7, <1>8

LEMMA ReviewsInvariant == ReviewsSpec => []ReviewsInv
<1>1. ASSUME ReviewsInit PROVE ReviewsInv
  <2>1. posted \subseteq All /\ written = posted
    BY <1>1, ReviewsAssumption DEF ReviewsInit, All
  <2>2. /\ reviews \in [All -> Nat] /\ \A r \in All : reviews[r] = 0
    BY <1>1, CardsAre DEF ReviewsInit
  <2>3. adding \in Adding /\ adding.st = "idle" /\ Cardinality(adding.what) <= 1
    BY <1>1, FS_EmptySet DEF ReviewsInit, NoAdd, Adding
  <2>4. got \in [st : {"asked", "read", "none"}, list : SUBSET All] /\ got.st = "asked"
    BY <1>1 DEF ReviewsInit
  <2>5. 0 \in 0 .. MaxGlitches
    BY ReviewsAssumption
  <2>6. ReviewsTyped
    BY <1>1, <2>1, <2>2, <2>3, <2>4, <2>5 DEF ReviewsInit, ReviewsTyped
  <2>7. CardsInv
    BY <1>1, <2>2, <2>3, <2>4 DEF ReviewsInit, CardsInv, Leaving, Coming
  <2>8. QED
    BY <2>6, <2>7 DEF ReviewsInv
<1>2. ASSUME ReviewsInv, [ReviewsNext]_reviewVars PROVE ReviewsInv'
  BY <1>2, ListSteps, SectionSteps, AddSteps, DeleteSteps DEF ReviewsNext
<1>3. QED
  BY <1>1, <1>2, PTL DEF ReviewsSpec

(* The types of the reviews' variables; what is being deleted is not shown. *)
THEOREM ReviewsTypesHold == ReviewsSpec => []ReviewsTypeOK
<1>1. QED
  BY ReviewsTypedIs, ReviewsInvariant, PTL

(* For any reviews, and whatever is added, deleted, refused or lost: once nothing
   is on the way the screen lists every review that the store has, once, unless one
   of the named oddities has happened. *)
THEOREM ReviewsStayExact == ReviewsSpec => []ReviewsExact
<1>1. ASSUME ReviewsInv PROVE ReviewsExact
  <2>1. SUFFICES ASSUME oddities = {}, got.st = "none", adding.st = "idle", removing = {}
                 PROVE  reviews = Cards(posted)
    BY DEF ReviewsExact
  <2>2. ReviewsTyped /\ CardsInv
    BY <1>1, <2>1 DEF ReviewsInv
  <2>3. reviews \in [All -> Nat]
    BY <2>2 DEF ReviewsTyped
  <2>4. \A r \in All : reviews[r] = IF r \in posted THEN 1 ELSE 0
    BY <2>1, <2>2, <2>3 DEF CardsInv, Leaving, Coming
  <2>5. QED
    BY <2>3, <2>4 DEF Cards
<1>2. QED
  BY <1>1, ReviewsInvariant, PTL

-----------------------------------------------------------------------------
(* The cart. *)

SingleStore(c) == \A l, m \in In(c) : StoreOf[l[1]] = StoreOf[m[1]]

(* The cart, its copy in the browser's storage, and the lines that "repeat this
   order" asks about: each is of one store. *)
StoresInv ==
    /\ items \in Carts /\ saved \in Carts
    /\ SingleStore(items) /\ SingleStore(saved) /\ SingleStore(repeat.lines)
    /\ "lines" \in DOMAIN repeat

LEMMA EmptyIsSingle == Empty \in Carts /\ SingleStore(Empty)
<1>1. 0 \in 0 .. MaxQty
  BY CartAssumption
<1>2. Empty \in Carts
  BY <1>1 DEF Empty, Carts
<1>3. In(Empty) = {}
  BY DEF Empty, In
<1>4. QED
  BY <1>2, <1>3 DEF SingleStore

LEMMA PlainLine == \A p \in Products : <<p, Plain>> \in Lines
BY DEF Lines

(* A line may get any quantity when its product passes the comparison with the
   cart, and may lose any of what it has. *)
LEMMA ComparedIsSingle ==
    ASSUME NEW c \in Carts, SingleStore(c), NEW l \in Lines, NEW n,
           SameStore(c, l[1]) \/ c[l] > 0 \/ n = 0
    PROVE  SingleStore([c EXCEPT ![l] = n])
BY DEF SingleStore, SameStore, In, Carts

(* The ingredients the recipe sheet offers are of one store. *)
LEMMA RecipeIsSingle == \A p, q \in Recipe : p \in Products /\ StoreOf[p] = StoreOf[q]
BY DEF Recipe, Visible

(* What is put into the cart becomes the cart and its copy. *)
LEMMA BecomesKeeps ==
    ASSUME StoresInv, NEW c, NEW d, NEW new, Becomes(c, d, new), SingleStore(c),
           repeat' = repeat \/ repeat' = NoRepeat
    PROVE  StoresInv'
<1>1. items' = c /\ saved' = c /\ c \in Carts
  BY DEF Becomes
<1>2. SingleStore(repeat'.lines) /\ "lines" \in DOMAIN repeat'
  BY EmptyIsSingle DEF StoresInv, NoRepeat
<1>3. QED
  BY <1>1, <1>2 DEF StoresInv, SingleStore, In

(* So does a step that leaves the cart and the lines of a repeated order alone. *)
LEMMA QuietKeeps ==
    ASSUME StoresInv, UNCHANGED <<items, saved>>,
           \/ repeat' = repeat
           \/ repeat'.lines \in {repeat.lines, Empty} /\ "lines" \in DOMAIN repeat'
    PROVE  StoresInv'
<1>1. SingleStore(repeat'.lines) /\ "lines" \in DOMAIN repeat'
  BY EmptyIsSingle DEF StoresInv
<1>2. QED
  BY <1>1 DEF StoresInv, SingleStore, In

LEMMA AddIngredientsKeeps ==
    ASSUME StoresInv, NEW S \in SUBSET Recipe, AddIngredients(S), repeat' = repeat
    PROVE  StoresInv'
<1> DEFINE c == [l \in Lines |-> IF l[2] = Plain /\ l[1] \in S
                                 THEN items[l] + Amount[l[1]] ELSE items[l]]
<1>1. CASE \A p \in S : SameStore(items, p)
  <2>1. SingleStore(c)
    BY <1>1, RecipeIsSingle DEF SingleStore, SameStore, In, StoresInv, Carts
  <2>2. \E d, new : Becomes(c, d, new)
    BY <1>1 DEF AddIngredients
  <2>3. QED
    BY <2>1, <2>2, BecomesKeeps
<1>2. CASE ~ \A p \in S : SameStore(items, p)
  <2>1. UNCHANGED <<items, saved>>
    BY <1>2 DEF AddIngredients, Keeps
  <2>2. QED
    BY <2>1, QuietKeeps
<1>3. QED
  BY <1>1, <1>2

LEMMA RepeatAnswerKeeps ==
    ASSUME StoresInv, RepeatAnswer
    PROVE  StoresInv'
<1>1. PICK S \in SUBSET {p \in Products : Past[p] > 0} :
        LET c == [l \in Lines |-> IF l[2] = Plain /\ l[1] \in S THEN Past[l[1]] ELSE 0]
        IN  IF S # {} /\ repeat.empty
            THEN Becomes(c, c, IF items = Empty THEN {} ELSE {"repeat"}) /\ repeat' = NoRepeat
            ELSE /\ Keeps
                 /\ repeat' = IF S # {} /\ repeat.here
                              THEN [st |-> "asking", empty |-> FALSE, here |-> TRUE, lines |-> c]
                              ELSE NoRepeat
  BY DEF RepeatAnswer
<1> DEFINE c == [l \in Lines |-> IF l[2] = Plain /\ l[1] \in S THEN Past[l[1]] ELSE 0]
<1>2. SingleStore(c)
  <2>1. \A l \in In(c) : l[1] \in Products /\ Past[l[1]] > 0
    BY DEF In, Lines
  <2>2. QED
    BY <2>1, CartAssumption DEF SingleStore
<1> HIDE DEF c
<1>3. CASE S # {} /\ repeat.empty
  <2>1. Becomes(c, c, IF items = Empty THEN {} ELSE {"repeat"}) /\ repeat' = NoRepeat
    BY <1>1, <1>3 DEF c
  <2>2. QED
    BY <1>2, <2>1, BecomesKeeps
<1>4. CASE ~(S # {} /\ repeat.empty)
  <2>1. /\ UNCHANGED <<items, saved>>
        /\ \/ repeat' = [st |-> "asking", empty |-> FALSE, here |-> TRUE, lines |-> c]
           \/ repeat' = NoRepeat
    BY <1>1, <1>4 DEF c, Keeps
  <2>2. SingleStore(repeat'.lines) /\ "lines" \in DOMAIN repeat'
    BY <1>2, <2>1, EmptyIsSingle DEF NoRepeat
  <2>3. QED
    BY <2>1, <2>2 DEF StoresInv, SingleStore, In
<1>5. QED
  BY <1>3, <1>4

LEMMA StoresStep ==
    ASSUME StoresInv, [CartNext]_cartVars
    PROVE  StoresInv'
<1>1. ASSUME NEW p \in Products, AddTile(p) PROVE StoresInv'
  <2>1. CASE SameStore(items, p)
    <3>1. SingleStore(Plus(items, <<p, Plain>>, 1))
      BY <2>1, PlainLine, ComparedIsSingle DEF Plus, StoresInv
    <3>2. QED
      BY <1>1, <2>1, <3>1, BecomesKeeps DEF AddTile
  <2>2. CASE ~SameStore(items, p)
    BY <1>1, <2>2, QuietKeeps DEF AddTile, Keeps
  <2>3. QED
    BY <2>1, <2>2
<1>2. ASSUME NEW p \in Products, ToggleIngredient(p) PROVE StoresInv'
  <2>1. CASE p \in ticked
    <3>1. SingleStore([items EXCEPT ![<<p, Plain>>] = 0])
      BY PlainLine, ComparedIsSingle DEF StoresInv
    <3>2. QED
      BY <1>2, <2>1, <3>1, BecomesKeeps DEF ToggleIngredient
  <2>2. CASE p \notin ticked
    BY <1>2, <2>2, AddIngredientsKeeps DEF ToggleIngredient
  <2>3. QED
    BY <2>1, <2>2
<1>3. ASSUME NEW l \in Lines, NEW n \in 0 .. MaxQty, AddFromSheet(l, n) PROVE StoresInv'
  <2>1. CASE SameStore(items, l[1])
    <3>1. SingleStore(FromSheet(l, n))
      BY <2>1, ComparedIsSingle DEF FromSheet, Plus, StoresInv
    <3>2. QED
      BY <1>3, <2>1, <3>1, BecomesKeeps DEF AddFromSheet
  <2>2. CASE ~SameStore(items, l[1])
    BY <1>3, <2>2, QuietKeeps DEF AddFromSheet, Keeps
  <2>3. QED
    BY <2>1, <2>2
<1>4. ASSUME NEW l \in Lines, NEW n \in 0 .. MaxQty, SetLine(l, n) PROVE StoresInv'
  <2>1. SingleStore([items EXCEPT ![l] = n])
    BY <1>4, ComparedIsSingle DEF SetLine, StoresInv
  <2>2. QED
    BY <1>4, <2>1, BecomesKeeps DEF SetLine
<1>5. CASE Replace
  <2> DEFINE c == Plus(Empty, <<conflict, Plain>>, 1)
  <2>1. SingleStore(c)
    BY DEF Plus, Empty, SingleStore, In
  <2>2. (\E d, new : Becomes(c, d, new)) /\ repeat' = repeat
    BY <1>5 DEF Replace
  <2>3. QED
    BY <2>1, <2>2, BecomesKeeps
<1>6. CASE Reload
  <2>1. /\ items' \in {saved, Empty} /\ saved' = Empty
        /\ repeat'.lines = Empty /\ "lines" \in DOMAIN repeat'
    BY <1>6 DEF Reload, NoRepeat
  <2>2. QED
    BY <2>1, EmptyIsSingle DEF StoresInv, SingleStore, In
<1>7. CASE Restored
  BY <1>7 DEF Restored, StoresInv, SingleStore, In
<1>8. CASE AddAll
  BY <1>8, AddIngredientsKeeps DEF AddAll
<1>9. CASE ClearCart
  BY <1>9, EmptyIsSingle, BecomesKeeps DEF ClearCart
<1>10. CASE Keep \/ OpenRecipe \/ CloseRecipe \/ EnterCart \/ LeaveCart \/ ToCheckout
              \/ BackToCart \/ Submit \/ \E i \in Ids : Accept(i) \/ OrderFails(i)
  <2>1. UNCHANGED <<items, saved, repeat>>
    BY <1>10 DEF Keep, OpenRecipe, CloseRecipe, EnterCart, LeaveCart, ToCheckout, BackToCart,
                 Submit, Accept, OrderFails, AfterFailure, Keeps, Loading
  <2>2. QED
    BY <2>1, QuietKeeps
<1>11. ASSUME NEW i \in Ids, OrderMade(i) PROVE StoresInv'
  BY <1>11, EmptyIsSingle DEF OrderMade, StoresInv, SingleStore, In
<1>12. CASE AskRepeat \/ LeaveRepeat
  <2>1. UNCHANGED <<items, saved>>
    BY <1>12 DEF AskRepeat, LeaveRepeat, Keeps
  <2>2. CASE AskRepeat
    <3>1. repeat'.lines = Empty /\ "lines" \in DOMAIN repeat'
      BY <2>2 DEF AskRepeat
    <3>2. QED
      BY <2>1, <3>1, QuietKeeps
  <2>3. CASE LeaveRepeat
    <3>1. /\ repeat'.lines = repeat.lines \/ repeat'.lines = Empty
          /\ "lines" \in DOMAIN repeat'
      BY <2>3 DEF LeaveRepeat, NoRepeat, StoresInv
    <3>2. QED
      BY <2>1, <3>1, QuietKeeps
  <2>4. QED
    BY <1>12, <2>2, <2>3
<1>13. CASE RepeatAnswer
  BY <1>13, RepeatAnswerKeeps
<1>14. CASE ConfirmRepeat
  <2>1. SingleStore(repeat.lines)
    BY DEF StoresInv
  <2>2. QED
    BY <1>14, <2>1, BecomesKeeps DEF ConfirmRepeat
<1>15. CASE UNCHANGED cartVars
  BY <1>15, QuietKeeps DEF cartVars
<1>16. QED
  BY <1>1, <1>2, <1>3, <1>4, <1>5, <1>6, <1>7, <1>8, <1>9, <1>10, <1>11, <1>12, <1>13,
     <1>14, <1>15 DEF CartNext

(* Tiles, sheets, recipes, repeated orders and restored carts never get two
   stores into one cart, although addItem only compares with the cart as it was
   last rendered and a recipe adds many products at one click. *)
THEOREM CartOneStore == CartSpec => []OneStore
<1>1. CartInit => StoresInv
  BY EmptyIsSingle DEF CartInit, StoresInv, NoRepeat
<1>2. StoresInv /\ [CartNext]_cartVars => StoresInv'
  BY StoresStep
<1>3. StoresInv => OneStore
  BY DEF StoresInv, SingleStore, OneStore
<1>4. QED
  BY <1>1, <1>2, <1>3, PTL DEF CartSpec

-----------------------------------------------------------------------------
(* What is in the cart, and what is due. *)

SlipNames == {"set", "edited", "again", "unanswered", "repeat", "restore", "unticked"}
Requests == [st : {"none", "sent", "accepted"}, lines : Carts, here : BOOLEAN]

(* The cart, its copy and the orders in flight. *)
GoodsTyped ==
    /\ items \in Carts /\ saved \in Carts
    /\ due \in [Lines -> Int]
    /\ reqs \in [Ids -> Requests]
    /\ slips \subseteq SlipNames

(* The dialogs, the tab and the repeated order. *)
DialogsTyped ==
    /\ started \in BOOLEAN /\ recipe \in BOOLEAN
    /\ conflict \in Products \cup {NoProduct}
    /\ ticked \subseteq Products
    /\ view \in {"away", "cart", "checkout", "success"}
    /\ repeat \in [st : {"idle", "asked", "asking"}, empty : BOOLEAN,
                   here : BOOLEAN, lines : [Lines -> Nat]]
    /\ faults \in 0 .. MaxFaults

(* One order at most is in flight, it is of what the cart still holds, and once the
   server has stored it nothing else is due. *)
OnWay ==
    /\ \A i, j \in InFlight : i = j
    /\ \A i \in InFlight : reqs[i].lines = items
    /\ Accepted = {} => due = items
    /\ Accepted # {} => due = Empty

ExactInv == GoodsTyped /\ (started => saved = items) /\ (slips = {} => OnWay)

LEMMA EmptyDue == Empty \in [Lines -> Int] /\ Empty \in [Lines -> Nat]
BY DEF Empty

LEMMA PlusTyped ==
    ASSUME NEW d \in [Lines -> Int], NEW l, NEW n \in Int PROVE Plus(d, l, n) \in [Lines -> Int]
<1>1. Plus(d, l, n) = [m \in Lines |-> IF m = l THEN d[l] + n ELSE d[m]]
  BY DEF Plus
<1>2. \A m \in Lines : d[m] \in Int /\ d[m] + n \in Int
  OBVIOUS
<1>3. QED
  BY <1>1, <1>2

LEMMA CartsAreInts == \A c \in Carts : c \in [Lines -> Int] /\ \A l \in Lines : c[l] \in Int
BY CartAssumption DEF Carts

(* The history names the first slip, and nothing is due afterwards. *)
LEMMA SlipTyped ==
    ASSUME slips \subseteq SlipNames, NEW new, new \subseteq SlipNames, NEW d,
           d \in [Lines -> Int], Slip(new, d)
    PROVE  slips' \subseteq SlipNames /\ due' \in [Lines -> Int]
BY EmptyDue DEF Slip

LEMMA NoSlip ==
    ASSUME NEW new, NEW d, Slip(new, d), slips' = {}
    PROVE  slips = {} /\ new = {} /\ due' = d
BY DEF Slip

(* The customer changes the cart, and what is due by the same. *)
LEMMA ChangeExact ==
    ASSUME ExactInv, NEW c, NEW d, NEW new, Becomes(c, d, new), d \in [Lines -> Int],
           new \subseteq SlipNames, slips = {} /\ due = items /\ new = {} => d = c,
           UNCHANGED reqs
    PROVE  ExactInv'
<1>1. /\ items' = c /\ saved' = c /\ c \in Carts
      /\ Slip(new \cup IF InFlight = {} THEN {} ELSE {"edited"}, d)
  BY DEF Becomes
<1>2. slips' \subseteq SlipNames /\ due' \in [Lines -> Int]
  <2>1. (new \cup IF InFlight = {} THEN {} ELSE {"edited"}) \subseteq SlipNames
    BY DEF SlipNames
  <2>2. QED
    BY <1>1, <2>1, SlipTyped DEF ExactInv, GoodsTyped
<1>3. ASSUME slips' = {} PROVE OnWay'
  <2>1. slips = {} /\ new = {} /\ InFlight = {} /\ due' = d
    BY <1>1, <1>3, NoSlip
  <2>2. Accepted = {} /\ OnWay
    BY <2>1 DEF Accepted, ExactInv
  <2>3. due' = items'
    BY <1>1, <2>1, <2>2 DEF OnWay
  <2>4. InFlight' = {} /\ Accepted' = {}
    BY <2>1, <2>2 DEF InFlight, Accepted
  <2>5. QED
    BY <2>3, <2>4 DEF OnWay
<1>4. QED
  BY <1>1, <1>2, <1>3 DEF ExactInv, GoodsTyped

LEMMA QuietExact ==
    ASSUME ExactInv, UNCHANGED <<items, saved, due, slips, reqs>>, started' => started
    PROVE  ExactInv'
BY DEF ExactInv, GoodsTyped, OnWay, InFlight, Accepted

LEMMA IngredientsExact ==
    ASSUME ExactInv, NEW S \in SUBSET Products, AddIngredients(S), UNCHANGED <<started, reqs>>
    PROVE  ExactInv'
<1> DEFINE Filled(c) == [l \in Lines |-> IF l[2] = Plain /\ l[1] \in S
                                         THEN c[l] + Amount[l[1]] ELSE c[l]]
<1>1. CASE \A p \in S : SameStore(items, p)
  <2>1. Becomes(Filled(items), Filled(due), {})
    BY <1>1 DEF AddIngredients
  <2>2. Filled(due) \in [Lines -> Int]
    <3>1. due \in [Lines -> Int]
      BY DEF ExactInv, GoodsTyped
    <3>2. \A l \in Lines : l[1] \in S => Amount[l[1]] \in Int
      BY CartAssumption
    <3>3. QED
      BY <3>1, <3>2
  <2>3. due = items => Filled(due) = Filled(items)
    OBVIOUS
  <2>4. QED
    BY <2>1, <2>2, <2>3, ChangeExact
<1>2. CASE ~ \A p \in S : SameStore(items, p)
  <2>1. UNCHANGED <<items, saved, due, slips>>
    BY <1>2 DEF AddIngredients, Keeps
  <2>2. QED
    BY <2>1, QuietExact
<1>3. QED
  BY <1>1, <1>2

(* What the customer does with tiles, sheets, recipes, the dialog and the cart. *)
LEMMA FillExact ==
    ASSUME ExactInv,
           \/ \E p \in Products : AddTile(p) \/ ToggleIngredient(p)
           \/ \E l \in Lines : \E n \in 0 .. MaxQty : AddFromSheet(l, n) \/ SetLine(l, n)
           \/ Replace \/ AddAll \/ ClearCart
    PROVE  ExactInv'
<1>0. /\ items \in Carts /\ items \in [Lines -> Int] /\ due \in [Lines -> Int]
      /\ \A l \in Lines : items[l] \in Int /\ due[l] \in Int
  BY CartsAreInts DEF ExactInv, GoodsTyped
<1>1. ASSUME NEW p \in Products, AddTile(p) PROVE ExactInv'
  <2>1. UNCHANGED <<started, reqs>>
    BY <1>1 DEF AddTile
  <2>2. CASE SameStore(items, p)
    <3>1. Becomes(Plus(items, <<p, Plain>>, 1), Plus(due, <<p, Plain>>, 1), {})
      BY <1>1, <2>2 DEF AddTile
    <3>2. Plus(due, <<p, Plain>>, 1) \in [Lines -> Int]
      BY <1>0, PlusTyped
    <3>3. due = items => Plus(due, <<p, Plain>>, 1) = Plus(items, <<p, Plain>>, 1)
      OBVIOUS
    <3>4. QED
      BY <2>1, <3>1, <3>2, <3>3, ChangeExact
  <2>3. CASE ~SameStore(items, p)
    BY <1>1, <2>1, <2>3, QuietExact DEF AddTile, Keeps
  <2>4. QED
    BY <2>2, <2>3
<1>2. ASSUME NEW p \in Products, ToggleIngredient(p) PROVE ExactInv'
  <2>1. UNCHANGED <<started, reqs>>
    BY <1>2 DEF ToggleIngredient
  <2>2. CASE p \in ticked
    <3>1. PICK l : l = <<p, Plain>>
      OBVIOUS
    <3>2. l \in Lines
      BY <3>1 DEF Lines
    <3>3. PICK c, d, new :
            /\ c = [items EXCEPT ![l] = 0] /\ d = [due EXCEPT ![l] = @ - Amount[p]]
            /\ new = IF items[l] = Amount[p] THEN {} ELSE {"unticked"}
      OBVIOUS
    <3>10. Becomes(c, d, new)
      BY <1>2, <2>2, <3>1, <3>3 DEF ToggleIngredient
    <3>4. Amount[p] \in Int
      BY CartAssumption
    <3>5. d \in [Lines -> Int]
      BY <1>0, <3>2, <3>3, <3>4
    <3>6. ASSUME due = items, new = {} PROVE d = c
      <4>1. items[l] = Amount[p]
        BY <3>3, <3>6
      <4>2. due[l] - Amount[p] = 0
        BY <3>4, <3>6, <4>1
      <4>3. QED
        BY <3>3, <3>6, <4>2
    <3>7. new \subseteq SlipNames
      BY <3>3 DEF SlipNames
    <3>8. QED
      BY <2>1, <3>5, <3>6, <3>7, <3>10, ChangeExact
  <2>3. CASE p \notin ticked
    <3>1. AddIngredients({p})
      BY <1>2, <2>3 DEF ToggleIngredient
    <3>2. QED
      BY <2>1, <3>1, IngredientsExact
  <2>4. QED
    BY <2>2, <2>3
<1>3. ASSUME NEW l \in Lines, NEW n \in 0 .. MaxQty, AddFromSheet(l, n) PROVE ExactInv'
  <2>1. UNCHANGED <<started, reqs>>
    BY <1>3 DEF AddFromSheet
  <2>2. CASE SameStore(items, l[1])
    <3>1. Becomes(FromSheet(l, n), Plus(due, l, n),
                  IF n > 1 /\ items[l] > 0 THEN {"set"} ELSE {})
      BY <1>3, <2>2 DEF AddFromSheet
    <3>2. Plus(due, l, n) \in [Lines -> Int]
      BY <1>0, PlusTyped, CartAssumption
    <3>3. (IF n > 1 /\ items[l] > 0 THEN {"set"} ELSE {}) \subseteq SlipNames
      BY DEF SlipNames
    <3>4. ASSUME due = items, (IF n > 1 /\ items[l] > 0 THEN {"set"} ELSE {}) = {}
          PROVE  Plus(due, l, n) = FromSheet(l, n)
      <4>1. CASE n = 1
        BY <3>4, <4>1 DEF FromSheet
      <4>2. CASE n # 1
        <5>1. n > 1 /\ items[l] \in 0 .. MaxQty
          BY <1>0, <1>3, <4>2 DEF AddFromSheet, Carts
        <5>2. items[l] = 0
          BY <3>4, <5>1
        <5>3. items[l] + n = n
          BY <5>2
        <5>4. QED
          BY <3>4, <4>2, <5>3 DEF FromSheet, Plus
      <4>3. QED
        BY <4>1, <4>2
    <3>5. QED
      BY <2>1, <3>1, <3>2, <3>3, <3>4, ChangeExact
  <2>3. CASE ~SameStore(items, l[1])
    BY <1>3, <2>1, <2>3, QuietExact DEF AddFromSheet, Keeps
  <2>4. QED
    BY <2>2, <2>3
<1>4. ASSUME NEW l \in Lines, NEW n \in 0 .. MaxQty, SetLine(l, n) PROVE ExactInv'
  <2>1. PICK c, d : c = [items EXCEPT ![l] = n] /\ d = [due EXCEPT ![l] = @ + n - items[l]]
    OBVIOUS
  <2>2. UNCHANGED <<started, reqs>> /\ Becomes(c, d, {})
    BY <1>4, <2>1 DEF SetLine
  <2>3. d \in [Lines -> Int]
    BY <1>0, <2>1
  <2>4. ASSUME due = items PROVE d = c
    <3>1. due[l] + n - items[l] = n
      BY <1>0, <2>4
    <3>2. QED
      BY <2>1, <2>4, <3>1
  <2>5. QED
    BY <2>2, <2>3, <2>4, ChangeExact
<1>5. CASE Replace
  <2>1. PICK c : c = Plus(Empty, <<conflict, Plain>>, 1)
    OBVIOUS
  <2>2. Becomes(c, c, {}) /\ UNCHANGED <<started, reqs>>
    BY <1>5, <2>1 DEF Replace
  <2>3. c \in [Lines -> Int]
    BY <2>1, EmptyDue, PlusTyped
  <2>4. QED
    BY <2>2, <2>3, ChangeExact
<1>6. CASE AddAll
  <2>1. AddIngredients(Recipe) /\ Recipe \in SUBSET Products /\ UNCHANGED <<started, reqs>>
    BY <1>6 DEF AddAll, Recipe, Visible
  <2>2. QED
    BY <2>1, IngredientsExact
<1>7. CASE ClearCart
  <2>1. Becomes(Empty, [l \in Lines |-> due[l] - items[l]], {}) /\ UNCHANGED <<started, reqs>>
    BY <1>7 DEF ClearCart
  <2>2. [l \in Lines |-> due[l] - items[l]] \in [Lines -> Int]
    BY <1>0
  <2>3. ASSUME due = items PROVE [l \in Lines |-> due[l] - items[l]] = Empty
    BY <1>0, <2>3 DEF Empty
  <2>4. QED
    BY <2>1, <2>2, <2>3, ChangeExact
<1>8. QED
  BY <1>1, <1>2, <1>3, <1>4, <1>5, <1>6, <1>7

LEMMA RequestsAre ==
    ASSUME reqs \in [Ids -> Requests], NEW i \in Ids
    PROVE  /\ reqs[i].st \in {"none", "sent", "accepted"} /\ reqs[i].lines \in Carts
           /\ reqs[i].here \in BOOLEAN
           /\ reqs[i] \in Requests
BY DEF Requests

LEMMA NothingSent == NoReq \in Requests /\ NoReq.st = "none"
BY EmptyIsSingle DEF NoReq, Requests

(* Entering the order, and what becomes of it. *)
LEMMA OrderExact ==
    ASSUME ExactInv,
           Submit \/ LeaveCart \/ \E i \in Ids : Accept(i) \/ OrderMade(i) \/ OrderFails(i)
    PROVE  ExactInv'
<1>0. /\ items \in Carts /\ saved \in Carts /\ due \in [Lines -> Int]
      /\ slips \subseteq SlipNames /\ reqs \in [Ids -> Requests]
      /\ (started => saved = items) /\ (slips = {} => OnWay)
  BY DEF ExactInv, GoodsTyped
<1>1. CASE Submit
  <2>1. PICK i \in Ids :
          /\ reqs[i].st = "none"
          /\ reqs' = [reqs EXCEPT ![i] = [st |-> "sent", lines |-> items, here |-> TRUE]]
    BY <1>1 DEF Submit
  <2>2. PICK r : r = [st |-> "sent", lines |-> items, here |-> TRUE]
    OBVIOUS
  <2>3. r \in Requests /\ r.st = "sent" /\ r.lines = items
    BY <1>0, <2>2 DEF Requests
  <2>4. reqs' \in [Ids -> Requests] /\ \A j \in Ids : reqs'[j] = IF j = i THEN r ELSE reqs[j]
    BY <1>0, <2>1, <2>2, <2>3
  <2>5. /\ Slip(IF \A j \in InFlight : reqs[j].here THEN {} ELSE {"again"}, due)
        /\ UNCHANGED <<items, saved, started>> /\ ~Loading
    BY <1>1 DEF Submit
  <2>6. slips' \subseteq SlipNames /\ due' \in [Lines -> Int]
    <3>1. (IF \A j \in InFlight : reqs[j].here THEN {} ELSE {"again"}) \subseteq SlipNames
      BY DEF SlipNames
    <3>2. QED
      BY <1>0, <2>5, <3>1, SlipTyped
  <2>7. ASSUME slips' = {} PROVE OnWay'
    <3>1. slips = {} /\ due' = due /\ \A j \in InFlight : reqs[j].here
      BY <2>5, <2>7, NoSlip
    <3>2. InFlight = {}
      BY <2>5, <3>1 DEF Loading
    <3>3. \A j \in Ids : reqs[j].st \notin {"sent", "accepted"}
      BY <3>2 DEF InFlight
    <3>4. InFlight' = {i} /\ Accepted' = {}
      BY <2>3, <2>4, <3>3 DEF InFlight, Accepted
    <3>5. due' = items'
      BY <1>0, <2>5, <3>1, <3>2 DEF OnWay, Accepted
    <3>6. QED
      BY <2>3, <2>4, <2>5, <3>4, <3>5 DEF OnWay
  <2>8. QED
    BY <1>0, <2>4, <2>5, <2>6, <2>7 DEF ExactInv, GoodsTyped
<1>2. CASE LeaveCart
  <2>1. /\ UNCHANGED <<items, saved, due, slips, started>>
        /\ reqs' = [i \in Ids |-> [reqs[i] EXCEPT !.here = FALSE]]
    BY <1>2 DEF LeaveCart, Keeps
  <2>2. ASSUME NEW i \in Ids
        PROVE  reqs'[i] \in Requests /\ reqs'[i].st = reqs[i].st /\ reqs'[i].lines = reqs[i].lines
    BY <1>0, <2>1 DEF Requests
  <2>3. reqs' \in [Ids -> Requests]
    BY <2>1, <2>2
  <2>4. InFlight' = InFlight /\ Accepted' = Accepted
    BY <2>2 DEF InFlight, Accepted
  <2>5. ASSUME OnWay PROVE OnWay'
    BY <2>1, <2>2, <2>4, <2>5 DEF OnWay, InFlight
  <2>6. QED
    BY <1>0, <2>1, <2>3, <2>5 DEF ExactInv, GoodsTyped
<1>3. ASSUME NEW i \in Ids, Accept(i) PROVE ExactInv'
  <2>1. /\ reqs[i].st = "sent"
        /\ reqs' = [reqs EXCEPT ![i].st = "accepted"]
        /\ Slip({}, [l \in Lines |-> due[l] - reqs[i].lines[l]])
        /\ UNCHANGED <<items, saved, started>>
    BY <1>3 DEF Accept
  <2>2. PICK r : r = [reqs[i] EXCEPT !.st = "accepted"]
    OBVIOUS
  <2>3. r \in Requests /\ r.st = "accepted" /\ r.lines = reqs[i].lines
    BY <1>0, <2>2 DEF Requests
  <2>4. reqs' \in [Ids -> Requests] /\ \A j \in Ids : reqs'[j] = IF j = i THEN r ELSE reqs[j]
    BY <1>0, <2>1, <2>2, <2>3
  <2>5. reqs[i].lines \in Carts /\ \A l \in Lines : reqs[i].lines[l] \in Int
    BY <1>0, RequestsAre, CartsAreInts
  <2>6. [l \in Lines |-> due[l] - reqs[i].lines[l]] \in [Lines -> Int]
    BY <1>0, <2>5
  <2>7. slips' \subseteq SlipNames /\ due' \in [Lines -> Int]
    BY <1>0, <2>1, <2>6, SlipTyped
  <2>8. ASSUME slips' = {} PROVE OnWay'
    <3>1. slips = {} /\ due' = [l \in Lines |-> due[l] - reqs[i].lines[l]] /\ OnWay
      BY <1>0, <2>1, <2>8, NoSlip
    <3>2. i \in InFlight /\ \A j \in InFlight : j = i
      BY <2>1, <3>1 DEF InFlight, OnWay
    <3>3. Accepted = {} /\ reqs[i].lines = items /\ due = items
      BY <2>1, <3>1, <3>2 DEF OnWay, Accepted
    <3>4. due' = Empty
      BY <2>5, <3>1, <3>3 DEF Empty
    <3>5. InFlight' = {i} /\ Accepted' = {i}
      BY <2>3, <2>4, <3>2 DEF InFlight, Accepted
    <3>6. QED
      BY <2>1, <2>3, <2>4, <3>3, <3>4, <3>5 DEF OnWay
  <2>9. QED
    BY <1>0, <2>1, <2>4, <2>7, <2>8 DEF ExactInv, GoodsTyped
<1>4. ASSUME NEW i \in Ids, i \in InFlight, OrderMade(i) \/ OrderFails(i) PROVE ExactInv'
  <2>1. /\ reqs' = [reqs EXCEPT ![i] = NoReq]
        /\ reqs' \in [Ids -> Requests]
        /\ \A j \in Ids : reqs'[j] = IF j = i THEN NoReq ELSE reqs[j]
    BY <1>0, <1>4, NothingSent DEF OrderMade, OrderFails, OrderEnds
  <2>2. ASSUME OnWay PROVE InFlight' = {} /\ Accepted' = {}
    BY <1>4, <2>1, <2>2, NothingSent DEF OnWay, InFlight, Accepted
  <2>3. CASE OrderMade(i)
    <3>1. reqs[i].st = "accepted" /\ items' = Empty /\ saved' = Empty /\ UNCHANGED <<due, slips>>
      BY <2>3 DEF OrderMade
    <3>2. ASSUME OnWay PROVE OnWay'
      <4>1. due = Empty
        BY <1>4, <3>1, <3>2 DEF OnWay, Accepted
      <4>2. QED
        BY <2>2, <3>1, <3>2, <4>1 DEF OnWay
    <3>3. QED
      BY <1>0, <2>1, <3>1, <3>2, EmptyIsSingle DEF ExactInv, GoodsTyped
  <2>4. CASE OrderFails(i)
    <3>1. /\ UNCHANGED <<items, saved, started>>
          /\ Slip(IF reqs[i].st = "accepted" THEN {"unanswered"} ELSE {}, due)
      BY <2>4 DEF OrderFails, AfterFailure
    <3>2. slips' \subseteq SlipNames /\ due' \in [Lines -> Int]
      <4>1. (IF reqs[i].st = "accepted" THEN {"unanswered"} ELSE {}) \subseteq SlipNames
        BY DEF SlipNames
      <4>2. QED
        BY <1>0, <3>1, <4>1, SlipTyped
    <3>3. ASSUME slips' = {} PROVE OnWay'
      <4>1. slips = {} /\ reqs[i].st # "accepted" /\ due' = due
        BY <3>1, <3>3, NoSlip
      <4>2. OnWay
        BY <1>0, <4>1
      <4>3. Accepted = {}
        BY <1>4, <4>1, <4>2 DEF OnWay, Accepted
      <4>4. QED
        BY <2>2, <3>1, <4>1, <4>2, <4>3 DEF OnWay
    <3>4. QED
      BY <1>0, <2>1, <3>1, <3>2, <3>3 DEF ExactInv, GoodsTyped
  <2>5. QED
    BY <1>4, <2>3, <2>4
<1>5. \A i \in Ids : OrderMade(i) \/ OrderFails(i) => i \in InFlight
  BY DEF OrderMade, OrderFails, InFlight
<1>6. QED
  BY <1>1, <1>2, <1>3, <1>4, <1>5

(* "Repeat this order". *)
LEMMA RepeatExact ==
    ASSUME ExactInv, DialogsTyped, AskRepeat \/ LeaveRepeat \/ RepeatAnswer \/ ConfirmRepeat
    PROVE  ExactInv'
<1>1. UNCHANGED <<started, reqs>>
  BY DEF AskRepeat, LeaveRepeat, RepeatAnswer, ConfirmRepeat
<1>2. CASE AskRepeat \/ LeaveRepeat
  BY <1>1, <1>2, QuietExact DEF AskRepeat, LeaveRepeat, Keeps
<1>3. CASE RepeatAnswer
  <2>1. PICK S \in SUBSET {p \in Products : Past[p] > 0} :
          LET c == [l \in Lines |-> IF l[2] = Plain /\ l[1] \in S THEN Past[l[1]] ELSE 0]
          IN  IF S # {} /\ repeat.empty
              THEN Becomes(c, c, IF items = Empty THEN {} ELSE {"repeat"}) /\ repeat' = NoRepeat
              ELSE /\ Keeps
                   /\ repeat' = IF S # {} /\ repeat.here
                                THEN [st |-> "asking", empty |-> FALSE, here |-> TRUE,
                                      lines |-> c]
                                ELSE NoRepeat
    BY <1>3 DEF RepeatAnswer
  <2>2. PICK c : c = [l \in Lines |-> IF l[2] = Plain /\ l[1] \in S THEN Past[l[1]] ELSE 0]
    OBVIOUS
  <2>3. c \in [Lines -> Int]
    BY <2>2, CartAssumption
  <2>4. CASE S # {} /\ repeat.empty
    <3>1. Becomes(c, c, IF items = Empty THEN {} ELSE {"repeat"})
      BY <2>1, <2>2, <2>4
    <3>2. (IF items = Empty THEN {} ELSE {"repeat"}) \subseteq SlipNames
      BY DEF SlipNames
    <3>3. QED
      BY <1>1, <2>3, <3>1, <3>2, ChangeExact
  <2>5. CASE ~(S # {} /\ repeat.empty)
    <3>1. UNCHANGED <<items, saved, due, slips>>
      BY <2>1, <2>5 DEF Keeps
    <3>2. QED
      BY <1>1, <3>1, QuietExact
  <2>6. QED
    BY <2>4, <2>5
<1>4. CASE ConfirmRepeat
  <2>1. Becomes(repeat.lines, repeat.lines, {})
    BY <1>4 DEF ConfirmRepeat
  <2>2. repeat.lines \in [Lines -> Int]
    BY DEF DialogsTyped
  <2>3. QED
    BY <1>1, <2>1, <2>2, ChangeExact
<1>5. QED
  BY <1>2, <1>3, <1>4

(* The tab is closed and opened again. *)
LEMMA ReloadExact ==
    ASSUME ExactInv, Reload \/ Restored
    PROVE  ExactInv'
<1>0. /\ items \in Carts /\ saved \in Carts /\ due \in [Lines -> Int]
      /\ slips \subseteq SlipNames /\ reqs \in [Ids -> Requests]
      /\ (started => saved = items) /\ (slips = {} => OnWay)
  BY DEF ExactInv, GoodsTyped
<1>1. CASE Reload
  <2>1. /\ items' = (IF started THEN saved ELSE Empty) /\ saved' = Empty /\ started' = FALSE
        /\ reqs' = [i \in Ids |-> NoReq]
        /\ Slip((IF started THEN {} ELSE {"restore"})
                  \cup (IF InFlight = {} THEN {} ELSE {"unanswered"}), due)
    BY <1>1 DEF Reload
  <2>2. slips' \subseteq SlipNames /\ due' \in [Lines -> Int]
    <3>1. ((IF started THEN {} ELSE {"restore"})
             \cup (IF InFlight = {} THEN {} ELSE {"unanswered"})) \subseteq SlipNames
      BY DEF SlipNames
    <3>2. QED
      BY <1>0, <2>1, <3>1, SlipTyped
  <2>3. ASSUME slips' = {} PROVE OnWay'
    <3>1. /\ slips = {} /\ due' = due
          /\ ((IF started THEN {} ELSE {"restore"})
               \cup (IF InFlight = {} THEN {} ELSE {"unanswered"})) = {}
      BY <2>1, <2>3, NoSlip
    <3>2. started /\ InFlight = {}
      BY <3>1
    <3>3. items' = items /\ due' = items
      BY <1>0, <2>1, <3>1, <3>2 DEF OnWay, Accepted
    <3>4. InFlight' = {} /\ Accepted' = {}
      BY <2>1, NothingSent DEF InFlight, Accepted
    <3>5. QED
      BY <3>3, <3>4 DEF OnWay
  <2>4. items' \in Carts /\ saved' \in Carts
    BY <1>0, <2>1, EmptyIsSingle
  <2>5. reqs' \in [Ids -> Requests]
    BY <2>1, NothingSent
  <2>6. QED
    BY <2>1, <2>2, <2>3, <2>4, <2>5 DEF ExactInv, GoodsTyped
<1>2. CASE Restored
  BY <1>0, <1>2 DEF Restored, ExactInv, GoodsTyped, OnWay, InFlight, Accepted
<1>3. QED
  BY <1>1, <1>2

LEMMA ExactStep == ASSUME ExactInv, DialogsTyped, [CartNext]_cartVars PROVE ExactInv'
<1>1. CASE Keep \/ OpenRecipe \/ CloseRecipe \/ EnterCart \/ ToCheckout \/ BackToCart
             \/ UNCHANGED cartVars
  <2>1. UNCHANGED <<items, saved, due, slips, reqs, started>>
    BY <1>1 DEF Keep, OpenRecipe, CloseRecipe, EnterCart, ToCheckout, BackToCart, Keeps, cartVars
  <2>2. QED
    BY <2>1, QuietExact
<1>2. QED
  BY <1>1, FillExact, OrderExact, RepeatExact, ReloadExact DEF CartNext

LEMMA NoRepeatTyped ==
    NoRepeat \in [st : {"idle", "asked", "asking"}, empty : BOOLEAN,
                  here : BOOLEAN, lines : [Lines -> Nat]]
BY EmptyDue DEF NoRepeat

LEMMA IngredientsTyped ==
    ASSUME DialogsTyped, NEW S \in SUBSET Products, AddIngredients(S)
    PROVE  conflict' \in Products \cup {NoProduct}
BY DEF AddIngredients, DialogsTyped

LEMMA RecipeTyped == Recipe \subseteq Products
BY DEF Recipe, Visible

LEMMA DialogsStep == ASSUME DialogsTyped, [CartNext]_cartVars PROVE DialogsTyped'
<1>0. /\ started \in BOOLEAN /\ recipe \in BOOLEAN
      /\ conflict \in Products \cup {NoProduct}
      /\ ticked \subseteq Products
      /\ view \in {"away", "cart", "checkout", "success"}
      /\ faults \in 0 .. MaxFaults
  BY DEF DialogsTyped
<1>1. ASSUME Mishap PROVE faults' \in 0 .. MaxFaults
  <2>1. faults \in Nat /\ faults < MaxFaults /\ faults' = faults + 1 /\ MaxFaults \in Nat
    BY <1>0, <1>1, CartAssumption DEF Mishap
  <2>2. QED
    BY <2>1
<1>2. ASSUME NEW p \in Products, AddTile(p) \/ ToggleIngredient(p) PROVE DialogsTyped'
  <2>1. UNCHANGED <<started, recipe, view, repeat, faults>>
    BY <1>2 DEF AddTile, ToggleIngredient
  <2>2. CASE AddTile(p)
    <3>1. UNCHANGED ticked /\ conflict' \in {conflict, p}
      BY <2>2 DEF AddTile
    <3>2. QED
      BY <1>0, <2>1, <3>1 DEF DialogsTyped
  <2>3. CASE ToggleIngredient(p)
    <3>1. ticked' \subseteq Products
      BY <1>0, <2>3 DEF ToggleIngredient
    <3>2. conflict' \in Products \cup {NoProduct}
      <4>1. CASE p \in ticked
        BY <1>0, <2>3, <4>1 DEF ToggleIngredient
      <4>2. CASE p \notin ticked
        <5>1. AddIngredients({p})
          BY <2>3, <4>2 DEF ToggleIngredient
        <5>2. QED
          BY <5>1, IngredientsTyped
      <4>3. QED
        BY <4>1, <4>2
    <3>3. QED
      BY <2>1, <3>1, <3>2 DEF DialogsTyped
  <2>4. QED
    BY <1>2, <2>2, <2>3
<1>3. ASSUME NEW l \in Lines, NEW n \in 0 .. MaxQty, AddFromSheet(l, n) \/ SetLine(l, n)
      PROVE  DialogsTyped'
  <2>1. UNCHANGED <<started, recipe, view, repeat, faults, ticked>> /\ conflict' \in {conflict, l[1]}
    BY <1>3 DEF AddFromSheet, SetLine, dialogVars
  <2>2. l[1] \in Products
    BY DEF Lines
  <2>3. QED
    BY <1>0, <2>1, <2>2 DEF DialogsTyped
<1>4. CASE Replace \/ Keep
  BY <1>0, <1>4 DEF DialogsTyped, Replace, Keep
<1>5. CASE Reload
  BY <1>1, <1>5, NoRepeatTyped DEF DialogsTyped, Reload
<1>6. CASE Restored
  BY <1>0, <1>6 DEF DialogsTyped, Restored, dialogVars
<1>7. CASE OpenRecipe \/ CloseRecipe \/ EnterCart
  BY <1>0, <1>7 DEF DialogsTyped, OpenRecipe, CloseRecipe, EnterCart
<1>8. CASE AddAll
  <2>1. conflict' \in Products \cup {NoProduct}
    BY <1>8, RecipeTyped, IngredientsTyped DEF AddAll
  <2>2. QED
    BY <1>0, <1>8, <2>1, RecipeTyped DEF DialogsTyped, AddAll
<1>9. CASE ClearCart \/ LeaveCart \/ ToCheckout \/ BackToCart
  BY <1>0, <1>9 DEF DialogsTyped, ClearCart, LeaveCart, ToCheckout, BackToCart, dialogVars
<1>10. CASE Submit
  BY <1>0, <1>10 DEF DialogsTyped, Submit, dialogVars
<1>11. ASSUME NEW i \in Ids, Accept(i) \/ OrderMade(i) \/ OrderFails(i) PROVE DialogsTyped'
  <2>1. /\ UNCHANGED <<started, dialogVars, repeat>>
        /\ view' \in {view, "success"} /\ (faults' = faults \/ Mishap)
    BY <1>11 DEF Accept, OrderMade, OrderFails
  <2>2. QED
    BY <1>0, <1>1, <2>1 DEF DialogsTyped, dialogVars
<1>12. CASE AskRepeat \/ LeaveRepeat \/ RepeatAnswer \/ ConfirmRepeat
  <2>1. UNCHANGED <<started, dialogVars, view, faults>>
    BY <1>12 DEF AskRepeat, LeaveRepeat, RepeatAnswer, ConfirmRepeat
  <2>2. repeat' \in [st : {"idle", "asked", "asking"}, empty : BOOLEAN,
                     here : BOOLEAN, lines : [Lines -> Nat]]
    <3>1. CASE AskRepeat
      <4>1. (items = Empty) \in BOOLEAN
        OBVIOUS
      <4>2. QED
        BY <3>1, <4>1, EmptyDue DEF AskRepeat
    <3>2. CASE LeaveRepeat
      BY <3>2, NoRepeatTyped DEF LeaveRepeat, DialogsTyped
    <3>3. CASE RepeatAnswer
      <4>1. PICK S \in SUBSET {p \in Products : Past[p] > 0} :
               repeat' \in {NoRepeat,
                 [st |-> "asking", empty |-> FALSE, here |-> TRUE,
                  lines |-> [l \in Lines |-> IF l[2] = Plain /\ l[1] \in S THEN Past[l[1]] ELSE 0]]}
        BY <3>3 DEF RepeatAnswer
      <4>2. PICK c : c = [l \in Lines |-> IF l[2] = Plain /\ l[1] \in S THEN Past[l[1]] ELSE 0]
        OBVIOUS
      <4>3. c \in [Lines -> Nat]
        BY <4>2, CartAssumption
      <4>4. repeat' = NoRepeat
              \/ repeat' = [st |-> "asking", empty |-> FALSE, here |-> TRUE, lines |-> c]
        BY <4>1, <4>2
      <4>5. [st |-> "asking", empty |-> FALSE, here |-> TRUE, lines |-> c]
              \in [st : {"idle", "asked", "asking"}, empty : BOOLEAN,
                   here : BOOLEAN, lines : [Lines -> Nat]]
        BY <4>3
      <4>6. CASE repeat' = NoRepeat
        BY <4>6, NoRepeatTyped
      <4>7. QED
        BY <4>4, <4>5, <4>6
    <3>4. CASE ConfirmRepeat
      BY <3>4, NoRepeatTyped DEF ConfirmRepeat
    <3>5. QED
      BY <1>12, <3>1, <3>2, <3>3, <3>4
  <2>3. QED
    BY <1>0, <2>1, <2>2 DEF DialogsTyped, dialogVars
<1>13. CASE UNCHANGED cartVars
  BY <1>13 DEF DialogsTyped, cartVars
<1>14. QED
  BY <1>2, <1>3, <1>4, <1>5, <1>6, <1>7, <1>8, <1>9, <1>10, <1>11, <1>12, <1>13 DEF CartNext

LEMMA CartInvariant == CartSpec => [](ExactInv /\ DialogsTyped)
<1>1. ASSUME CartInit PROVE ExactInv /\ DialogsTyped
  <2>1. reqs \in [Ids -> Requests] /\ InFlight = {} /\ Accepted = {}
    BY <1>1, NothingSent DEF CartInit, InFlight, Accepted
  <2>2. GoodsTyped
    BY <1>1, <2>1, EmptyDue, EmptyIsSingle DEF CartInit, GoodsTyped
  <2>3. OnWay
    BY <1>1, <2>1 DEF CartInit, OnWay
  <2>4. 0 \in 0 .. MaxFaults
    BY CartAssumption
  <2>5. DialogsTyped
    BY <1>1, <2>4, NoRepeatTyped DEF CartInit, DialogsTyped
  <2>6. QED
    BY <1>1, <2>2, <2>3, <2>5 DEF CartInit, ExactInv
<1>2. ASSUME ExactInv, DialogsTyped, [CartNext]_cartVars PROVE ExactInv' /\ DialogsTyped'
  BY <1>2, ExactStep, DialogsStep
<1>3. QED
  BY <1>1, <1>2, PTL DEF CartSpec

(* The types of the cart, its dialogs, the orders in flight and the repeated one. *)
THEOREM CartTyped == CartSpec => []CartTypeOK
<1>1. ExactInv /\ DialogsTyped => CartTypeOK
  BY DEF ExactInv, GoodsTyped, DialogsTyped, CartTypeOK, SlipNames, Requests
<1>2. QED
  BY <1>1, CartInvariant, PTL

(* For any products, options and quantities, and any number of orders: until one of
   the named slips the cart is what the customer put in and has not ordered, one order
   at most is in flight, and what it holds cannot be ordered twice. *)
THEOREM CartStaysExact == CartSpec => []ExactCart
<1>1. ASSUME ExactInv PROVE ExactCart
  <2>1. SUFFICES ASSUME OnWay
                 PROVE  /\ \A i, j \in InFlight : i = j
                        /\ Accepted = {} => \A l \in Lines : items[l] = due[l]
                        /\ \A i \in Accepted, l \in Lines : items[l] = due[l] + reqs[i].lines[l]
    BY <1>1 DEF ExactInv, ExactCart
  <2>2. ASSUME NEW i \in Accepted, NEW l \in Lines PROVE items[l] = due[l] + reqs[i].lines[l]
    <3>1. due = Empty /\ reqs[i].lines = items
      BY <2>1, <2>2 DEF OnWay, Accepted
    <3>2. due[l] = 0 /\ items[l] \in Int
      BY <1>1, <3>1, CartsAreInts DEF Empty, ExactInv, GoodsTyped
    <3>3. QED
      BY <3>1, <3>2
  <2>3. QED
    BY <2>1, <2>2 DEF OnWay
<1>2. QED
  BY <1>1, CartInvariant, PTL
=============================================================================
