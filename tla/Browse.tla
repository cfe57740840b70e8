------------------------------- MODULE Browse -------------------------------
(***************************************************************************)
(* Finding a store or a product (Frontend/client-app): the tabs, the       *)
(* header and what is opened over them (page.tsx), the home page with its  *)
(* search, showcases and recipes, and the tab of categories.               *)
(*                                                                         *)
(* What a tab keeps for itself is lost when another one, a store or the    *)
(* spinner before a store is shown in its place.                           *)
(***************************************************************************)
EXTENDS Naturals, Sequences, FiniteSets, SequencesExt

CONSTANTS
    Stores, TypeOf,  \* the stores of the city and their categories
    Goals,           \* categories that products are opened at
    Words,           \* what can be typed into the search
    Showcases, Recipes,
    None,
    MaxFlights,      \* bound: requests of one kind in flight
    MaxFlops         \* bound: failed requests

ASSUME BrowseAssumption ==
    /\ None \notin Stores \cup Goals \cup Words \cup Showcases \cup Recipes
    /\ MaxFlights \in Nat \ {0} /\ MaxFlops \in Nat

Tabs == {"home", "categories", "favorites", "cart"}

VARIABLES
    place,              \* activeTab
    store,              \* openStore
    ways,               \* catalogApi.getStore on the way
    waiting,            \* storeLoading
    goal, sorted,       \* targetCategoryId; is a sort order chosen?
    word,               \* search
    opened,             \* history: where the open store was opened, and is it sorted?
    leftover,           \* history: has a store been left by a tab, or not been found?
    home,               \* the home page's own state
    answers,            \* its requests on the way
    grid,               \* the category tab's own state
    flops

shellVars == <<place, store, ways, waiting, goal, sorted, word, opened, leftover>>
browseVars == <<shellVars, home, answers, grid, flops>>

Way == [store : Stores, goal : Goals \cup {None}]

\* The showcase, the one whose products are listed; the sheet of a recipe, the
\* list of recipes; a product's sheet; the search whose products are listed.
Lists == {"search", "showcase"}
Home == [showcase : Showcases \cup {None}, block : Showcases \cup {None},
         recipe : Recipes \cup {None}, recipes : BOOLEAN,
         product : Way \cup {None}, found : Words \cup {None},
         \* History: the newest request has been answered; another answer, or none,
         \* has come since.
         fresh : SUBSET Lists, late : SUBSET Lists]
NoHome == [showcase |-> None, block |-> None, recipe |-> None, recipes |-> FALSE,
           product |-> None, found |-> None, fresh |-> {}, late |-> {}]

\* Requests in the order they were sent.
Answers == [featured : Seq(Showcases), searches : Seq(Words), recipe : Recipes \cup {None}]
NoAnswers == [featured |-> <<>>, searches |-> <<>>, recipe |-> None]

NoGrid == [type |-> None, stores |-> FALSE]

BrowseTypeOK ==
    /\ place \in Tabs /\ store \in Stores \cup {None}
    /\ ways \in Seq(Way) /\ waiting \in BOOLEAN
    /\ goal \in Goals \cup {None} /\ sorted \in BOOLEAN /\ word \in Words \cup {None}
    /\ opened \in [goal : Goals \cup {None}, sorted : BOOLEAN] /\ leftover \in BOOLEAN
    /\ home \in Home
    /\ answers \in Answers
    /\ Len(answers.featured) <= MaxFlights /\ Len(answers.searches) <= MaxFlights
    /\ grid.type \in {TypeOf[s] : s \in Stores} \cup {None} /\ grid.stores \in BOOLEAN
    /\ flops \in 0 .. MaxFlops
    \* A tab that is not shown keeps nothing.
    /\ place # "home" \/ store # None \/ waiting => home = NoHome /\ answers = NoAnswers
    /\ place # "categories" \/ store # None \/ waiting => grid = NoGrid

BrowseInit ==
    /\ place = "home" /\ store = None /\ ways = <<>> /\ waiting = FALSE
    /\ goal = None /\ sorted = FALSE /\ word = None
    /\ opened = [goal |-> None, sorted |-> FALSE] /\ leftover = FALSE
    /\ home = NoHome /\ answers = NoAnswers /\ grid = NoGrid
    /\ flops = 0

Flop == flops < MaxFlops /\ flops' = flops + 1

\* The home page is shown again, and looks for the word that is still there.
Remounted ==
    /\ answers' = IF place = "home" /\ word # None
                  THEN [answers EXCEPT !.searches = <<word>>] ELSE answers
    /\ UNCHANGED <<home, grid>>

\* Fault: the tab is shown below the spinner.
EvenWaiting == store = None

\* main: the open store, or the spinner, or the tab.
TabShown == store = None /\ ~waiting

AtHome == TabShown /\ place = "home"
\* Showcases, recipes and the sheets cover the header and the tab bar.
Uncovered == home.showcase = None /\ ~home.recipes /\ home.recipe = None /\ home.product = None

Unmounted == home' = NoHome /\ answers' = NoAnswers /\ grid' = NoGrid

Stale(h, l) == [h EXCEPT !.fresh = @ \ {l}, !.late = @ \ {l}]

\* Without a word the results of the search are not shown.
SearchClosed ==
    /\ home' = [Stale(home, "search") EXCEPT !.found = None]
    /\ answers' = [answers EXCEPT !.searches = <<>>]

-----------------------------------------------------------------------------
(* page.tsx. *)

\* handleOpenStore, from a product's sheet or from the cart.
Ways(w) ==
    /\ Len(ways) < MaxFlights
    /\ ways' = Append(ways, w)
    /\ waiting' = TRUE
    /\ goal' = w.goal
    /\ Unmounted

GoToStore ==
    /\ AtHome /\ home.product # None
    /\ Ways(home.product)
    /\ UNCHANGED <<place, store, sorted, word, opened, leftover, flops>>

\* "Back to the store" of the cart tab changes the tab first.
FromCart(w) ==
    /\ TabShown /\ place = "cart"
    /\ Ways(w)
    /\ place' = "home" /\ word' = None
    /\ UNCHANGED <<store, sorted, opened, leftover, flops>>

\* The tab may have been changed meanwhile; the store opens over the new one.
StoreAnswers ==
    /\ ways # <<>>
    /\ store' = Head(ways).store
    /\ opened' = [goal |-> Head(ways).goal, sorted |-> FALSE]
    /\ ways' = Tail(ways) /\ waiting' = FALSE
    /\ Unmounted
    /\ UNCHANGED <<place, goal, sorted, word, leftover, flops>>

StoreFails ==
    /\ ways # <<>>
    /\ Flop
    /\ store' = None
    /\ ways' = Tail(ways) /\ waiting' = FALSE
    /\ leftover' = TRUE
    /\ Remounted
    /\ UNCHANGED <<place, goal, sorted, word, opened>>

\* handleOpenStoreObject: a row of the categories' tab, if the store is open now.
OpenRow(s) ==
    /\ TabShown /\ place = "categories"
    /\ IF grid.stores THEN TypeOf[s] = grid.type
       ELSE word = None \/ grid.type \in {None, TypeOf[s]}
    /\ store' = s
    /\ opened' = [goal |-> None, sorted |-> FALSE]
    /\ Unmounted
    /\ UNCHANGED <<place, ways, waiting, goal, sorted, word, leftover, flops>>

\* Fault: the category the store was opened at is kept.
KeepsGoal == goal' = goal /\ sorted' = FALSE

Forgets == goal' = None /\ sorted' = FALSE

\* handleCloseStore.
CloseStore ==
    /\ store # None
    /\ store' = None
    /\ Forgets
    /\ Remounted
    /\ UNCHANGED <<place, ways, waiting, word, opened, leftover, flops>>

\* handleTabChange: the tab bar, the logo, the recipe and the profile that lead to
\* the cart.  It forgets neither the category nor the order of the store it closes.
ChangeTab(t) ==
    /\ AtHome => Uncovered \/ (t = "cart" /\ home.recipe # None)
    /\ t # place \/ store # None \/ word # None
    /\ place' = t /\ store' = None /\ word' = None
    /\ leftover' = (leftover \/ store # None \/ waiting)
    /\ IF t = place /\ TabShown THEN SearchClosed /\ UNCHANGED grid ELSE Unmounted
    /\ UNCHANGED <<ways, waiting, goal, sorted, opened, flops>>

\* The header: an order of the open store's list.
SortStore ==
    /\ store # None
    /\ sorted' = ~sorted
    /\ opened' = [opened EXCEPT !.sorted = ~sorted]
    /\ UNCHANGED <<place, store, ways, waiting, goal, word, leftover, home, answers, grid,
                   flops>>

-----------------------------------------------------------------------------
(* Requests of the home page: whichever answers last is shown. *)

\* Fault: nothing is asked for while an answer is waited for.
AskedOnce(s, x) == IF s = <<>> THEN <<x>> ELSE s

Asked(s, x) == Append(s, x)

\* Answer i of the requests s of a list is applied to h.
Marked(h, l, s, i, ok) ==
    IF l \notin h.fresh /\ i < Len(s) THEN h
    ELSE [h EXCEPT !.fresh = @ \cup {l},
                   !.late = IF l \in h.fresh \/ ~ok THEN @ \cup {l} ELSE @]

\* The search box, of every tab but the cart.  SearchResults is shown for a word.
Type(x) ==
    /\ place # "cart" /\ x # word
    /\ AtHome => Uncovered
    /\ word' = x
    /\ IF ~AtHome THEN UNCHANGED <<home, answers>>
       ELSE IF x = None THEN SearchClosed
       ELSE /\ Len(answers.searches) < MaxFlights
            /\ home' = Stale(home, "search")
            /\ answers' = [answers EXCEPT !.searches = Asked(@, x)]
    /\ UNCHANGED <<place, store, ways, waiting, goal, sorted, opened, leftover, grid, flops>>

SearchAnswers(i, x) ==
    /\ i \in DOMAIN answers.searches
    /\ x \in {answers.searches[i], None}
    /\ IF x = None THEN Flop ELSE UNCHANGED flops
    /\ answers' = [answers EXCEPT !.searches = RemoveAt(@, i)]
    /\ home' = [Marked(home, "search", answers.searches, i, x # None) EXCEPT !.found = x]
    /\ UNCHANGED <<shellVars, grid>>

\* handleOpenShowcase, and the way back.
OpenShowcase(k) ==
    /\ AtHome /\ Uncovered /\ word = None
    /\ Len(answers.featured) < MaxFlights
    /\ home' = [Stale(home, "showcase") EXCEPT !.showcase = k]
    /\ answers' = [answers EXCEPT !.featured = Asked(@, k)]
    /\ UNCHANGED <<shellVars, grid, flops>>

CloseShowcase ==
    /\ home.showcase # None /\ home.recipe = None /\ home.product = None
    /\ home' = [Stale(home, "showcase") EXCEPT !.showcase = None, !.block = None]
    /\ UNCHANGED <<shellVars, answers, grid, flops>>

ShowcaseAnswers(i, k) ==
    /\ i \in DOMAIN answers.featured
    /\ k \in {answers.featured[i], None}
    /\ IF k = None THEN Flop ELSE UNCHANGED flops
    /\ answers' = [answers EXCEPT !.featured = RemoveAt(@, i)]
    /\ home' = [Marked(home, "showcase", answers.featured, i, k # None) EXCEPT !.block = k]
    /\ UNCHANGED <<shellVars, grid>>

-----------------------------------------------------------------------------
(* Recipes and products. *)

OpenRecipes ==
    /\ AtHome /\ Uncovered /\ word = None
    /\ home' = [home EXCEPT !.recipes = TRUE]
    /\ UNCHANGED <<shellVars, answers, grid, flops>>

CloseRecipes ==
    /\ home.recipes /\ home.recipe = None
    /\ home' = [home EXCEPT !.recipes = FALSE]
    /\ UNCHANGED <<shellVars, answers, grid, flops>>

\* handleOpenRecipe; the buttons are disabled while a recipe is being fetched.
AskRecipe(r) ==
    /\ AtHome /\ word = None
    /\ Uncovered \/ (home.recipes /\ home.recipe = None)
    /\ answers.recipe = None
    /\ answers' = [answers EXCEPT !.recipe = r]
    /\ UNCHANGED <<shellVars, home, grid, flops>>

\* It opens over whatever the home page shows by then.
RecipeAnswers ==
    /\ answers.recipe # None
    /\ answers' = [answers EXCEPT !.recipe = None]
    /\ \/ home' = [home EXCEPT !.recipe = answers.recipe] /\ UNCHANGED flops
       \/ Flop /\ UNCHANGED home
    /\ UNCHANGED <<shellVars, grid>>

LeaveRecipe ==
    /\ home.recipe # None /\ home.product = None
    /\ home' = [home EXCEPT !.recipe = None]
    /\ UNCHANGED <<shellVars, answers, grid, flops>>

\* A card of the page, of a showcase, of the search or of a recipe, and its sheet.
OpenProduct(w) ==
    /\ AtHome /\ home.product = None
    /\ ~home.recipes \/ home.recipe # None
    /\ home' = [home EXCEPT !.product = w]
    /\ UNCHANGED <<shellVars, answers, grid, flops>>

CloseProduct ==
    /\ home.product # None
    /\ home' = [home EXCEPT !.product = None]
    /\ UNCHANGED <<shellVars, answers, grid, flops>>

-----------------------------------------------------------------------------
(* The tab of categories. *)

PickType(c) ==
    /\ TabShown /\ place = "categories" /\ word = None /\ ~grid.stores
    /\ grid' = [type |-> c, stores |-> TRUE]
    /\ UNCHANGED <<shellVars, home, answers, flops>>

\* "All categories": the category stays chosen, and the search looks only in it.
BackToTypes ==
    /\ grid.stores
    /\ grid' = [grid EXCEPT !.stores = FALSE]
    /\ UNCHANGED <<shellVars, home, answers, flops>>

BrowseNext ==
    \/ GoToStore \/ StoreAnswers \/ StoreFails \/ CloseStore \/ SortStore
    \/ \E w \in Way : FromCart(w) \/ OpenProduct(w)
    \/ \E s \in Stores : OpenRow(s) \/ PickType(TypeOf[s])
    \/ \E t \in Tabs : ChangeTab(t)
    \/ \E x \in Words \cup {None} : Type(x) \/ \E i \in 1 .. MaxFlights : SearchAnswers(i, x)
    \/ \E k \in Showcases : OpenShowcase(k)
    \/ \E k \in Showcases \cup {None}, i \in 1 .. MaxFlights : ShowcaseAnswers(i, k)
    \/ CloseShowcase \/ OpenRecipes \/ CloseRecipes \/ RecipeAnswers \/ LeaveRecipe
    \/ \E r \in Recipes : AskRecipe(r)
    \/ CloseProduct \/ BackToTypes

BrowseSpec == BrowseInit /\ [][BrowseNext]_browseVars

-----------------------------------------------------------------------------
(* Correctness. *)

\* Two stores are never on their way at once, so the one that opens is the one
\* that was asked for last, and the spinner ends with its answer: the spinner
\* takes the place of everything that could ask for another one.
OneStoreAtATime == Len(ways) <= 1 /\ waiting = (ways # <<>>)

\* A store opens where the customer asked for it and in its own order, unless an
\* earlier one was left by the tab bar or did not open: then its category and its
\* order are still there.
OpensAsAsked ==
    store # None /\ ~leftover => goal = opened.goal /\ sorted = opened.sorted

\* The products listed are those of the search, or of the showcase, on the
\* screen, once its answer has come, unless another answer has come since.
ResultsMatch ==
    /\ "search" \in home.fresh \ home.late => home.found = word
    /\ home.showcase # None /\ "showcase" \in home.fresh \ home.late =>
          home.block = home.showcase
=============================================================================
