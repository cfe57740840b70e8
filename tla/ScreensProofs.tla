---------------------------- MODULE ScreensProofs ----------------------------
(***************************************************************************)
(* The screens, the cache and the sign-up together: what is composed in    *)
(* MCScreens behaves as each of its parts does, for any constants, so that *)
(* what is proved of a part holds of the whole.                            *)
(***************************************************************************)
EXTENDS MCScreens, ShopProofs, AccountProofs, AdminProofs

LEMMA InitialScreens ==
    ScreensInit =>
        /\ CartInit /\ AccountInit /\ MyOrdersInit /\ StoreListInit /\ ReviewsInit
        /\ BrowseInit /\ AdminInit /\ CacheInit /\ SignUpInit
BY DEF ScreensInit

(* A step of one part leaves the variables of every other part alone. *)
LEMMA StepOfOnePart ==
    ASSUME [ScreensNext]_screenVars
    PROVE  /\ [CartNext]_cartVars /\ [AccountNext]_accountVars /\ [MyOrdersNext]_orderVars
           /\ [StoreListNext]_storeListVars /\ [ReviewsNext]_reviewVars
           /\ [BrowseNext]_browseVars /\ [PanelNext]_panelVars /\ [CacheNext]_cacheVars
           /\ [SignUpNext]_signUpVars
BY DEF ScreensNext, screenVars

(* Whatever part is followed, a behaviour of the whole is one of every part: the
   steps of the others are steps in which nothing of it changes. *)
THEOREM ScreensImplementParts ==
    ScreensSpec =>
        /\ CartSpec /\ AccountSpec /\ MyOrdersSpec /\ StoreListSpec /\ ReviewsSpec
        /\ BrowseSpec /\ PanelSpec /\ CacheSpec /\ SignUpSpec
<1>1. QED
  BY InitialScreens, StepOfOnePart, PTL
     DEF ScreensSpec, CartSpec, AccountSpec, MyOrdersSpec, StoreListSpec, ReviewsSpec,
         BrowseSpec, PanelSpec, CacheSpec, SignUpSpec

(* The types of all the screens. *)
THEOREM ScreensTyped == ScreensSpec => []ScreensTypeOK
<1>1. /\ CartTypeOK /\ AccountTypeOK /\ MyOrdersTypeOK /\ StoreListTypeOK /\ ReviewsTypeOK
      /\ BrowseTypeOK /\ AdminTypeOK /\ CacheTypeOK /\ SignUpTypeOK
      => ScreensTypeOK
  BY DEF ScreensTypeOK
<1>2. QED
  BY <1>1, ScreensImplementParts, CartTyped, AccountTyped, MyOrdersTyped, StoreListTyped,
     ReviewsTypesHold, BrowseTyped, AdminTyped, CacheTyped, SignUpTypes, PTL

(* What the screens, the cache and the sign-up promise. *)
ScreensPromise ==
    /\ OneStore /\ ExactCart
    /\ ActsAsShown /\ FavoritesAreMine
    /\ CancelWorks /\ NoFalseCancel /\ RightOrderShown
    /\ ExactList /\ ReviewsExact
    /\ OneStoreAtATime /\ OpensAsAsked /\ ResultsMatch
    /\ ListsCatchUp /\ OneRowPerForm /\ NothingForStrangers
    /\ CachedIsCurrent /\ SignUpSucceeds

(* All that is proved of the parts holds of the whole at every moment, of the parts
   that have stopped as of the one that is followed. *)
THEOREM ScreensKeepPromise == ScreensSpec => []ScreensPromise
<1>1. /\ OneStore /\ ExactCart /\ ActsAsShown /\ FavoritesAreMine /\ CancelWorks
      /\ NoFalseCancel /\ RightOrderShown /\ ExactList /\ ReviewsExact
      /\ OneStoreAtATime /\ OpensAsAsked /\ ResultsMatch /\ ListsCatchUp
      /\ OneRowPerForm /\ NothingForStrangers /\ CachedIsCurrent /\ SignUpSucceeds
      => ScreensPromise
  BY DEF ScreensPromise
<1>2. QED
  BY <1>1, ScreensImplementParts, CartOneStore, CartStaysExact, AccountActsAsShown,
     AccountFavoritesAreMine, MyOrdersCancelWorks, MyOrdersNoFalseCancel,
     MyOrdersRightOrderShown, StoreListExact, ReviewsStayExact, BrowseOneStore,
     BrowseOpensAsAsked, BrowseResultsMatch, AdminListsCatchUp, AdminOneRowPerForm,
     AdminNothingForStrangers, CacheCachedIsCurrent, SignUpAlwaysSucceeds, PTL
=============================================================================
