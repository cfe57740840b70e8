------------------------------ MODULE Reviews ------------------------------
(***************************************************************************)
(* The reviews of an open store (Frontend/client-app, StoreDetailView):    *)
(* loaded once, added after the server's answer, removed before it and put *)
(* back when it refuses.                                                   *)
(*                                                                         *)
(* Of the list on the screen the order is left out: it is how many cards   *)
(* each review has.                                                        *)
(***************************************************************************)
EXTENDS Naturals, FiniteSets

CONSTANTS
    Ours, Theirs,  \* reviews the customer may write or has written; other people's
    Admin,         \* may the customer delete every review?
    MaxGlitches    \* bound: failed requests

All == Ours \cup Theirs

ASSUME ReviewsAssumption ==
    Ours # {} /\ Ours \cap Theirs = {} /\ Admin \in BOOLEAN /\ MaxGlitches \in Nat

VARIABLES
    posted,     \* server: the reviews of the store
    written,    \* server: those that have ever been written
    reviews,    \* what the screen lists: cards of each review
    got,        \* the list on its way
    tab,        \* is the tab with the reviews shown?
    permit,     \* canReview
    permitting, \* its request: "none", "asked" or the answer
    adding,     \* reviewsApi.add on the way
    removing,   \* deleteOwn or the administrator's delete on the way
    oddities,   \* history: the first thing the code has no answer for
    glitches

sectionVars == <<tab, permit, permitting>>
reviewVars == <<posted, written, reviews, got, sectionVars, adding, removing, oddities,
                glitches>>

Cards(S) == [r \in All |-> IF r \in S THEN 1 ELSE 0]
NoList == [st |-> "none", list |-> {}]
NoAdd == [st |-> "idle", what |-> {}, here |-> FALSE]

ReviewsTypeOK ==
    /\ posted \subseteq written /\ written \subseteq All
    /\ reviews \in [All -> Nat]
    /\ got \in [st : {"asked", "read", "none"}, list : SUBSET All]
    /\ tab \in BOOLEAN
    /\ permit \in {"unknown", "yes", "no"} /\ permitting \in {"none", "asked", "yes", "no"}
    /\ adding \in [st : {"idle", "sent", "stored"}, what : SUBSET Ours, here : BOOLEAN]
    /\ Cardinality(adding.what) <= 1
    /\ removing \in SUBSET (All \X {"sent", "gone"})
    /\ oddities \subseteq {"late list", "no list", "lost answer", "late delete"}
    /\ glitches \in 0 .. MaxGlitches
    \* What is removed is not shown meanwhile.
    /\ oddities = {} => \A x \in removing : reviews[x[1]] = 0

ReviewsInit ==
    /\ posted \in {Theirs, Theirs \cup {CHOOSE r \in Ours : TRUE}}
    /\ written = posted
    /\ reviews = Cards({}) /\ got = [st |-> "asked", list |-> {}]
    /\ tab = FALSE /\ permit = "unknown" /\ permitting = "none"
    /\ adding = NoAdd /\ removing = {}
    /\ oddities = {} /\ glitches = 0

Glitch == glitches < MaxGlitches /\ glitches' = glitches + 1
Odd(new) == oddities' = IF oddities = {} THEN new ELSE oddities

-----------------------------------------------------------------------------
(* The list. *)

ServeReviews ==
    /\ got.st = "asked"
    /\ got' = [st |-> "read", list |-> posted]
    /\ UNCHANGED <<posted, written, reviews, sectionVars, adding, removing, oddities, glitches>>

\* It replaces whatever has been added or removed since it was asked for.
ReviewsAnswer ==
    /\ got.st = "read"
    /\ reviews' = Cards(got.list)
    /\ got' = NoList
    /\ Odd(IF removing = {} /\ adding.st # "stored" /\ got.list = posted
           THEN {} ELSE {"late list"})
    /\ UNCHANGED <<posted, written, sectionVars, adding, removing, glitches>>

ReviewsFail ==
    /\ got.st # "none"
    /\ Glitch
    /\ got' = NoList
    /\ reviews' = Cards({})
    /\ Odd({"no list"})
    /\ UNCHANGED <<posted, written, sectionVars, adding, removing>>

-----------------------------------------------------------------------------
(* The section, mounted with its tab. *)

OpenReviews ==
    /\ ~tab
    /\ tab' = TRUE /\ permit' = "unknown" /\ permitting' = "asked"
    /\ UNCHANGED <<posted, written, reviews, got, adding, removing, oddities, glitches>>

CloseReviews ==
    /\ tab
    /\ tab' = FALSE /\ permit' = "unknown" /\ permitting' = "none"
    /\ adding' = [adding EXCEPT !.here = FALSE]
    /\ UNCHANGED <<posted, written, reviews, got, removing, oddities, glitches>>

\* CanUserReview asks for an order of this store, which the customer has.
ServePermit ==
    /\ permitting = "asked"
    /\ permitting' = "yes"
    /\ UNCHANGED <<posted, written, reviews, got, tab, permit, adding, removing, oddities,
                   glitches>>

PermitAnswers ==
    /\ permitting = "yes"
    /\ permit' = "yes" /\ permitting' = "none"
    /\ UNCHANGED <<posted, written, reviews, got, tab, adding, removing, oddities, glitches>>

PermitFails ==
    /\ permitting # "none"
    /\ Glitch
    /\ permit' = "no" /\ permitting' = "none"
    /\ UNCHANGED <<posted, written, reviews, got, tab, adding, removing, oddities>>

-----------------------------------------------------------------------------
(* A review is written. *)

\* Not while one is being sent, nor (bound) while that of a section that was left is.
AddReview(r) ==
    /\ tab /\ permit = "yes"
    /\ adding.st = "idle"
    /\ r \in Ours \ written
    /\ adding' = [st |-> "sent", what |-> {r}, here |-> TRUE]
    /\ UNCHANGED <<posted, written, reviews, got, sectionVars, removing, oddities, glitches>>

StoreReview ==
    /\ adding.st = "sent"
    /\ posted' = posted \cup adding.what
    /\ written' = written \cup adding.what
    /\ adding' = [adding EXCEPT !.st = "stored"]
    /\ UNCHANGED <<reviews, got, sectionVars, removing, oddities, glitches>>

\* Put into the list; the form is closed if it is still the same section.
ReviewAdded ==
    /\ adding.st = "stored"
    /\ \E r \in adding.what : reviews' = [reviews EXCEPT ![r] = @ + 1]
    /\ adding' = NoAdd
    /\ permit' = IF adding.here THEN "no" ELSE permit
    /\ UNCHANGED <<posted, written, got, tab, permitting, removing, oddities, glitches>>

AddFails ==
    /\ adding.st # "idle"
    /\ Glitch
    /\ adding' = NoAdd
    /\ Odd(IF adding.st = "stored" THEN {"lost answer"} ELSE {})
    /\ UNCHANGED <<posted, written, reviews, got, sectionVars, removing>>

-----------------------------------------------------------------------------
(* A review is deleted. *)

\* Its card goes at once, and the button with it.
DeleteReview(r) ==
    /\ tab
    /\ reviews[r] > 0
    /\ Admin \/ r \in Ours
    /\ \A x \in removing : x[1] # r
    /\ reviews' = [reviews EXCEPT ![r] = 0]
    /\ removing' = removing \cup {<<r, "sent">>}
    /\ UNCHANGED <<posted, written, got, sectionVars, adding, oddities, glitches>>

ServeDelete(x) ==
    /\ x \in removing /\ x[2] = "sent"
    /\ posted' = posted \ {x[1]}
    /\ removing' = (removing \ {x}) \cup {<<x[1], "gone">>}
    /\ UNCHANGED <<written, reviews, got, sectionVars, adding, oddities, glitches>>

DeleteAnswers(x) ==
    /\ x \in removing /\ x[2] = "gone"
    /\ removing' = removing \ {x}
    /\ UNCHANGED <<posted, written, reviews, got, sectionVars, adding, oddities, glitches>>

\* Fault: what the server refused to delete is gone from the screen.
NotPutBack(r) == IF r \in All THEN reviews ELSE Cards({})

PutBack(r) == [reviews EXCEPT ![r] = @ + 1]

DeleteFails(x) ==
    /\ x \in removing
    /\ Glitch
    /\ removing' = removing \ {x}
    /\ reviews' = PutBack(x[1])
    /\ Odd(IF x[2] = "gone" THEN {"late delete"} ELSE {})
    /\ UNCHANGED <<posted, written, got, sectionVars, adding>>

ReviewsNext ==
    \/ ServeReviews \/ ReviewsAnswer \/ ReviewsFail
    \/ OpenReviews \/ CloseReviews \/ ServePermit \/ PermitAnswers \/ PermitFails
    \/ \E r \in All : AddReview(r) \/ DeleteReview(r)
    \/ StoreReview \/ ReviewAdded \/ AddFails
    \/ \E x \in removing : ServeDelete(x) \/ DeleteAnswers(x) \/ DeleteFails(x)

ReviewsSpec == ReviewsInit /\ [][ReviewsNext]_reviewVars

-----------------------------------------------------------------------------
(* Correctness. *)

\* Once nothing is on the way the screen lists every review of the store once,
\* although it changes the list itself and never asks for it again.
ReviewsExact ==
    oddities = {} /\ got.st = "none" /\ adding.st = "idle" /\ removing = {} =>
        reviews = Cards(posted)

\* catalog/service.go:340-341: CanUserReview is true "if the user has a delivered
\* order of this store and has not left a review yet".
OneReviewEach == permitting = "yes" => written \cap Ours = {}
=============================================================================
