----------------------------- MODULE StoreList -----------------------------
(***************************************************************************)
(* The products of an open store (Frontend/client-app, StoreDetailView):   *)
(* the two rows of categories, the search and the order chosen in the      *)
(* header, the pages of the list and the sentinel that asks for the next   *)
(* one.  No request is ever cancelled, so answers may come in any order.   *)
(*                                                                         *)
(* An entry of a listing is its place in the listing of a filter.          *)
(***************************************************************************)
EXTENDS Naturals, Sequences, SequencesExt

CONSTANTS
    Tree,        \* the store's categories, in order
    ChildrenOf,  \* their subcategories
    NoNode,
    Target,      \* the category a product was opened from, or NoNode
    Texts, NoText,   \* what can be searched for
    Sorts, Default,  \* orders of the list
    Count,       \* how many products each filter has
    PageSize,
    MaxAsks,     \* bound: requests in flight
    MaxLosses    \* bound: failed requests

Tops == {Tree[i] : i \in DOMAIN Tree}
Nodes == Tops \cup UNION {ChildrenOf[t] : t \in Tops}
Filters == (Nodes \cup {NoNode}) \X (Texts \cup {NoText}) \X Sorts

ASSUME StoreListAssumption ==
    /\ Tree \in Seq(Tops) /\ NoNode \notin Nodes /\ NoText \notin Texts /\ Default \in Sorts
    /\ Count \in [Filters -> Nat] /\ PageSize \in Nat \ {0}
    /\ MaxAsks \in Nat \ {0} /\ MaxLosses \in Nat

VARIABLES
    ready,     \* categoryReady
    top, sub,  \* selectedL1, selectedL2Id
    text, order,
    page,      \* products
    spinner,   \* productsLoading
    more,      \* hasMore
    fetching,  \* loadingMore
    offset,
    asked,     \* requests for products, in the order they were sent
    products,  \* is the tab with the products shown, not the reviews?
    watched,   \* does the observer look at the sentinel on the screen?
    settled,   \* history: the first page of the current filter has come
    tainted,   \* history: an answer has come that was meant for another list
    losses

filterVars == <<top, sub, text, order>>
listingVars == <<page, spinner, more, fetching, offset>>
markVars == <<settled, tainted>>
storeListVars == <<ready, filterVars, listingVars, asked, products, watched, markVars,
                   losses>>

\* filterParams: a search is made in the whole store.
FilterOf(t, s, x, o) ==
    <<IF x # NoText THEN NoNode ELSE IF s # NoNode THEN s ELSE t, x, o>>
Filter == FilterOf(top, sub, text, order)

Ask == [of : Filters, at : Nat, first : BOOLEAN]

\* The server's page of a filter, and has_more.
PageAt(f, at) == [i \in 1 .. (IF at + PageSize < Count[f] THEN PageSize
                              ELSE IF at < Count[f] THEN Count[f] - at ELSE 0) |-> <<f, at + i>>]
HasMore(f, at) == at + PageSize < Count[f]

Firsts == {i \in DOMAIN asked : asked[i].first}

StoreListTypeOK ==
    /\ ready \in BOOLEAN /\ products \in BOOLEAN /\ watched \in BOOLEAN
    /\ top \in Tops \cup {NoNode} /\ sub \in Nodes \cup {NoNode}
    /\ text \in Texts \cup {NoText} /\ order \in Sorts
    /\ page \in Seq(Filters \X Nat) /\ offset \in Nat
    /\ more \in BOOLEAN
    /\ asked \in Seq(Ask) /\ Len(asked) <= MaxAsks
    /\ settled \in BOOLEAN /\ tainted \in BOOLEAN
    /\ losses \in 0 .. MaxLosses
    \* Nothing is waited for that is not on the way.
    /\ spinner \in BOOLEAN /\ (ready /\ spinner => Firsts # {})
    /\ fetching \in BOOLEAN /\ (fetching => DOMAIN asked \ Firsts # {})
    \* Only a list on the screen has a sentinel to look at.
    /\ watched => products /\ ~spinner /\ page # <<>>

StoreListInit ==
    /\ ready = FALSE
    /\ top = NoNode /\ sub = NoNode
    /\ text \in Texts \cup {NoText} /\ order = Default
    /\ page = <<>> /\ spinner = TRUE /\ more = TRUE /\ fetching = FALSE /\ offset = 0
    /\ asked = <<>>
    /\ products = TRUE /\ watched = FALSE
    /\ settled = FALSE /\ tainted = FALSE
    /\ losses = 0

Without(i) == RemoveAt(asked, i)
Lose == losses < MaxLosses /\ losses' = losses + 1

\* The sentinel is rendered below a list, not below a skeleton.
Sentinel == products /\ ~spinner /\ page # <<>>

-----------------------------------------------------------------------------
(* Filters. *)

\* The effect of a changed filter: the list is dropped and its first page asked
\* for.  The observer still looks at the sentinel of the old list until that is
\* taken off the screen, and may ask for a page of the new filter meanwhile.
Refetched ==
    LET f == FilterOf(top', sub', text', order')
        first == [of |-> f, at |-> 0, first |-> TRUE]
    IN  /\ page' = <<>> /\ spinner' = TRUE /\ more' = TRUE /\ offset' = 0
        /\ watched' = FALSE
        /\ settled' = FALSE /\ tainted' = FALSE
        /\ \/ /\ asked' = Append(asked, first)
              /\ UNCHANGED fetching
           \/ /\ Sentinel /\ more /\ ~fetching
              /\ asked' = asked \o <<first, [first EXCEPT !.first = FALSE]>>
              /\ fetching' = TRUE
        /\ Len(asked') <= MaxAsks

\* The categories: the first of them, or the one of the product that was opened.
TreeAnswers ==
    /\ ~ready
    /\ ready' = TRUE
    /\ IF \E t \in Tops : Target \in ChildrenOf[t]
       THEN top' = (CHOOSE t \in Tops : Target \in ChildrenOf[t]) /\ sub' = Target
       ELSE /\ top' = IF Target \in Tops THEN Target
                      ELSE IF Tree = <<>> THEN NoNode ELSE Tree[1]
            /\ sub' = NoNode
    /\ UNCHANGED <<text, order>>
    /\ Refetched
    /\ UNCHANGED <<products, losses>>

\* Without them the whole store is listed.
TreeFails ==
    /\ ~ready
    /\ Lose
    /\ ready' = TRUE
    /\ UNCHANGED filterVars
    /\ Refetched
    /\ UNCHANGED products

\* selectedL1 and selectedL2Id: what the list is of.
Choose(t, s) ==
    /\ ready /\ products
    /\ <<t, s>> # <<top, sub>>
    /\ top' = t /\ sub' = s
    /\ UNCHANGED <<text, order>>
    /\ Refetched
    /\ UNCHANGED <<ready, products, losses>>

\* The cards of the categories; the chips of the one chosen, "all" the first.
CategoryCard(t) == top # NoNode /\ Choose(t, NoNode)

CategoryChip(s) == top # NoNode /\ s \in ChildrenOf[top] \cup {NoNode} /\ Choose(top, s)

\* The header.  Before the categories have come only the values change.
SearchFor(x, o) ==
    /\ <<x, o>> # <<text, order>>
    /\ text' = x /\ order' = o
    /\ UNCHANGED <<top, sub>>
    /\ IF ready THEN Refetched ELSE UNCHANGED <<listingVars, asked, watched, markVars>>
    /\ UNCHANGED <<ready, products, losses>>

-----------------------------------------------------------------------------
(* Pages. *)

\* The observer is set up again when the callback it calls has changed, which it
\* does with hasMore and loadingMore, and not when a list appears.
Rewatched(changed) ==
    watched' = LET there == products /\ ~spinner' /\ page' # <<>>
               IN  IF changed THEN there ELSE watched /\ there

Newest(i) == ~settled /\ \A j \in Firsts : j <= i

FirstAnswers(i) ==
    /\ i \in Firsts
    /\ LET a == asked[i]
       IN  /\ page' = PageAt(a.of, 0)
           /\ offset' = Len(page')
           /\ more' = HasMore(a.of, 0)
    /\ spinner' = FALSE
    /\ asked' = Without(i)
    /\ Rewatched(more' # more)
    /\ settled' = (settled \/ Newest(i))
    /\ tainted' = settled
    /\ UNCHANGED <<ready, filterVars, fetching, products, losses>>

FirstFails(i) ==
    /\ i \in Firsts
    /\ Lose
    /\ page' = <<>> /\ spinner' = FALSE
    /\ asked' = Without(i)
    /\ watched' = FALSE
    /\ settled' = (settled \/ Newest(i))
    /\ tainted' = settled'
    /\ UNCHANGED <<ready, filterVars, more, fetching, offset, products>>

LoadMore ==
    /\ watched
    /\ ~fetching /\ more
    /\ Len(asked) < MaxAsks
    /\ asked' = Append(asked, [of |-> Filter, at |-> offset, first |-> FALSE])
    /\ fetching' = TRUE
    /\ UNCHANGED <<ready, filterVars, page, spinner, more, offset, products, watched,
                   markVars, losses>>

\* Fault: the next page is the same page again.
Stays(n) == IF n = 0 THEN PageSize ELSE offset

Advanced(n) == offset + n

MoreAnswers(i) ==
    /\ i \in DOMAIN asked \ Firsts
    /\ LET a == asked[i]
           got == PageAt(a.of, a.at)
       IN  /\ page' = page \o got
           /\ offset' = Advanced(Len(got))
           /\ more' = HasMore(a.of, a.at)
           /\ tainted' = (tainted \/ (settled /\ <<a.of, a.at>> # <<Filter, offset>>))
    /\ fetching' = FALSE
    /\ asked' = Without(i)
    /\ UNCHANGED spinner
    /\ Rewatched(TRUE)
    /\ UNCHANGED <<ready, filterVars, products, settled, losses>>

MoreFails(i) ==
    /\ i \in DOMAIN asked \ Firsts
    /\ Lose
    /\ fetching' = FALSE
    /\ asked' = Without(i)
    /\ UNCHANGED <<page, spinner>>
    /\ Rewatched(TRUE)
    /\ UNCHANGED <<ready, filterVars, more, offset, products, markVars>>

\* Products or reviews: another sentinel is rendered, which nobody looks at.
SwitchTab ==
    /\ products' = ~products
    /\ watched' = FALSE
    /\ UNCHANGED <<ready, filterVars, listingVars, asked, markVars, losses>>

StoreListNext ==
    \/ TreeAnswers \/ TreeFails
    \/ \E t \in Tops : CategoryCard(t)
    \/ \E s \in Nodes \cup {NoNode} : CategoryChip(s)
    \/ \E x \in Texts \cup {NoText}, o \in Sorts : SearchFor(x, o)
    \/ \E i \in DOMAIN asked :
         FirstAnswers(i) \/ FirstFails(i) \/ MoreAnswers(i) \/ MoreFails(i)
    \/ LoadMore \/ SwitchTab

StoreListSpec == StoreListInit /\ [][StoreListNext]_storeListVars

-----------------------------------------------------------------------------
(* Correctness. *)

\* The list is the beginning of what the categories, the search and the order on
\* the screen ask for, without gaps and repetitions, and "has more" is true of
\* it, from the answer for this filter on, whatever was asked for before; unless
\* an answer that was meant for another list has come after it, which nothing in
\* the code prevents.
ExactList ==
    settled /\ ~tainted =>
        /\ page = [i \in 1 .. offset |-> <<Filter, i>>]
        /\ offset <= Count[Filter]
        /\ more = (offset < Count[Filter])

\* StoreDetailView.tsx:185: "IntersectionObserver watches the sentinel at the
\* bottom of the list".  A list that has more can be continued.
MoreIsReachable == settled /\ more /\ Sentinel => watched
=============================================================================
