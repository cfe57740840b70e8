------------------------------ MODULE Account ------------------------------
(***************************************************************************)
(* Who the customer is (Frontend/client-app): AuthContext with the token   *)
(* it keeps in memory, the browser's cookie, the dialog that signs in, and *)
(* the favourites that follow the signed-in user, all over answers that    *)
(* come late, in any order, or never.                                      *)
(*                                                                         *)
(* The user and his token are set and cleared together and are one value   *)
(* here.  An answer sets the cookie as it arrives.                         *)
(***************************************************************************)
EXTENDS Naturals, FiniteSets, Sequences, SequencesExt

CONSTANTS
    Users, Nobody,
    Goods,       \* the products that can be favourites
    MaxAsked,    \* bound: requests of one kind in flight
    MaxMishaps   \* bound: lost requests and reloads

ASSUME AccountAssumption ==
    /\ Nobody \notin Users /\ {"asked", "none"} \cap (Users \cup {Nobody}) = {}
    /\ MaxAsked \in Nat \ {0} /\ MaxMishaps \in Nat

VARIABLES
    cookie,    \* the httpOnly cookie: a user or Nobody
    user,      \* AuthContext.user, with the token of tokenStore
    hydrated,  \* has authApi.me ended?
    me,        \* its answer on the way: a user, or "asked", or "none"
    wanted,    \* isAuthModalOpen
    step,      \* of the dialog
    signing,   \* sign-ins on the way, in the order they were sent
    leaving,   \* logouts on the way
    wish,      \* history: whom the customer signed in as last, Nobody after logout
    favs,      \* server: who likes what
    shown,     \* FavoritesContext.favorites
    loads,     \* favoritesApi.getAll on the way
    toggles,   \* favoritesApi.add and remove on the way
    lapses,    \* history: first slip the code does not exclude
    mishaps

authVars == <<cookie, user, hydrated, me, wanted, step, signing, leaving, wish>>
favVars == <<favs, shown, loads, toggles>>
accountVars == <<authVars, favVars, lapses, mishaps>>

Load == [as : Users, st : {"sent", "served"}, got : SUBSET Goods]
Toggle == [as : Users, good : Goods, add : BOOLEAN, st : {"sent", "done"}]

AccountTypeOK ==
    /\ cookie \in Users \cup {Nobody} /\ user \in Users \cup {Nobody} /\ wish \in Users \cup {Nobody}
    /\ hydrated \in BOOLEAN /\ wanted \in BOOLEAN
    /\ me \in Users \cup {Nobody, "asked", "none"}
    /\ step \in {"login", "register", "otp", "busy"}
    /\ signing \in Seq(Users) /\ Len(signing) <= MaxAsked
    /\ leaving \in 0 .. MaxAsked
    /\ favs \in SUBSET (Users \X Goods)
    /\ shown \subseteq Goods
    /\ loads \in Seq(Load) /\ Len(loads) <= MaxAsked
    /\ toggles \subseteq Toggle /\ Cardinality(toggles) <= MaxAsked
    /\ lapses \subseteq {"two sign-ins", "late logout", "lost logout", "lost sign-in",
                         "switched", "late list", "no list", "overlap", "lost answer"}
    /\ mishaps \in 0 .. MaxMishaps

\* A tab is opened in a browser that may hold a cookie.
AccountInit ==
    /\ cookie \in Users \cup {Nobody}
    /\ user = Nobody /\ hydrated = FALSE /\ me = "asked"
    /\ wanted = FALSE /\ step = "login"
    /\ signing = <<>> /\ leaving = 0
    /\ wish = cookie
    /\ favs \in SUBSET (Users \X Goods)
    /\ shown = {} /\ loads = <<>> /\ toggles = {}
    /\ lapses = {} /\ mishaps = 0

Lapse(new) == lapses' = IF lapses = {} THEN new ELSE lapses
Lost == mishaps < MaxMishaps /\ mishaps' = mishaps + 1

Likes(u) == {g \in Goods : <<u, g>> \in favs}
\* The effect of FavoritesContext runs when isAuthenticated changes: a guest
\* has no favourites, a user's are asked for.  An older answer may still come.
Reloaded(u) ==
    /\ shown' = IF u = Nobody THEN {} ELSE shown
    /\ loads' = IF u # Nobody /\ Len(loads) < MaxAsked
                THEN Append(loads, [as |-> u, st |-> "sent", got |-> {}]) ELSE loads

\* The user becomes u; one who is replaced leaves his favourites on the screen.
BecomesUser(u, why) ==
    /\ user' = u
    /\ IF (user = Nobody) # (u = Nobody)
       THEN /\ Len(loads) < MaxAsked
            /\ Reloaded(u)
            /\ Lapse(why)
       ELSE /\ UNCHANGED <<shown, loads>>
            /\ Lapse(why \cup IF user = u THEN {} ELSE {"switched"})
    /\ UNCHANGED <<favs, toggles>>

-----------------------------------------------------------------------------
(* The session. *)

\* GET /auth/me answers for the cookie; the answer signs in whom it names.
ServeMe ==
    /\ me = "asked"
    /\ me' = cookie
    /\ UNCHANGED <<cookie, user, hydrated, wanted, step, signing, leaving, wish,
                   favVars, lapses, mishaps>>

MeAnswers ==
    /\ me \in Users \cup {Nobody}
    /\ IF me # Nobody THEN BecomesUser(me, {}) ELSE UNCHANGED <<user, favVars, lapses>>
    /\ me' = "none" /\ hydrated' = TRUE
    /\ UNCHANGED <<cookie, wanted, step, signing, leaving, wish, mishaps>>

\* A failed request leaves the customer a guest who still has his cookie.
MeFails ==
    /\ me # "none"
    /\ Lost
    /\ me' = "none" /\ hydrated' = TRUE
    /\ wish' = Nobody
    /\ Lapse(IF cookie = Nobody THEN {} ELSE {"lost sign-in"})
    /\ UNCHANGED <<cookie, user, wanted, step, signing, leaving, favVars>>

\* openAuthModal of the header, a heart, the profile; closeAuthModal drops the
\* form, and not what it has sent.
WantDialog ==
    /\ user = Nobody /\ ~wanted
    /\ wanted' = TRUE /\ step' = "login"
    /\ UNCHANGED <<cookie, user, hydrated, me, signing, leaving, wish, favVars,
                   lapses, mishaps>>

\* Fault: the dialog opens before the session is restored.
WantedOnly == wanted

Dialog == hydrated /\ wanted

CloseDialog ==
    /\ Dialog
    /\ wanted' = FALSE /\ step' = "login"
    /\ UNCHANGED <<cookie, user, hydrated, me, signing, leaving, wish, favVars,
                   lapses, mishaps>>

SwitchMode(m) ==
    /\ Dialog /\ step \in {"login", "register", "otp"} /\ step # m
    /\ m \in IF step = "otp" THEN {"register"} ELSE {"login", "register"}
    /\ step' = m
    /\ UNCHANGED <<cookie, user, hydrated, me, wanted, signing, leaving, wish,
                   favVars, lapses, mishaps>>

\* POST /auth/register sends a code; the code is then verified like a password.
Register ==
    /\ Dialog /\ step = "register"
    /\ step' = "otp"
    /\ UNCHANGED <<cookie, user, hydrated, me, wanted, signing, leaving, wish,
                   favVars, lapses, mishaps>>

SignIn(u) ==
    /\ Dialog /\ step \in {"login", "otp"}
    /\ Len(signing) < MaxAsked
    /\ signing' = Append(signing, u)
    /\ step' = "busy"
    /\ UNCHANGED <<cookie, user, hydrated, me, wanted, leaving, wish, favVars,
                   lapses, mishaps>>

\* login(): the cookie, the token and the user are the answer's, and the dialog
\* is closed, whoever closed or opened it meanwhile.
SignedIn(i) ==
    /\ i \in DOMAIN signing
    /\ cookie' = signing[i]
    /\ signing' = RemoveAt(signing, i)
    /\ wish' = signing[i]
    /\ BecomesUser(signing[i], IF i = 1 THEN {} ELSE {"two sign-ins"})
    /\ wanted' = FALSE /\ step' = "login"
    /\ UNCHANGED <<hydrated, me, leaving, mishaps>>

\* Refused: only the form that sent it, if it is still there, is told.
SignInFails(i) ==
    /\ i \in DOMAIN signing
    /\ Lost
    /\ signing' = RemoveAt(signing, i)
    /\ step' = IF step = "busy" /\ i = Len(signing) THEN "login" ELSE step
    /\ UNCHANGED <<cookie, user, hydrated, me, wanted, leaving, wish, favVars, lapses>>

\* logout(): at once on the screen, later in the cookie.
SignOut ==
    /\ user # Nobody /\ ~Dialog
    /\ leaving < MaxAsked
    /\ leaving' = leaving + 1
    /\ wish' = Nobody
    /\ BecomesUser(Nobody, {})
    /\ UNCHANGED <<cookie, hydrated, me, wanted, step, signing, mishaps>>

SignedOut ==
    /\ leaving > 0
    /\ leaving' = leaving - 1
    /\ cookie' = Nobody
    /\ Lapse(IF wish = Nobody THEN {} ELSE {"late logout"})
    /\ UNCHANGED <<user, hydrated, me, wanted, step, signing, wish, favVars, mishaps>>

\* ".catch(() => {})": nobody is told that the cookie is still there.
SignOutFails ==
    /\ leaving > 0
    /\ Lost
    /\ leaving' = leaving - 1
    /\ Lapse({"lost logout"})
    /\ UNCHANGED <<cookie, user, hydrated, me, wanted, step, signing, wish, favVars>>

\* Whatever is on the way is forgotten with the page.
ReloadPage ==
    /\ Lost
    /\ user' = Nobody /\ hydrated' = FALSE /\ me' = "asked"
    /\ wanted' = FALSE /\ step' = "login"
    /\ signing' = <<>> /\ leaving' = 0
    /\ shown' = {} /\ loads' = <<>> /\ toggles' = {}
    /\ Lapse(IF leaving > 0 THEN {"lost logout"} ELSE {})
    /\ UNCHANGED <<cookie, wish, favs>>

-----------------------------------------------------------------------------
(* Favourites. *)

ServeLoad(i) ==
    /\ i \in DOMAIN loads /\ loads[i].st = "sent"
    /\ loads' = [loads EXCEPT ![i].st = "served", ![i].got = Likes(loads[i].as)]
    /\ UNCHANGED <<authVars, favs, shown, toggles, lapses, mishaps>>

\* Nothing cancels an older load: its answer replaces what is on the screen.
LoadAnswers(i) ==
    /\ i \in DOMAIN loads /\ loads[i].st = "served"
    /\ shown' = loads[i].got
    /\ loads' = RemoveAt(loads, i)
    /\ Lapse(IF i = Len(loads) /\ loads[i].as = user /\ toggles = {}
                /\ loads[i].got = Likes(user) THEN {} ELSE {"late list"})
    /\ UNCHANGED <<authVars, favs, toggles, mishaps>>

LoadFails(i) ==
    /\ i \in DOMAIN loads
    /\ Lost
    /\ shown' = {}
    /\ loads' = RemoveAt(loads, i)
    /\ Lapse({"no list"})
    /\ UNCHANGED <<authVars, favs, toggles>>

\* The heart of a product: the screen changes first.
ToggleFavorite(g) ==
    /\ user # Nobody /\ ~Dialog
    /\ Cardinality(toggles) < MaxAsked
    /\ LET add == g \notin shown
           t == [as |-> user, good |-> g, add |-> add, st |-> "sent"]
       IN  /\ t \notin toggles
           /\ shown' = IF add THEN shown \cup {g} ELSE shown \ {g}
           /\ toggles' = toggles \cup {t}
    /\ Lapse(IF \E t \in toggles : t.good = g THEN {"overlap"} ELSE {})
    /\ UNCHANGED <<authVars, favs, loads, mishaps>>

ServeToggle(t) ==
    /\ t \in toggles /\ t.st = "sent"
    /\ favs' = IF t.add THEN favs \cup {<<t.as, t.good>>} ELSE favs \ {<<t.as, t.good>>}
    /\ toggles' = (toggles \ {t}) \cup {[t EXCEPT !.st = "done"]}
    /\ UNCHANGED <<authVars, shown, loads, lapses, mishaps>>

ToggleAnswers(t) ==
    /\ t \in toggles /\ t.st = "done"
    /\ toggles' = toggles \ {t}
    /\ UNCHANGED <<authVars, favs, shown, loads, lapses, mishaps>>

\* Fault: what failed stays on the screen.
NotRolledBack(t) == IF t \in toggles THEN shown ELSE {}

\* The roll-back of what was shown too early.
RolledBack(t) == IF t.add THEN shown \ {t.good} ELSE shown \cup {t.good}

\* Also when the request has reached the server, and whoever looks by now.
ToggleFails(t) ==
    /\ t \in toggles
    /\ Lost
    /\ toggles' = toggles \ {t}
    /\ shown' = RolledBack(t)
    /\ Lapse(IF t.st = "done" THEN {"lost answer"}
             ELSE IF t.as # user THEN {"late list"} ELSE {})
    /\ UNCHANGED <<authVars, favs, loads>>

AccountNext ==
    \/ ServeMe \/ MeAnswers \/ MeFails
    \/ WantDialog \/ CloseDialog \/ Register \/ ReloadPage
    \/ \E m \in {"login", "register"} : SwitchMode(m)
    \/ \E u \in Users : SignIn(u)
    \/ \E i \in 1 .. MaxAsked :
         SignedIn(i) \/ SignInFails(i) \/ ServeLoad(i) \/ LoadAnswers(i) \/ LoadFails(i)
    \/ SignOut \/ SignedOut \/ SignOutFails
    \/ \E g \in Goods : ToggleFavorite(g)
    \/ \E t \in toggles : ServeToggle(t) \/ ToggleAnswers(t) \/ ToggleFails(t)

AccountSpec == AccountInit /\ [][AccountNext]_accountVars

-----------------------------------------------------------------------------
(* Correctness. *)

\* A request goes out with the token, or else with the cookie alone.
ActsAs == IF user # Nobody THEN user ELSE cookie

\* Once nothing is on the way, requests are made for the user on the screen, who
\* is the one the customer signed in as last, or nobody after a logout; the
\* answer about the old session never undoes a sign-in.  The exceptions are the
\* slips by name.
ActsAsShown ==
    lapses = {} /\ hydrated /\ leaving = 0 /\ signing = <<>> =>
        user = wish /\ ActsAs = wish

\* The hearts on the screen are the server's for the user on the screen, once
\* nothing is on the way.
FavoritesAreMine ==
    lapses = {} /\ loads = <<>> /\ toggles = {} =>
        shown = IF user = Nobody THEN {} ELSE Likes(user)
=============================================================================
