---------------------------- MODULE AccountProofs ----------------------------
(***************************************************************************)
(* The customer's session and favourites, and the sign-up by e-mail, for   *)
(* any number of users, products, requests in flight, codes and mishaps;   *)
(* and his orders on the screen, for any orders, pages of the list,        *)
(* pushes, changes of status and failures: when an order is shown as       *)
(* cancelled, and whose sheet is open.                                     *)
(***************************************************************************)
EXTENDS Account, SignUp, MyOrders, SequenceTheorems, FiniteSetTheorems, TLAPS

Anyone == Users \cup {Nobody}

(* Until the question about the old session has ended there is no user, nothing
   is on the way, and its answer is about the cookie that is still there. *)
RestoreInv ==
    /\ cookie \in Anyone /\ leaving \in Nat /\ signing \in Seq(Users)
    /\ hydrated <=> me = "none"
    /\ ~hydrated => user = Nobody /\ leaving = 0 /\ signing = <<>>
    /\ me \in Anyone => me = cookie

(* As long as nothing has slipped, the customer is who he wishes to be: on the
   screen at once, in the cookie when his logouts have arrived. *)
WishInv ==
    /\ lapses = {} /\ hydrated => user = wish
    /\ lapses = {} /\ leaving = 0 => cookie = wish

AccountInv == RestoreInv /\ WishInv

LEMMA LapseKeeps == ASSUME NEW new, Lapse(new), lapses' = {} PROVE lapses = {} /\ new = {}
BY DEF Lapse

LEMMA BecomesUserSlips ==
    ASSUME NEW u, NEW why, BecomesUser(u, why)
    PROVE  user' = u /\ (lapses' = {} => lapses = {} /\ why = {})
<1>1. PICK slip : Lapse(slip) /\ why \subseteq slip
  BY DEF BecomesUser
<1>2. QED
  BY <1>1, LapseKeeps DEF BecomesUser

LEMMA AccountStep ==
    ASSUME AccountInv, [AccountNext]_accountVars
    PROVE  AccountInv'
<1>0. leaving \in Nat
  BY DEF AccountInv, RestoreInv
<1> USE DEF AccountInv, RestoreInv, WishInv, Anyone
<1>1. ASSUME UNCHANGED <<cookie, user, hydrated, me, leaving, wish>>, signing' \in Seq(Users),
             hydrated \/ signing' = <<>>, lapses' = {} => lapses = {}
      PROVE  AccountInv'
  BY <1>1
<1>2. CASE ServeMe
  BY <1>2, AccountAssumption DEF ServeMe
<1>3. CASE MeAnswers
  <2>1. ~hydrated /\ me = cookie /\ user = Nobody
    BY <1>3, AccountAssumption DEF MeAnswers
  <2>2. user' = me /\ (lapses' = {} => lapses = {})
    BY <1>3, <2>1, BecomesUserSlips DEF MeAnswers
  <2>3. QED
    BY <1>3, <2>1, <2>2, AccountAssumption DEF MeAnswers
<1>4. CASE MeFails
  <2>1. lapses' = {} => lapses = {} /\ cookie = Nobody
    BY <1>4, LapseKeeps DEF MeFails
  <2>2. QED
    BY <1>4, <2>1, AccountAssumption DEF MeFails
<1>5. CASE WantDialog \/ CloseDialog \/ Register \/ \E m \in {"login", "register"} : SwitchMode(m)
  BY <1>1, <1>5 DEF WantDialog, CloseDialog, Register, SwitchMode
<1>6. ASSUME NEW u \in Users, SignIn(u) PROVE AccountInv'
  BY <1>1, <1>6 DEF SignIn, Dialog
<1>7. ASSUME NEW i, i \in DOMAIN signing
      PROVE  signing[i] \in Users /\ RemoveAt(signing, i) \in Seq(Users) /\ hydrated
  BY <1>7 DEF RemoveAt
<1>8. ASSUME NEW i, SignedIn(i) PROVE AccountInv'
  <2>1. /\ signing[i] \in Users /\ RemoveAt(signing, i) \in Seq(Users) /\ hydrated
    BY <1>7, <1>8 DEF SignedIn
  <2>2. user' = signing[i] /\ (lapses' = {} => lapses = {})
    BY <1>8, BecomesUserSlips DEF SignedIn
  <2>3. QED
    BY <1>8, <2>1, <2>2, AccountAssumption DEF SignedIn
<1>9. ASSUME NEW i, SignInFails(i) PROVE AccountInv'
  BY <1>1, <1>7, <1>9 DEF SignInFails
<1>10. CASE SignOut
  <2>1. hydrated /\ user' = Nobody /\ (lapses' = {} => lapses = {})
    BY <1>10, BecomesUserSlips DEF SignOut
  <2>2. QED
    BY <1>10, <2>1 DEF SignOut
<1>11. CASE SignedOut
  <2>1. leaving > 0 /\ leaving' = leaving - 1
    BY <1>11 DEF SignedOut
  <2>2. leaving' \in Nat /\ leaving # 0
    BY <1>0, <2>1
  <2>3. hydrated
    BY <2>2
  <2>4. lapses' = {} => lapses = {} /\ wish = Nobody
    BY <1>11 DEF SignedOut, Lapse
  <2>5. cookie' = Nobody /\ UNCHANGED <<user, hydrated, me, signing, wish>>
    BY <1>11 DEF SignedOut
  <2>6. me \notin Anyone
    BY <2>3, AccountAssumption
  <2>7. QED
    BY <2>2, <2>3, <2>4, <2>5, <2>6
<1>12. CASE SignOutFails
  <2>1. leaving > 0 /\ leaving' = leaving - 1
    BY <1>12 DEF SignOutFails
  <2>2. leaving' \in Nat /\ leaving # 0
    BY <1>0, <2>1
  <2>3. hydrated
    BY <2>2
  <2>4. lapses' # {}
    BY <1>12 DEF SignOutFails, Lapse
  <2>5. QED
    BY <1>12, <2>2, <2>3, <2>4 DEF SignOutFails
<1>13. CASE ReloadPage
  <2>1. lapses' = {} => lapses = {} /\ leaving = 0
    <3>1. leaving > 0 \/ leaving = 0
      BY <1>0
    <3>2. QED
      BY <1>13, <3>1 DEF ReloadPage, Lapse
  <2>2. /\ user' = Nobody /\ ~hydrated' /\ me' = "asked" /\ signing' = <<>> /\ leaving' = 0
        /\ UNCHANGED <<cookie, wish>>
    BY <1>13 DEF ReloadPage
  <2>3. me' \notin Anyone /\ signing' \in Seq(Users)
    BY <2>2, AccountAssumption
  <2>4. QED
    BY <2>1, <2>2, <2>3
<1>14. ASSUME NEW i, ServeLoad(i) \/ LoadAnswers(i) \/ LoadFails(i) PROVE AccountInv'
  <2>1. lapses' = {} => lapses = {}
    BY <1>14, LapseKeeps DEF ServeLoad, LoadAnswers, LoadFails
  <2>2. QED
    BY <1>1, <1>14, <2>1 DEF ServeLoad, LoadAnswers, LoadFails, authVars
<1>15. ASSUME NEW g, ToggleFavorite(g) PROVE AccountInv'
  BY <1>1, <1>15, LapseKeeps DEF ToggleFavorite, authVars
<1>16. ASSUME NEW t, ServeToggle(t) \/ ToggleAnswers(t) \/ ToggleFails(t) PROVE AccountInv'
  <2>1. lapses' = {} => lapses = {}
    BY <1>16, LapseKeeps DEF ServeToggle, ToggleAnswers, ToggleFails
  <2>2. QED
    BY <1>1, <1>16, <2>1 DEF ServeToggle, ToggleAnswers, ToggleFails, authVars
<1>17. CASE UNCHANGED accountVars
  BY <1>1, <1>17 DEF accountVars, authVars
<1>18. QED
  BY <1>2, <1>3, <1>4, <1>5, <1>6, <1>8, <1>9, <1>10, <1>11, <1>12, <1>13, <1>14, <1>15,
     <1>16, <1>17 DEF AccountNext

(* Whatever arrives late, in another order or never: when nothing is on the way
   and none of the named slips has happened, the screen, the token and the cookie
   all stand for the user that the customer signed in as last, or for nobody. *)
THEOREM AccountActsAsShown == AccountSpec => []ActsAsShown
<1>1. AccountInit => AccountInv
  <2> SUFFICES ASSUME AccountInit PROVE AccountInv
    OBVIOUS
  <2>1. me = "asked" /\ me \notin Anyone
    BY AccountAssumption DEF AccountInit, Anyone
  <2>2. QED
    BY <2>1 DEF AccountInit, AccountInv, RestoreInv, WishInv, Anyone
<1>2. AccountInv /\ [AccountNext]_accountVars => AccountInv'
  BY AccountStep
<1>3. AccountInv => ActsAsShown
  BY DEF AccountInv, RestoreInv, WishInv, ActsAsShown, ActsAs
<1>4. QED
  BY <1>1, <1>2, <1>3, PTL DEF AccountSpec

-----------------------------------------------------------------------------
(* Types: of the session, of the favourites and of the rest. *)

Slips == {"two sign-ins", "late logout", "lost logout", "lost sign-in",
          "switched", "late list", "no list", "overlap", "lost answer"}

SessionTyped ==
    /\ cookie \in Anyone /\ user \in Anyone /\ wish \in Anyone
    /\ hydrated \in BOOLEAN /\ wanted \in BOOLEAN
    /\ me \in Anyone \cup {"asked", "none"}
    /\ step \in {"login", "register", "otp", "busy"}
    /\ signing \in Seq(Users) /\ Len(signing) <= MaxAsked
    /\ leaving \in 0 .. MaxAsked

HeartsTyped ==
    /\ favs \in SUBSET (Users \X Goods)
    /\ shown \subseteq Goods
    /\ loads \in Seq(Load) /\ Len(loads) <= MaxAsked
    /\ toggles \subseteq Toggle /\ IsFiniteSet(toggles) /\ Cardinality(toggles) <= MaxAsked

RestTyped == lapses \subseteq Slips /\ mishaps \in 0 .. MaxMishaps

AccountTyping == SessionTyped /\ HeartsTyped /\ RestTyped

LEMMA AccountTypingIs == AccountTyping => AccountTypeOK
BY DEF AccountTyping, SessionTyped, HeartsTyped, RestTyped, AccountTypeOK, Anyone, Slips

LEMMA WithoutOne ==
    ASSUME NEW S, NEW s \in Seq(S), NEW i \in DOMAIN s
    PROVE  RemoveAt(s, i) \in Seq(S) /\ Len(RemoveAt(s, i)) = Len(s) - 1
<1>1. i \in 1 .. Len(s) /\ Len(s) \in Nat
  OBVIOUS
<1> DEFINE a == SubSeq(s, 1, i - 1)
<1> DEFINE b == SubSeq(s, i + 1, Len(s))
<1>2. a \in Seq(S) /\ Len(a) = i - 1
  BY <1>1
<1>3. b \in Seq(S) /\ Len(b) = Len(s) - i
  BY <1>1
<1> HIDE DEF a, b
<1>4. RemoveAt(s, i) = a \o b
  BY DEF RemoveAt, a, b
<1>5. a \o b \in Seq(S) /\ Len(a \o b) = Len(s) - 1
  BY <1>1, <1>2, <1>3
<1> QED BY <1>4, <1>5

LEMMA ElementOf == ASSUME NEW S, NEW s \in Seq(S), NEW i \in DOMAIN s PROVE s[i] \in S
OBVIOUS

LEMMA WithOneMore ==
    ASSUME NEW S, NEW s \in Seq(S), NEW x \in S, NEW n \in Nat, Len(s) < n
    PROVE  Append(s, x) \in Seq(S) /\ Len(Append(s, x)) <= n
OBVIOUS

LEMMA Bounded == MaxAsked \in Nat /\ 0 <= MaxAsked /\ 0 \in 0 .. MaxAsked
BY AccountAssumption

LEMMA NoneYet == ASSUME NEW S PROVE <<>> \in Seq(S) /\ Len(<<>>) = 0
OBVIOUS

LEMMA LapseTyped ==
    ASSUME lapses \subseteq Slips, NEW new \in SUBSET Slips, Lapse(new)
    PROVE  lapses' \subseteq Slips
BY DEF Lapse

LEMMA LostTyped == ASSUME mishaps \in 0 .. MaxMishaps, Lost PROVE mishaps' \in 0 .. MaxMishaps
BY AccountAssumption DEF Lost

LEMMA BecomesTyped ==
    ASSUME HeartsTyped, lapses \subseteq Slips, NEW u \in Anyone, NEW why \in SUBSET Slips,
           BecomesUser(u, why)
    PROVE  HeartsTyped' /\ lapses' \subseteq Slips /\ user' = u
<1>1. user' = u /\ UNCHANGED <<favs, toggles>>
  BY DEF BecomesUser
<1>2. lapses' \subseteq Slips
  <2>1. PICK new \in SUBSET Slips : Lapse(new)
    <3>1. {"switched"} \subseteq Slips
      BY DEF Slips
    <3>2. QED
      BY <3>1 DEF BecomesUser
  <2>2. QED
    BY <2>1, LapseTyped
<1>3. shown' \subseteq Goods
  BY DEF BecomesUser, Reloaded, HeartsTyped
<1>4. loads' \in Seq(Load) /\ Len(loads') <= MaxAsked
  <2>1. CASE loads' = loads
    BY <2>1 DEF HeartsTyped
  <2>2. CASE loads' # loads
    <3>1. PICK l : l = [as |-> u, st |-> "sent", got |-> {}]
      OBVIOUS
    <3>2. u # Nobody /\ Len(loads) < MaxAsked /\ loads' = Append(loads, l)
      BY <2>2, <3>1 DEF BecomesUser, Reloaded
    <3>3. l \in Load
      BY <3>1, <3>2 DEF Load, Anyone
    <3>4. QED
      BY <3>2, <3>3, WithOneMore, AccountAssumption DEF HeartsTyped
  <2>3. QED
    BY <2>1, <2>2
<1>5. QED
  BY <1>1, <1>2, <1>3, <1>4 DEF HeartsTyped

LEMMA SessionTypes ==
    ASSUME AccountTyping, NEW i,
           \/ ServeMe \/ MeAnswers \/ MeFails \/ WantDialog \/ CloseDialog \/ Register
           \/ ReloadPage \/ (\E m \in {"login", "register"} : SwitchMode(m))
           \/ (\E u \in Users : SignIn(u)) \/ SignedIn(i) \/ SignInFails(i)
           \/ SignOut \/ SignedOut \/ SignOutFails
    PROVE  AccountTyping'
<1>0. SessionTyped /\ HeartsTyped /\ RestTyped /\ lapses \subseteq Slips
  BY DEF AccountTyping, RestTyped
<1>1. ASSUME UNCHANGED favVars PROVE HeartsTyped'
  BY <1>0, <1>1 DEF HeartsTyped, favVars
<1>2. ASSUME UNCHANGED <<lapses, mishaps>> PROVE RestTyped'
  BY <1>0, <1>2 DEF RestTyped
<1>3. ASSUME UNCHANGED mishaps, lapses' \subseteq Slips PROVE RestTyped'
  BY <1>0, <1>3 DEF RestTyped
<1>4. ASSUME Lost, lapses' \subseteq Slips PROVE RestTyped'
  BY <1>0, <1>4, LostTyped DEF RestTyped
<1>5. {} \subseteq Slips /\ Nobody \in Anyone /\ Users \subseteq Anyone
  BY DEF Anyone
<1>6. CASE ServeMe
  BY <1>0, <1>1, <1>2, <1>6 DEF ServeMe, SessionTyped, AccountTyping
<1>7. CASE MeAnswers
  <2>1. CASE me # Nobody
    <3>1. BecomesUser(me, {}) /\ me \in Users
      BY <1>7, <2>1 DEF MeAnswers
    <3>2. HeartsTyped' /\ lapses' \subseteq Slips /\ user' = me
      BY <1>0, <1>5, <3>1, BecomesTyped
    <3>3. SessionTyped'
      BY <1>0, <1>7, <3>1, <3>2 DEF MeAnswers, SessionTyped, Anyone
    <3>4. QED
      BY <1>3, <1>7, <3>2, <3>3 DEF MeAnswers, AccountTyping
  <2>2. CASE me = Nobody
    BY <1>0, <1>1, <1>2, <1>7, <2>2 DEF MeAnswers, SessionTyped, AccountTyping
  <2>3. QED
    BY <2>1, <2>2
<1>8. CASE MeFails
  <2>1. lapses' \subseteq Slips
    <3>1. PICK new \in SUBSET Slips : Lapse(new)
      BY <1>8 DEF MeFails, Slips
    <3>2. QED
      BY <1>0, <3>1, LapseTyped
  <2>2. QED
    BY <1>0, <1>1, <1>4, <1>5, <1>8, <2>1 DEF MeFails, SessionTyped, AccountTyping
<1>9. CASE WantDialog \/ CloseDialog \/ Register \/ \E m \in {"login", "register"} : SwitchMode(m)
  BY <1>0, <1>1, <1>2, <1>9
     DEF WantDialog, CloseDialog, Register, SwitchMode, SessionTyped, AccountTyping
<1>10. CASE ReloadPage
  <2>1. lapses' \subseteq Slips
    <3>1. PICK new \in SUBSET Slips : Lapse(new)
      BY <1>10 DEF ReloadPage, Slips
    <3>2. QED
      BY <1>0, <3>1, LapseTyped
  <2>2. HeartsTyped'
    <3>1. loads' \in Seq(Load) /\ Len(loads') = 0
      BY <1>10, NoneYet DEF ReloadPage
    <3>2. toggles' \subseteq Toggle /\ IsFiniteSet(toggles') /\ Cardinality(toggles') = 0
      BY <1>10, FS_EmptySet DEF ReloadPage
    <3>3. favs' = favs /\ shown' = {} /\ 0 <= MaxAsked /\ favs \in SUBSET (Users \X Goods)
      BY <1>0, <1>10, Bounded DEF ReloadPage, HeartsTyped
    <3>4. QED
      BY <3>1, <3>2, <3>3 DEF HeartsTyped
  <2>3. SessionTyped'
    <3>1. signing' \in Seq(Users) /\ Len(signing') = 0
      BY <1>10, NoneYet DEF ReloadPage
    <3>2. leaving' \in 0 .. MaxAsked /\ 0 <= MaxAsked
      BY <1>10, Bounded DEF ReloadPage
    <3>3. /\ user' = Nobody /\ hydrated' = FALSE /\ me' = "asked"
          /\ wanted' = FALSE /\ step' = "login" /\ UNCHANGED <<cookie, wish>>
      BY <1>10 DEF ReloadPage
    <3>4. cookie \in Anyone /\ wish \in Anyone
      BY <1>0 DEF SessionTyped
    <3>5. QED
      BY <1>5, <3>1, <3>2, <3>3, <3>4 DEF SessionTyped
  <2>4. QED
    BY <1>4, <1>10, <2>1, <2>2, <2>3 DEF ReloadPage, AccountTyping
<1>11. ASSUME NEW u \in Users, SignIn(u) PROVE AccountTyping'
  <2>1. signing' \in Seq(Users) /\ Len(signing') <= MaxAsked
    BY <1>0, <1>11, WithOneMore, AccountAssumption DEF SignIn, SessionTyped
  <2>2. QED
    BY <1>0, <1>1, <1>2, <1>11, <2>1 DEF SignIn, SessionTyped, AccountTyping
<1>12. ASSUME i \in DOMAIN signing
       PROVE  /\ signing[i] \in Users
              /\ RemoveAt(signing, i) \in Seq(Users) /\ Len(RemoveAt(signing, i)) <= MaxAsked
  <2>1. signing[i] \in Users /\ Len(signing) \in Nat
    BY <1>0, <1>12 DEF SessionTyped
  <2>2. RemoveAt(signing, i) \in Seq(Users) /\ Len(RemoveAt(signing, i)) = Len(signing) - 1
    BY <1>0, <1>12, WithoutOne DEF SessionTyped
  <2>3. QED
    BY <1>0, <2>1, <2>2, AccountAssumption DEF SessionTyped
<1>13. CASE SignedIn(i)
  <2>1. /\ signing[i] \in Users
        /\ signing' \in Seq(Users) /\ Len(signing') <= MaxAsked
    BY <1>12, <1>13 DEF SignedIn
  <2>2. PICK why \in SUBSET Slips : BecomesUser(signing[i], why)
    BY <1>13 DEF SignedIn, Slips
  <2>3. HeartsTyped' /\ lapses' \subseteq Slips /\ user' = signing[i]
    BY <1>0, <1>5, <2>1, <2>2, BecomesTyped
  <2>4. SessionTyped'
    BY <1>0, <1>5, <1>13, <2>1, <2>3 DEF SignedIn, SessionTyped
  <2>5. QED
    BY <1>3, <1>13, <2>3, <2>4 DEF SignedIn, AccountTyping
<1>14. CASE SignInFails(i)
  <2>1. signing' \in Seq(Users) /\ Len(signing') <= MaxAsked
    BY <1>12, <1>14 DEF SignInFails
  <2>2. SessionTyped'
    BY <1>0, <1>14, <2>1 DEF SignInFails, SessionTyped
  <2>3. QED
    BY <1>0, <1>1, <1>4, <1>14, <2>2 DEF SignInFails, AccountTyping
<1>15. CASE SignOut
  <2>1. HeartsTyped' /\ lapses' \subseteq Slips /\ user' = Nobody
    BY <1>0, <1>5, <1>15, BecomesTyped DEF SignOut
  <2>2. SessionTyped'
    BY <1>0, <1>5, <1>15, <2>1, AccountAssumption DEF SignOut, SessionTyped
  <2>3. QED
    BY <1>3, <1>15, <2>1, <2>2 DEF SignOut, AccountTyping
<1>16. CASE SignedOut \/ SignOutFails
  <2>1. lapses' \subseteq Slips
    <3>1. PICK new \in SUBSET Slips : Lapse(new)
      BY <1>16 DEF SignedOut, SignOutFails, Slips
    <3>2. QED
      BY <1>0, <3>1, LapseTyped
  <2>2. leaving' \in 0 .. MaxAsked
    <3>1. leaving > 0 /\ leaving' = leaving - 1
      BY <1>16 DEF SignedOut, SignOutFails
    <3>2. leaving \in 0 .. MaxAsked
      BY <1>0 DEF SessionTyped
    <3>3. QED
      BY <3>1, <3>2, AccountAssumption
  <2>3. UNCHANGED <<user, hydrated, me, wanted, step, signing, wish, favVars>>
    BY <1>16 DEF SignedOut, SignOutFails
  <2>4. cookie' \in Anyone
    BY <1>0, <1>5, <1>16 DEF SignedOut, SignOutFails, SessionTyped
  <2>5. SessionTyped'
    BY <1>0, <2>2, <2>3, <2>4 DEF SessionTyped
  <2>6. Lost \/ UNCHANGED mishaps
    BY <1>16 DEF SignedOut, SignOutFails
  <2>7. QED
    BY <1>1, <1>3, <1>4, <2>1, <2>3, <2>5, <2>6 DEF AccountTyping
<1>17. QED
  BY <1>6, <1>7, <1>8, <1>9, <1>10, <1>11, <1>13, <1>14, <1>15, <1>16

LEMMA FavouriteTypes ==
    ASSUME AccountTyping,
           \/ (\E i \in 1 .. MaxAsked : ServeLoad(i) \/ LoadAnswers(i) \/ LoadFails(i))
           \/ (\E g \in Goods : ToggleFavorite(g))
           \/ (\E t \in toggles : ServeToggle(t) \/ ToggleAnswers(t) \/ ToggleFails(t))
    PROVE  AccountTyping'
<1>0. SessionTyped /\ HeartsTyped /\ RestTyped /\ lapses \subseteq Slips
  BY DEF AccountTyping, RestTyped
<1>1. SessionTyped'
  BY <1>0 DEF ServeLoad, LoadAnswers, LoadFails, ToggleFavorite, ServeToggle, ToggleAnswers,
     ToggleFails, SessionTyped, authVars
<1>2. lapses' \subseteq Slips
  <2>1. lapses' = lapses \/ \E new \in SUBSET Slips : Lapse(new)
    BY DEF ServeLoad, LoadAnswers, LoadFails, ToggleFavorite, ServeToggle, ToggleAnswers,
       ToggleFails, Slips
  <2>2. QED
    BY <1>0, <2>1, LapseTyped
<1>3. mishaps' \in 0 .. MaxMishaps
  <2>1. Lost \/ UNCHANGED mishaps
    BY DEF ServeLoad, LoadAnswers, LoadFails, ToggleFavorite, ServeToggle, ToggleAnswers,
       ToggleFails
  <2>2. QED
    BY <1>0, <2>1, LostTyped DEF RestTyped
<1>4. ASSUME UNCHANGED <<favs, toggles>>, shown' \subseteq Goods,
             loads' \in Seq(Load), Len(loads') <= MaxAsked
      PROVE  AccountTyping'
  BY <1>0, <1>1, <1>2, <1>3, <1>4 DEF AccountTyping, RestTyped, HeartsTyped
<1>5. ASSUME UNCHANGED loads, favs' \in SUBSET (Users \X Goods), shown' \subseteq Goods,
             toggles' \subseteq Toggle, IsFiniteSet(toggles'), Cardinality(toggles') <= MaxAsked
      PROVE  AccountTyping'
  BY <1>0, <1>1, <1>2, <1>3, <1>5 DEF AccountTyping, RestTyped, HeartsTyped
<1>6. ASSUME NEW i, ServeLoad(i) PROVE AccountTyping'
  <2>1. PICK l : l = [loads[i] EXCEPT !.st = "served", !.got = Likes(loads[i].as)]
    OBVIOUS
  <2>2. i \in DOMAIN loads /\ loads[i] \in Load /\ Likes(loads[i].as) \subseteq Goods
    <3>1. i \in DOMAIN loads
      BY <1>6 DEF ServeLoad
    <3>2. loads \in Seq(Load)
      BY <1>0 DEF HeartsTyped
    <3>3. Likes(loads[i].as) \subseteq Goods
      BY DEF Likes
    <3>4. QED
      BY <3>1, <3>2, <3>3
  <2>3. l \in Load
    BY <2>1, <2>2 DEF Load
  <2>4. loads' = [loads EXCEPT ![i] = l]
    BY <1>6, <2>1 DEF ServeLoad
  <2>5. loads' \in Seq(Load) /\ Len(loads') = Len(loads)
    BY <1>0, <2>2, <2>3, <2>4 DEF HeartsTyped
  <2>6. QED
    BY <1>0, <1>4, <1>6, <2>5 DEF ServeLoad, HeartsTyped
<1>7. ASSUME NEW i, i \in DOMAIN loads
      PROVE  /\ loads[i].got \subseteq Goods
             /\ RemoveAt(loads, i) \in Seq(Load) /\ Len(RemoveAt(loads, i)) <= MaxAsked
  <2>1. loads[i] \in Load /\ Len(loads) \in Nat
    BY <1>0, <1>7 DEF HeartsTyped
  <2>2. RemoveAt(loads, i) \in Seq(Load) /\ Len(RemoveAt(loads, i)) = Len(loads) - 1
    BY <1>0, <1>7, WithoutOne DEF HeartsTyped
  <2>3. QED
    BY <1>0, <2>1, <2>2, AccountAssumption DEF HeartsTyped, Load
<1>8. ASSUME NEW i, LoadAnswers(i) \/ LoadFails(i) PROVE AccountTyping'
  BY <1>4, <1>7, <1>8 DEF LoadAnswers, LoadFails
<1>9. toggles \subseteq Toggle /\ IsFiniteSet(toggles) /\ Cardinality(toggles) \in Nat
  BY <1>0, FS_CardinalityType DEF HeartsTyped
<1>10. ASSUME NEW g \in Goods, ToggleFavorite(g) PROVE AccountTyping'
  <2>1. PICK t : t = [as |-> user, good |-> g, add |-> g \notin shown, st |-> "sent"]
    OBVIOUS
  <2>2. t \in Toggle
    BY <1>0, <1>10, <2>1 DEF ToggleFavorite, Toggle, SessionTyped, Anyone
  <2>3. toggles' = toggles \cup {t} /\ t \notin toggles /\ Cardinality(toggles) < MaxAsked
    BY <1>10, <2>1 DEF ToggleFavorite
  <2>4. IsFiniteSet(toggles') /\ Cardinality(toggles') = Cardinality(toggles) + 1
    BY <1>9, <2>3, FS_AddElement
  <2>5. shown' \subseteq Goods /\ UNCHANGED <<loads, favs>>
    BY <1>0, <1>10 DEF ToggleFavorite, HeartsTyped
  <2>6. QED
    BY <1>0, <1>5, <1>9, <2>2, <2>3, <2>4, <2>5, AccountAssumption DEF HeartsTyped
<1>11. ASSUME NEW t \in toggles
       PROVE  /\ IsFiniteSet(toggles \ {t})
              /\ Cardinality(toggles \ {t}) = Cardinality(toggles) - 1
  BY <1>9, FS_RemoveElement
<1>12. ASSUME NEW t \in toggles, ServeToggle(t) PROVE AccountTyping'
  <2>1. PICK d : d = [t EXCEPT !.st = "done"]
    OBVIOUS
  <2>2. t \in Toggle /\ d \in Toggle
    BY <1>9, <2>1 DEF Toggle
  <2>3. toggles' = (toggles \ {t}) \cup {d}
    BY <1>12, <2>1 DEF ServeToggle
  <2>4. IsFiniteSet(toggles') /\ Cardinality(toggles') <= Cardinality(toggles)
    <3>1. PICK rest : rest = toggles \ {t}
      OBVIOUS
    <3>2. IsFiniteSet(rest) /\ Cardinality(rest) = Cardinality(toggles) - 1
      BY <1>11, <1>12, <3>1
    <3>3. /\ IsFiniteSet(rest \cup {d})
          /\ Cardinality(rest \cup {d}) = IF d \in rest THEN Cardinality(rest) ELSE Cardinality(rest) + 1
      BY <3>2, FS_AddElement
    <3>4. QED
      BY <1>9, <2>3, <3>1, <3>2, <3>3
  <2>5. favs' \in SUBSET (Users \X Goods)
    BY <1>0, <1>12, <2>2 DEF ServeToggle, HeartsTyped, Toggle
  <2>6. UNCHANGED <<shown, loads>>
    BY <1>12 DEF ServeToggle
  <2>7. Cardinality(toggles') <= MaxAsked
    <3>1. Cardinality(toggles') \in Nat
      BY <2>4, FS_CardinalityType
    <3>2. QED
      BY <1>0, <1>9, <2>4, <3>1, AccountAssumption DEF HeartsTyped
  <2>8. QED
    BY <1>0, <1>5, <1>9, <2>2, <2>3, <2>4, <2>5, <2>6, <2>7 DEF HeartsTyped
<1>13. ASSUME NEW t \in toggles, ToggleAnswers(t) \/ ToggleFails(t) PROVE AccountTyping'
  <2>1. toggles' = toggles \ {t} /\ UNCHANGED <<loads, favs>>
    BY <1>13 DEF ToggleAnswers, ToggleFails
  <2>2. shown' \subseteq Goods
    BY <1>0, <1>9, <1>13 DEF ToggleAnswers, ToggleFails, RolledBack, HeartsTyped, Toggle
  <2>3. Cardinality(toggles') <= MaxAsked
    <3>1. Cardinality(toggles') = Cardinality(toggles) - 1
      BY <1>11, <1>13, <2>1
    <3>2. QED
      BY <1>0, <1>9, <3>1, AccountAssumption DEF HeartsTyped
  <2>4. QED
    BY <1>0, <1>5, <1>9, <1>11, <2>1, <2>2, <2>3 DEF HeartsTyped
<1>14. QED
  BY <1>6, <1>8, <1>10, <1>12, <1>13

LEMMA AccountTypesKept == AccountTyping /\ [AccountNext]_accountVars => AccountTyping'
<1>1. ASSUME AccountTyping, UNCHANGED accountVars PROVE AccountTyping'
  BY <1>1 DEF AccountTyping, SessionTyped, HeartsTyped, RestTyped, accountVars, authVars, favVars
<1>2. ASSUME AccountTyping, AccountNext PROVE AccountTyping'
  BY <1>2, SessionTypes, FavouriteTypes DEF AccountNext
<1>3. QED
  BY <1>1, <1>2

LEMMA AccountTypesInit == AccountInit => AccountTyping
<1> SUFFICES ASSUME AccountInit PROVE AccountTyping
  OBVIOUS
<1>1. SessionTyped
  <2>1. signing \in Seq(Users) /\ Len(signing) = 0
    BY NoneYet DEF AccountInit
  <2>2. leaving \in 0 .. MaxAsked /\ 0 <= MaxAsked
    BY AccountAssumption DEF AccountInit
  <2>3. cookie \in Anyone /\ user \in Anyone /\ wish \in Anyone
    BY DEF AccountInit, Anyone
  <2>4. QED
    BY <2>1, <2>2, <2>3 DEF AccountInit, SessionTyped
<1>2. HeartsTyped
  BY NoneYet, FS_EmptySet, AccountAssumption DEF AccountInit, HeartsTyped
<1>3. RestTyped
  BY AccountAssumption DEF AccountInit, RestTyped
<1>4. QED
  BY <1>1, <1>2, <1>3 DEF AccountTyping

(* The types of the session's and the favourites' variables, and the bounds. *)
THEOREM AccountTyped == AccountSpec => []AccountTypeOK
<1>1. QED
  BY AccountTypesInit, AccountTypesKept, AccountTypingIs, PTL DEF AccountSpec

-----------------------------------------------------------------------------
(* The hearts, as long as nothing has slipped: one request per product at most,
   a guest has none, and once the user's list is there every heart is the
   server's but for the request on its way, which is his and makes up for the
   difference. *)

OneToggle == \A t, u \in toggles : t.good = u.good => t = u

Synced ==
    /\ \A t \in toggles : t.as = user
    /\ \A t \in toggles : t.st = "sent" =>
         (t.good \in shown <=> t.add) /\ (t.good \in Likes(user) <=> ~t.add)
    /\ \A g \in Goods : (\A t \in toggles : t.good = g => t.st = "done") =>
         (g \in shown <=> g \in Likes(user))

HeartsInv ==
    lapses = {} =>
      /\ OneToggle
      /\ user = Nobody => shown = {}
      /\ user # Nobody /\ loads = <<>> => Synced

LEMMA HeartsQuiet ==
    ASSUME HeartsInv, UNCHANGED <<user, favVars>>, lapses' = {} => lapses = {}
    PROVE  HeartsInv'
BY DEF HeartsInv, OneToggle, Synced, Likes, favVars

LEMMA HeartsOfNext ==
    ASSUME HeartsInv, AccountTyping, NEW u \in Anyone, NEW why, BecomesUser(u, why)
    PROVE  HeartsInv'
<1>1. user' = u /\ UNCHANGED <<favs, toggles>> /\ (lapses' = {} => lapses = {})
  BY LapseKeeps DEF BecomesUser
<1>2. CASE user = u
  BY <1>1, <1>2, HeartsQuiet DEF BecomesUser, favVars
<1>3. CASE user # u /\ user # Nobody /\ u # Nobody
  <2>1. lapses' # {}
    BY <1>3 DEF BecomesUser, Lapse
  <2>2. QED
    BY <2>1 DEF HeartsInv
<1>4. CASE user # u /\ u = Nobody
  BY <1>1, <1>4 DEF BecomesUser, Reloaded, HeartsInv, OneToggle
<1>5. CASE user # u /\ user = Nobody
  <2>1. PICK l : l = [as |-> u, st |-> "sent", got |-> {}]
    OBVIOUS
  <2>2. loads' = Append(loads, l) /\ loads \in Seq(Load)
    BY <1>5, <2>1 DEF BecomesUser, Reloaded, AccountTyping, HeartsTyped
  <2>3. l \in Load
    BY <1>5, <2>1 DEF Load, Anyone
  <2>4. loads' # <<>>
    BY <2>2, <2>3
  <2>5. QED
    BY <1>1, <1>5, <2>4 DEF HeartsInv, OneToggle
<1>6. QED
  BY <1>2, <1>3, <1>4, <1>5

LEMMA HeartsOfSession ==
    ASSUME HeartsInv, AccountTyping, NEW i,
           \/ ServeMe \/ MeAnswers \/ MeFails \/ WantDialog \/ CloseDialog \/ Register
           \/ ReloadPage \/ (\E m \in {"login", "register"} : SwitchMode(m))
           \/ (\E u \in Users : SignIn(u)) \/ SignedIn(i) \/ SignInFails(i)
           \/ SignOut \/ SignedOut \/ SignOutFails
    PROVE  HeartsInv'
<1>1. CASE \/ ServeMe \/ MeFails \/ WantDialog \/ CloseDialog \/ Register
           \/ (\E m \in {"login", "register"} : SwitchMode(m))
           \/ (\E u \in Users : SignIn(u)) \/ SignInFails(i) \/ SignedOut \/ SignOutFails
  <2>1. UNCHANGED <<user, favVars>>
    BY <1>1 DEF ServeMe, MeFails, WantDialog, CloseDialog, Register, SwitchMode, SignIn,
       SignInFails, SignedOut, SignOutFails
  <2>2. lapses' = {} => lapses = {}
    BY <1>1, LapseKeeps DEF ServeMe, MeFails, WantDialog, CloseDialog, Register, SwitchMode,
       SignIn, SignInFails, SignedOut, SignOutFails
  <2>3. QED
    BY <2>1, <2>2, HeartsQuiet
<1>2. CASE MeAnswers
  BY <1>2, HeartsQuiet, HeartsOfNext DEF MeAnswers, Anyone
<1>3. CASE SignedIn(i)
  <2>1. signing[i] \in Anyone
    <3>1. i \in DOMAIN signing /\ signing \in Seq(Users)
      BY <1>3 DEF SignedIn, AccountTyping, SessionTyped
    <3>2. QED
      BY <3>1, ElementOf DEF Anyone
  <2>2. QED
    BY <1>3, <2>1, HeartsOfNext DEF SignedIn
<1>4. CASE SignOut
  BY <1>4, HeartsOfNext DEF SignOut, Anyone
<1>5. CASE ReloadPage
  BY <1>5 DEF ReloadPage, HeartsInv, OneToggle
<1>6. QED
  BY <1>1, <1>2, <1>3, <1>4, <1>5

LEMMA HeartsOfLoads ==
    ASSUME HeartsInv, AccountTyping, NEW i,
           ServeLoad(i) \/ LoadAnswers(i) \/ LoadFails(i)
    PROVE  HeartsInv'
<1>0. loads \in Seq(Load)
  BY DEF AccountTyping, HeartsTyped
<1>1. CASE ServeLoad(i)
  <2>1. Len(loads) # 0 /\ loads # <<>>
    BY <1>0, <1>1 DEF ServeLoad
  <2>2. UNCHANGED <<user, favs, shown, toggles, lapses>>
    BY <1>1 DEF ServeLoad, authVars
  <2>3. loads' # <<>>
    <3>1. PICK l : loads' = [loads EXCEPT ![i] = l]
      BY <1>1 DEF ServeLoad
    <3>2. DOMAIN loads' = DOMAIN loads /\ i \in DOMAIN loads
      BY <1>1, <3>1 DEF ServeLoad
    <3>3. QED
      BY <3>2
  <2>4. QED
    BY <2>2, <2>3 DEF HeartsInv, OneToggle
<1>2. CASE LoadAnswers(i)
  <2>1. SUFFICES ASSUME lapses' = {} PROVE HeartsInv'
    BY DEF HeartsInv
  <2>2. /\ loads[i].as = user /\ toggles = {} /\ loads[i].got = Likes(user)
    BY <1>2, <2>1, LapseKeeps DEF LoadAnswers
  <2>3. user # Nobody
    <3>1. loads[i] \in Load
      BY <1>0, <1>2, ElementOf DEF LoadAnswers
    <3>2. QED
      BY <2>2, <3>1, AccountAssumption DEF Load
  <2>4. shown' = Likes(user) /\ UNCHANGED <<user, favs, toggles>>
    BY <1>2, <2>2 DEF LoadAnswers, authVars
  <2>5. QED
    BY <2>2, <2>3, <2>4 DEF HeartsInv, OneToggle, Synced, Likes
<1>3. CASE LoadFails(i)
  BY <1>3 DEF LoadFails, Lapse, HeartsInv
<1>4. QED
  BY <1>1, <1>2, <1>3

LEMMA HeartsOfToggles ==
    ASSUME HeartsInv, AccountTyping,
           \/ \E g \in Goods : ToggleFavorite(g)
           \/ \E t \in toggles : ServeToggle(t) \/ ToggleAnswers(t) \/ ToggleFails(t)
    PROVE  HeartsInv'
<1>0. toggles \subseteq Toggle /\ shown \subseteq Goods
  BY DEF AccountTyping, HeartsTyped
<1>1. SUFFICES ASSUME lapses' = {} PROVE HeartsInv'
  BY DEF HeartsInv
<1>2. /\ lapses = {} /\ UNCHANGED <<user, loads>>
      /\ OneToggle
      /\ user = Nobody => shown = {}
      /\ user # Nobody /\ loads = <<>> => Synced
  <2>1. lapses = {}
    BY <1>1, LapseKeeps DEF ToggleFavorite, ServeToggle, ToggleAnswers, ToggleFails
  <2>2. UNCHANGED <<user, loads>>
    BY DEF ToggleFavorite, ServeToggle, ToggleAnswers, ToggleFails, authVars
  <2>3. QED
    BY <2>1, <2>2 DEF HeartsInv
<1>3. ASSUME OneToggle', user = Nobody => shown' = {},
             user # Nobody /\ loads = <<>> => Synced'
      PROVE  HeartsInv'
  BY <1>2, <1>3 DEF HeartsInv
<1>4. ASSUME NEW g \in Goods, ToggleFavorite(g) PROVE HeartsInv'
  <2>1. PICK add \in BOOLEAN : add = (g \notin shown)
    OBVIOUS
  <2>2. PICK t : t = [as |-> user, good |-> g, add |-> add, st |-> "sent"]
    OBVIOUS
  <2>3. toggles' = toggles \cup {t} /\ UNCHANGED favs /\ user # Nobody
    BY <1>4, <2>1, <2>2 DEF ToggleFavorite
  <2>4. \A h \in Goods : h \in shown' <=> IF h = g THEN add ELSE h \in shown
    BY <1>4, <2>1 DEF ToggleFavorite
  <2>5. \A u \in toggles : u.good # g
    BY <1>1, <1>4, LapseKeeps DEF ToggleFavorite
  <2>6. t.as = user /\ t.good = g /\ t.add = add /\ t.st = "sent"
    BY <2>2
  <2>7. OneToggle'
    BY <1>2, <2>3, <2>5, <2>6 DEF OneToggle
  <2>8. ASSUME loads = <<>> PROVE Synced'
    <3>1. Synced
      BY <1>2, <2>3, <2>8
    <3>2. g \in shown <=> g \in Likes(user)
      BY <2>5, <3>1 DEF Synced
    <3>3. \A u \in toggles' : u.as = user'
      BY <1>2, <2>3, <2>6, <3>1 DEF Synced
    <3>4. Likes(user)' = Likes(user)
      BY <1>2, <2>3 DEF Likes
    <3>5. ASSUME NEW u \in toggles', u.st = "sent"
          PROVE  (u.good \in shown' <=> u.add) /\ (u.good \in Likes(user)' <=> ~u.add)
      <4>1. CASE u = t
        BY <2>1, <2>4, <2>6, <3>2, <3>4, <4>1
      <4>2. CASE u \in toggles
        <5>1. u.good \in Goods /\ u.good # g
          BY <1>0, <2>5, <4>2 DEF Toggle
        <5>2. QED
          BY <2>4, <3>1, <3>4, <3>5, <4>2, <5>1 DEF Synced
      <4>3. QED
        BY <2>3, <4>1, <4>2
    <3>6. ASSUME NEW h \in Goods, \A u \in toggles' : u.good = h => u.st = "done"
          PROVE  h \in shown' <=> h \in Likes(user)'
      <4>1. h # g
        BY <2>3, <2>6, <3>6
      <4>2. \A u \in toggles : u.good = h => u.st = "done"
        BY <2>3, <3>6
      <4>3. h \in shown <=> h \in Likes(user)
        BY <3>1, <4>2 DEF Synced
      <4>4. QED
        BY <2>4, <3>4, <4>1, <4>3
    <3>7. QED
      BY <3>3, <3>5, <3>6 DEF Synced
  <2>9. QED
    BY <1>3, <2>3, <2>7, <2>8
<1>5. ASSUME NEW t \in toggles, ServeToggle(t) PROVE HeartsInv'
  <2>1. PICK d : d = [t EXCEPT !.st = "done"]
    OBVIOUS
  <2>2. t \in Toggle
    BY <1>0
  <2>3. t.st = "sent" /\ d.as = t.as /\ d.good = t.good /\ d.add = t.add /\ d.st = "done"
    BY <1>5, <2>1, <2>2 DEF ServeToggle, Toggle
  <2>4. toggles' = (toggles \ {t}) \cup {d} /\ shown' = shown
    BY <1>5, <2>1 DEF ServeToggle
  <2>5. OneToggle'
    BY <1>2, <2>3, <2>4 DEF OneToggle
  <2>6. ASSUME user # Nobody, loads = <<>> PROVE Synced'
    <3>1. Synced /\ t.as = user
      BY <1>2, <2>6 DEF Synced
    <3>2. \A h \in Goods : h \in Likes(user)' <=> IF h = t.good THEN t.add ELSE h \in Likes(user)
      BY <1>2, <1>5, <3>1 DEF ServeToggle, Likes
    <3>3. t.good \in shown <=> t.add
      BY <2>3, <3>1 DEF Synced
    <3>4. t.good \in Goods /\ \A u \in toggles \ {t} : u.good \in Goods /\ u.good # t.good
      BY <1>0, <1>2 DEF OneToggle, Toggle
    <3>5. \A u \in toggles' : u.as = user'
      BY <1>2, <2>3, <2>4, <3>1 DEF Synced
    <3>6. ASSUME NEW u \in toggles', u.st = "sent"
          PROVE  (u.good \in shown' <=> u.add) /\ (u.good \in Likes(user)' <=> ~u.add)
      <4>1. u \in toggles \ {t}
        BY <2>3, <2>4, <3>6
      <4>2. QED
        BY <2>4, <3>1, <3>2, <3>4, <3>6, <4>1 DEF Synced
    <3>7. ASSUME NEW h \in Goods, \A u \in toggles' : u.good = h => u.st = "done"
          PROVE  h \in shown' <=> h \in Likes(user)'
      <4>1. CASE h = t.good
        BY <2>4, <3>2, <3>3, <4>1
      <4>2. CASE h # t.good
        <5>1. \A u \in toggles : u.good = h => u.st = "done"
          BY <2>4, <3>7, <4>2
        <5>2. h \in shown <=> h \in Likes(user)
          BY <3>1, <5>1 DEF Synced
        <5>3. QED
          BY <2>4, <3>2, <4>2, <5>2
      <4>3. QED
        BY <4>1, <4>2
    <3>8. QED
      BY <3>5, <3>6, <3>7 DEF Synced
  <2>7. QED
    BY <1>2, <1>3, <2>4, <2>5, <2>6
<1>6. ASSUME NEW t \in toggles, toggles' = toggles \ {t}, UNCHANGED favs,
             user # Nobody /\ loads = <<>> =>
               \A h \in Goods : h \in shown' <=> IF h = t.good THEN h \in Likes(user) ELSE h \in shown,
             user = Nobody => shown' = {}
      PROVE  HeartsInv'
  <2>1. OneToggle'
    BY <1>2, <1>6 DEF OneToggle
  <2>2. ASSUME user # Nobody, loads = <<>> PROVE Synced'
    <3>1. Synced
      BY <1>2, <2>2
    <3>2. Likes(user)' = Likes(user)
      BY <1>2, <1>6 DEF Likes
    <3>3. \A u \in toggles' : u \in toggles /\ u.good \in Goods /\ u.good # t.good
      BY <1>0, <1>2, <1>6 DEF OneToggle, Toggle
    <3>4. \A u \in toggles' : u.as = user'
      BY <1>2, <3>1, <3>3 DEF Synced
    <3>5. ASSUME NEW u \in toggles', u.st = "sent"
          PROVE  (u.good \in shown' <=> u.add) /\ (u.good \in Likes(user)' <=> ~u.add)
      <4>1. u \in toggles /\ u.good \in Goods /\ u.good # t.good
        BY <3>3, <3>5
      <4>2. (u.good \in shown <=> u.add) /\ (u.good \in Likes(user) <=> ~u.add)
        BY <3>1, <3>5, <4>1 DEF Synced
      <4>3. u.good \in shown' <=> u.good \in shown
        BY <1>6, <2>2, <4>1
      <4>4. QED
        BY <3>2, <4>2, <4>3
    <3>6. ASSUME NEW h \in Goods, \A u \in toggles' : u.good = h => u.st = "done"
          PROVE  h \in shown' <=> h \in Likes(user)'
      <4>1. CASE h = t.good
        BY <1>6, <2>2, <3>2, <4>1
      <4>2. CASE h # t.good
        <5>1. \A u \in toggles : u.good = h => u.st = "done"
          BY <1>6, <3>6, <4>2
        <5>2. h \in shown <=> h \in Likes(user)
          BY <3>1, <5>1 DEF Synced
        <5>3. QED
          BY <1>6, <2>2, <3>2, <4>2, <5>2
      <4>3. QED
        BY <4>1, <4>2
    <3>7. QED
      BY <3>4, <3>5, <3>6 DEF Synced
  <2>3. QED
    BY <1>3, <1>6, <2>1, <2>2
<1>7. ASSUME NEW t \in toggles, ToggleAnswers(t) PROVE HeartsInv'
  <2>1. t.st = "done" /\ toggles' = toggles \ {t} /\ UNCHANGED <<favs, shown>>
    BY <1>7 DEF ToggleAnswers
  <2>2. ASSUME user # Nobody, loads = <<>> PROVE t.good \in shown <=> t.good \in Likes(user)
    <3>1. Synced /\ t.good \in Goods
      BY <1>0, <1>2, <2>2 DEF Toggle
    <3>2. \A u \in toggles : u.good = t.good => u.st = "done"
      BY <1>2, <2>1 DEF OneToggle
    <3>3. QED
      BY <3>1, <3>2 DEF Synced
  <2>3. QED
    BY <1>2, <1>6, <2>1, <2>2
<1>8. ASSUME NEW t \in toggles, ToggleFails(t) PROVE HeartsInv'
  <2>1. toggles' = toggles \ {t} /\ UNCHANGED favs /\ shown' = RolledBack(t)
    BY <1>8 DEF ToggleFails
  <2>2. t.st # "done" /\ t.as = user
    BY <1>1, <1>8, LapseKeeps DEF ToggleFails
  <2>3. t.st = "sent" /\ user # Nobody /\ t.good \in Goods /\ t.add \in BOOLEAN
    BY <1>0, <2>2, AccountAssumption DEF Toggle
  <2>4. \A h \in Goods : h \in shown' <=> IF h = t.good THEN ~t.add ELSE h \in shown
    BY <2>1, <2>3 DEF RolledBack
  <2>5. ASSUME loads = <<>> PROVE t.good \in Likes(user) <=> ~t.add
    BY <1>2, <2>3, <2>5 DEF Synced
  <2>6. QED
    BY <1>6, <2>1, <2>3, <2>4, <2>5
<1>9. QED
  BY <1>4, <1>5, <1>7, <1>8

(* The hearts on the screen are the favourites that the server keeps for the user
   on the screen, none for a guest, once nothing is on the way and none of the
   named slips has happened. *)
THEOREM AccountFavoritesAreMine == AccountSpec => []FavoritesAreMine
<1>1. AccountInit => HeartsInv
  BY DEF AccountInit, HeartsInv, OneToggle
<1>2. ASSUME AccountTyping, HeartsInv, [AccountNext]_accountVars PROVE HeartsInv'
  <2>1. CASE UNCHANGED accountVars
    BY <1>2, <2>1, HeartsQuiet DEF accountVars, authVars
  <2>2. CASE AccountNext
    BY <1>2, <2>2, HeartsOfSession, HeartsOfLoads, HeartsOfToggles DEF AccountNext
  <2>3. QED
    BY <1>2, <2>1, <2>2
<1>3. ASSUME AccountTyping, HeartsInv PROVE FavoritesAreMine
  <2>1. shown \subseteq Goods
    BY <1>3 DEF AccountTyping, HeartsTyped
  <2>2. Likes(user) \subseteq Goods
    BY DEF Likes
  <2>3. QED
    BY <1>3, <2>1, <2>2 DEF HeartsInv, Synced, FavoritesAreMine
<1>4. QED
  BY <1>1, <1>2, <1>3, AccountTypesInit, AccountTypesKept, PTL DEF AccountSpec

-----------------------------------------------------------------------------
(* The sign-up by e-mail.  A code that is still to be sent has not been sent
   before, is nobody else's, and cannot have been replaced: whoever invalidates
   it now crosses it. *)

Sending(r) == calls[r].st = "mailing"

CodesToSend ==
    /\ \A r \in Calls : Sending(r) =>
         /\ calls[r].code \in 1 .. issued
         /\ calls[r].code \notin mailed
         /\ fate[calls[r].code] \notin {"none", "replaced"}
    /\ \A r, q \in Calls : Sending(r) /\ Sending(q) /\ r # q => calls[r].code # calls[q].code

SignUpInv == SignUpTypeOK /\ CodesToSend /\ SignUpSucceeds

\* Steps of r leave the other requests where they are.
LEMMA OneCallMoves ==
    ASSUME SignUpTypeOK, NEW r \in Calls, NEW c \in Call,
           calls' = [calls EXCEPT ![r] = c]
    PROVE  /\ calls' \in [Calls -> Call]
           /\ calls'[r] = c
           /\ \A q \in Calls \ {r} : calls'[q] = calls[q]
BY DEF SignUpTypeOK

LEMMA StepMoves ==
    ASSUME SignUpTypeOK, NEW r \in Calls,
           NEW stage \in SendingSteps \cup EnteringSteps \cup {"idle"}, GoesTo(r, stage)
    PROVE  /\ calls' \in [Calls -> Call]
           /\ calls'[r].st = stage
           /\ \A q \in Calls \ {r} : calls'[q] = calls[q]
BY DEF SignUpTypeOK, GoesTo, Call

LEMMA EndMoves ==
    ASSUME SignUpTypeOK, NEW r \in Calls, Ends(r)
    PROVE  /\ calls' \in [Calls -> Call]
           /\ calls'[r] = NoCall /\ calls'[r].st = "idle"
           /\ \A q \in Calls \ {r} : calls'[q] = calls[q]
BY DEF SignUpTypeOK, Ends, NoCall, Call

LEMMA SignUpInitHolds == SignUpInit => SignUpInv
<1> SUFFICES ASSUME SignUpInit PROVE SignUpInv
  OBVIOUS
<1>1. NoCall \in Call /\ \A r \in Calls : calls[r] = NoCall
  BY DEF SignUpInit, NoCall, Call
<1>2. fate \in [Codes -> Fates] /\ \A c \in Codes : fate[c] = "none"
  BY DEF SignUpInit, Fates
<1>3. SignUpTypeOK
  <2>1. calls \in [Calls -> Call]
    BY <1>1 DEF SignUpInit
  <2>2. \A c \in Codes : fate[c] = "none" <=> c > issued
    BY <1>2 DEF SignUpInit, Codes
  <2>3. 0 \in 0 .. MaxCodes /\ 0 \in 0 .. MaxTries + 1 /\ 0 \in 0 .. MaxBreaks
    BY SignUpAssumption
  <2> QED BY <1>2, <2>1, <2>2, <2>3 DEF SignUpInit, SignUpTypeOK
<1>4. CodesToSend
  BY <1>1 DEF CodesToSend, Sending, NoCall
<1>5. SignUpSucceeds
  BY <1>2 DEF SignUpInit, SignUpSucceeds, NewestCodeWorks, EnteredIsVerified, AttemptsExpire
<1> QED BY <1>3, <1>4, <1>5 DEF SignUpInv

\* POST /auth/register.
LEMMA RegisterTypes ==
    ASSUME SignUpTypeOK, CodesToSend, NEW r \in Calls,
           RegisterWithEmail(r) \/ CreateUser(r) \/ InvalidateCodes(r) \/ CreateAuthCode(r)
             \/ SendOTP(r)
    PROVE  SignUpTypeOK'
<1>1. CASE RegisterWithEmail(r)
  BY <1>1, StepMoves DEF RegisterWithEmail, SignUpTypeOK, SendingSteps, rowVars, codeVars,
     triesVars
<1>2. CASE CreateUser(r)
  BY <1>2, StepMoves, EndMoves DEF CreateUser, SignUpTypeOK, SendingSteps, codeVars, triesVars
<1>3. CASE InvalidateCodes(r)
  <2>1. /\ Invalidated \in [Codes -> Fates]
        /\ \A c \in Codes : Invalidated[c] = "none" <=> fate[c] = "none"
    BY DEF Invalidated, SignUpTypeOK, Fates
  <2>2. fate' \in {fate, Invalidated} /\ breaks' \in 0 .. MaxBreaks
    BY <1>3, SignUpAssumption DEF InvalidateCodes, Breaks, SignUpTypeOK
  <2>3. UNCHANGED <<issued, mailed, newest, rowVars, broken, triesVars>> /\ GoesTo(r, "storing")
    BY <1>3 DEF InvalidateCodes
  <2> QED BY <2>1, <2>2, <2>3, StepMoves DEF SignUpTypeOK, SendingSteps, rowVars, triesVars
<1>4. CASE CreateAuthCode(r)
  <2>1. issued + 1 \in Codes /\ issued' = issued + 1
    BY <1>4, SignUpAssumption DEF CreateAuthCode, Codes, SignUpTypeOK
  <2>2. calls' \in [Calls -> Call]
    <3>1. [st |-> "mailing", code |-> issued + 1] \in Call
      BY <2>1 DEF Call, SendingSteps
    <3> QED BY <1>4, <3>1, OneCallMoves DEF CreateAuthCode
  <2>3. fate' \in [Codes -> Fates] /\ \A c \in Codes : fate'[c] = "none" <=> c > issued'
    BY <1>4, <2>1, SignUpAssumption DEF CreateAuthCode, Codes, SignUpTypeOK, Fates
  <2> QED BY <1>4, <2>1, <2>2, <2>3 DEF CreateAuthCode, SignUpTypeOK, rowVars, triesVars, Codes
<1>5. CASE SendOTP(r)
  <2>1. calls[r].code \in 1 .. issued
    BY <1>5 DEF SendOTP, CodesToSend, Sending
  <2> QED BY <1>5, <2>1, EndMoves DEF SendOTP, SignUpTypeOK, rowVars, triesVars
<1> QED BY <1>1, <1>2, <1>3, <1>4, <1>5

\* POST /auth/verify-email, failures and time.
LEMMA VerifyTypes ==
    ASSUME SignUpTypeOK, NEW r \in Calls,
           \/ \E c \in mailed \cup {Wrong} : CheckAndIncrement(r, c)
           \/ SetTTL(r) \/ GetAuthCode(r) \/ MarkAuthCodeAsUsed(r) \/ UpdateEmailVerified(r)
           \/ Reset(r) \/ CallStops(r)
    PROVE  SignUpTypeOK'
<1>1. ASSUME NEW c \in mailed \cup {Wrong}, CheckAndIncrement(r, c) PROVE SignUpTypeOK'
  <2>1. c \in Codes \cup {Wrong}
    BY SignUpAssumption DEF SignUpTypeOK, Codes
  <2>2. calls' \in [Calls -> Call]
    <3>1. \A stage \in {"timing", "looking"} : [st |-> stage, code |-> c] \in Call
      BY <2>1 DEF Call, EnteringSteps
    <3>2. NoCall \in Call
      BY DEF NoCall, Call
    <3>3. PICK d \in Call : calls' = [calls EXCEPT ![r] = d]
      BY <1>1, <3>1, <3>2 DEF CheckAndIncrement
    <3> QED BY <3>3, OneCallMoves
  <2>3. tries' \in 0 .. MaxTries + 1 /\ tries' >= tries
    BY <1>1, SignUpAssumption DEF CheckAndIncrement, Counted, SignUpTypeOK
  <2>4. stuck' \in BOOLEAN
    BY <1>1 DEF CheckAndIncrement, SignUpTypeOK
  <2>6. breaks' \in 0 .. MaxBreaks
    BY <1>1, SignUpAssumption DEF CheckAndIncrement, Breaks, SignUpTypeOK
  <2>5. UNCHANGED <<rowVars, codeVars, ticking>>
    BY <1>1 DEF CheckAndIncrement
  <2> QED BY <2>2, <2>3, <2>4, <2>5, <2>6 DEF SignUpTypeOK, rowVars, codeVars
<1>2. CASE SetTTL(r)
  <2>1. /\ calls' \in [Calls -> Call]
        /\ UNCHANGED <<rowVars, codeVars>>
    BY <1>2, StepMoves DEF SetTTL, EnteringSteps
  <2>2. stuck' \in BOOLEAN /\ ticking' \in BOOLEAN
    <3>1. \/ ticking' = (tries > 0) /\ stuck' = FALSE
          \/ ticking' = FALSE /\ stuck' = FALSE
          \/ stuck' = (tries > 0 /\ ~ticking) /\ ticking' = ticking
      BY <1>2, Zenon DEF SetTTL
    <3>2. ticking \in BOOLEAN
      BY DEF SignUpTypeOK
    <3>3. \A t \in BOOLEAN : ticking' = t => ticking' \in BOOLEAN
      OBVIOUS
    <3>4. \A t \in BOOLEAN : stuck' = t => stuck' \in BOOLEAN
      OBVIOUS
    <3>5. (tries > 0) \in BOOLEAN /\ (tries > 0 /\ ~ticking) \in BOOLEAN
      OBVIOUS
    <3> QED BY <3>1, <3>2, <3>3, <3>4, <3>5, Zenon
  <2>3. tries' \in 0 .. MaxTries + 1 /\ (ticking' => tries' > 0)
    BY <1>2, SignUpAssumption DEF SetTTL, SignUpTypeOK
  <2>4. breaks' \in 0 .. MaxBreaks
    BY <1>2, SignUpAssumption DEF SetTTL, Breaks, SignUpTypeOK
  <2> QED BY <2>1, <2>2, <2>3, <2>4 DEF SignUpTypeOK, rowVars, codeVars
<1>3. CASE GetAuthCode(r)
  BY <1>3, StepMoves, EndMoves
     DEF GetAuthCode, SignUpTypeOK, EnteringSteps, rowVars, codeVars, triesVars
<1>4. CASE MarkAuthCodeAsUsed(r)
  BY <1>4, StepMoves
     DEF MarkAuthCodeAsUsed, SignUpTypeOK, EnteringSteps, rowVars, triesVars, Fates
<1>5. CASE UpdateEmailVerified(r)
  BY <1>5, StepMoves DEF UpdateEmailVerified, SignUpTypeOK, EnteringSteps, codeVars, triesVars
<1>6. CASE Reset(r)
  <2>1. calls' \in [Calls -> Call] /\ UNCHANGED <<rowVars, codeVars, breaks>>
    BY <1>6, EndMoves DEF Reset
  <2>2. tries' \in 0 .. MaxTries + 1
    BY <1>6, SignUpAssumption DEF Reset
  <2>3. ticking' \in BOOLEAN /\ ~ticking' /\ stuck' \in BOOLEAN
    BY <1>6 DEF Reset
  <2> QED BY <2>1, <2>2, <2>3 DEF SignUpTypeOK, rowVars, codeVars
<1>7. CASE CallStops(r)
  <2>1. broken' \in BOOLEAN /\ halfway' \in BOOLEAN /\ stuck' \in BOOLEAN
    BY <1>7 DEF CallStops, SignUpTypeOK
  <2>2. breaks' \in 0 .. MaxBreaks
    BY <1>7, SignUpAssumption DEF CallStops, Breaks, SignUpTypeOK
  <2> QED BY <1>7, <2>1, <2>2, EndMoves DEF CallStops, SignUpTypeOK
<1> QED BY <1>1, <1>2, <1>3, <1>4, <1>5, <1>6, <1>7

LEMMA TimeTypes ==
    ASSUME SignUpTypeOK, (\E c \in Codes : CodeExpires(c)) \/ TriesExpire
    PROVE  SignUpTypeOK'
<1>1. ASSUME NEW c \in Codes, CodeExpires(c) PROVE SignUpTypeOK'
  BY <1>1 DEF CodeExpires, SignUpTypeOK, Fates, rowVars, triesVars
<1>2. CASE TriesExpire
  <2>1. tries' \in 0 .. MaxTries + 1
    BY <1>2, SignUpAssumption DEF TriesExpire
  <2>2. ticking' \in BOOLEAN /\ ~ticking'
    BY <1>2 DEF TriesExpire
  <2> QED BY <1>2, <2>1, <2>2 DEF TriesExpire, SignUpTypeOK, rowVars, codeVars
<1> QED BY <1>1, <1>2

\* Who stays at a place where a promise is kept keeps it.
LEMMA OthersStay ==
    ASSUME NEW steps, NEW r \in Calls,
           \A q \in Calls \ {r} : calls'[q] = calls[q],
           calls[r].st \notin steps, At(steps)
    PROVE  At(steps)'
BY DEF At

LEMMA RegisterKeeps ==
    ASSUME SignUpInv, SignUpTypeOK', NEW r \in Calls,
           RegisterWithEmail(r) \/ CreateUser(r) \/ InvalidateCodes(r) \/ CreateAuthCode(r)
             \/ SendOTP(r)
    PROVE  SignUpInv'
<1>0. SignUpTypeOK /\ CodesToSend /\ NewestCodeWorks /\ EnteredIsVerified /\ AttemptsExpire
  BY DEF SignUpInv, SignUpSucceeds
<1>1. /\ UNCHANGED <<halfway, triesVars>>
      /\ \A q \in Calls \ {r} : calls'[q] = calls[q]
  <2>1. CASE RegisterWithEmail(r)
    BY <1>0, <2>1, StepMoves DEF RegisterWithEmail, SendingSteps, rowVars
  <2>2. CASE CreateUser(r)
    BY <1>0, <2>2, StepMoves, EndMoves DEF CreateUser, SendingSteps
  <2>3. CASE InvalidateCodes(r)
    BY <1>0, <2>3, StepMoves DEF InvalidateCodes, SendingSteps, rowVars
  <2>4. CASE CreateAuthCode(r)
    BY <1>0, <2>4 DEF CreateAuthCode, rowVars, SignUpTypeOK
  <2>5. CASE SendOTP(r)
    BY <1>0, <2>5, EndMoves DEF SendOTP, rowVars
  <2> QED BY <2>1, <2>2, <2>3, <2>4, <2>5
<1>2. calls[r].st \in {"idle", "creating", "clearing", "storing", "mailing"}
  BY DEF RegisterWithEmail, CreateUser, InvalidateCodes, CreateAuthCode, SendOTP
<1>3. AttemptsExpire'
  <2>1. At({"timing"}) => At({"timing"})'
    BY <1>1, <1>2, OthersStay
  <2> QED BY <1>0, <1>1, <2>1 DEF AttemptsExpire, triesVars
<1>4. EnteredIsVerified'
  <2>1. At({"confirming"}) => At({"confirming"})'
    BY <1>1, <1>2, OthersStay
  <2>2. account = "verified" => account' = "verified"
    BY DEF RegisterWithEmail, CreateUser, InvalidateCodes, CreateAuthCode, SendOTP, rowVars
  <2>3. \A c \in Codes : fate'[c] = "entered" => fate[c] = "entered"
    BY <1>0 DEF RegisterWithEmail, CreateUser, InvalidateCodes, CreateAuthCode, SendOTP,
       codeVars, Invalidated, SignUpTypeOK
  <2> QED BY <1>0, <1>1, <2>1, <2>2, <2>3 DEF EnteredIsVerified
<1>5. CASE RegisterWithEmail(r) \/ CreateUser(r)
  <2>1. UNCHANGED codeVars /\ ~Sending(r) /\ ~Sending(r)'
    <3>1. CASE RegisterWithEmail(r)
      BY <1>0, <3>1, StepMoves DEF RegisterWithEmail, Sending, SendingSteps
    <3>2. CASE CreateUser(r)
      BY <1>0, <3>2, StepMoves, EndMoves DEF CreateUser, Sending, SendingSteps
    <3> QED BY <1>5, <3>1, <3>2
  <2>2. CodesToSend'
    BY <1>0, <1>1, <2>1 DEF CodesToSend, Sending, codeVars
  <2>3. At({"storing", "mailing"}) => At({"storing", "mailing"})'
    <3>1. calls[r].st \notin {"storing", "mailing"}
      BY <1>5 DEF RegisterWithEmail, CreateUser
    <3> QED BY <1>1, <3>1, OthersStay
  <2>4. NewestCodeWorks'
    BY <1>0, <2>1, <2>3 DEF NewestCodeWorks, codeVars
  <2> QED BY <1>3, <1>4, <2>2, <2>4 DEF SignUpInv, SignUpSucceeds
<1>6. CASE InvalidateCodes(r)
  <2>1. UNCHANGED <<issued, mailed, newest, broken>> /\ calls'[r].st = "storing"
    BY <1>0, <1>6, StepMoves DEF InvalidateCodes, SendingSteps
  <2>2. \A c \in Codes \ mailed : fate[c] \notin {"none", "replaced"}
                                     => fate'[c] \notin {"none", "replaced"}
    <3>1. \A c \in Codes \ mailed : Invalidated[c] = IF fate[c] = "live" THEN "crossed" ELSE fate[c]
      BY DEF Invalidated
    <3>2. fate' \in {fate, Invalidated}
      BY <1>6 DEF InvalidateCodes
    <3> QED BY <3>1, <3>2
  <2>3. CodesToSend'
    <3>1. ~Sending(r)'
      BY <2>1 DEF Sending
    <3>2. ASSUME NEW q \in Calls, Sending(q)'
          PROVE  /\ Sending(q) /\ calls'[q] = calls[q] /\ calls[q].code \in Codes \ mailed
      BY <1>0, <1>1, <3>1, <3>2, SignUpAssumption
         DEF Sending, CodesToSend, SignUpTypeOK, Codes
    <3> QED BY <1>0, <2>1, <2>2, <3>2 DEF CodesToSend
  <2>4. NewestCodeWorks'
    <3>1. At({"storing", "mailing"})'
      BY <2>1 DEF At
    <3>2. newest \in Codes \cup {Wrong}
      BY <1>0, SignUpAssumption DEF SignUpTypeOK, Codes
    <3>3. CASE newest \in Codes
      <4>1. fate'[newest] \in {fate[newest], "replaced", "crossed"}
        BY <1>6, <3>3 DEF InvalidateCodes, Invalidated
      <4> QED BY <1>0, <2>1, <3>1, <4>1 DEF NewestCodeWorks
    <3> QED BY <2>1, <3>2, <3>3 DEF NewestCodeWorks
  <2> QED BY <1>3, <1>4, <2>3, <2>4 DEF SignUpInv, SignUpSucceeds
<1>7. CASE CreateAuthCode(r)
  <2>1. /\ issued + 1 \in Codes /\ issued' = issued + 1 /\ issued \in Nat
        /\ UNCHANGED <<mailed, newest, broken>>
        /\ calls'[r] = [st |-> "mailing", code |-> issued + 1]
        /\ fate'[issued + 1] = "live"
        /\ \A c \in Codes : c # issued + 1 => fate'[c] = fate[c]
    <3>1. issued \in Nat /\ issued + 1 \in Codes
      BY <1>0, <1>7, SignUpAssumption DEF CreateAuthCode, SignUpTypeOK, Codes
    <3>2. /\ issued' = issued + 1 /\ UNCHANGED <<mailed, newest, broken>>
          /\ calls' = [calls EXCEPT ![r] = [st |-> "mailing", code |-> issued + 1]]
          /\ fate' = [fate EXCEPT ![issued + 1] = "live"]
      BY <1>7 DEF CreateAuthCode
    <3> QED BY <1>0, <3>1, <3>2 DEF SignUpTypeOK
  <2>2. CodesToSend'
    <3>1. ASSUME NEW q \in Calls \ {r}, Sending(q)'
          PROVE  /\ Sending(q) /\ calls'[q] = calls[q] /\ calls[q].code \in Codes
                 /\ calls[q].code \in 1 .. issued
      BY <1>0, <1>1, <3>1, SignUpAssumption DEF Sending, CodesToSend, SignUpTypeOK, Codes
    <3>2. issued + 1 \notin mailed
      BY <1>0, <2>1 DEF SignUpTypeOK
    <3> QED BY <1>0, <2>1, <3>1, <3>2 DEF CodesToSend
  <2>3. NewestCodeWorks'
    <3>1. At({"storing", "mailing"})'
      BY <2>1 DEF At
    <3>2. newest # Wrong => newest \in Codes /\ newest # issued + 1
      BY <1>0, <2>1, SignUpAssumption DEF SignUpTypeOK, Codes
    <3> QED BY <1>0, <2>1, <3>1, <3>2 DEF NewestCodeWorks
  <2> QED BY <1>3, <1>4, <2>2, <2>3 DEF SignUpInv, SignUpSucceeds
<1>8. CASE SendOTP(r)
  <2>1. /\ newest' = calls[r].code /\ mailed' = mailed \cup {calls[r].code}
        /\ UNCHANGED <<issued, fate>> /\ Sending(r) /\ ~Sending(r)'
    BY <1>0, <1>8, EndMoves DEF SendOTP, Sending, NoCall
  <2>2. CodesToSend'
    BY <1>0, <1>1, <2>1 DEF CodesToSend, Sending
  <2>3. NewestCodeWorks'
    <3>1. calls[r].code \in Codes /\ fate[calls[r].code] \notin {"none", "replaced"}
      BY <1>0, <2>1, SignUpAssumption DEF CodesToSend, SignUpTypeOK, Codes
    <3> QED BY <1>0, <2>1, <3>1 DEF NewestCodeWorks, SignUpTypeOK, Fates
  <2> QED BY <1>3, <1>4, <2>2, <2>3 DEF SignUpInv, SignUpSucceeds
<1> QED BY <1>5, <1>6, <1>7, <1>8

LEMMA VerifyKeeps ==
    ASSUME SignUpInv, SignUpTypeOK', NEW r \in Calls,
           \/ \E c \in mailed \cup {Wrong} : CheckAndIncrement(r, c)
           \/ SetTTL(r) \/ GetAuthCode(r) \/ MarkAuthCodeAsUsed(r) \/ UpdateEmailVerified(r)
           \/ Reset(r)
    PROVE  SignUpInv'
<1>0. SignUpTypeOK /\ CodesToSend /\ NewestCodeWorks /\ EnteredIsVerified /\ AttemptsExpire
  BY DEF SignUpInv, SignUpSucceeds
<1>1. /\ UNCHANGED <<issued, mailed, newest, broken>>
      /\ \A q \in Calls \ {r} : calls'[q] = calls[q]
      /\ calls[r].st \in EnteringSteps \cup {"idle"}
      /\ calls'[r].st \in EnteringSteps \cup {"idle"}
  <2>1. ASSUME NEW c \in mailed \cup {Wrong}, CheckAndIncrement(r, c)
        PROVE  <1>1!:
    BY <1>0, <2>1 DEF CheckAndIncrement, codeVars, EnteringSteps, NoCall, SignUpTypeOK
  <2>2. CASE SetTTL(r)
    BY <1>0, <2>2, StepMoves DEF SetTTL, codeVars, EnteringSteps
  <2>3. CASE GetAuthCode(r)
    BY <1>0, <2>3, StepMoves, EndMoves DEF GetAuthCode, codeVars, EnteringSteps, NoCall
  <2>4. CASE MarkAuthCodeAsUsed(r)
    BY <1>0, <2>4, StepMoves DEF MarkAuthCodeAsUsed, EnteringSteps
  <2>5. CASE UpdateEmailVerified(r)
    BY <1>0, <2>5, StepMoves DEF UpdateEmailVerified, codeVars, EnteringSteps
  <2>6. CASE Reset(r)
    BY <1>0, <2>6, EndMoves DEF Reset, codeVars, EnteringSteps, NoCall
  <2> QED BY <2>1, <2>2, <2>3, <2>4, <2>5, <2>6
<1>2. \A c \in Codes : fate'[c] = fate[c] \/ (fate[c] = "live" /\ fate'[c] = "entered")
  BY <1>0 DEF CheckAndIncrement, SetTTL, GetAuthCode, MarkAuthCodeAsUsed, UpdateEmailVerified,
     Reset, codeVars, SignUpTypeOK
<1>3. CodesToSend'
  <2>1. ASSUME NEW q \in Calls, Sending(q)'
        PROVE  Sending(q) /\ calls'[q] = calls[q] /\ calls[q].code \in Codes
    BY <1>0, <1>1, <2>1, SignUpAssumption
       DEF Sending, CodesToSend, SignUpTypeOK, Codes, EnteringSteps
  <2> QED BY <1>0, <1>1, <1>2, <2>1 DEF CodesToSend
<1>4. NewestCodeWorks'
  <2>1. At({"storing", "mailing"}) => At({"storing", "mailing"})'
    BY <1>1, OthersStay DEF EnteringSteps
  <2>2. newest # Wrong => newest \in Codes
    BY <1>0, SignUpAssumption DEF SignUpTypeOK, Codes
  <2> QED BY <1>0, <1>1, <1>2, <2>1, <2>2 DEF NewestCodeWorks
<1>5. CASE MarkAuthCodeAsUsed(r)
  <2>1. calls[r].st = "marking" /\ calls'[r].st = "confirming" /\ UNCHANGED triesVars
    BY <1>0, <1>5, StepMoves DEF MarkAuthCodeAsUsed, EnteringSteps
  <2>2. At({"timing"}) => At({"timing"})'
    BY <1>1, <2>1, OthersStay
  <2> QED BY <1>0, <1>3, <1>4, <2>1, <2>2
          DEF SignUpInv, SignUpSucceeds, EnteredIsVerified, AttemptsExpire, At, triesVars
<1>6. CASE UpdateEmailVerified(r)
  <2>1. calls[r].st = "confirming" /\ account' = "verified" /\ UNCHANGED triesVars
    BY <1>6 DEF UpdateEmailVerified
  <2>2. At({"timing"}) => At({"timing"})'
    BY <1>1, <2>1, OthersStay
  <2> QED BY <1>0, <1>3, <1>4, <2>1, <2>2
          DEF SignUpInv, SignUpSucceeds, EnteredIsVerified, AttemptsExpire, triesVars
<1>7. ASSUME UNCHANGED <<rowVars, fate>>, calls[r].st # "confirming", AttemptsExpire'
      PROVE  SignUpInv'
  <2>1. At({"confirming"}) => At({"confirming"})'
    BY <1>1, <1>7, OthersStay
  <2> QED BY <1>0, <1>3, <1>4, <1>7, <2>1
          DEF SignUpInv, SignUpSucceeds, EnteredIsVerified, rowVars
<1>8. ASSUME NEW c \in mailed \cup {Wrong}, CheckAndIncrement(r, c) PROVE SignUpInv'
  <2>1. UNCHANGED <<rowVars, fate, ticking>> /\ calls[r].st = "idle"
    BY <1>8 DEF CheckAndIncrement, codeVars
  <2>2. At({"timing"}) => At({"timing"})'
    BY <1>1, <2>1, OthersStay
  <2>3. AttemptsExpire'
    <3>1. CASE tries' = Counted /\ FirstTry(tries') /\ UNCHANGED stuck
      <4>1. CASE calls'[r].st = "timing"
        BY <4>1 DEF AttemptsExpire, At
      <4>2. CASE calls'[r].st # "timing"
        <5>1. stuck' \/ ticking \/ tries' = 0
          BY <1>0, <1>8, <3>1, <4>2 DEF CheckAndIncrement, SignUpTypeOK
        <5> QED BY <2>1, <5>1 DEF AttemptsExpire
      <4> QED BY <4>1, <4>2
    <3>2. CASE tries' = Counted /\ ~FirstTry(tries') /\ UNCHANGED stuck
      <4>1. tries > 0
        BY <1>0, <3>2, SignUpAssumption DEF Counted, FirstTry, SignUpTypeOK
      <4> QED BY <1>0, <2>1, <2>2, <3>2, <4>1 DEF AttemptsExpire
    <3>3. CASE stuck' = (stuck \/ (tries' > 0 /\ ~ticking))
      BY <2>1, <3>3 DEF AttemptsExpire
    <3> QED BY <1>8, <3>1, <3>2, <3>3 DEF CheckAndIncrement
  <2> QED BY <1>7, <2>1, <2>3
<1>9. CASE SetTTL(r)
  <2>1. UNCHANGED <<rowVars, fate>> /\ calls[r].st = "timing"
    BY <1>9 DEF SetTTL, codeVars
  <2>2. \/ ticking' = (tries > 0) /\ tries' = tries
        \/ tries' = 0
        \/ stuck' = (tries > 0 /\ ~ticking) /\ UNCHANGED <<tries, ticking>>
    BY <1>9 DEF SetTTL
  <2>3. AttemptsExpire'
    BY <1>0, <2>2 DEF AttemptsExpire, SignUpTypeOK
  <2> QED BY <1>7, <2>1, <2>3
<1>10. CASE GetAuthCode(r)
  <2>1. UNCHANGED <<rowVars, fate, triesVars>> /\ calls[r].st = "looking"
    BY <1>10 DEF GetAuthCode, codeVars
  <2>2. At({"timing"}) => At({"timing"})'
    BY <1>1, <2>1, OthersStay
  <2> QED BY <1>0, <1>7, <2>1, <2>2 DEF AttemptsExpire, triesVars
<1>11. CASE Reset(r)
  <2>1. UNCHANGED <<rowVars, fate>> /\ calls[r].st = "resetting" /\ tries' = 0
    BY <1>11 DEF Reset, codeVars
  <2> QED BY <1>7, <2>1 DEF AttemptsExpire
<1> QED BY <1>5, <1>6, <1>8, <1>9, <1>10, <1>11

LEMMA StopKeeps ==
    ASSUME SignUpInv, SignUpTypeOK', NEW r \in Calls, CallStops(r)
    PROVE  SignUpInv'
<1>0. SignUpTypeOK /\ CodesToSend /\ NewestCodeWorks /\ EnteredIsVerified /\ AttemptsExpire
  BY DEF SignUpInv, SignUpSucceeds
<1>1. /\ UNCHANGED <<account, issued, fate, mailed, newest, tries, ticking>>
      /\ broken' = (broken \/ calls[r].st \in {"storing", "mailing"})
      /\ halfway' = (halfway \/ calls[r].st = "confirming")
      /\ stuck' = (stuck \/ (calls[r].st = "timing" /\ tries > 0 /\ ~ticking))
  BY DEF CallStops
<1>2. calls'[r] = NoCall /\ \A q \in Calls \ {r} : calls'[q] = calls[q]
  BY <1>0, EndMoves DEF CallStops
<1>3. CodesToSend'
  BY <1>0, <1>1, <1>2 DEF CodesToSend, Sending, NoCall
<1>4. NewestCodeWorks'
  <2>1. At({"storing", "mailing"}) /\ calls[r].st \notin {"storing", "mailing"}
          => At({"storing", "mailing"})'
    BY <1>2, OthersStay
  <2> QED BY <1>0, <1>1, <2>1 DEF NewestCodeWorks
<1>5. EnteredIsVerified'
  <2>1. At({"confirming"}) /\ calls[r].st # "confirming" => At({"confirming"})'
    BY <1>2, OthersStay
  <2> QED BY <1>0, <1>1, <2>1 DEF EnteredIsVerified
<1>6. AttemptsExpire'
  <2>1. At({"timing"}) /\ calls[r].st # "timing" => At({"timing"})'
    BY <1>2, OthersStay
  <2> QED BY <1>0, <1>1, <2>1 DEF AttemptsExpire
<1> QED BY <1>3, <1>4, <1>5, <1>6 DEF SignUpInv, SignUpSucceeds

LEMMA TimeKeeps ==
    ASSUME SignUpInv, SignUpTypeOK', (\E c \in Codes : CodeExpires(c)) \/ TriesExpire
    PROVE  SignUpInv'
<1>0. SignUpTypeOK /\ CodesToSend /\ NewestCodeWorks /\ EnteredIsVerified /\ AttemptsExpire
  BY DEF SignUpInv, SignUpSucceeds
<1>1. UNCHANGED <<rowVars, issued, mailed, newest, broken, stuck, calls>>
  BY DEF CodeExpires, TriesExpire, codeVars, triesVars
<1>2. \A c \in Codes : fate'[c] = fate[c] \/ (fate[c] = "live" /\ fate'[c] = "expired")
  BY <1>0 DEF CodeExpires, TriesExpire, codeVars, SignUpTypeOK
<1>3. CodesToSend'
  <2>1. \A q \in Calls : Sending(q) => calls[q].code \in Codes
    BY <1>0, SignUpAssumption DEF CodesToSend, SignUpTypeOK, Codes
  <2> QED BY <1>0, <1>1, <1>2, <2>1 DEF CodesToSend, Sending
<1>4. NewestCodeWorks'
  <2>1. newest # Wrong => newest \in Codes
    BY <1>0, SignUpAssumption DEF SignUpTypeOK, Codes
  <2> QED BY <1>0, <1>1, <1>2, <2>1 DEF NewestCodeWorks, At
<1>5. EnteredIsVerified'
  BY <1>0, <1>1, <1>2 DEF EnteredIsVerified, At, rowVars
<1>6. AttemptsExpire'
  <2>1. tries' = 0 \/ UNCHANGED <<tries, ticking>>
    BY DEF CodeExpires, TriesExpire, triesVars
  <2> QED BY <1>0, <1>1, <2>1 DEF AttemptsExpire, At
<1> QED BY <1>3, <1>4, <1>5, <1>6 DEF SignUpInv, SignUpSucceeds

LEMMA SignUpStepKeeps == SignUpInv /\ [SignUpNext]_signUpVars => SignUpInv'
<1> SUFFICES ASSUME SignUpInv, [SignUpNext]_signUpVars PROVE SignUpInv'
  OBVIOUS
<1>0. SignUpTypeOK /\ CodesToSend
  BY DEF SignUpInv
<1>1. CASE UNCHANGED signUpVars
  BY <1>1 DEF signUpVars, SignUpInv, SignUpTypeOK, CodesToSend, Sending, SignUpSucceeds,
     NewestCodeWorks, EnteredIsVerified, AttemptsExpire, At
<1>2. ASSUME NEW r \in Calls,
             RegisterWithEmail(r) \/ CreateUser(r) \/ InvalidateCodes(r) \/ CreateAuthCode(r)
               \/ SendOTP(r)
      PROVE  SignUpInv'
  BY <1>0, <1>2, RegisterTypes, RegisterKeeps
<1>3. ASSUME NEW r \in Calls,
             \/ \E c \in mailed \cup {Wrong} : CheckAndIncrement(r, c)
             \/ SetTTL(r) \/ GetAuthCode(r) \/ MarkAuthCodeAsUsed(r) \/ UpdateEmailVerified(r)
             \/ Reset(r)
      PROVE  SignUpInv'
  BY <1>0, <1>3, VerifyTypes, VerifyKeeps
<1>4. ASSUME NEW r \in Calls, CallStops(r) PROVE SignUpInv'
  BY <1>0, <1>4, VerifyTypes, StopKeeps
<1>5. CASE (\E c \in Codes : CodeExpires(c)) \/ TriesExpire
  BY <1>0, <1>5, TimeTypes, TimeKeeps
<1> QED BY <1>1, <1>2, <1>3, <1>4, <1>5 DEF SignUpNext

(* For any number of requests, codes and failures: the newest code works, a code
   is not spent for nothing, and the counter of attempts is forgotten in time,
   each up to the exceptions that its definition names. *)
THEOREM SignUpAlwaysSucceeds == SignUpSpec => []SignUpSucceeds
<1>1. SignUpInv => SignUpSucceeds
  BY DEF SignUpInv
<1> QED BY <1>1, SignUpInitHolds, SignUpStepKeeps, PTL DEF SignUpSpec

(* The types of the sign-up's variables. *)
THEOREM SignUpTypes == SignUpSpec => []SignUpTypeOK
<1>1. SignUpInv => SignUpTypeOK
  BY DEF SignUpInv
<1> QED BY <1>1, SignUpInitHolds, SignUpStepKeeps, PTL DEF SignUpSpec

-----------------------------------------------------------------------------
(* The orders on the screen. *)

RowsTyped ==
    /\ rows \in [Mine -> Seq(Statuses)]
    /\ \A o \in Mine : Len(rows[o]) \in 1 .. MaxRows

\* The effect of the drawer waits only where there is an order to open.
DrawerTyped ==
    /\ signed \in {"restoring", "in", "out"}
    /\ drawer \in BOOLEAN /\ dirty \in BOOLEAN
    /\ pending \in Mine \cup {Nothing} /\ initial \in Mine \cup {Nothing}
    /\ dropped \in Mine \cup {Nothing}
    /\ dirty => drawer /\ initial # Nothing

ListTyped == list \in Listings /\ listing \in BOOLEAN /\ opening \subseteq Mine

\* Nothing is asked for a sheet that is closed.
SheetTyped ==
    /\ picked \in Copy \cup {Nothing} /\ full \in Copy \cup {Nothing}
    /\ asks \subseteq Mine /\ stale \in BOOLEAN
    /\ (full # Nothing) = (drawer /\ picked # Nothing)
    /\ full = Nothing => asks = {}

CancelTyped ==
    /\ cancel \in [st : {"idle", "sent", "checked", "done", "refused"},
                   prev : Copy \cup {Nothing}, here : BOOLEAN]
    /\ cancel.st # "idle" => cancel.prev \in Copy /\ cancel.prev.ver # Hoped

TypeInv ==
    RowsTyped /\ DrawerTyped /\ ListTyped /\ SheetTyped /\ CancelTyped /\ trouble \in 0 .. MaxTrouble

LEMMA TypeInvIs == TypeInv => MyOrdersTypeOK
<1> SUFFICES ASSUME TypeInv PROVE MyOrdersTypeOK
  OBVIOUS
<1>1. cancel.st \in {"idle", "sent", "checked", "done", "refused"}
  BY DEF TypeInv, CancelTyped
<1>2. QED
  BY <1>1 DEF TypeInv, RowsTyped, DrawerTyped, ListTyped, SheetTyped, CancelTyped, MyOrdersTypeOK

-----------------------------------------------------------------------------
(* What the operations are built from. *)

LEMMA CopyIs ==
    ASSUME NEW c \in Copy
    PROVE  c # Nothing /\ c.id \in Mine /\ c.ver \in 0 .. MaxRows /\ c.items \in BOOLEAN
BY MyOrdersAssumption DEF Copy

\* What the server answers is the order's newest version.
LEMMA FetchedIs ==
    ASSUME RowsTyped, NEW o \in Mine
    PROVE  /\ Fetched(o) \in Copy /\ Fetched(o).id = o /\ Fetched(o).ver = Len(rows[o])
           /\ Fetched(o).ver # Hoped /\ Fetched(o).items
<1>1. Len(rows[o]) \in 1 .. MaxRows
  BY DEF RowsTyped
<1>2. Len(rows[o]) \in 0 .. MaxRows /\ Len(rows[o]) # 0
  BY <1>1
<1>3. QED
  BY <1>2 DEF Fetched, Copy, Hoped

\* So is what a page of the list holds, without the items.
LEMMA ListedAnswerIs ==
    ASSUME RowsTyped, NEW o \in Mine, NEW c, c = [Fetched(o) EXCEPT !.items = FALSE]
    PROVE  c \in Copy /\ c.id = o /\ c.ver = Len(rows[o]) /\ c.ver # Hoped
<1>1. Fetched(o) \in Copy /\ Fetched(o).id = o /\ Fetched(o).ver = Len(rows[o])
  /\ Fetched(o).ver # Hoped
  BY FetchedIs
<1>2. QED
  BY <1>1 DEF Copy

\* An order gets one status more, and the others none.
LEMMA MovesIs ==
    ASSUME RowsTyped, NEW o \in Mine, NEW s \in Statuses, Moves(o, s)
    PROVE  /\ RowsTyped'
           /\ Current(o)' = s
           /\ \A p \in Mine : p # o => rows'[p] = rows[p] /\ Current(p)' = Current(p)
           /\ \A p \in Mine : Len(rows[p]) <= Len(rows'[p])
           /\ \A p \in Mine : \A i \in 1 .. Len(rows[p]) : rows'[p][i] = rows[p][i]
<1> DEFINE t == Append(rows[o], s)
<1>1. rows[o] \in Seq(Statuses) /\ Len(rows[o]) \in 1 .. MaxRows /\ Len(rows[o]) < MaxRows
  /\ MaxRows \in Nat
  BY MyOrdersAssumption DEF RowsTyped, Moves
<1>2. t \in Seq(Statuses) /\ Len(t) = Len(rows[o]) + 1 /\ t[Len(t)] = s
  /\ \A i \in 1 .. Len(rows[o]) : t[i] = rows[o][i]
  BY <1>1
<1>3. Len(t) \in 1 .. MaxRows /\ Len(rows[o]) <= Len(t)
  BY <1>1, <1>2
<1>4. rows' = [rows EXCEPT ![o] = t] /\ rows \in [Mine -> Seq(Statuses)]
  BY DEF Moves, RowsTyped
<1> HIDE DEF t
<1>5. rows' \in [Mine -> Seq(Statuses)] /\ rows'[o] = t
  /\ \A p \in Mine : p # o => rows'[p] = rows[p]
  BY <1>2, <1>4
<1>6. RowsTyped'
  BY <1>3, <1>5 DEF RowsTyped
<1>7. Current(o)' = s
  BY <1>2, <1>5 DEF Current
<1>8. ASSUME NEW p \in Mine PROVE Len(rows[p]) <= Len(rows'[p])
  BY <1>3, <1>5 DEF RowsTyped
<1>9. ASSUME NEW p \in Mine, NEW i \in 1 .. Len(rows[p]) PROVE rows'[p][i] = rows[p][i]
  BY <1>2, <1>5
<1>10. \A p \in Mine : p # o => rows'[p] = rows[p] /\ Current(p)' = Current(p)
  BY <1>5 DEF Current
<1>11. QED
  BY <1>6, <1>7, <1>8, <1>9, <1>10

\* A final status is never left.
LEMMA CancelledStays ==
    /\ \A s \in Statuses : ~IsValidStateTransition("CANCELLED", s)
    /\ "CANCELLED" \notin Cancellable /\ "CANCELLED" \in Statuses
BY DEF IsValidStateTransition, Transitions, Cancellable, Statuses

\* The client's table of cancellable statuses is the server's.
LEMMA SameTable == \A s : CanCancel(s) = (s \in Cancellable)
BY DEF CanCancel, Cancellable

\* Selecting an order shows it, or leaves a sheet that is open as it is.
LEMMA SelectTyped ==
    ASSUME SheetTyped, NEW c \in Copy, Select(c), drawer' = drawer, drawer \in BOOLEAN
    PROVE  SheetTyped'
<1>1. c # Nothing /\ c.id \in Mine
  BY CopyIs
<1>2. CASE full # Nothing
  <2>1. picked' = c /\ full' = full
    BY <1>2 DEF Select
  <2>2. asks' \subseteq Mine /\ stale' \in BOOLEAN
    BY <1>1, <1>2 DEF Select, SheetTyped
  <2>3. QED
    BY <1>1, <1>2, <2>1, <2>2 DEF SheetTyped
<1>3. CASE full = Nothing
  <2>1. picked' = c /\ full' = (IF drawer THEN c ELSE Nothing)
        /\ asks' = (IF drawer /\ ~c.items THEN {c.id} ELSE {}) /\ stale' = FALSE
    BY <1>3 DEF Select
  <2>2. QED
    BY <1>1, <1>3, <2>1 DEF SheetTyped
<1>4. QED
  BY <1>2, <1>3

LEMMA ListedTyped == ASSUME ListTyped, NEW c \in Copy PROVE Listed(c) \in Listings
BY DEF ListTyped, Listed, Listings

\* A copy written into the list replaces the one of its order.
LEMMA ListedIs ==
    ASSUME ListTyped, NEW c \in Copy, NEW o \in Mine
    PROVE  /\ o # c.id => Listed(c)[o] = list[o]
           /\ list[c.id] = Nothing => Listed(c)[c.id] = Nothing
           /\ list[c.id] # Nothing => Listed(c)[c.id] = c
<1>1. c.id \in Mine /\ list \in [Mine -> Copy \cup {Nothing}]
  BY CopyIs DEF ListTyped, Listings
<1>2. QED
  BY <1>1 DEF Listed

-----------------------------------------------------------------------------
(* Types. *)

LEMMA ShowDrawerTyped ==
    ASSUME SheetTyped, listing \in BOOLEAN, drawer \in BOOLEAN, ShowDrawer,
           picked' = picked, stale' = stale
    PROVE  SheetTyped' /\ drawer' = TRUE /\ listing' \in BOOLEAN
<1>1. drawer' = TRUE /\ listing' \in BOOLEAN
  BY DEF ShowDrawer
<1>2. full' = (IF drawer THEN full ELSE picked)
  /\ asks' = (IF drawer \/ picked = Nothing \/ picked.items THEN asks ELSE {picked.id})
  BY DEF ShowDrawer
<1>3. picked # Nothing => picked \in Copy /\ picked.id \in Mine
  BY CopyIs DEF SheetTyped
<1>4. QED
  BY <1>1, <1>2, <1>3 DEF SheetTyped

LEMMA TypeInitial == MyOrdersInit => TypeInv
<1> SUFFICES ASSUME MyOrdersInit PROVE TypeInv
  OBVIOUS
<1>1. RowsTyped
  <2>1. ASSUME NEW o \in Mine PROVE rows[o] \in Seq(Statuses) /\ Len(rows[o]) \in 1 .. MaxRows
    <3>1. PICK s \in Begin : rows[o] = <<s>>
      BY DEF MyOrdersInit
    <3>2. s \in Statuses /\ MaxRows \in Nat \ {0}
      BY MyOrdersAssumption
    <3>3. QED
      BY <3>1, <3>2
  <2>2. rows \in [Mine -> {<<s>> : s \in Begin}]
    BY DEF MyOrdersInit
  <2>3. QED
    BY <2>1, <2>2 DEF RowsTyped
<1>2. DrawerTyped
  BY MyOrdersAssumption DEF MyOrdersInit, DrawerTyped
<1>3. ListTyped
  BY DEF MyOrdersInit, ListTyped, Listings, NoListing
<1>4. SheetTyped
  BY DEF MyOrdersInit, SheetTyped
<1>5. CancelTyped
  BY DEF MyOrdersInit, CancelTyped, NoCancel
<1>6. trouble \in 0 .. MaxTrouble
  BY MyOrdersAssumption DEF MyOrdersInit
<1>7. QED
  BY <1>1, <1>2, <1>3, <1>4, <1>5, <1>6 DEF TypeInv

\* An action that opens no drawer and asks for a render where one is due.
LEMMA RenderedTyped ==
    ASSUME DrawerTyped, UNCHANGED <<signed, pending, dropped, drawer, initial>>, Rendered
    PROVE  DrawerTyped'
BY DEF DrawerTyped, Rendered

LEMMA FailsTyped == ASSUME trouble \in 0 .. MaxTrouble, Fails PROVE trouble' \in 0 .. MaxTrouble
BY MyOrdersAssumption DEF Fails

\* An untouched part keeps its type.
LEMMA QuietTyped ==
    /\ RowsTyped /\ rows' = rows => RowsTyped'
    /\ DrawerTyped /\ UNCHANGED <<signed, drawerVars>> => DrawerTyped'
    /\ ListTyped /\ UNCHANGED listVars => ListTyped'
    /\ SheetTyped /\ UNCHANGED <<drawer, sheetVars>> => SheetTyped'
    /\ CancelTyped /\ cancel' = cancel => CancelTyped'
BY DEF RowsTyped, DrawerTyped, ListTyped, SheetTyped, CancelTyped, drawerVars, listVars, sheetVars

LEMMA OpeningTypes ==
    ASSUME TypeInv,
           \/ \E who \in {"in", "out"} : SessionRestored(who)
           \/ \E o \in Pushed : PushClicked(o)
           \/ OpenPending \/ OpenDrawer \/ CloseDrawer
    PROVE  TypeInv'
<1> USE DEF TypeInv
<1>1. ASSUME NEW who \in {"in", "out"}, SessionRestored(who) PROVE TypeInv'
  <2>1. DrawerTyped'
    BY <1>1 DEF SessionRestored, drawerVars, DrawerTyped
  <2>2. QED
    BY <1>1, <2>1, QuietTyped DEF SessionRestored, drawerVars, listVars, sheetVars
<1>2. ASSUME NEW o \in Pushed, PushClicked(o) PROVE TypeInv'
  <2>1. DrawerTyped'
    BY <1>2, MyOrdersAssumption DEF PushClicked, DrawerTyped
  <2>2. QED
    BY <1>2, <2>1, QuietTyped DEF PushClicked, drawerVars, listVars, sheetVars
<1>3. ASSUME OpenPending PROVE TypeInv'
  <2>1. CASE signed = "in"
    <3>1. ShowDrawer /\ initial' = pending /\ Rendered /\ dropped' = dropped
      BY <1>3, <2>1 DEF OpenPending
    <3>2. UNCHANGED <<rows, signed, list, opening, picked, stale, cancel, trouble>>
          /\ pending # Nothing /\ pending' = Nothing
      BY <1>3 DEF OpenPending
    <3>3. SheetTyped' /\ drawer' = TRUE /\ listing' \in BOOLEAN
      BY <3>1, <3>2, ShowDrawerTyped DEF ListTyped, DrawerTyped
    <3>4. DrawerTyped'
      BY <3>1, <3>2, <3>3 DEF DrawerTyped, Rendered
    <3>5. ListTyped'
      BY <3>2, <3>3 DEF ListTyped
    <3>6. QED
      BY <3>2, <3>3, <3>4, <3>5, QuietTyped
  <2>2. CASE signed # "in"
    <3>1. UNCHANGED <<drawer, initial, dirty, listing, full, asks>>
          /\ dropped' = (IF signed = "restoring" THEN pending ELSE dropped)
      BY <1>3, <2>2 DEF OpenPending
    <3>2. UNCHANGED <<rows, signed, list, opening, picked, stale, cancel, trouble>>
          /\ pending' = Nothing
      BY <1>3 DEF OpenPending
    <3>3. DrawerTyped'
      BY <3>1, <3>2 DEF DrawerTyped
    <3>4. QED
      BY <3>1, <3>2, <3>3, QuietTyped DEF listVars, sheetVars
  <2>3. QED
    BY <2>1, <2>2
<1>4. ASSUME OpenDrawer PROVE TypeInv'
  <2>1. ShowDrawer /\ UNCHANGED <<rows, signed, pending, initial, dirty, dropped, list, opening,
                                  picked, stale, cancel, trouble>>
    BY <1>4 DEF OpenDrawer
  <2>2. SheetTyped' /\ drawer' = TRUE /\ listing' \in BOOLEAN
    BY <2>1, ShowDrawerTyped DEF ListTyped, DrawerTyped
  <2>3. DrawerTyped'
    BY <2>1, <2>2 DEF DrawerTyped
  <2>4. ListTyped'
    BY <2>1, <2>2 DEF ListTyped
  <2>5. QED
    BY <2>1, <2>2, <2>3, <2>4, QuietTyped
<1>5. ASSUME CloseDrawer PROVE TypeInv'
  <2>1. drawer' = FALSE /\ initial' = Nothing /\ picked = Nothing /\ ~dirty
        /\ UNCHANGED <<rows, signed, pending, dirty, dropped, listVars, sheetVars, cancel, trouble>>
    BY <1>5 DEF CloseDrawer, Settled
  <2>2. DrawerTyped'
    BY <2>1 DEF DrawerTyped
  <2>3. SheetTyped'
    BY <2>1 DEF SheetTyped, sheetVars
  <2>4. QED
    BY <2>1, <2>2, <2>3, QuietTyped
<1>6. QED
  BY <1>1, <1>2, <1>3, <1>4, <1>5

LEMMA AnsweringTypes ==
    ASSUME TypeInv,
           \/ SelectInitial \/ ListAnswers
           \/ \E o \in Mine : OpeningAnswers(o) \/ OpeningFails(o)
    PROVE  TypeInv'
<1> USE DEF TypeInv
<1>1. ASSUME SelectInitial PROVE TypeInv'
  <2>1. dirty /\ dirty' = FALSE
        /\ UNCHANGED <<rows, signed, drawer, pending, initial, dropped, list, listing, cancel, trouble>>
    BY <1>1 DEF SelectInitial
  <2>2. drawer /\ initial \in Mine /\ DrawerTyped'
    BY <2>1 DEF DrawerTyped
  <2>3. CASE list[initial] # Nothing
    <3>1. Select(list[initial]) /\ opening' = opening
      BY <1>1, <2>3 DEF SelectInitial
    <3>2. list[initial] \in Copy
      BY <2>2, <2>3 DEF ListTyped, Listings
    <3>3. SheetTyped'
      BY <2>1, <3>1, <3>2, SelectTyped DEF DrawerTyped
    <3>4. QED
      BY <2>1, <2>2, <3>1, <3>3, QuietTyped DEF listVars
  <2>4. CASE list[initial] = Nothing
    <3>1. opening' = opening \cup {initial} /\ UNCHANGED sheetVars
      BY <1>1, <2>4 DEF SelectInitial
    <3>2. ListTyped'
      BY <2>1, <2>2, <3>1 DEF ListTyped
    <3>3. QED
      BY <2>1, <2>2, <3>1, <3>2, QuietTyped
  <2>5. QED
    BY <2>3, <2>4
<1>2. ASSUME ListAnswers PROVE TypeInv'
  <2>1. listing' = FALSE /\ UNCHANGED <<drawer, initial>> /\ Rendered
        /\ UNCHANGED <<rows, signed, pending, dropped, opening, sheetVars, cancel, trouble>>
    BY <1>2 DEF ListAnswers
  <2>2. PICK S \in Pages :
          list' = [o \in Mine |-> IF o \in S THEN [Fetched(o) EXCEPT !.items = FALSE] ELSE Nothing]
    BY <1>2 DEF ListAnswers
  <2>3. \A o \in Mine : [Fetched(o) EXCEPT !.items = FALSE] \in Copy
    BY ListedAnswerIs
  <2>4. list' \in Listings
    BY <2>2, <2>3 DEF Listings
  <2>5. ListTyped'
    BY <2>1, <2>4 DEF ListTyped
  <2>6. QED
    BY <2>1, <2>5, RenderedTyped, QuietTyped
<1>3. ASSUME NEW o \in Mine, OpeningAnswers(o) PROVE TypeInv'
  <2>1. opening' = opening \ {o} /\ Select(Fetched(o)) /\ UNCHANGED <<drawer, initial>> /\ Rendered
        /\ UNCHANGED <<rows, signed, pending, dropped, list, listing, cancel, trouble>>
    BY <1>3 DEF OpeningAnswers
  <2>2. SheetTyped'
    BY <2>1, FetchedIs, SelectTyped DEF DrawerTyped
  <2>3. ListTyped'
    BY <2>1 DEF ListTyped
  <2>4. QED
    BY <2>1, <2>2, <2>3, RenderedTyped, QuietTyped
<1>4. ASSUME NEW o \in Mine, OpeningFails(o) PROVE TypeInv'
  <2>1. opening' = opening \ {o} /\ Fails
        /\ UNCHANGED <<rows, signed, drawerVars, list, listing, sheetVars, cancel>>
    BY <1>4 DEF OpeningFails
  <2>2. ListTyped'
    BY <2>1 DEF ListTyped
  <2>3. QED
    BY <2>1, <2>2, FailsTyped, QuietTyped DEF drawerVars
<1>5. QED
  BY <1>1, <1>2, <1>3, <1>4

LEMMA SheetTypes ==
    ASSUME TypeInv,
           CloseOrder \/ \E o \in Mine : PickOrder(o) \/ DetailAnswers(o) \/ DetailFails(o)
    PROVE  TypeInv'
<1> USE DEF TypeInv
<1>1. ASSUME CloseOrder PROVE TypeInv'
  <2>1. picked' = Nothing /\ full' = Nothing /\ asks' = {} /\ stale' = FALSE
        /\ cancel' = [cancel EXCEPT !.here = FALSE] /\ UNCHANGED <<drawer, initial>> /\ Rendered
        /\ UNCHANGED <<rows, signed, pending, dropped, listVars, trouble>>
    BY <1>1 DEF CloseOrder
  <2>2. SheetTyped'
    BY <2>1 DEF SheetTyped
  <2>3. CancelTyped'
    BY <2>1 DEF CancelTyped
  <2>4. QED
    BY <2>1, <2>2, <2>3, RenderedTyped, QuietTyped
<1>2. ASSUME NEW o \in Mine, PickOrder(o) PROVE TypeInv'
  <2>1. Select(list[o]) /\ list[o] # Nothing /\ UNCHANGED <<drawer, initial>> /\ Rendered
        /\ UNCHANGED <<rows, signed, pending, dropped, listVars, cancel, trouble>>
    BY <1>2 DEF PickOrder
  <2>2. list[o] \in Copy
    BY <2>1 DEF ListTyped, Listings
  <2>3. SheetTyped'
    BY <2>1, <2>2, SelectTyped DEF DrawerTyped
  <2>4. QED
    BY <2>1, <2>3, RenderedTyped, QuietTyped
<1>3. ASSUME NEW o \in Mine, DetailAnswers(o) PROVE TypeInv'
  <2>1. o \in asks /\ full' = Fetched(o) /\ asks' = asks \ {o}
        /\ UNCHANGED <<rows, signed, drawerVars, listVars, picked, stale, cancel, trouble>>
    BY <1>3 DEF DetailAnswers
  <2>2. full # Nothing /\ Fetched(o) \in Copy /\ Fetched(o) # Nothing
    BY <2>1, FetchedIs, CopyIs DEF SheetTyped
  <2>3. SheetTyped'
    BY <2>1, <2>2 DEF SheetTyped, drawerVars
  <2>4. QED
    BY <2>1, <2>3, QuietTyped
<1>4. ASSUME NEW o \in Mine, DetailFails(o) PROVE TypeInv'
  <2>1. o \in asks /\ Fails /\ asks' = asks \ {o} /\ stale' = (stale \/ full.id # picked.id)
        /\ UNCHANGED <<rows, signed, drawerVars, listVars, picked, full, cancel>>
    BY <1>4 DEF DetailFails
  <2>2. SheetTyped'
    BY <2>1 DEF SheetTyped, drawerVars
  <2>3. QED
    BY <2>1, <2>2, FailsTyped, QuietTyped
<1>5. QED
  BY <1>1, <1>2, <1>3, <1>4

\* What the sheet shows and the list holds is another version of the same order.
LEMMA HopeIs ==
    ASSUME NEW c \in Copy, NEW h, h = [c EXCEPT !.ver = Hoped]
    PROVE  h \in Copy /\ h.id = c.id /\ h.ver = Hoped /\ h.items = c.items
BY MyOrdersAssumption DEF Copy, Hoped

LEMMA CancelTypes ==
    ASSUME TypeInv, Cancel \/ ServeCancel \/ WriteCancel \/ Cancelled \/ CancelFails
    PROVE  TypeInv'
<1> USE DEF TypeInv
<1>1. ASSUME Cancel PROVE TypeInv'
  <2>1. PICK hope : hope = [full EXCEPT !.ver = Hoped]
    OBVIOUS
  <2>2. full # Nothing /\ full.ver # Hoped /\ full' = hope /\ picked' = hope /\ list' = Listed(hope)
        /\ cancel' = [st |-> "sent", prev |-> full, here |-> TRUE]
        /\ stale' = (stale \/ full.id # picked.id)
        /\ UNCHANGED <<drawer, initial>> /\ Rendered
        /\ UNCHANGED <<rows, signed, pending, dropped, listing, opening, asks, trouble>>
    BY <1>1, <2>1 DEF Cancel
  <2>3. full \in Copy /\ hope \in Copy /\ hope # Nothing
    BY <2>1, <2>2, HopeIs, CopyIs DEF SheetTyped
  <2>4. SheetTyped'
    BY <2>2, <2>3 DEF SheetTyped
  <2>5. ListTyped'
    BY <2>2, <2>3, ListedTyped DEF ListTyped
  <2>6. CancelTyped'
    BY <2>2, <2>3 DEF CancelTyped
  <2>7. QED
    BY <2>2, <2>4, <2>5, <2>6, RenderedTyped, QuietTyped
<1>2. ASSUME ServeCancel PROVE TypeInv'
  <2>1. cancel.st = "sent" /\ UNCHANGED <<rows, signed, drawerVars, listVars, sheetVars, trouble>>
    BY <1>2 DEF ServeCancel
  <2>2. CancelTyped'
    BY <1>2, <2>1 DEF CancelTyped, ServeCancel
  <2>3. QED
    BY <2>1, <2>2, QuietTyped DEF drawerVars
<1>5. ASSUME WriteCancel PROVE TypeInv'
  <2>1. cancel.st = "checked" /\ UNCHANGED <<signed, drawerVars, listVars, sheetVars, trouble>>
    BY <1>5 DEF WriteCancel
  <2>2. PICK o : o = cancel.prev.id
    OBVIOUS
  <2>3. o \in Mine
    BY <2>1, <2>2, CopyIs DEF CancelTyped
  <2>4. Moves(o, "CANCELLED") /\ cancel' = [cancel EXCEPT !.st = "done"]
    BY <1>5, <2>2 DEF WriteCancel
  <2>5. RowsTyped'
    BY <2>3, <2>4, MovesIs, CancelledStays
  <2>6. CancelTyped'
    BY <2>1, <2>4 DEF CancelTyped
  <2>7. QED
    BY <2>1, <2>5, <2>6, QuietTyped DEF drawerVars
<1>3. ASSUME Cancelled PROVE TypeInv'
  <2>1. cancel' = NoCancel /\ UNCHANGED <<rows, signed, drawerVars, listVars, sheetVars, trouble>>
    BY <1>3 DEF Cancelled
  <2>2. CancelTyped'
    BY <2>1 DEF CancelTyped, NoCancel
  <2>3. QED
    BY <2>1, <2>2, QuietTyped DEF drawerVars
<1>4. ASSUME CancelFails PROVE TypeInv'
  <2>1. PICK was : was = cancel.prev
    OBVIOUS
  <2>2. cancel.st # "idle" /\ trouble' \in 0 .. MaxTrouble
    BY <1>4, FailsTyped DEF CancelFails
  <2>3. was \in Copy /\ was # Nothing
    BY <2>1, <2>2, CopyIs DEF CancelTyped
  <2>4. \/ full # Nothing /\ full' = was /\ picked' = was /\ UNCHANGED asks
           /\ stale' = (stale \/ ~(asks \subseteq {was.id}))
        \/ full # Nothing /\ picked' = was /\ stale' = TRUE /\ UNCHANGED <<full, asks>>
        \/ Select(was)
    BY <1>4, <2>1 DEF CancelFails
  <2>5. list' = Listed(was) /\ cancel' = NoCancel /\ UNCHANGED <<drawer, initial>> /\ Rendered
        /\ UNCHANGED <<rows, signed, pending, dropped, listing, opening>>
    BY <1>4, <2>1 DEF CancelFails, RollBack
  <2>6. SheetTyped'
    <3>1. CASE Select(was)
      BY <2>3, <2>5, <3>1, SelectTyped DEF DrawerTyped
    <3>2. CASE ~Select(was)
      <4>1. full # Nothing /\ full \in Copy /\ drawer
        BY <2>4, <3>2 DEF SheetTyped
      <4>2. picked' = was /\ full' \in Copy /\ asks' = asks /\ stale' \in BOOLEAN /\ drawer' = drawer
        BY <2>3, <2>4, <2>5, <3>2, <4>1 DEF SheetTyped
      <4>3. full' # Nothing
        BY <4>2, CopyIs
      <4>4. QED
        BY <2>3, <4>1, <4>2, <4>3 DEF SheetTyped
    <3>3. QED
      BY <3>1, <3>2
  <2>7. ListTyped'
    BY <2>3, <2>5, ListedTyped DEF ListTyped
  <2>8. CancelTyped'
    BY <2>5 DEF CancelTyped, NoCancel
  <2>9. QED
    BY <2>2, <2>5, <2>6, <2>7, <2>8, RenderedTyped, QuietTyped
<1>6. QED
  BY <1>1, <1>2, <1>3, <1>4, <1>5

LEMMA TypeStep == ASSUME TypeInv, [MyOrdersNext]_orderVars PROVE TypeInv'
<1>1. ASSUME NEW o \in Mine, NEW s \in OthersWrite, OthersMove(o, s) PROVE TypeInv'
  <2>1. Moves(o, s) /\ UNCHANGED <<signed, drawerVars, listVars, sheetVars, cancel, trouble>>
        /\ s \in Statuses
    BY <1>1, MyOrdersAssumption DEF OthersMove
  <2>2. QED
    BY <2>1, MovesIs, QuietTyped DEF TypeInv, drawerVars
<1>2. CASE UNCHANGED orderVars
  BY <1>2, QuietTyped DEF TypeInv, orderVars, drawerVars
<1>3. QED
  BY <1>1, <1>2, OpeningTypes, AnsweringTypes, SheetTypes, CancelTypes DEF MyOrdersNext

-----------------------------------------------------------------------------
(* Every copy on the screen is of a version its order has had, or the status
   that is hoped for; the list holds each order under its own name; and what is
   to be cancelled could be when its button was pressed. *)

Known(c) == c.id \in Mine /\ c.ver <= Len(rows[c.id])

KnownInv ==
    /\ \A o \in Mine : list[o] # Nothing => list[o].id = o /\ Known(list[o])
    /\ picked # Nothing => Known(picked)
    /\ full # Nothing => Known(full)
    /\ cancel.st # "idle" => Known(cancel.prev)
    /\ cancel.st = "sent" => CanCancel(rows[cancel.prev.id][cancel.prev.ver])

LEMMA FetchedKnown == ASSUME RowsTyped, NEW o \in Mine PROVE Known(Fetched(o))
<1>1. Fetched(o).id = o /\ Fetched(o).ver = Len(rows[o]) /\ Len(rows[o]) \in 1 .. MaxRows
  BY FetchedIs DEF RowsTyped
<1>2. QED
  BY <1>1 DEF Known

LEMMA HopeKnown ==
    ASSUME RowsTyped, NEW c \in Copy, c.ver = Hoped
    PROVE  Known(c)
<1>1. c.id \in Mine /\ Len(rows[c.id]) \in 1 .. MaxRows
  BY CopyIs DEF RowsTyped
<1>2. 0 <= Len(rows[c.id])
  BY <1>1
<1>3. QED
  BY <1>1, <1>2 DEF Known, Hoped

\* No order changes, and every copy is one of before or a known one.
LEMMA KnownKeeps ==
    ASSUME KnownInv, rows' = rows,
           \A o \in Mine : \/ list'[o] = Nothing
                           \/ list'[o] = list[o]
                           \/ list'[o].id = o /\ Known(list'[o]),
           picked' \in {Nothing, picked, full} \/ Known(picked'),
           full' \in {Nothing, picked, full} \/ Known(full'),
           \/ cancel'.st = "idle"
           \/ cancel'.st = cancel.st /\ cancel'.prev = cancel.prev
           \/ /\ cancel'.st \in {"checked", "refused"} /\ cancel'.prev = cancel.prev
              /\ cancel.st = "sent"
           \/ /\ cancel'.prev = full /\ full # Nothing
              /\ CanCancel(rows[full.id][full.ver])
    PROVE  KnownInv'
<1>1. ASSUME NEW o \in Mine, list'[o] # Nothing PROVE list'[o].id = o /\ Known(list[o])'
  BY <1>1 DEF KnownInv, Known
<1>2. picked' # Nothing => Known(picked)'
  BY DEF KnownInv, Known
<1>3. full' # Nothing => Known(full)'
  BY DEF KnownInv, Known
<1>4. cancel'.st # "idle" => Known(cancel.prev)'
  BY DEF KnownInv, Known
<1>5. cancel'.st = "sent" => CanCancel(rows[cancel.prev.id][cancel.prev.ver])'
  BY DEF KnownInv, CanCancel
<1>6. QED
  BY <1>1, <1>2, <1>3, <1>4, <1>5 DEF KnownInv

\* An order moves on: every version it had it still has.
LEMMA MovesKnown ==
    ASSUME TypeInv, KnownInv, NEW o \in Mine, NEW s \in Statuses, Moves(o, s),
           UNCHANGED <<list, picked, full>>,
           cancel'.prev = cancel.prev,
           cancel'.st = cancel.st \/ (cancel.st # "idle" /\ cancel'.st = "done")
    PROVE  KnownInv'
<1>1. /\ \A p \in Mine : Len(rows[p]) <= Len(rows'[p])
      /\ \A p \in Mine : \A i \in 1 .. Len(rows[p]) : rows'[p][i] = rows[p][i]
      /\ \A p \in Mine : Len(rows[p]) \in 1 .. MaxRows /\ Len(rows'[p]) \in 1 .. MaxRows
  BY MovesIs DEF TypeInv, RowsTyped
<1>2. ASSUME NEW c \in Copy, Known(c) PROVE Known(c)'
  <2>1. c.id \in Mine /\ c.ver \in Nat /\ c.ver <= Len(rows[c.id])
    BY <1>2, CopyIs, MyOrdersAssumption DEF Known
  <2>2. Len(rows[c.id]) <= Len(rows'[c.id]) /\ Len(rows[c.id]) \in Nat /\ Len(rows'[c.id]) \in Nat
    BY <1>1, <2>1
  <2>3. QED
    BY <2>1, <2>2 DEF Known
<1>3. ASSUME NEW p \in Mine, list'[p] # Nothing PROVE list'[p].id = p /\ Known(list[p])'
  <2>1. list[p] \in Copy /\ list[p].id = p /\ Known(list[p]) /\ list' = list
    BY <1>3 DEF KnownInv, TypeInv, ListTyped, Listings
  <2>2. PICK c \in Copy : c = list[p]
    BY <2>1
  <2>3. Known(c)'
    BY <1>2, <2>1, <2>2
  <2>4. QED
    BY <2>1, <2>2, <2>3 DEF Known
<1>4. ASSUME picked' # Nothing PROVE Known(picked)'
  <2>1. picked \in Copy /\ Known(picked) /\ picked' = picked
    BY <1>4 DEF KnownInv, TypeInv, SheetTyped
  <2>2. PICK c \in Copy : c = picked
    BY <2>1
  <2>3. Known(c)'
    BY <1>2, <2>1, <2>2
  <2>4. QED
    BY <2>1, <2>2, <2>3 DEF Known
<1>5. ASSUME full' # Nothing PROVE Known(full)'
  <2>1. full \in Copy /\ Known(full) /\ full' = full
    BY <1>5 DEF KnownInv, TypeInv, SheetTyped
  <2>2. PICK c \in Copy : c = full
    BY <2>1
  <2>3. Known(c)'
    BY <1>2, <2>1, <2>2
  <2>4. QED
    BY <2>1, <2>2, <2>3 DEF Known
<1>6. ASSUME cancel'.st # "idle"
      PROVE  Known(cancel.prev)' /\ (cancel'.st = "sent" => CanCancel(rows[cancel.prev.id][cancel.prev.ver])')
  <2>1. cancel.st # "idle" /\ cancel'.prev = cancel.prev
    BY <1>6
  <2>2. cancel.prev \in Copy /\ Known(cancel.prev) /\ cancel.prev.ver # Hoped
    BY <2>1 DEF KnownInv, TypeInv, CancelTyped
  <2>3. PICK c \in Copy : c = cancel.prev
    BY <2>2
  <2>4. Known(c)'
    BY <1>2, <2>2, <2>3
  <2>5. c.id \in Mine /\ c.ver \in 1 .. Len(rows[c.id])
    <3>1. c.id \in Mine /\ c.ver \in 0 .. MaxRows /\ c.ver # 0 /\ c.ver <= Len(rows[c.id])
      BY <2>2, <2>3, CopyIs DEF Hoped, Known
    <3>2. Len(rows[c.id]) \in 1 .. MaxRows
      BY <1>1, <3>1
    <3>3. QED
      BY <3>1, <3>2
  <2>6. rows'[c.id][c.ver] = rows[c.id][c.ver]
    BY <1>1, <2>5
  <2>7. cancel'.st = "sent" => cancel.st = "sent"
    BY <2>1
  <2>8. cancel'.st = "sent" => CanCancel(rows[c.id][c.ver])
    BY <2>3, <2>7 DEF KnownInv
  <2>9. QED
    BY <2>1, <2>3, <2>4, <2>6, <2>8 DEF Known, CanCancel
<1>7. QED
  BY <1>3, <1>4, <1>5, <1>6 DEF KnownInv

LEMMA SelectShows ==
    ASSUME NEW c, Select(c) PROVE picked' = c /\ full' \in {full, c, Nothing}
BY DEF Select

LEMMA KnownStep ==
    ASSUME TypeInv, KnownInv, [MyOrdersNext]_orderVars
    PROVE  KnownInv'
<1>1. ASSUME NEW who \in {"in", "out"}, SessionRestored(who) PROVE KnownInv'
  BY <1>1, KnownKeeps DEF SessionRestored, listVars, sheetVars
<1>2. ASSUME NEW o \in Pushed, PushClicked(o) PROVE KnownInv'
  BY <1>2, KnownKeeps DEF PushClicked, listVars, sheetVars
<1>3. ASSUME OpenPending \/ OpenDrawer PROVE KnownInv'
  <2>1. UNCHANGED <<rows, list, picked, cancel>> /\ full' \in {full, picked}
    BY <1>3 DEF OpenPending, OpenDrawer, ShowDrawer
  <2>2. QED
    BY <2>1, KnownKeeps
<1>4. ASSUME CloseDrawer PROVE KnownInv'
  BY <1>4, KnownKeeps DEF CloseDrawer, listVars, sheetVars
<1>5. ASSUME SelectInitial PROVE KnownInv'
  <2>1. dirty /\ UNCHANGED <<rows, list, cancel>>
    BY <1>5 DEF SelectInitial
  <2>2. initial \in Mine
    BY <2>1 DEF TypeInv, DrawerTyped
  <2>3. \/ list[initial] # Nothing /\ picked' = list[initial] /\ full' \in {full, list[initial], Nothing}
        \/ UNCHANGED <<picked, full>>
    BY <1>5, SelectShows DEF SelectInitial, sheetVars
  <2>4. list[initial] # Nothing => Known(list[initial])
    BY <2>2 DEF KnownInv
  <2>5. picked' \in {Nothing, picked, full} \/ Known(picked')
    BY <2>3, <2>4
  <2>6. full' \in {Nothing, picked, full} \/ Known(full')
    BY <2>3, <2>4
  <2>7. QED
    BY <2>1, <2>5, <2>6, KnownKeeps
<1>6. ASSUME ListAnswers PROVE KnownInv'
  <2>1. UNCHANGED <<rows, picked, full, cancel>>
    BY <1>6 DEF ListAnswers, sheetVars
  <2>2. PICK S \in Pages :
          list' = [o \in Mine |-> IF o \in S THEN [Fetched(o) EXCEPT !.items = FALSE] ELSE Nothing]
    BY <1>6 DEF ListAnswers
  <2>3. ASSUME NEW o \in Mine, list'[o] # Nothing PROVE list'[o].id = o /\ Known(list'[o])
    <3>1. list'[o] = [Fetched(o) EXCEPT !.items = FALSE]
      BY <2>2, <2>3
    <3>2. list'[o].id = o /\ list'[o].ver = Len(rows[o])
      BY <3>1, ListedAnswerIs DEF TypeInv
    <3>3. Len(rows[o]) \in 1 .. MaxRows
      BY DEF TypeInv, RowsTyped
    <3>4. QED
      BY <3>2, <3>3 DEF Known
  <2>4. QED
    BY <2>1, <2>3, KnownKeeps
<1>7. ASSUME CloseOrder PROVE KnownInv'
  <2>1. picked' = Nothing /\ full' = Nothing /\ cancel' = [cancel EXCEPT !.here = FALSE]
        /\ UNCHANGED <<rows, list>>
    BY <1>7 DEF CloseOrder, listVars
  <2>2. cancel'.st = cancel.st /\ cancel'.prev = cancel.prev
    BY <2>1 DEF TypeInv, CancelTyped
  <2>3. QED
    BY <2>1, <2>2, KnownKeeps
<1>8. ASSUME Cancel PROVE KnownInv'
  <2>1. PICK hope : hope = [full EXCEPT !.ver = Hoped]
    OBVIOUS
  <2>2. full # Nothing /\ full' = hope /\ picked' = hope /\ list' = Listed(hope)
        /\ cancel' = [st |-> "sent", prev |-> full, here |-> TRUE] /\ rows' = rows
        /\ CanCancel(rows[full.id][full.ver])
    BY <1>8, <2>1 DEF Cancel
  <2>3. full \in Copy
    BY <2>2 DEF TypeInv, SheetTyped
  <2>4. hope \in Copy /\ hope.ver = Hoped
    BY <2>1, <2>3, HopeIs
  <2>5. Known(hope)
    BY <2>4, HopeKnown DEF TypeInv
  <2>6. \A o \in Mine : \/ list'[o] = Nothing
                        \/ list'[o] = list[o]
                        \/ list'[o].id = o /\ Known(list'[o])
    BY <2>2, <2>4, <2>5, ListedIs DEF TypeInv
  <2>7. QED
    BY <2>2, <2>5, <2>6, KnownKeeps
<1>9. ASSUME ServeCancel \/ WriteCancel PROVE KnownInv'
  <2>1. cancel.st \in {"sent", "checked"} /\ UNCHANGED <<list, picked, full>>
    BY <1>9 DEF ServeCancel, WriteCancel, listVars, sheetVars
  <2>2. PICK o : o = cancel.prev.id
    OBVIOUS
  <2>3. o \in Mine
    BY <2>1, <2>2, CopyIs DEF TypeInv, CancelTyped
  <2>4. CASE WriteCancel
    <3>1. Moves(o, "CANCELLED") /\ cancel'.prev = cancel.prev /\ cancel'.st = "done"
      BY <2>2, <2>4 DEF WriteCancel, TypeInv, CancelTyped
    <3>2. QED
      BY <2>1, <2>3, <3>1, MovesKnown, CancelledStays
  <2>5. CASE ServeCancel
    <3>1. /\ cancel.st = "sent" /\ cancel'.prev = cancel.prev /\ rows' = rows
          /\ cancel'.st \in {"checked", "refused"}
      BY <2>5 DEF ServeCancel, TypeInv, CancelTyped
    <3>2. QED
      BY <2>1, <3>1, KnownKeeps
  <2>6. QED
    BY <1>9, <2>4, <2>5
<1>10. ASSUME Cancelled PROVE KnownInv'
  <2>1. UNCHANGED <<rows, list, picked, full>> /\ cancel'.st = "idle"
    BY <1>10 DEF Cancelled, NoCancel, listVars, sheetVars
  <2>2. QED
    BY <2>1, KnownKeeps
<1>11. ASSUME CancelFails PROVE KnownInv'
  <2>1. PICK was : was = cancel.prev
    OBVIOUS
  <2>2. cancel.st # "idle"
    BY <1>11 DEF CancelFails
  <2>3. was \in Copy /\ Known(was)
    BY <2>1, <2>2 DEF TypeInv, CancelTyped, KnownInv
  <2>4. list' = Listed(was) /\ cancel'.st = "idle" /\ rows' = rows
    BY <1>11, <2>1 DEF CancelFails, NoCancel, RollBack
  <2>5. picked' = was /\ full' \in {full, was, Nothing}
    BY <1>11, <2>1, SelectShows DEF CancelFails
  <2>6. \A o \in Mine : \/ list'[o] = Nothing
                        \/ list'[o] = list[o]
                        \/ list'[o].id = o /\ Known(list'[o])
    BY <2>3, <2>4, ListedIs DEF TypeInv
  <2>7. QED
    BY <2>3, <2>4, <2>5, <2>6, KnownKeeps
<1>12. ASSUME NEW o \in Mine, OpeningAnswers(o) PROVE KnownInv'
  <2>1. UNCHANGED <<rows, list, cancel>> /\ picked' = Fetched(o) /\ full' \in {full, Fetched(o), Nothing}
    BY <1>12, SelectShows DEF OpeningAnswers
  <2>2. Known(Fetched(o))
    BY FetchedKnown DEF TypeInv
  <2>3. QED
    BY <2>1, <2>2, KnownKeeps
<1>13. ASSUME NEW o \in Mine, OpeningFails(o) \/ DetailFails(o) PROVE KnownInv'
  BY <1>13, KnownKeeps DEF OpeningFails, DetailFails, listVars, sheetVars
<1>14. ASSUME NEW o \in Mine, PickOrder(o) PROVE KnownInv'
  <2>1. UNCHANGED <<rows, list, cancel>> /\ list[o] # Nothing
        /\ picked' = list[o] /\ full' \in {full, list[o], Nothing}
    BY <1>14, SelectShows DEF PickOrder, listVars
  <2>2. Known(list[o])
    BY <2>1 DEF KnownInv
  <2>3. QED
    BY <2>1, <2>2, KnownKeeps
<1>15. ASSUME NEW o \in Mine, DetailAnswers(o) PROVE KnownInv'
  <2>1. UNCHANGED <<rows, list, picked, cancel>> /\ full' = Fetched(o)
    BY <1>15 DEF DetailAnswers, listVars
  <2>2. Known(Fetched(o))
    BY FetchedKnown DEF TypeInv
  <2>3. QED
    BY <2>1, <2>2, KnownKeeps
<1>16. ASSUME NEW o \in Mine, NEW s \in OthersWrite, OthersMove(o, s) PROVE KnownInv'
  <2>1. Moves(o, s) /\ UNCHANGED <<list, picked, full>> /\ cancel' = cancel /\ s \in Statuses
    BY <1>16, MyOrdersAssumption DEF OthersMove, listVars, sheetVars
  <2>2. QED
    BY <2>1, MovesKnown
<1>17. CASE UNCHANGED orderVars
  BY <1>17, KnownKeeps DEF orderVars, listVars, sheetVars
<1>18. QED
  BY <1>1, <1>2, <1>3, <1>4, <1>5, <1>6, <1>7, <1>8, <1>9, <1>10, <1>11, <1>12, <1>13, <1>14,
     <1>15, <1>16, <1>17 DEF MyOrdersNext

-----------------------------------------------------------------------------
(* A copy with the hoped-for status is of an order that has been cancelled, or
   whose cancellation is under way. *)

Hope(c) ==
    c.ver = Hoped =>
        WasCancelled(c.id) \/ (cancel.st # "idle" /\ cancel.prev.id = c.id)

HopeInv ==
    /\ \A o \in Mine : list[o] # Nothing => Hope(list[o])
    /\ full # Nothing /\ ~stale => Hope(full)
    /\ ~drawer /\ picked # Nothing => picked.ver # Hoped
    /\ cancel.st = "done" => WasCancelled(cancel.prev.id)

\* What has been cancelled has been, and a cancellation that is under way stays under
\* way or has had its effect.
Lasting ==
    \A p \in Mine :
        /\ WasCancelled(p) => WasCancelled(p)'
        /\ cancel.st # "idle" /\ cancel.prev.id = p =>
             \/ cancel'.st # "idle" /\ cancel'.prev.id = p
             \/ WasCancelled(p)'

LEMMA HopeLasts ==
    ASSUME NEW c, c.id \in Mine, Hope(c), Lasting
    PROVE  Hope(c)'
BY DEF Hope, Lasting, WasCancelled, Hoped

LEMMA HopeKeeps ==
    ASSUME KnownInv, HopeInv,
           \A o \in Mine : \/ list'[o] = Nothing
                           \/ list'[o] = list[o] /\ Lasting
                           \/ list'[o].ver # Hoped
                           \/ Hope(list[o])',
           \/ full' = Nothing \/ stale'
           \/ full' = full /\ (stale => stale') /\ Lasting
           \/ full'.ver # Hoped
           \/ Hope(full)',
           \/ drawer' \/ picked' = Nothing
           \/ ~drawer /\ picked' = picked
           \/ picked'.ver # Hoped,
           cancel'.st = "done" => WasCancelled(cancel.prev.id)'
    PROVE  HopeInv'
<1>1. ASSUME NEW o \in Mine, list'[o] # Nothing PROVE Hope(list[o])'
  <2>1. CASE list'[o] = list[o] /\ Lasting
    <3>1. PICK c : c = list[o]
      OBVIOUS
    <3>2. c.id \in Mine /\ Hope(c)
      BY <1>1, <2>1, <3>1 DEF KnownInv, HopeInv
    <3>3. Hope(c)'
      BY <2>1, <3>2, HopeLasts
    <3>4. list'[o] = c
      BY <2>1, <3>1
    <3>5. QED
      BY <3>3, <3>4 DEF Hope, WasCancelled
  <2>2. CASE list'[o].ver # Hoped
    BY <2>2 DEF Hope, Hoped
  <2>3. QED
    BY <1>1, <2>1, <2>2
<1>2. ASSUME full' # Nothing, ~stale' PROVE Hope(full)'
  <2>1. CASE full' = full /\ (stale => stale') /\ Lasting
    <3>1. PICK c : c = full
      OBVIOUS
    <3>2. c.id \in Mine /\ Hope(c)
      BY <1>2, <2>1, <3>1 DEF KnownInv, HopeInv, Known
    <3>3. Hope(c)'
      BY <2>1, <3>2, HopeLasts
    <3>4. full' = c
      BY <2>1, <3>1
    <3>5. QED
      BY <3>3, <3>4 DEF Hope, WasCancelled
  <2>2. CASE full'.ver # Hoped
    BY <2>2 DEF Hope, Hoped
  <2>3. QED
    BY <1>2, <2>1, <2>2
<1>3. ~drawer' /\ picked' # Nothing => picked'.ver # Hoped
  BY DEF HopeInv
<1>4. QED
  BY <1>1, <1>2, <1>3 DEF HopeInv, Hoped

LEMMA QuietLasts == rows' = rows /\ cancel'.st = cancel.st /\ cancel'.prev = cancel.prev => Lasting
BY DEF Lasting, WasCancelled

LEMMA MovesLasting ==
    ASSUME RowsTyped, NEW o \in Mine, NEW s \in Statuses, Moves(o, s)
    PROVE  /\ \A p \in Mine : WasCancelled(p) => WasCancelled(p)'
           /\ s = "CANCELLED" => WasCancelled(o)'
<1>1. \A p \in Mine : /\ DOMAIN rows[p] = 1 .. Len(rows[p]) /\ DOMAIN rows'[p] = 1 .. Len(rows'[p])
                      /\ Len(rows[p]) \in Nat /\ Len(rows'[p]) \in Nat /\ Len(rows'[p]) # 0
                      /\ Len(rows[p]) <= Len(rows'[p])
                      /\ \A i \in 1 .. Len(rows[p]) : rows'[p][i] = rows[p][i]
  BY MovesIs, MyOrdersAssumption DEF RowsTyped
<1>2. rows'[o][Len(rows'[o])] = s
  BY MovesIs DEF Current
<1>3. QED
  BY <1>1, <1>2 DEF WasCancelled

\* Selecting shows no hope but what the copy selected has.
LEMMA SelectHopes ==
    ASSUME NEW c, Select(c), stale \in BOOLEAN
    PROVE  /\ picked' = c
           /\ \/ full' = Nothing
              \/ full' = c
              \/ full' = full /\ (stale => stale')
BY DEF Select

\* Steps that leave the orders and the cancellation alone.
LEMMA QuietHope ==
    ASSUME KnownInv, HopeInv, rows' = rows, cancel'.st = cancel.st, cancel'.prev = cancel.prev,
           \A o \in Mine : list'[o] \in {Nothing, list[o]} \/ list'[o].ver # Hoped,
           \/ full' = Nothing \/ stale'
           \/ full' = full /\ (stale => stale')
           \/ full'.ver # Hoped
           \/ Hope(full)',
           \/ drawer' \/ picked' = Nothing
           \/ ~drawer /\ picked' = picked
           \/ picked'.ver # Hoped
    PROVE  HopeInv'
<1>1. Lasting
  BY QuietLasts
<1>2. cancel'.st = "done" => WasCancelled(cancel.prev.id)'
  BY DEF HopeInv, WasCancelled
<1>3. QED
  BY <1>1, <1>2, HopeKeeps

LEMMA HopeOpening ==
    ASSUME TypeInv, KnownInv, HopeInv,
           \/ \E who \in {"in", "out"} : SessionRestored(who)
           \/ \E o \in Pushed : PushClicked(o)
           \/ OpenPending \/ OpenDrawer \/ CloseDrawer \/ SelectInitial \/ ListAnswers
           \/ \E o \in Mine : OpeningAnswers(o) \/ OpeningFails(o)
    PROVE  HopeInv'
<1> stale \in BOOLEAN /\ drawer \in BOOLEAN
  BY DEF TypeInv, SheetTyped, DrawerTyped
<1>1. ASSUME NEW who \in {"in", "out"}, SessionRestored(who) PROVE HopeInv'
  BY <1>1, QuietHope DEF SessionRestored, drawerVars, listVars, sheetVars
<1>2. ASSUME NEW o \in Pushed, PushClicked(o) PROVE HopeInv'
  BY <1>2, QuietHope DEF PushClicked, listVars, sheetVars
<1>3. ASSUME OpenPending \/ OpenDrawer PROVE HopeInv'
  <2>1. UNCHANGED <<rows, list, picked, stale, cancel>>
    BY <1>3 DEF OpenPending, OpenDrawer
  <2>2. \/ drawer' /\ full' = (IF drawer THEN full ELSE picked)
        \/ UNCHANGED <<drawer, full>>
    BY <1>3 DEF OpenPending, OpenDrawer, ShowDrawer
  <2>3. \/ full' = Nothing
        \/ full' = full
        \/ full'.ver # Hoped
    BY <2>2 DEF HopeInv
  <2>4. drawer' \/ (~drawer /\ picked' = picked)
    BY <2>1, <2>2
  <2>5. QED
    BY <2>1, <2>3, <2>4, QuietHope
<1>4. ASSUME CloseDrawer PROVE HopeInv'
  <2>1. picked' = Nothing /\ UNCHANGED <<rows, list, full, stale, cancel>>
    BY <1>4 DEF CloseDrawer, listVars, sheetVars
  <2>2. QED
    BY <2>1, QuietHope
<1>5. ASSUME SelectInitial PROVE HopeInv'
  <2>1. dirty /\ UNCHANGED <<rows, list, cancel, drawer>>
    BY <1>5 DEF SelectInitial
  <2>2. initial \in Mine /\ drawer'
    BY <2>1 DEF TypeInv, DrawerTyped
  <2>3. CASE list[initial] # Nothing
    <3>1. PICK c : c = list[initial]
      OBVIOUS
    <3>2. Hope(c) /\ c.id \in Mine
      BY <2>2, <2>3, <3>1 DEF HopeInv, KnownInv
    <3>3. \/ full' = Nothing
          \/ full' = c
          \/ full' = full /\ (stale => stale')
      BY <1>5, <2>3, <3>1, SelectHopes DEF SelectInitial
    <3>4. Hope(c)'
      BY <2>1, <3>2, HopeLasts, QuietLasts
    <3>5. full' = c => Hope(full)'
      BY <3>4 DEF Hope, WasCancelled
    <3>6. QED
      BY <2>1, <2>2, <3>3, <3>5, QuietHope
  <2>4. CASE list[initial] = Nothing
    <3>1. UNCHANGED <<full, stale>>
      BY <1>5, <2>4 DEF SelectInitial, sheetVars
    <3>2. QED
      BY <2>1, <2>2, <3>1, QuietHope
  <2>5. QED
    BY <2>3, <2>4
<1>6. ASSUME ListAnswers PROVE HopeInv'
  <2>1. UNCHANGED <<rows, drawer, picked, full, stale, cancel>>
    BY <1>6 DEF ListAnswers, sheetVars
  <2>2. PICK S \in Pages :
          list' = [o \in Mine |-> IF o \in S THEN [Fetched(o) EXCEPT !.items = FALSE] ELSE Nothing]
    BY <1>6 DEF ListAnswers
  <2>3. ASSUME NEW o \in Mine, list'[o] # Nothing PROVE list'[o].ver # Hoped
    <3>1. list'[o] = [Fetched(o) EXCEPT !.items = FALSE]
      BY <2>2, <2>3
    <3>2. QED
      BY <3>1, ListedAnswerIs DEF TypeInv
  <2>4. QED
    BY <2>1, <2>3, QuietHope
<1>7. ASSUME NEW o \in Mine, OpeningAnswers(o) PROVE HopeInv'
  <2>1. PICK c : c = Fetched(o)
    OBVIOUS
  <2>2. UNCHANGED <<rows, drawer, list, cancel>> /\ Select(c)
    BY <1>7, <2>1 DEF OpeningAnswers
  <2>3. c.ver # Hoped
    BY <2>1, FetchedIs DEF TypeInv
  <2>4. picked'.ver # Hoped
    BY <2>2, <2>3, SelectHopes
  <2>5. full' = Nothing \/ full'.ver # Hoped \/ (full' = full /\ (stale => stale'))
    BY <2>2, <2>3, SelectHopes
  <2>6. QED
    BY <2>2, <2>4, <2>5, QuietHope
<1>8. ASSUME NEW o \in Mine, OpeningFails(o) PROVE HopeInv'
  BY <1>8, QuietHope DEF OpeningFails, drawerVars, sheetVars
<1>9. QED
  BY <1>1, <1>2, <1>3, <1>4, <1>5, <1>6, <1>7, <1>8

LEMMA HopeSheet ==
    ASSUME TypeInv, KnownInv, HopeInv,
           CloseOrder \/ \E o \in Mine : PickOrder(o) \/ DetailAnswers(o) \/ DetailFails(o)
    PROVE  HopeInv'
<1> stale \in BOOLEAN /\ drawer \in BOOLEAN
  BY DEF TypeInv, SheetTyped, DrawerTyped
<1>1. ASSUME CloseOrder PROVE HopeInv'
  <2>1. picked' = Nothing /\ full' = Nothing /\ cancel' = [cancel EXCEPT !.here = FALSE]
        /\ UNCHANGED <<rows, list>>
    BY <1>1 DEF CloseOrder, listVars
  <2>2. cancel'.st = cancel.st /\ cancel'.prev = cancel.prev
    BY <2>1 DEF TypeInv, CancelTyped
  <2>3. QED
    BY <2>1, <2>2, QuietHope
<1>2. ASSUME NEW o \in Mine, PickOrder(o) PROVE HopeInv'
  <2>1. PICK c : c = list[o]
    OBVIOUS
  <2>2. UNCHANGED <<rows, list, cancel, drawer>> /\ drawer /\ c # Nothing /\ Select(c)
    BY <1>2, <2>1 DEF PickOrder, listVars
  <2>3. Hope(c) /\ c.id \in Mine
    BY <2>1, <2>2 DEF HopeInv, KnownInv
  <2>4. Hope(c)'
    BY <2>2, <2>3, HopeLasts, QuietLasts
  <2>5. full' = c => Hope(full)'
    BY <2>4 DEF Hope, WasCancelled
  <2>6. full' = Nothing \/ full' = c \/ (full' = full /\ (stale => stale'))
    BY <2>2, SelectHopes
  <2>7. QED
    BY <2>2, <2>5, <2>6, QuietHope
<1>3. ASSUME NEW o \in Mine, DetailAnswers(o) PROVE HopeInv'
  <2>1. UNCHANGED <<rows, drawer, list, picked, cancel>> /\ full' = Fetched(o)
    BY <1>3 DEF DetailAnswers, drawerVars, listVars
  <2>2. full'.ver # Hoped
    BY <2>1, FetchedIs DEF TypeInv
  <2>3. QED
    BY <2>1, <2>2, QuietHope
<1>4. ASSUME NEW o \in Mine, DetailFails(o) PROVE HopeInv'
  <2>1. UNCHANGED <<rows, drawer, list, picked, full, cancel>> /\ (stale => stale')
    BY <1>4 DEF DetailFails, drawerVars, listVars
  <2>2. QED
    BY <2>1, QuietHope
<1>5. QED
  BY <1>1, <1>2, <1>3, <1>4

LEMMA HopeCancel ==
    ASSUME TypeInv, KnownInv, HopeInv, Cancel \/ ServeCancel \/ WriteCancel \/ Cancelled \/ CancelFails
    PROVE  HopeInv'
<1>1. ASSUME Cancel PROVE HopeInv'
  <2>1. PICK hope : hope = [full EXCEPT !.ver = Hoped]
    OBVIOUS
  <2>2. full # Nothing /\ cancel.st = "idle" /\ full' = hope /\ picked' = hope
        /\ list' = Listed(hope) /\ cancel' = [st |-> "sent", prev |-> full, here |-> TRUE]
        /\ rows' = rows /\ drawer' = drawer
    BY <1>1, <2>1 DEF Cancel
  <2>3. full \in Copy /\ drawer
    BY <2>2 DEF TypeInv, SheetTyped
  <2>4. hope \in Copy /\ hope.id = full.id
    BY <2>1, <2>3, HopeIs
  <2>5. Hope(hope)' /\ cancel'.st = "sent"
    BY <2>2, <2>4 DEF Hope
  <2>6. Lasting
    BY <2>2 DEF Lasting, WasCancelled
  <2>7. ASSUME NEW o \in Mine, list'[o] # Nothing, list'[o] # list[o] PROVE Hope(list[o])'
    <3>1. list'[o] = hope
      BY <2>2, <2>4, <2>7, ListedIs DEF TypeInv
    <3>2. QED
      BY <2>5, <3>1 DEF Hope, WasCancelled
  <2>8. Hope(full)'
    BY <2>2, <2>5 DEF Hope, WasCancelled
  <2>9. QED
    BY <2>2, <2>3, <2>5, <2>6, <2>7, <2>8, HopeKeeps
<1>2. ASSUME ServeCancel PROVE HopeInv'
  <2>1. cancel.st = "sent" /\ UNCHANGED <<rows, drawer, list, picked, full, stale>>
    BY <1>2 DEF ServeCancel, drawerVars, listVars, sheetVars
  <2>2. cancel'.prev = cancel.prev /\ cancel'.st \in {"checked", "refused"}
    BY <1>2 DEF ServeCancel, TypeInv, CancelTyped
  <2>3. Lasting
    BY <2>1, <2>2 DEF Lasting, WasCancelled
  <2>4. QED
    BY <2>1, <2>2, <2>3, HopeKeeps
<1>5. ASSUME WriteCancel PROVE HopeInv'
  <2>1. cancel.st = "checked" /\ UNCHANGED <<drawer, list, picked, full, stale>>
    BY <1>5 DEF WriteCancel, drawerVars, listVars, sheetVars
  <2>2. PICK o : o = cancel.prev.id
    OBVIOUS
  <2>3. o \in Mine
    BY <2>1, <2>2, CopyIs DEF TypeInv, CancelTyped
  <2>4. Moves(o, "CANCELLED") /\ cancel'.prev = cancel.prev /\ cancel'.st = "done"
    BY <1>5, <2>2 DEF WriteCancel, TypeInv, CancelTyped
  <2>5. WasCancelled(o)' /\ \A p \in Mine : WasCancelled(p) => WasCancelled(p)'
    BY <2>3, <2>4, MovesLasting, CancelledStays DEF TypeInv
  <2>6. Lasting
    BY <2>1, <2>4, <2>5 DEF Lasting
  <2>7. cancel'.prev.id = o
    BY <2>2, <2>4
  <2>8. WasCancelled(cancel.prev.id)'
    BY <2>5, <2>7 DEF WasCancelled
  <2>9. QED
    BY <2>1, <2>6, <2>8, HopeKeeps
<1>3. ASSUME Cancelled PROVE HopeInv'
  <2>1. cancel.st = "done" /\ cancel'.st = "idle" /\ UNCHANGED <<rows, drawer, list, picked, full, stale>>
    BY <1>3 DEF Cancelled, NoCancel, drawerVars, listVars, sheetVars
  <2>2. WasCancelled(cancel.prev.id)
    BY <2>1 DEF HopeInv
  <2>3. Lasting
    BY <2>1, <2>2 DEF Lasting, WasCancelled
  <2>4. QED
    BY <2>1, <2>3, HopeKeeps
<1>4. ASSUME CancelFails PROVE HopeInv'
  <2>1. PICK was : was = cancel.prev
    OBVIOUS
  <2>2. cancel.st # "idle"
    BY <1>4 DEF CancelFails
  <2>3. was \in Copy /\ was.ver # Hoped
    BY <2>1, <2>2 DEF TypeInv, CancelTyped
  <2>4. \/ full' = was
        \/ stale'
        \/ (full # Nothing => full.ver # Hoped) /\ Select(was)
    BY <1>4, <2>1 DEF CancelFails
  <2>5. list' = Listed(was) /\ cancel' = NoCancel /\ rows' = rows /\ picked' = was
    BY <1>4, <2>1, SelectHopes DEF CancelFails, RollBack, TypeInv, SheetTyped
  <2>6. \A p \in Mine : WasCancelled(p)' <=> WasCancelled(p)
    BY <2>5 DEF WasCancelled
  <2>7. ASSUME NEW o \in Mine, list'[o] # Nothing, list'[o].ver = Hoped PROVE Hope(list[o])'
    <3>1. o # was.id /\ list'[o] = list[o]
      BY <2>3, <2>5, <2>7, ListedIs DEF TypeInv
    <3>2. list[o].id = o /\ Hope(list[o])
      BY <2>7, <3>1 DEF KnownInv, HopeInv
    <3>3. WasCancelled(o)
      BY <2>1, <2>7, <3>1, <3>2 DEF Hope
    <3>4. QED
      BY <2>5, <3>1, <3>2, <3>3 DEF Hope, WasCancelled
  <2>8. full' = Nothing \/ stale' \/ full'.ver # Hoped
    <3>1. CASE Select(was)
      <4>1. full' = Nothing \/ full' = was \/ full' = full
        BY <3>1, SelectHopes DEF TypeInv, SheetTyped
      <4>2. QED
        BY <2>3, <2>4, <4>1
    <3>2. QED
      BY <2>3, <2>4, <3>1
  <2>9. picked'.ver # Hoped /\ cancel'.st # "done"
    BY <2>3, <2>5 DEF NoCancel
  <2>10. QED
    BY <2>7, <2>8, <2>9, HopeKeeps
<1>6. QED
  BY <1>1, <1>2, <1>3, <1>4, <1>5

LEMMA HopeStep ==
    ASSUME TypeInv, KnownInv, HopeInv, [MyOrdersNext]_orderVars
    PROVE  HopeInv'
<1>1. ASSUME NEW o \in Mine, NEW s \in OthersWrite, OthersMove(o, s) PROVE HopeInv'
  <2>1. Moves(o, s) /\ UNCHANGED <<drawer, list, picked, full, stale, cancel>>
    BY <1>1 DEF OthersMove, drawerVars, listVars, sheetVars
  <2>2. s \in Statuses
    BY MyOrdersAssumption
  <2>3. \A p \in Mine : WasCancelled(p) => WasCancelled(p)'
    BY <2>1, <2>2, MovesLasting DEF TypeInv
  <2>4. Lasting
    BY <2>1, <2>3 DEF Lasting
  <2>5. cancel'.st = "done" => WasCancelled(cancel.prev.id)'
    <3>1. SUFFICES ASSUME cancel.st = "done" PROVE WasCancelled(cancel.prev.id)'
      BY <2>1
    <3>2. PICK p : p = cancel.prev.id
      OBVIOUS
    <3>3. p \in Mine /\ WasCancelled(p)
      BY <3>1, <3>2 DEF HopeInv, KnownInv, Known
    <3>4. WasCancelled(p)' /\ cancel'.prev.id = p
      BY <2>1, <2>3, <3>2, <3>3
    <3>5. QED
      BY <3>4 DEF WasCancelled
  <2>6. QED
    BY <2>1, <2>4, <2>5, HopeKeeps
<1>2. CASE UNCHANGED orderVars
  <2>1. UNCHANGED <<rows, drawer, list, picked, full, stale, cancel>>
    BY <1>2 DEF orderVars, drawerVars, listVars, sheetVars
  <2>2. QED
    BY <2>1, QuietHope
<1>3. QED
  BY <1>1, <1>2, HopeOpening, HopeSheet, HopeCancel DEF MyOrdersNext

-----------------------------------------------------------------------------
(* A sheet that was told everything shows what was picked, or is asking for it
   and for nothing else. *)

SheetInv ==
    full # Nothing /\ ~stale =>
        asks \subseteq {picked.id} /\ (full.id # picked.id => asks = {picked.id})

LEMMA SelectKeepsSheet ==
    ASSUME SheetTyped, SheetInv, NEW c \in Copy, Select(c)
    PROVE  SheetInv'
<1>1. CASE full = Nothing
  <2>1. picked' = c /\ full' \in {c, Nothing} /\ asks' \subseteq {c.id}
    BY <1>1 DEF Select
  <2>2. QED
    BY <2>1 DEF SheetInv
<1>2. CASE full # Nothing
  <2>1. PICK other \in BOOLEAN : other = (c.id # picked.id)
    OBVIOUS
  <2>2. picked' = c /\ full' = full
        /\ asks' = (IF other /\ ~c.items THEN asks \cup {c.id} ELSE asks)
        /\ stale' = (stale \/ (other /\ (c.items \/ asks # {})))
    BY <1>2, <2>1 DEF Select
  <2>3. ASSUME ~stale' PROVE asks' \subseteq {c.id} /\ (full.id # c.id => asks' = {c.id})
    <3>1. ~stale /\ (other => ~c.items /\ asks = {})
      BY <2>2, <2>3 DEF SheetTyped
    <3>2. CASE other
      <4>1. asks' = {c.id}
        BY <2>2, <3>1, <3>2
      <4>2. QED
        BY <4>1
    <3>3. CASE ~other
      <4>1. asks' = asks /\ c.id = picked.id
        BY <2>1, <2>2, <3>3
      <4>2. QED
        BY <1>2, <3>1, <4>1 DEF SheetInv
    <3>4. QED
      BY <3>2, <3>3
  <2>4. QED
    BY <2>2, <2>3 DEF SheetInv
<1>3. QED
  BY <1>1, <1>2

LEMMA SheetStep ==
    ASSUME TypeInv, SheetInv, [MyOrdersNext]_orderVars
    PROVE  SheetInv'
<1> SheetTyped /\ ListTyped /\ RowsTyped
  BY DEF TypeInv
<1>1. ASSUME UNCHANGED sheetVars PROVE SheetInv'
  BY <1>1 DEF SheetInv, sheetVars
<1>2. ASSUME NEW who \in {"in", "out"}, SessionRestored(who) PROVE SheetInv'
  BY <1>1, <1>2 DEF SessionRestored
<1>3. ASSUME NEW o \in Pushed, PushClicked(o) PROVE SheetInv'
  BY <1>1, <1>3 DEF PushClicked
<1>4. ASSUME OpenPending \/ OpenDrawer PROVE SheetInv'
  <2>1. UNCHANGED <<picked, stale>>
    BY <1>4 DEF OpenPending, OpenDrawer
  <2>2. \/ UNCHANGED <<full, asks>>
        \/ /\ full' = (IF drawer THEN full ELSE picked)
           /\ asks' = (IF drawer \/ picked = Nothing \/ picked.items THEN asks ELSE {picked.id})
    BY <1>4 DEF OpenPending, OpenDrawer, ShowDrawer
  <2>3. CASE UNCHANGED <<full, asks>>
    BY <1>1, <2>1, <2>3 DEF sheetVars
  <2>4. CASE /\ full' = (IF drawer THEN full ELSE picked)
             /\ asks' = (IF drawer \/ picked = Nothing \/ picked.items THEN asks ELSE {picked.id})
    <3>1. CASE drawer
      BY <1>1, <2>1, <2>4, <3>1 DEF sheetVars
    <3>2. CASE ~drawer
      <4>1. asks = {} /\ full' = picked
        BY <2>4, <3>2 DEF SheetTyped
      <4>2. asks' \subseteq {picked.id}
        BY <2>4, <4>1
      <4>3. QED
        BY <2>1, <4>1, <4>2 DEF SheetInv
    <3>3. QED
      BY <3>1, <3>2
  <2>5. QED
    BY <2>2, <2>3, <2>4
<1>5. ASSUME CloseDrawer PROVE SheetInv'
  BY <1>1, <1>5 DEF CloseDrawer
<1>6. ASSUME SelectInitial PROVE SheetInv'
  <2>1. initial \in Mine
    BY <1>6 DEF SelectInitial, TypeInv, DrawerTyped
  <2>2. CASE list[initial] # Nothing
    <3>1. Select(list[initial]) /\ list[initial] \in Copy
      BY <1>6, <2>1, <2>2 DEF SelectInitial, ListTyped, Listings
    <3>2. QED
      BY <3>1, SelectKeepsSheet
  <2>3. CASE list[initial] = Nothing
    BY <1>1, <1>6, <2>3 DEF SelectInitial
  <2>4. QED
    BY <2>2, <2>3
<1>7. ASSUME ListAnswers PROVE SheetInv'
  BY <1>1, <1>7 DEF ListAnswers
<1>8. ASSUME CloseOrder PROVE SheetInv'
  BY <1>8 DEF CloseOrder, SheetInv
<1>9. ASSUME Cancel PROVE SheetInv'
  <2>1. PICK hope : hope = [full EXCEPT !.ver = Hoped]
    OBVIOUS
  <2>2. full # Nothing /\ full' = hope /\ picked' = hope /\ asks' = asks
        /\ stale' = (stale \/ full.id # picked.id)
    BY <1>9, <2>1 DEF Cancel
  <2>3. full \in Copy
    BY <2>2 DEF SheetTyped
  <2>4. hope.id = full.id
    BY <2>1, <2>3, HopeIs
  <2>5. ~stale' => asks \subseteq {full.id}
    BY <2>2 DEF SheetInv
  <2>6. QED
    BY <2>2, <2>4, <2>5 DEF SheetInv
<1>10. ASSUME ServeCancel \/ WriteCancel \/ Cancelled PROVE SheetInv'
  BY <1>1, <1>10 DEF ServeCancel, WriteCancel, Cancelled
<1>11. ASSUME CancelFails PROVE SheetInv'
  <2>1. PICK was : was = cancel.prev
    OBVIOUS
  <2>2. was \in Copy
    BY <1>11, <2>1 DEF CancelFails, TypeInv, CancelTyped
  <2>3. \/ /\ full' = was /\ picked' = was /\ asks' = asks
           /\ stale' = (stale \/ ~(asks \subseteq {was.id}))
        \/ stale'
        \/ Select(was)
    BY <1>11, <2>1 DEF CancelFails
  <2>4. CASE full' = was /\ picked' = was /\ asks' = asks
             /\ stale' = (stale \/ ~(asks \subseteq {was.id}))
    BY <2>4 DEF SheetInv
  <2>5. CASE stale'
    BY <2>5 DEF SheetInv
  <2>6. QED
    BY <2>2, <2>3, <2>4, <2>5, SelectKeepsSheet
<1>12. ASSUME NEW o \in Mine, OpeningAnswers(o) PROVE SheetInv'
  <2>1. Select(Fetched(o)) /\ Fetched(o) \in Copy
    BY <1>12, FetchedIs DEF OpeningAnswers
  <2>2. QED
    BY <2>1, SelectKeepsSheet
<1>13. ASSUME NEW o \in Mine, OpeningFails(o) PROVE SheetInv'
  BY <1>1, <1>13 DEF OpeningFails
<1>14. ASSUME NEW o \in Mine, PickOrder(o) PROVE SheetInv'
  <2>1. Select(list[o]) /\ list[o] \in Copy
    BY <1>14 DEF PickOrder, ListTyped, Listings
  <2>2. QED
    BY <2>1, SelectKeepsSheet
<1>15. ASSUME NEW o \in Mine, DetailAnswers(o) PROVE SheetInv'
  <2>1. o \in asks /\ full' = Fetched(o) /\ asks' = asks \ {o} /\ UNCHANGED <<picked, stale>>
    BY <1>15 DEF DetailAnswers
  <2>2. full # Nothing /\ full'.id = o
    BY <2>1, FetchedIs DEF SheetTyped
  <2>3. QED
    BY <2>1, <2>2 DEF SheetInv
<1>16. ASSUME NEW o \in Mine, DetailFails(o) PROVE SheetInv'
  <2>1. asks' = asks \ {o} /\ stale' = (stale \/ full.id # picked.id) /\ UNCHANGED <<picked, full>>
    BY <1>16 DEF DetailFails
  <2>2. QED
    BY <2>1 DEF SheetInv
<1>17. ASSUME NEW o \in Mine, NEW s \in OthersWrite, OthersMove(o, s) PROVE SheetInv'
  BY <1>1, <1>17 DEF OthersMove
<1>18. CASE UNCHANGED orderVars
  BY <1>1, <1>18 DEF orderVars
<1>19. QED
  BY <1>2, <1>3, <1>4, <1>5, <1>6, <1>7, <1>8, <1>9, <1>10, <1>11, <1>12, <1>13, <1>14, <1>15,
     <1>16, <1>17, <1>18 DEF MyOrdersNext

-----------------------------------------------------------------------------

OrdersInv == TypeInv /\ KnownInv /\ HopeInv /\ SheetInv

LEMMA OrdersInvariant == MyOrdersSpec => []OrdersInv
<1>1. ASSUME MyOrdersInit PROVE OrdersInv
  <2>1. TypeInv
    BY <1>1, TypeInitial
  <2>2. list = NoListing /\ picked = Nothing /\ full = Nothing /\ cancel = NoCancel
    BY <1>1 DEF MyOrdersInit
  <2>3. KnownInv
    BY <2>2 DEF KnownInv, NoListing, NoCancel
  <2>4. HopeInv
    BY <2>2 DEF HopeInv, NoListing, NoCancel
  <2>5. SheetInv
    BY <2>2 DEF SheetInv
  <2>6. QED
    BY <2>1, <2>3, <2>4, <2>5 DEF OrdersInv
<1>2. ASSUME OrdersInv, [MyOrdersNext]_orderVars PROVE OrdersInv'
  <2>1. TypeInv'
    BY <1>2, TypeStep DEF OrdersInv
  <2>2. KnownInv'
    BY <1>2, KnownStep DEF OrdersInv
  <2>3. HopeInv'
    BY <1>2, HopeStep DEF OrdersInv
  <2>4. SheetInv'
    BY <1>2, SheetStep DEF OrdersInv
  <2>5. QED
    BY <2>1, <2>2, <2>3, <2>4 DEF OrdersInv
<1>3. QED
  BY <1>1, <1>2, PTL DEF MyOrdersSpec

(* Every variable of the customer's orders keeps its type; a sheet is open
   exactly when the drawer is and an order is selected (ProfileDrawer). *)
THEOREM MyOrdersTyped == MyOrdersSpec => []MyOrdersTypeOK
<1>1. OrdersInv => MyOrdersTypeOK
  BY TypeInvIs DEF OrdersInv
<1>2. QED
  BY <1>1, OrdersInvariant, PTL

(* The button's table of cancellable statuses is the server's: a cancellation
   that was asked for under the newest version of the order is not refused. *)
THEOREM MyOrdersCancelWorks == MyOrdersSpec => []CancelWorks
<1>1. ASSUME OrdersInv, cancel.st = "sent", cancel.prev.ver = Len(rows[cancel.prev.id])
      PROVE  Current(cancel.prev.id) \in Cancellable
  <2>1. CanCancel(rows[cancel.prev.id][cancel.prev.ver])
    BY <1>1 DEF OrdersInv, KnownInv
  <2>2. QED
    BY <1>1, <2>1, SameTable DEF Current
<1>2. OrdersInv => CancelWorks
  BY <1>1 DEF CancelWorks
<1>3. QED
  BY <1>2, OrdersInvariant, PTL

(* Once the cancellation has ended, what the list and the sheet show as
   cancelled has been cancelled: a refusal takes the hope back everywhere but in a
   sheet that was opened from the list meanwhile. *)
THEOREM MyOrdersNoFalseCancel == MyOrdersSpec => []NoFalseCancel
<1>1. ASSUME OrdersInv, cancel.st = "idle" PROVE NoFalseCancel
  <2>1. ASSUME NEW o \in Mine, list[o] # Nothing, list[o].ver = Hoped
        PROVE  WasCancelled(o)
    <3>1. list[o].id = o /\ Hope(list[o])
      BY <1>1, <2>1 DEF OrdersInv, KnownInv, HopeInv
    <3>2. QED
      BY <1>1, <2>1, <3>1 DEF Hope
  <2>2. ASSUME full # Nothing, full.ver = Hoped, ~stale PROVE WasCancelled(full.id)
    <3>1. Hope(full)
      BY <1>1, <2>2 DEF OrdersInv, HopeInv
    <3>2. QED
      BY <1>1, <2>2, <3>1 DEF Hope
  <2>3. QED
    BY <2>1, <2>2 DEF NoFalseCancel
<1>2. OrdersInv => NoFalseCancel
  BY <1>1 DEF NoFalseCancel
<1>3. QED
  BY <1>2, OrdersInvariant, PTL

(* The sheet shows the order that was picked last as soon as nothing is on the
   way, however notifications, answers and rollbacks overlap, unless it was
   open for another one and was not told. *)
THEOREM MyOrdersRightOrderShown == MyOrdersSpec => []RightOrderShown
<1>1. ASSUME OrdersInv, full # Nothing, asks = {}, ~stale PROVE full.id = picked.id
  <2>1. full.id # picked.id => asks = {picked.id}
    BY <1>1 DEF OrdersInv, SheetInv
  <2>2. QED
    BY <1>1, <2>1
<1>2. OrdersInv => RightOrderShown
  BY <1>1 DEF RightOrderShown
<1>3. QED
  BY <1>2, OrdersInvariant, PTL
=============================================================================
