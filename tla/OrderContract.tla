---------------------------- MODULE OrderContract ----------------------------
(***************************************************************************)
(* What the order service promises, with no request in it: an order moves  *)
(* along the table of transitions from a status it has had, and belongs to *)
(* one picker at a time, who keeps it until the account is deleted.  The   *)
(* administrator may write any status; such an order is exempt from the    *)
(* table and its history ends there, but not from the rule about its owner.*)
(***************************************************************************)
EXTENDS OrderStatus

CONSTANTS Orders, Pickers, NoPicker

VARIABLES
    stages,    \* the statuses an order has had, until it became exempt
    owner,     \* the picker an order belongs to
    exempt,    \* orders the administrator has written
    gone       \* deleted pickers

contractVars == <<stages, owner, exempt, gone>>

Init ==
    /\ stages = [o \in Orders |-> {}]
    /\ owner = [o \in Orders |-> NoPicker]
    /\ exempt = {}
    /\ gone = {}

Follows(o, t) == o \in exempt \/ \E s \in stages[o] : IsValidStateTransition(s, t)

Reach(o, t) ==
    stages' = IF o \in exempt THEN stages ELSE [stages EXCEPT ![o] = @ \cup {t}]

Place(o) ==
    /\ stages[o] = {}
    /\ Reach(o, "NEW")
    /\ UNCHANGED <<owner, exempt, gone>>

Take(o, p, t) ==
    /\ t \in Claiming
    /\ Follows(o, t)
    /\ owner[o] \in {NoPicker, p}
    /\ p \notin gone
    /\ owner' = [owner EXCEPT ![o] = p]
    /\ Reach(o, t)
    /\ UNCHANGED <<exempt, gone>>

Progress(o, t) ==
    /\ t \notin Claiming
    /\ Follows(o, t)
    /\ Reach(o, t)
    /\ UNCHANGED <<owner, exempt, gone>>

Override(o) ==
    /\ stages[o] # {}
    /\ exempt' = exempt \cup {o}
    /\ UNCHANGED <<stages, owner, gone>>

Release(p) ==
    /\ gone' = gone \cup {p}
    /\ owner' = [o \in Orders |-> IF owner[o] = p THEN NoPicker ELSE owner[o]]
    /\ UNCHANGED <<stages, exempt>>

Next ==
    \/ \E o \in Orders : \/ Place(o)
                         \/ Override(o)
                         \/ \E t \in Statuses :
                               \/ Progress(o, t)
                               \/ \E p \in Pickers : Take(o, p, t)
    \/ \E p \in Pickers : Release(p)

Spec == Init /\ [][Next]_contractVars
=============================================================================
