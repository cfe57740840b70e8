------------------------------- MODULE MCHub -------------------------------
(* One store with two pickers, one of whom reconnects, and one customer. *)
EXTENDS Hub

CONSTANTS store, user, picker, colleague, p1, p2, q1, u1, m1, m2, m3

MCKeyOf ==
    [c \in Streams |->
        CASE c \in {p1, p2} -> <<store, picker>>
          [] c = q1 -> <<store, colleague>>
          [] c = u1 -> <<user, user>>]

MCTopicOf == [m \in Msgs |-> IF m = m3 THEN user ELSE store]
=============================================================================
