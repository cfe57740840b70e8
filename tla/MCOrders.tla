------------------------------ MODULE MCOrders ------------------------------
(* One customer's order, two pickers and two stores. *)
EXTENDS Orders, TLC

CONSTANTS o1, here

MCStoreOf == [o \in Orders |-> here]
\* Slots are alike, and so are the pickers: no property here is about fairness.
Interchangeable == Permutations(Requests) \cup Permutations(Pickers)
=============================================================================
