----------------------------- MODULE MCStoreList -----------------------------
(* A store of one category, whose products fill two pages. *)
EXTENDS StoreList

CONSTANT c1

MCTree == <<c1>>
MCChildren == [t \in Tops |-> {}]
MCCount == [f \in Filters |-> 2]
=============================================================================
