------------------------------ MODULE MCPicker ------------------------------
(* The picker's panel on one browser: two logins, of pickers of two stores, and *)
(* a colleague of the first.                                                    *)
EXTENDS PickerApp

CONSTANTS o1, here, there, me, stranger, colleague

MCStoreOf == [o \in Orders |-> here]
\* The first login is of this store's picker, the second of the other store's.
MCStoreAt == [t \in Logins |-> IF t = 2 THEN there ELSE here]
MCPickerAt == [t \in Logins |-> IF t = 2 THEN stranger ELSE me]
\* An order may also be placed later: then it starts NEW, and may become anybody's.
MCFirst == {[status |-> "ASSEMBLED", picker |-> me],
            [status |-> "DELIVERED", picker |-> colleague]}
=============================================================================
