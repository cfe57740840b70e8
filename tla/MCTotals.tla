------------------------------ MODULE MCTotals ------------------------------
(* An express order of one line, and two rows that pickers may add. *)
EXTENDS OrderTotals, FiniteSetsExt

CONSTANTS o1, line, extra, other

MCOrdered == [o \in Orders |-> {line}]

Cost(i) == CASE i = line -> 300 [] i = extra -> 50 [] i = other -> 70

MCWorth == [s \in SUBSET Items |-> MapThenSumSet(Cost, s)]
=============================================================================
