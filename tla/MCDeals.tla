------------------------------ MODULE MCDeals ------------------------------
(***************************************************************************)
(* Constants for model-checking Deals.                                     *)
(***************************************************************************)
EXTENDS Deals

CONSTANTS m1, m2

EarlyMarket == [m \in {m1} |-> 1]
OneMarket  == [m \in {m1} |-> 2]
TwoMarkets == [m \in {m1, m2} |-> IF m = m1 THEN 1 ELSE 2]

\* The markets of a run are one symbol's, told apart by their closing times.
SameSymbol == [p \in Market \X Market |-> p[2]]

Tasks == Permutations(Task)
=============================================================================
