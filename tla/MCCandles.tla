----------------------------- MODULE MCCandles -----------------------------
(***************************************************************************)
(* Constants for model-checking StreamClient.                              *)
(***************************************************************************)
EXTENDS StreamClient

CONSTANT s1

Minutes == [symbol |-> s1, period |-> 2]
OneMinute == [s \in {s1} |-> <<2>>]
=============================================================================
