---------------------------- MODULE MCBotHistory ----------------------------
(***************************************************************************)
(* Constants for model-checking BotHistory.                                *)
(***************************************************************************)
EXTENDS BotHistory

CONSTANT s1

OneMinute == [s \in {s1} |-> <<2>>]
=============================================================================
