------------------------------ MODULE MCBridge ------------------------------
(***************************************************************************)
(* Constants for model-checking Bridge.                                    *)
(***************************************************************************)
EXTENDS Bridge

\* An application that waits meets one trouble, any other two.
Troubles == [a \in {"idle", "wait"} |-> IF a = "wait" THEN 1 ELSE 2]
=============================================================================
