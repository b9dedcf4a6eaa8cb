---------------------------- MODULE BetLifecycle ----------------------------
(***************************************************************************)
(* What BinomoApi promises to the caller of open_bo: the sequence of       *)
(* statuses its callback receives for one bet.                             *)
(*                                                                         *)
(* The first call announces the bet as UNKNOWN_STATE, at most one call     *)
(* says that the broker holds the deal (WAITING_COMPLETION), and at most   *)
(* one call, the last one, carries a final status.  A bet may stay at any  *)
(* of these points: the library can be destroyed while it waits.           *)
(***************************************************************************)
EXTENDS Sequences, Naturals

CONSTANT Task          \* the calls of open_bo that reached the asynchronous part

VARIABLE reported      \* reported[t]: the statuses the callback of t was given

\* common::BetStatus, split the way the poll loop of async_open_bo splits it.
Final  == {"OPENING_ERROR", "CHECK_ERROR", "WIN", "LOSS"}
Status == Final \cup {"UNKNOWN_STATE", "WAITING_COMPLETION"}

LastReport(t) == reported[t][Len(reported[t])]

Announced(t) == Len(reported[t]) > 0

Report(t, s) == reported' = [reported EXCEPT ![t] = Append(@, s)]

-----------------------------------------------------------------------------
Init == reported = [t \in Task |-> <<>>]

Announce(t) ==
    /\ ~Announced(t)
    /\ Report(t, "UNKNOWN_STATE")

Accept(t) ==
    /\ Announced(t)
    /\ LastReport(t) = "UNKNOWN_STATE"
    /\ Report(t, "WAITING_COMPLETION")

Close(t) ==
    /\ Announced(t)
    /\ LastReport(t) \notin Final
    /\ \E s \in Final : Report(t, s)

Next == \E t \in Task : Announce(t) \/ Accept(t) \/ Close(t)

Spec == Init /\ [][Next]_reported
=============================================================================
