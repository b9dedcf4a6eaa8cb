------------------------------ MODULE BarFeed ------------------------------
(***************************************************************************)
(* What BinomoApiPriceStream promises to the on_candle callback of its     *)
(* user: the calls for one series (a symbol with a period) tell of its     *)
(* bars one after another.  A bar is announced with its first quote,       *)
(* updated as its prices spread, closed once exactly as it was told last,  *)
(* and followed by a later bar.                                            *)
(***************************************************************************)
EXTENDS Naturals

CONSTANTS Series, None

VARIABLE told     \* told[s]: the last call for series s, None before the first

\* How a call e of on_candle may follow the call d before it
Opens(d, e) ==
    /\ d # None => d.closed /\ e.candle.timestamp > d.candle.timestamp
    /\ ~e.closed
    /\ e.candle.high = e.candle.open
    /\ e.candle.low = e.candle.open
    /\ e.candle.close = e.candle.open

Updates(d, e) ==
    /\ d # None /\ ~d.closed /\ ~e.closed
    /\ e.candle.timestamp = d.candle.timestamp
    /\ e.candle.open = d.candle.open
    /\ e.candle.high >= d.candle.high
    /\ e.candle.low =< d.candle.low
    /\ e.candle.volume >= d.candle.volume

Closes(d, e) ==
    /\ d # None /\ ~d.closed
    /\ e = [candle |-> d.candle, closed |-> TRUE]

-----------------------------------------------------------------------------
Init == told = [s \in Series |-> None]

Tell(s) ==
    /\ told'[s] # None
    /\ \/ Opens(told[s], told'[s])
       \/ Updates(told[s], told'[s])
       \/ Closes(told[s], told'[s])
    /\ told' = [told EXCEPT ![s] = told'[s]]

Next == \E s \in Series : Tell(s)

Spec == Init /\ [][Next]_told
=============================================================================
