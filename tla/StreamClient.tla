---------------------------- MODULE StreamClient ----------------------------
(***************************************************************************)
(* The life of BinomoApiPriceStream around Candles                         *)
(* (include/binomo-cpp-api-websocket.hpp): the thread of start(), which    *)
(* makes one client after another and in which the handlers run, and the   *)
(* application, which starts the stream, waits for it, clears its error    *)
(* and destroys it.                                                        *)
(*                                                                         *)
(* Atomicity: on_close and on_error clear is_open before they set is_error *)
(* and wait() reads both, so these are steps of their own; the other       *)
(* handlers are the steps of Candles.  The pointer to the client, which    *)
(* the destructor loads, is set by the thread as long as it is from "made" *)
(* to "closing".                                                           *)
(***************************************************************************)
EXTENDS Candles

CONSTANTS
    \* Bounds of the model
    MaxTroubles,  \* failures, calls of wait() and of clear_error, the destructor
    FewQuotes     \* quotes of each symbol if the application does more than start

ASSUME LifeAssumption == {MaxTroubles, FewQuotes} \subseteq Nat

VARIABLES
    thread,       \* the thread of client_future
    is_error,
    is_close_connection,
    app,          \* the application; "away" if it does nothing after start()
    answer,       \* what wait() last returned
    troubles      \* how much of MaxTroubles is used up

flagVars == <<is_error, is_close_connection>>
appVars  == <<app, answer>>
lifeVars == <<thread, flagVars, appVars, troubles>>
allVars  == <<vars, lifeVars>>

\* Every variable has its type, and the flags of the connection follow the
\* thread: only the destructor leaves a connection open behind a client (on_open,
\* on_close, on_error and the catch clauses of start()).
LifeTypeOK ==
    /\ thread \in {"none", "loop", "made", "connecting", "connected", "closing",
                   "stopping", "returned", "done"}
    /\ is_error \in BOOLEAN /\ is_close_connection \in BOOLEAN
    /\ app \in {"away", "idle", "wait", "slept", "answer", "stop", "join", "done"}
    /\ answer \in {"none", "connected", "failed"}
    /\ troubles \in Nat
    /\ thread = "connected" => is_open
    /\ thread = "stopping" => is_close_connection
    /\ is_open \/ is_websocket_init =>
          \/ thread \in {"connected", "stopping"}
          \/ thread \in {"returned", "done"} /\ is_close_connection

LifeInit ==
    /\ Init
    /\ thread = "none"
    /\ is_error = FALSE
    /\ is_close_connection = FALSE
    /\ app \in {"away", "idle"}
    /\ answer = "none"
    /\ troubles = 0

Trouble ==
    /\ app # "away"
    /\ troubles < MaxTroubles
    /\ troubles' = troubles + 1

Goes(from, to) == thread = from /\ thread' = to

-----------------------------------------------------------------------------
(* The thread of start()                                                   *)

\* Each round of the loop makes a client, unless the destructor was called.
Loop ==
    /\ Goes("loop", IF is_close_connection THEN "done" ELSE "made")
    /\ UNCHANGED <<vars, flagVars, appVars, troubles>>

\* The constructor of the client throws: its certificate cannot be read.
MakeFails ==
    /\ Trouble
    /\ Goes("loop", "returned")
    /\ ~is_close_connection
    /\ is_websocket_init' = FALSE
    /\ is_error' = TRUE
    /\ UNCHANGED <<candles, parser, told, seen, subVars, connVars, worldVars,
                   is_close_connection, appVars>>

Connect ==
    /\ Goes("made", "connecting")
    /\ UNCHANGED <<vars, flagVars, appVars, troubles>>

OnOpen ==
    /\ Goes("connecting", "connected")
    /\ Open
    /\ UNCHANGED <<flagVars, appVars, troubles>>

\* on_error of a connection that was not opened
ConnectFails ==
    /\ Trouble
    /\ Goes("connecting", "closing")
    /\ is_websocket_init' = FALSE
    /\ is_open' = FALSE
    /\ UNCHANGED <<candles, parser, told, seen, subVars, volume_mode, worldVars,
                   flagVars, appVars>>

\* Mutant: on_close clears one flag of the two.
OnCloseKeepsOpen ==
    /\ Goes("connected", "closing")
    /\ parser = Idle /\ Bounded("drops", MaxDrops)
    /\ is_websocket_init' = FALSE
    /\ UNCHANGED <<candles, parser, told, seen, subVars, connVars, inbox, quotes,
                   flagVars, appVars, troubles>>

\* on_close or on_error of one that was
OnClose ==
    /\ Goes("connected", "closing")
    /\ Close
    /\ UNCHANGED <<flagVars, appVars, troubles>>

\* Mutant: a lost connection is not noted as an error.
RaiseNoError ==
    /\ Goes("closing", "returned")
    /\ UNCHANGED <<vars, flagVars, appVars, troubles>>

RaiseError ==
    /\ Goes("closing", "returned")
    /\ is_error' = TRUE
    /\ UNCHANGED <<vars, is_close_connection, appVars, troubles>>

\* client->start() returns after stop(), when the handler that runs is over.
ClientStops ==
    /\ Goes("stopping", "returned")
    /\ parser = Idle
    /\ UNCHANGED <<vars, flagVars, appVars, troubles>>

\* Mutant: an error ends the thread.
ReturnedOnError ==
    /\ Goes("returned", IF is_close_connection \/ is_error THEN "done" ELSE "loop")
    /\ UNCHANGED <<vars, flagVars, appVars, troubles>>

\* A second later the next round begins.
Returned ==
    /\ Goes("returned", IF is_close_connection THEN "done" ELSE "loop")
    /\ UNCHANGED <<vars, flagVars, appVars, troubles>>

\* stop() lets the message that is handled end, and no other begin.
OnMessage ==
    /\ \/ thread = "connected" /\ (ReceiveOther \/ ReceiveQuote)
       \/ thread \in {"connected", "stopping"} /\ (CloseBar \/ OpenBar \/ UpdateBar)
    /\ UNCHANGED lifeVars

-----------------------------------------------------------------------------
(* The application                                                         *)

App(from, to) == app = from /\ app' = to

\* A second call finds the future valid and does nothing.
Start ==
    /\ app \in {"away", "idle"}
    /\ Goes("none", "loop")
    /\ UNCHANGED <<vars, flagVars, appVars, troubles>>

Wait ==
    /\ Trouble
    /\ App("idle", "wait")
    /\ UNCHANGED <<vars, thread, flagVars, answer>>

WaitLoop ==
    /\ App("wait", "answer")
    /\ is_error \/ is_open
    /\ UNCHANGED <<vars, thread, flagVars, answer, troubles>>

\* The last round of the loop finds neither ...
WaitSleep ==
    /\ App("wait", "slept")
    /\ ~is_error /\ ~is_open
    /\ UNCHANGED <<vars, thread, flagVars, answer, troubles>>

\* ... and gives up, whatever happened during its sleep.
WaitTimeout ==
    /\ App("slept", "answer")
    /\ is_error' = TRUE
    /\ UNCHANGED <<vars, thread, is_close_connection, answer, troubles>>

\* is_open is read again.
WaitReturns ==
    /\ App("answer", "idle")
    /\ answer' = IF is_open THEN "connected" ELSE "failed"
    /\ UNCHANGED <<vars, thread, flagVars, troubles>>

ClearError ==
    /\ Trouble
    /\ app = "idle"
    /\ is_error' = FALSE
    /\ UNCHANGED <<vars, thread, is_close_connection, appVars>>

\* Mutant: the flag is not raised.
DestroyUnflagged ==
    /\ Trouble
    /\ App("idle", "stop")
    /\ UNCHANGED <<vars, thread, flagVars, answer>>

Destroy ==
    /\ Trouble
    /\ App("idle", "stop")
    /\ is_close_connection' = TRUE
    /\ UNCHANGED <<vars, thread, is_error, answer>>

\* client->stop() ends a client that was started, and does nothing to one that
\* was made but not yet started.
DestroyStops ==
    /\ App("stop", "join")
    /\ thread' = IF thread \in {"connecting", "connected"} THEN "stopping" ELSE thread
    /\ UNCHANGED <<vars, flagVars, answer, troubles>>

\* client_future.wait(), if there is a future
DestroyJoins ==
    /\ App("join", "done")
    /\ thread \in {"none", "done"}
    /\ UNCHANGED <<vars, thread, flagVars, answer, troubles>>

Subscriptions ==
    /\ ~is_close_connection
    /\ \/ \E s \in Series : AddCandlesStream(s)
       \/ \E s \in Symbol : Subscribe(s) \/ Unsubscribe(s)
    /\ UNCHANGED lifeVars

BrokerQuotes ==
    /\ \E s \in Symbol : SendQuote(s) /\ (app # "away" => Len(quotes[s]) < FewQuotes)
    /\ UNCHANGED lifeVars

-----------------------------------------------------------------------------
ClientThread ==
    \/ Loop \/ MakeFails \/ Connect \/ RaiseError \/ ClientStops \/ Returned
    \/ OnMessage

Network == OnOpen \/ ConnectFails

Waiting == WaitLoop \/ WaitSleep \/ WaitTimeout \/ WaitReturns

Destroying == DestroyStops \/ DestroyJoins

LifeNext ==
    \/ ClientThread \/ Network \/ OnClose \/ Waiting \/ Destroying
    \/ Start \/ Wait \/ ClearError \/ Destroy \/ Subscriptions \/ BrokerQuotes

LifeSpec == LifeInit /\ [][LifeNext]_allVars

\* The threads run, an attempt to connect ends one way or the other, and what
\* fails, fails MaxTroubles times at most.  No call has to come.
FairLifeSpec ==
    /\ LifeSpec
    /\ WF_allVars(ClientThread)
    /\ WF_allVars(Network)
    /\ WF_allVars(Waiting)
    /\ WF_allVars(Destroying)

-----------------------------------------------------------------------------
\* Whatever the thread and the application do, bars, subscriptions and calls of
\* on_candle change as Candles says: no handler runs before the client connects,
\* and a second connection is not opened over a first.
ImplementsCandles == Spec

\* A connection that ends, or a client that cannot be made or connected, is
\* followed by another connection, as long as the object lives (the loop of
\* start()).
StreamReconnects ==
    thread \in {"closing", "returned"} ~> thread = "connected" \/ is_close_connection

\* The destructor ends, unless its stop() came between the making of a client and
\* its start: then it waits until that connection is lost.
StreamDestructorEnds ==
    (app = "join" /\ thread \notin {"made", "connecting", "connected"})
        ~> app = "done"

\* What the comment of wait() promises: true for a connection, otherwise there
\* was an error, which on_close may be about to note.  wait() reads two flags
\* that the thread changes one after the other, and reads one of them twice.
WaitFailsOnError ==
    [][app = "answer" /\ answer' = "failed" /\ app' # app
          => is_error \/ thread = "closing"]_allVars
=============================================================================
