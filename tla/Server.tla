-------------------------------- MODULE Server --------------------------------
(***************************************************************************)
(* The life of BinomoApi (include/binomo-cpp-api.hpp): the thread that     *)
(* makes and runs the WebSocket server, the handlers the server calls, the *)
(* ping thread, the asynchronous calls of on_start, and the thread of the  *)
(* application, which waits for a connection and in the end destroys the   *)
(* object.  What the messages do to bets is in Deals.                      *)
(*                                                                         *)
(* Atomicity: one action per critical section or access to an atomic.  The *)
(* handlers run in the thread of start(), one at a time.                   *)
(***************************************************************************)
EXTENDS ApiWire

VARIABLES
    thread,             \* the thread of server_future
    handler,            \* its on_message, between two of its sections
    current_connection,
    is_open_connect, is_connected, is_error, is_shutdown,
    ping,               \* the ping thread, the first of request_future
    starting,           \* calls of on_start that have not returned
    blocked,            \* whether one of them opens a bet and waits for a mutex
    app,                \* the application's thread
    answer              \* what wait() last returned

connVars   == <<current_connection, is_open_connect, is_connected, is_error>>
threadVars == <<thread, ping, starting, blocked>>
srvVars    == <<threadVars, handler, connVars, is_shutdown, app, answer>>

ServerTypeOK ==
    /\ thread \in {"loop", "made", "serving", "stopping", "done"}
    /\ handler \in {"idle", "parsed", "push", "clear"}
    /\ current_connection \in Conn \cup {None}
    /\ is_open_connect \in BOOLEAN /\ is_connected \in BOOLEAN
    /\ is_error \in BOOLEAN /\ is_shutdown \in BOOLEAN /\ blocked \in BOOLEAN
    /\ ping \in {"on", "done"}
    /\ starting \in Nat
    /\ app \in {"idle", "wait", "slept", "answer", "stop", "locks", "futures",
                "server", "members", "done"}
    /\ answer \in {"none", "connected", "failed"}

\* The constructor and start; the application calls wait() first, or never.
ServerInit ==
    /\ thread = "loop"
    /\ handler = "idle"
    /\ current_connection = None
    /\ is_open_connect = FALSE
    /\ is_connected = FALSE
    /\ is_error = FALSE
    /\ is_shutdown = FALSE
    /\ ping = "on"
    /\ starting = 0
    /\ blocked = FALSE
    /\ app \in {"idle", "wait"}
    /\ answer = "none"

-----------------------------------------------------------------------------
(* The server thread and the threads of request_future                     *)

\* Before each round but the first the thread sleeps for a second.
ServerLoop ==
    /\ thread = "loop"
    /\ thread' = IF is_shutdown THEN "done" ELSE "made"
    /\ is_open_connect' = IF is_shutdown THEN is_open_connect ELSE FALSE
    /\ UNCHANGED <<wireVars, ping, starting, blocked, handler, current_connection,
                   is_connected, is_error, is_shutdown, app, answer>>

ServerStart ==
    /\ thread = "made"
    /\ thread' = "serving"
    /\ UNCHANGED <<wireVars, ping, starting, blocked, handler, connVars, is_shutdown, app, answer>>

\* server->stop(), from another thread and under server_mutex.  Before start()
\* has made the acceptor there is nothing to stop and start() serves all the
\* same; later, start() returns when the handler that runs is over.
Stop ==
    IF thread = "serving"
    THEN thread' = "stopping" /\ CutAll
    ELSE UNCHANGED <<thread, wireVars>>

\* Mutant: the thread ends once it was stopped.
ServerStopsForGood ==
    /\ thread = "stopping"
    /\ handler = "idle"
    /\ thread' = "done"
    /\ UNCHANGED <<wireVars, ping, starting, blocked, handler, connVars, is_shutdown, app, answer>>

ServerStops ==
    /\ thread = "stopping"
    /\ handler = "idle"
    /\ thread' = "loop"
    /\ UNCHANGED <<wireVars, ping, starting, blocked, handler, connVars, is_shutdown, app, answer>>

PingEnds ==
    /\ ping = "on"
    /\ is_shutdown
    /\ ping' = "done"
    /\ UNCHANGED <<wireVars, thread, starting, blocked, handler, connVars, is_shutdown, app, answer>>

\* request_future_mutex, which the destructor keeps while it waits
MutexFree == app # "futures"

\* on_start opens a bet while the destructor waits for it.
CallbackBlocks ==
    /\ starting > 0
    /\ ~ MutexFree
    /\ blocked' = TRUE
    /\ UNCHANGED <<wireVars, thread, ping, starting, handler, connVars, is_shutdown, app, answer>>

\* Mutant: a call of on_start is taken for over twice.
CallbackReturnsTwice ==
    /\ starting > 0
    /\ starting' \in {starting - 1, starting - 2}
    /\ UNCHANGED <<wireVars, thread, ping, blocked, handler, connVars, is_shutdown, app, answer>>

CallbackReturns ==
    /\ starting > (IF blocked THEN 1 ELSE 0)
    /\ starting' = starting - 1
    /\ UNCHANGED <<wireVars, thread, ping, blocked, handler, connVars, is_shutdown, app, answer>>

-----------------------------------------------------------------------------
(* The handlers                                                            *)

Handled(c, event) ==
    /\ thread = "serving"
    /\ handler = "idle"
    /\ wire[c] # <<>>
    /\ Head(wire[c]) = event
    /\ wire' = [wire EXCEPT ![c] = Tail(@)]
    /\ UNCHANGED <<link, threadVars, is_shutdown, app, answer>>

OnOpen(c) ==
    /\ Handled(c, "open")
    /\ current_connection' = c
    /\ is_open_connect' = TRUE
    /\ UNCHANGED <<handler, is_connected, is_error>>

\* Mutant: the handlers do not compare the connection with the current one.
ForgetAny(c) == current_connection' = None /\ is_connected' = FALSE

\* on_close and on_error forget the connection only if no other has come.
Forget(c) ==
    IF current_connection = c
    THEN current_connection' = None /\ is_connected' = FALSE
    ELSE UNCHANGED <<current_connection, is_connected>>

OnClose(c) ==
    /\ Handled(c, "closed")
    /\ Forget(c)
    /\ UNCHANGED <<handler, is_open_connect, is_error>>

OnError(c) ==
    /\ Handled(c, "failed")
    /\ Forget(c)
    /\ is_error' = TRUE
    /\ UNCHANGED <<handler, is_open_connect>>

\* parse_socket: a new broker session starts the connection over.
ReceiveSocket(c) ==
    /\ Handled(c, "socket")
    /\ is_connected' = FALSE
    /\ handler' = "parsed"
    /\ UNCHANGED <<current_connection, is_open_connect, is_error>>

\* Any other message, of which the bets and the balance are left out
ReceiveOther(c) ==
    /\ \E event \in {"init", "balance"} : Handled(c, event)
    /\ handler' = "parsed"
    /\ UNCHANGED connVars

\* The broker's message is no JSON: one of the catch branches, whichever it is, ends
\* the handler; it connects nothing and starts nothing.
ReceiveUnreadable(c) ==
    /\ Handled(c, "balance")
    /\ is_error' = TRUE
    /\ UNCHANGED <<handler, current_connection, is_open_connect, is_connected>>

HandlerFrame == UNCHANGED <<wireVars, thread, ping, blocked, current_connection,
                            is_open_connect, is_error, is_shutdown, app, answer>>

\* Whatever the message said, the object is now connected.
SetConnected ==
    /\ handler = "parsed"
    /\ is_connected' = TRUE
    /\ handler' = IF is_connected THEN "clear" ELSE "push"
    /\ UNCHANGED starting
    /\ HandlerFrame

\* on_start is called in a thread of its own; clear_request_future follows.
PushStart ==
    /\ handler = "push"
    /\ MutexFree
    /\ starting' = starting + 1
    /\ handler' = "idle"
    /\ UNCHANGED is_connected
    /\ HandlerFrame

\* clear_request_future erases what has returned, which "starting" leaves out.
ClearFutures ==
    /\ handler = "clear"
    /\ MutexFree
    /\ handler' = "idle"
    /\ UNCHANGED <<starting, is_connected>>
    /\ HandlerFrame

-----------------------------------------------------------------------------
(* The application: wait() and ~BinomoApi                                  *)

App(from, to) ==
    /\ app = from
    /\ app' = to

AppFrame == UNCHANGED <<ping, starting, blocked, handler, connVars>>
Idles    == UNCHANGED <<thread, wireVars>>

\* The loop ends
WaitLoop ==
    /\ App("wait", "answer")
    /\ is_error \/ is_connected
    /\ AppFrame /\ Idles /\ UNCHANGED <<is_shutdown, answer>>

\* The loop goes on, and a minute has passed on an open connection.
WaitMinute ==
    /\ App("wait", "slept")
    /\ ~ is_error /\ ~ is_connected
    /\ is_open_connect
    /\ AppFrame /\ Idles /\ UNCHANGED <<is_shutdown, answer>>

\* By now, a message may have come.
WaitTimeout ==
    /\ App("slept", "wait")
    /\ Stop
    /\ AppFrame /\ UNCHANGED <<is_shutdown, answer>>

\* is_connected is read again.
WaitReturns ==
    /\ App("answer", "idle")
    /\ answer' = IF is_connected THEN "connected" ELSE "failed"
    /\ AppFrame /\ Idles /\ UNCHANGED is_shutdown

\* Mutant: the flags are not raised.
DestroyUnflagged ==
    /\ App("idle", "stop")
    /\ AppFrame /\ Idles /\ UNCHANGED <<is_shutdown, answer>>

Destroy ==
    /\ App("idle", "stop")
    /\ is_shutdown' = TRUE
    /\ AppFrame /\ Idles /\ UNCHANGED answer

DestroyStops ==
    /\ App("stop", "locks")
    /\ Stop
    /\ AppFrame /\ UNCHANGED <<is_shutdown, answer>>

\* request_future_mutex is taken; a handler may have pushed a future before.
DestroyLocks ==
    /\ App("locks", "futures")
    /\ AppFrame /\ Idles /\ UNCHANGED <<is_shutdown, answer>>

\* Mutant: the destructor waits for the ping thread only.
DestroyPing ==
    /\ App("futures", "server")
    /\ ping = "done"
    /\ AppFrame /\ Idles /\ UNCHANGED <<is_shutdown, answer>>

\* Every future is waited for with request_future_mutex held.
DestroyFutures ==
    /\ App("futures", "server")
    /\ ping = "done"
    /\ starting = 0
    /\ AppFrame /\ Idles /\ UNCHANGED <<is_shutdown, answer>>

DestroyServer ==
    /\ App("server", "members")
    /\ thread = "done"
    /\ AppFrame /\ Idles /\ UNCHANGED <<is_shutdown, answer>>

\* The vector request_future waits for what was pushed since.
DestroyMembers ==
    /\ App("members", "done")
    /\ starting = 0
    /\ AppFrame /\ Idles /\ UNCHANGED <<is_shutdown, answer>>
=============================================================================
