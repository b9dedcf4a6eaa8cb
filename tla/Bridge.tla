-------------------------------- MODULE Bridge --------------------------------
(***************************************************************************)
(* The extension (Extension) and the server of BinomoApi (Server) with the *)
(* user, the network and the broker around them: sockets fail, the page is *)
(* loaded again, the user changes the port, wait() loses its patience and  *)
(* the object is destroyed, all at any moment.  Everything that goes wrong *)
(* goes wrong a bounded number of times.                                   *)
(***************************************************************************)
EXTENDS Extension, Server

CONSTANTS
    ApiPort,         \* the port BinomoApi was made with
    \* Bounds of the model
    MaxTroubles,     \* how often something goes wrong, is changed or stopped, or the
                     \* broker speaks, if the application waits and if it does not
    MaxWire          \* messages on their way to the server

ASSUME BridgeAssumption ==
    /\ ApiPort \in Port
    /\ MaxTroubles \in [{"idle", "wait"} -> Nat]
    /\ MaxWire \in Nat

VARIABLES
    troubles,        \* how much of MaxTroubles is left
    api_lost         \* whether a connection to the server was ever cut

worldVars == <<troubles, api_lost>>

vars == <<wireVars, extVars, srvVars, worldVars>>

Trouble == troubles > 0 /\ troubles' = troubles - 1

Init ==
    /\ WireInit
    /\ ExtInit
    /\ ServerInit
    /\ troubles = MaxTroubles[app]
    /\ api_lost = FALSE

-----------------------------------------------------------------------------
(* The steps of each part                                                  *)

ServerThread ==
    /\ ServerLoop \/ ServerStart \/ ServerStops
    /\ UNCHANGED <<extVars, worldVars>>

Handler ==
    /\ \/ \E c \in Conn : \/ OnOpen(c) \/ OnClose(c) \/ OnError(c)
                          \/ ReceiveSocket(c) \/ ReceiveOther(c) \/ ReceiveUnreadable(c)
       \/ SetConnected \/ PushStart \/ ClearFutures
    /\ UNCHANGED <<extVars, worldVars>>

OpenInCallback == CallbackBlocks /\ UNCHANGED <<extVars, worldVars>>

PingThread == PingEnds /\ UNCHANGED <<extVars, worldVars>>
Callback   == CallbackReturns /\ UNCHANGED <<extVars, worldVars>>

Waiting ==
    /\ WaitLoop \/ WaitReturns
    /\ UNCHANGED <<extVars, worldVars>>

Timeout ==
    /\ WaitTimeout
    /\ api_lost' = TRUE
    /\ UNCHANGED <<extVars, troubles>>

Destroying ==
    /\ DestroyStops \/ DestroyLocks \/ DestroyFutures \/ DestroyServer \/ DestroyMembers
    /\ UNCHANGED <<extVars, worldVars>>

\* Identities left to a new connection
Unused == {c \in Conn : /\ link[c] = "free"
                        /\ wire[c] = <<>>
                        /\ current_connection # c}

\* The server's thread completes one handshake, with its on_open, after the other.
Answers == /\ url_port = ApiPort
           /\ thread = "serving"
           /\ ~ \E c \in Conn : wire[c] # <<>> /\ Head(wire[c]) = "open"

Page ==
    /\ \/ \E c \in Conn : IsLeast(c, Unused) /\ (LoadPage(c) \/ ApiCloses(c))
       \/ Answers /\ ApiOpens
    /\ UNCHANGED <<srvVars, worldVars>>

\* Nobody answers at that port.
NoServer ==
    /\ ~ (url_port = ApiPort /\ thread = "serving")
    /\ ApiRefused
    /\ UNCHANGED <<srvVars, worldVars>>

\* The browser gets ahead of the server by no more than MaxWire messages.
Room == \A c \in Conn : Len(wire[c]) < MaxWire

Broker(i) ==
    /\ Room
    /\ \/ BrokerOpens(i)
       \/ broker[i] = "closing" /\ BrokerCloses(i)
       \/ broker[i] = "failing" /\ BrokerFails(i)
    /\ UNCHANGED <<srvVars, worldVars>>

-----------------------------------------------------------------------------
(* What happens a bounded number of times                                  *)

BrokerLoss ==
    /\ Trouble /\ UNCHANGED api_lost
    /\ \E i \in BrokerSocket :
          /\ Room
          /\ \/ broker[i] = "open" /\ BrokerCloses(i)
             \/ broker[i] \in {"connecting", "open"} /\ BrokerFails(i)
    /\ UNCHANGED srvVars

BrokerPush ==
    /\ Trouble /\ UNCHANGED api_lost
    /\ Room
    /\ \E i \in BrokerSocket : BrokerSays(i)
    /\ UNCHANGED srvVars

ApiLoss ==
    /\ Trouble /\ api_lost' = TRUE
    /\ \/ \E c \in Conn, how \in {"closed", "failed"} :
             link[c] = "open" /\ Cut(c, how) /\ UNCHANGED extVars
       \/ ApiRefused
    /\ UNCHANGED srvVars

Reload ==
    /\ Trouble /\ UNCHANGED api_lost
    /\ UnloadPage
    /\ UNCHANGED srvVars

SetPort ==
    /\ Trouble /\ UNCHANGED api_lost
    /\ \E p \in Port : ChangePort(p)
    /\ UNCHANGED srvVars

Minute ==
    /\ Trouble /\ UNCHANGED api_lost
    /\ WaitMinute
    /\ UNCHANGED extVars

Destruction ==
    /\ Trouble /\ UNCHANGED api_lost
    /\ Destroy
    /\ UNCHANGED extVars

Next ==
    \/ ServerThread \/ Handler \/ PingThread \/ Callback \/ OpenInCallback
    \/ Waiting \/ Destroying \/ Page \/ NoServer
    \/ \E i \in BrokerSocket : Broker(i)
    \/ BrokerLoss \/ BrokerPush \/ ApiLoss \/ Reload \/ SetPort
    \/ Minute \/ Timeout \/ Destruction

Spec == Init /\ [][Next]_vars

\* The threads of the program run; the browser loads the page, calls the event
\* handlers and gets an answer to each attempt to connect.  Nothing that goes
\* wrong, and nothing the user or the application starts, has to happen.
Fairness ==
    /\ WF_vars(ServerThread \/ Handler)
    /\ WF_vars(PingThread) /\ WF_vars(Callback)
    /\ WF_vars(Waiting \/ Timeout \/ Destroying)
    /\ WF_vars(Page \/ NoServer)
    /\ \A i \in BrokerSocket : WF_vars(Broker(i))

FairSpec == Spec /\ Fairness

-----------------------------------------------------------------------------
(* Properties                                                              *)

\* Every variable of the extension, of the connections and of BinomoApi has
\* its type.
BridgeTypeOK == WireTypeOK /\ ExtTypeOK /\ ServerTypeOK

\* The script has one connection to the server at a time, the one it holds in
\* api_socket: no sequence of losses, reloads and new ports makes it open a
\* second (connect_api is called from three places).
OneApiConnection == \A c \in Conn : link[c] # "free" => c = api_socket

\* As long as no connection to the server was lost, the script has no broker
\* socket but the newest, whatever happened to the others: the broker's
\* messages are forwarded once (connect_broker, called from two places).
OneBrokerSocket ==
    ~ api_lost /\ ~ is_shutdown =>
        \A i \in BrokerSocket : Live(i) => i = socket

\* Once the server has seen everything, it sends to the connection the script
\* listens on and to no older one, in whatever order the end of the one and
\* the start of the other reached it (on_open, on_close, on_error).
SendsToNewest ==
    /\ api_socket # None
    /\ link[api_socket] = "open"
    /\ \A c \in Conn : wire[c] = <<>>
    => current_connection = api_socket

\* The destructor waits for the asynchronous calls before it waits for the
\* server, so that a message just handled can still start one: never more than
\* that one is running when the members go (~BinomoApi).
AtMostOneOutlives == app = "members" => starting <= 1

\* What the code cannot do: stop a server that is made but not started.
StopLost == app = "server" /\ thread = "serving"

\* The destructor ends, whatever the server and its callbacks were doing, but
\* for that case and for a callback of on_start that needs the mutex it keeps
\* (~BinomoApi, init_main_thread).
DestructorEnds == app = "stop" ~> app = "done" \/ StopLost \/ blocked

\* The broker's session is there and both ends know it.
Linked ==
    /\ api_socket # None
    /\ link[api_socket] = "open"
    /\ is_api_socket
    /\ is_socket
    /\ broker[socket] = "open"
    /\ current_connection = api_socket
    /\ is_connected

\* A broker socket that is closed while it connects fails, and its onerror closes
\* the next one, which may be connecting by then: the code cannot end this.
Churning == \E i \in BrokerSocket : broker[i] = "failing"

\* In whatever order the late events of lost sockets come and whenever wait()
\* stopped the server: when nothing fails any more and the port is the server's,
\* the whole bridge is up in the end and stays so (content.js, on_open, on_close).
BridgeRecovers ==
    <>[](port = ApiPort /\ ~ is_shutdown /\ ~ Churning) => <>[]Linked

\* wait() then returns (wait).
WaitAnswered == <>[](port = ApiPort) => (app = "wait" ~> app = "idle")
=============================================================================
