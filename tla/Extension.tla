------------------------------ MODULE Extension ------------------------------
(***************************************************************************)
(* The content script of the browser extension                             *)
(* (extensions/chrome/binomo-bridge/content.js): it keeps one WebSocket to *)
(* the server of BinomoApi and one to the broker, and forwards messages    *)
(* between the two.  Each event handler runs to its end, so an action is   *)
(* one event.  The handlers of every broker socket test and set the same   *)
(* two flags and close whatever the variable socket holds by then.         *)
(*                                                                         *)
(* A browser fires error and close of a failed socket in one task, so the  *)
(* two handlers are one action.                                            *)
(***************************************************************************)
EXTENDS ApiWire

CONSTANTS
    BrokerSocket, \* identities of broker sockets, used again once closed
    Port,         \* the ports the user may set
    DefaultPort   \* 8082

ASSUME ExtensionAssumption ==
    /\ BrokerSocket \subseteq Nat \ {0}
    /\ None \notin BrokerSocket
    /\ DefaultPort \in Port

VARIABLES
    port,
    url_port,      \* the port api_socket was made with
    is_socket,
    is_api_socket,
    api_socket,    \* None while no page of the broker is open
    socket,
    broker         \* the state of each broker socket

flagVars == <<is_socket, is_api_socket>>
sockVars == <<socket, broker>>
extVars  == <<port, url_port, flagVars, api_socket, sockVars>>

ExtTypeOK ==
    /\ port \in Port /\ url_port \in Port
    /\ is_socket \in BOOLEAN /\ is_api_socket \in BOOLEAN
    /\ api_socket \in Conn \cup {None}
    /\ socket \in BrokerSocket \cup {None}
    /\ broker \in [BrokerSocket -> {"closed", "connecting", "open", "closing", "failing"}]

ExtInit ==
    /\ port = DefaultPort
    /\ url_port = DefaultPort
    /\ is_socket = FALSE
    /\ is_api_socket = FALSE
    /\ api_socket = None
    /\ socket = None
    /\ broker = [i \in BrokerSocket |-> "closed"]

IsLeast(i, S) == i \in S /\ \A j \in S : i <= j

-----------------------------------------------------------------------------
(* connect_broker, and what each event of a broker socket does             *)

Live(i) == broker[i] # "closed"

\* socket = new WebSocket, once the sockets are in the states of b
ConnectBroker(b) ==
    \E i \in BrokerSocket :
       /\ IsLeast(i, {j \in BrokerSocket : b[j] = "closed"})
       /\ socket' = i
       /\ broker' = [b EXCEPT ![i] = "connecting"]

\* socket.close(): its events come later.  An open socket closes, one that is
\* still connecting fails.
CloseSocket(b) ==
    IF socket = None THEN b
    ELSE [b EXCEPT ![socket] = IF @ = "open" THEN "closing"
                               ELSE IF @ = "connecting" THEN "failing" ELSE @]

\* api_socket.send: a connection that is already cut swallows the messages.
Tell(messages) ==
    IF is_api_socket /\ link[api_socket] = "open"
    THEN wire' = [wire EXCEPT ![api_socket] = @ \o messages]
    ELSE UNCHANGED wire

\* Mutant: onclose reconnects only the socket that was open.
ReconnectOpen(b) ==
    IF is_api_socket /\ is_socket THEN ConnectBroker(b)
    ELSE broker' = b /\ UNCHANGED socket

\* The part of onclose that reconnects
Reconnect(b) ==
    IF is_api_socket THEN ConnectBroker(b) ELSE broker' = b /\ UNCHANGED socket

BrokerOpens(i) ==
    /\ broker[i] = "connecting"
    /\ broker' = [broker EXCEPT ![i] = "open"]
    /\ is_socket' = TRUE
    /\ Tell(<<"socket">>)
    /\ UNCHANGED <<link, port, url_port, is_api_socket, api_socket, socket>>

\* onclose
BrokerCloses(i) ==
    /\ Live(i)
    /\ is_socket' = FALSE
    /\ Tell(<<"init">>)
    /\ Reconnect([broker EXCEPT ![i] = "closed"])
    /\ UNCHANGED <<link, port, url_port, is_api_socket, api_socket>>

\* Mutant: onerror connects as well, and onclose a second time.
BrokerFailsTwice(i) ==
    /\ Live(i)
    /\ is_socket' = FALSE
    /\ Tell(<<"init", "init">>)
    /\ LET left == [broker EXCEPT ![i] = "closed"]
           unused == {j \in BrokerSocket : left[j] = "closed"}
       IN  IF is_api_socket
           THEN \E j, k \in unused :
                   /\ j # k
                   /\ broker' = [left EXCEPT ![j] = "connecting", ![k] = "connecting"]
                   /\ socket' = k
           ELSE broker' = left /\ UNCHANGED socket
    /\ UNCHANGED <<link, port, url_port, is_api_socket, api_socket>>

\* onerror, which closes the newest socket, and then onclose
BrokerFails(i) ==
    /\ Live(i)
    /\ is_socket' = FALSE
    /\ Tell(<<"init", "init">>)
    /\ Reconnect(CloseSocket([broker EXCEPT ![i] = "closed"]))
    /\ UNCHANGED <<link, port, url_port, is_api_socket, api_socket>>

\* onmessage
BrokerSays(i) ==
    /\ broker[i] = "open"
    /\ Tell(<<"balance">>)
    /\ UNCHANGED <<link, port, url_port, flagVars, api_socket, sockVars>>

-----------------------------------------------------------------------------
(* connect_api, and what each event of the API socket does                 *)

\* What api_socket.onerror and api_socket.onclose do with the broker's socket
DropBroker ==
    /\ broker' = IF is_socket THEN CloseSocket(broker) ELSE broker
    /\ is_socket' = FALSE
    /\ is_api_socket' = FALSE
    /\ UNCHANGED socket

\* api_socket = new WebSocket, with a connection nothing is left of
Connect(c, l, p) ==
    /\ api_socket' = c
    /\ link' = [l EXCEPT ![c] = "connecting"]
    /\ url_port' = p

\* The page loads.  The saved port is looked up under a name nobody writes, so
\* the script starts with its default.
LoadPage(c) ==
    /\ api_socket = None
    /\ port' = DefaultPort
    /\ Connect(c, link, DefaultPort)
    /\ UNCHANGED <<wire, flagVars, sockVars>>

ApiOpens ==
    /\ api_socket # None
    /\ link[api_socket] = "connecting"
    /\ link' = [link EXCEPT ![api_socket] = "open"]
    /\ wire' = [wire EXCEPT ![api_socket] = Append(@, "open")]
    /\ is_api_socket' = TRUE
    /\ ConnectBroker(broker)
    /\ UNCHANGED <<port, url_port, is_socket, api_socket>>

\* The attempt fails, and onclose makes the next one at once.
ApiRefused ==
    /\ api_socket # None
    /\ link[api_socket] = "connecting"
    /\ DropBroker
    /\ url_port' = port
    /\ UNCHANGED <<wireVars, port, api_socket>>

\* The script learns that its connection is cut.
ApiCloses(c) ==
    /\ api_socket # None
    /\ link[api_socket] = "cut"
    /\ DropBroker
    /\ Connect(c, [link EXCEPT ![api_socket] = "free"], port)
    /\ UNCHANGED <<wire, port>>

\* Mutant: the listener connects to the new port and closes nothing.
ChangePortConnect(p) ==
    /\ api_socket # None
    /\ p # port
    /\ port' = p
    /\ \E c \in Conn : link[c] = "free" /\ wire[c] = <<>> /\ Connect(c, link, p)
    /\ UNCHANGED <<wire, flagVars, sockVars>>

\* The user saves another port (popup.js).  With a connection at hand, close is
\* called on the flag is_api_socket instead: the exception ends the listener.
ChangePort(p) ==
    /\ api_socket # None
    /\ p # port
    /\ port' = p
    /\ UNCHANGED <<wireVars, url_port, flagVars, api_socket, sockVars>>

\* The page is closed or loaded again: nothing of the script is left, and the
\* browser closes its connections in its own time.
UnloadPage ==
    /\ api_socket # None
    /\ api_socket' = None
    /\ link' = [link EXCEPT ![api_socket] = "free"]
    /\ wire' = IF link[api_socket] = "open"
               THEN [wire EXCEPT ![api_socket] = Append(@, "closed")]
               ELSE wire
    /\ is_socket' = FALSE
    /\ is_api_socket' = FALSE
    /\ socket' = None
    /\ broker' = [i \in BrokerSocket |-> "closed"]
    /\ UNCHANGED <<port, url_port>>
=============================================================================
