----------------------------- MODULE Bridge_proofs -----------------------------
(***************************************************************************)
(* Proofs of the safety of Bridge for any number of connections and broker *)
(* sockets, any ports and any number of troubles: its types, a single      *)
(* connection to the server, a single broker socket, the server's choice   *)
(* of a connection and what the destructor of BinomoApi leaves running.    *)
(***************************************************************************)
EXTENDS Bridge, TLAPS

USE ConnAssumption, ExtensionAssumption, BridgeAssumption

-----------------------------------------------------------------------------
(* Types                                                                   *)

\* The initial values have their types (constructors, content.js).
LEMMA InitTyped == Init => BridgeTypeOK
<1> SUFFICES ASSUME Init PROVE BridgeTypeOK
  OBVIOUS
<1>1. WireTypeOK
  BY DEF Init, WireInit, WireTypeOK, Event, Message
<1>2. ExtTypeOK
  BY DEF Init, ExtInit, ExtTypeOK
<1>3. ServerTypeOK
  BY DEF Init, ServerInit, ServerTypeOK
<1> QED BY <1>1, <1>2, <1>3 DEF BridgeTypeOK

\* The threads of the server and its calls keep the types.
LEMMA ThreadsTyped ==
    ASSUME BridgeTypeOK, ServerThread \/ PingThread \/ Callback \/ OpenInCallback
    PROVE  BridgeTypeOK'
<1> USE DEF BridgeTypeOK, WireTypeOK, ExtTypeOK, ServerTypeOK, wireVars, extVars, connVars
<1>1. CASE ServerThread
  <2>1. WireTypeOK' /\ ExtTypeOK'
    BY <1>1 DEF ServerThread, ServerLoop, ServerStart, ServerStops, flagVars, sockVars
  <2>2. ASSUME ServerLoop PROVE ServerTypeOK'
    <3>1. CASE is_shutdown
      BY <2>2, <3>1 DEF ServerLoop
    <3>2. CASE ~ is_shutdown
      BY <2>2, <3>2 DEF ServerLoop
    <3> QED BY <3>1, <3>2
  <2>3. ASSUME ServerStart PROVE ServerTypeOK'
    BY <2>3 DEF ServerStart
  <2>4. ASSUME ServerStops PROVE ServerTypeOK'
    BY <2>4 DEF ServerStops
  <2> QED BY <1>1, <2>1, <2>2, <2>3, <2>4 DEF ServerThread
<1>2. CASE PingThread
  BY <1>2 DEF PingThread, PingEnds, flagVars, sockVars
<1>3. CASE Callback
  BY <1>3 DEF Callback, CallbackReturns, flagVars, sockVars
<1>4. CASE OpenInCallback
  BY <1>4 DEF OpenInCallback, CallbackBlocks, flagVars, sockVars
<1> QED BY <1>1, <1>2, <1>3, <1>4

\* An event is taken from the front of a connection.
LEMMA TailTyped ==
    ASSUME WireTypeOK, NEW c \in Conn, NEW e, Handled(c, e)
    PROVE  WireTypeOK'
BY DEF WireTypeOK, Handled

\* The handlers keep the types.
LEMMA HandlersTyped ==
    ASSUME BridgeTypeOK, Handler
    PROVE  BridgeTypeOK'
<1> USE DEF BridgeTypeOK
<1>0. ExtTypeOK'
  BY DEF Handler, ExtTypeOK, extVars, flagVars, sockVars
<1>1. ASSUME NEW c \in Conn,
             \/ OnOpen(c) \/ OnClose(c) \/ OnError(c) \/ ReceiveSocket(c) \/ ReceiveOther(c)
             \/ ReceiveUnreadable(c)
      PROVE  BridgeTypeOK'
  <2>1. WireTypeOK'
    BY <1>1, TailTyped DEF OnOpen, OnClose, OnError, ReceiveSocket, ReceiveOther, ReceiveUnreadable, ReceiveUnreadable
  <2> USE DEF Handled, Forget, ServerTypeOK, threadVars
  <2>2. ASSUME OnOpen(c) PROVE ServerTypeOK'
    BY <2>2 DEF OnOpen
  <2>3. ASSUME OnClose(c) PROVE ServerTypeOK'
    BY <2>3, ZenonT(60) DEF OnClose
  <2>4. ASSUME OnError(c) PROVE ServerTypeOK'
    BY <2>4, ZenonT(60) DEF OnError
  <2>5. ASSUME ReceiveSocket(c) PROVE ServerTypeOK'
    BY <2>5, ZenonT(60) DEF ReceiveSocket
  <2>6. ASSUME ReceiveOther(c) PROVE ServerTypeOK'
    BY <2>6 DEF ReceiveOther, connVars
  <2>7. ASSUME ReceiveUnreadable(c) PROVE ServerTypeOK'
    BY <2>7 DEF ReceiveUnreadable
  <2> QED BY <1>0, <1>1, <2>1, <2>2, <2>3, <2>4, <2>5, <2>6, <2>7
<1>2. CASE SetConnected \/ PushStart \/ ClearFutures
  <2>1. WireTypeOK'
    BY <1>2 DEF SetConnected, PushStart, ClearFutures, HandlerFrame, WireTypeOK, wireVars
  <2> USE DEF HandlerFrame, ServerTypeOK
  <2>2. ASSUME SetConnected PROVE ServerTypeOK'
    BY <2>2 DEF SetConnected
  <2>3. ASSUME PushStart PROVE ServerTypeOK'
    BY <2>3 DEF PushStart
  <2>4. ASSUME ClearFutures PROVE ServerTypeOK'
    BY <2>4 DEF ClearFutures
  <2> QED BY <1>0, <1>2, <2>1, <2>2, <2>3, <2>4
<1> QED BY <1>1, <1>2 DEF Handler

\* A server that is stopped cuts all connections.
LEMMA StopTyped ==
    ASSUME WireTypeOK, thread \in {"loop", "made", "serving", "stopping", "done"}, Stop
    PROVE  WireTypeOK' /\ thread' \in {"loop", "made", "serving", "stopping", "done"}
<1>1. CASE thread = "serving"
  <2>1. link' \in [Conn -> {"free", "connecting", "open", "cut"}]
    BY <1>1 DEF WireTypeOK, Stop, CutAll
  <2>2. wire' = [c \in Conn |-> <<>>]
    BY <1>1 DEF Stop, CutAll
  <2>3. wire' \in [Conn -> Seq(Event)]
    BY <2>2
  <2> QED BY <1>1, <2>1, <2>3 DEF WireTypeOK, Stop
<1>2. CASE thread # "serving"
  BY <1>2 DEF WireTypeOK, Stop, wireVars
<1> QED BY <1>1, <1>2

\* The application's steps keep the types.
LEMMA AppTyped ==
    ASSUME BridgeTypeOK, Waiting \/ Timeout \/ Destroying \/ Minute \/ Destruction
    PROVE  BridgeTypeOK'
<1> USE DEF BridgeTypeOK
<1>0. ExtTypeOK'
  BY DEF Waiting, Timeout, Destroying, Minute, Destruction, ExtTypeOK, extVars, flagVars,
         sockVars
<1>1. WireTypeOK' /\ thread' \in {"loop", "made", "serving", "stopping", "done"}
  BY StopTyped
     DEF Waiting, Timeout, Destroying, Minute, Destruction, WaitLoop, WaitReturns,
         WaitTimeout, DestroyStops, DestroyLocks, DestroyFutures, DestroyServer, DestroyMembers,
         WaitMinute, Destroy, Idles, wireVars, ServerTypeOK, WireTypeOK
<1> USE DEF ServerTypeOK, App, AppFrame, connVars
<1>2. ASSUME Waiting PROVE ServerTypeOK'
  <2>1. ASSUME WaitLoop PROVE ServerTypeOK'
    BY <1>1, <2>1 DEF WaitLoop
  <2>2. ASSUME WaitReturns PROVE ServerTypeOK'
    BY <1>1, <2>2 DEF WaitReturns
  <2> QED BY <1>2, <2>1, <2>2 DEF Waiting
<1>3. ASSUME Timeout PROVE ServerTypeOK'
  BY <1>1, <1>3 DEF Timeout, WaitTimeout
<1>4. ASSUME Destroying PROVE ServerTypeOK'
  BY <1>1, <1>4 DEF Destroying, DestroyStops, DestroyLocks, DestroyFutures, DestroyServer, DestroyMembers
<1>5. ASSUME Minute PROVE ServerTypeOK'
  BY <1>1, <1>5 DEF Minute, WaitMinute
<1>6. ASSUME Destruction PROVE ServerTypeOK'
  BY <1>1, <1>6 DEF Destruction, Destroy
<1> QED BY <1>0, <1>1, <1>2, <1>3, <1>4, <1>5, <1>6

\* The events of the API socket and of the page keep the types.
LEMMA PageTyped ==
    ASSUME BridgeTypeOK, Page \/ NoServer \/ ApiLoss \/ Reload \/ SetPort
    PROVE  BridgeTypeOK'
<1> USE DEF BridgeTypeOK
<1>0. ServerTypeOK'
  BY DEF Page, NoServer, ApiLoss, Reload, SetPort, ServerTypeOK, srvVars, threadVars, connVars
<1>1. CloseSocket(broker) \in [BrokerSocket -> {"closed", "connecting", "open", "closing", "failing"}]
  BY DEF CloseSocket, ExtTypeOK
<1>2. ASSUME NEW c \in Conn, LoadPage(c) \/ ApiCloses(c)
      PROVE  WireTypeOK' /\ ExtTypeOK'
  BY <1>1, <1>2 DEF LoadPage, ApiCloses, Connect, DropBroker, WireTypeOK, ExtTypeOK,
                    flagVars, sockVars
<1>3. ASSUME ApiOpens PROVE WireTypeOK' /\ ExtTypeOK'
  BY <1>3 DEF ApiOpens, ConnectBroker, IsLeast, WireTypeOK, ExtTypeOK, Event, Message
<1>4. ASSUME ApiRefused PROVE WireTypeOK' /\ ExtTypeOK'
  BY <1>1, <1>4 DEF ApiRefused, DropBroker, WireTypeOK, ExtTypeOK, wireVars
<1>5. ASSUME NEW c \in Conn, NEW how \in {"closed", "failed"}, Cut(c, how),
             UNCHANGED extVars
      PROVE  WireTypeOK' /\ ExtTypeOK'
  BY <1>5 DEF Cut, WireTypeOK, ExtTypeOK, Event, Message, extVars, flagVars, sockVars
<1>6. ASSUME UnloadPage PROVE WireTypeOK' /\ ExtTypeOK'
  <2>1. ExtTypeOK'
    BY <1>6 DEF UnloadPage, ExtTypeOK
  <2>2. link' \in [Conn -> {"free", "connecting", "open", "cut"}]
    BY <1>6 DEF UnloadPage, WireTypeOK
  <2>3. api_socket \in Conn
    BY <1>6 DEF UnloadPage, ExtTypeOK
  <2>4. Append(wire[api_socket], "closed") \in Seq(Event)
    BY <2>3 DEF WireTypeOK, Event
  <2>5. wire' \in [Conn -> Seq(Event)]
    BY <1>6, <2>4 DEF UnloadPage, WireTypeOK
  <2> QED BY <2>1, <2>2, <2>5 DEF WireTypeOK
<1>7. ASSUME NEW p \in Port, ChangePort(p) PROVE WireTypeOK' /\ ExtTypeOK'
  BY <1>7 DEF ChangePort, WireTypeOK, ExtTypeOK, wireVars, flagVars, sockVars
<1> QED
  BY <1>0, <1>2, <1>3, <1>4, <1>5, <1>6, <1>7 DEF Page, NoServer, ApiLoss, Reload, SetPort

\* The events of a broker socket keep the types.
LEMMA BrokerTyped ==
    ASSUME BridgeTypeOK, (\E i \in BrokerSocket : Broker(i)) \/ BrokerLoss \/ BrokerPush
    PROVE  BridgeTypeOK'
<1> USE DEF BridgeTypeOK
<1>0. ServerTypeOK'
  BY DEF Broker, BrokerLoss, BrokerPush, ServerTypeOK, srvVars, threadVars, connVars
<1>1. ASSUME NEW m \in Seq(Event), Tell(m), link' = link PROVE WireTypeOK'
  <2>1. CASE wire' = wire
    BY <1>1, <2>1 DEF WireTypeOK
  <2>2. CASE wire' = [wire EXCEPT ![api_socket] = @ \o m]
    <3>1. ASSUME api_socket \in Conn PROVE wire[api_socket] \o m \in Seq(Event)
      BY <1>1, <3>1 DEF WireTypeOK
    <3>2. wire' \in [Conn -> Seq(Event)]
      BY <2>2, <3>1 DEF WireTypeOK
    <3> QED BY <1>1, <3>2 DEF WireTypeOK
  <2> QED BY <1>1, <2>1, <2>2 DEF Tell
<1>2. /\ <<"socket">> \in Seq(Event) /\ <<"init">> \in Seq(Event)
      /\ <<"init", "init">> \in Seq(Event) /\ <<"balance">> \in Seq(Event)
  BY DEF Event, Message
<1>3. ASSUME NEW b \in [BrokerSocket -> {"closed", "connecting", "open", "closing", "failing"}],
             Reconnect(b)
      PROVE  /\ broker' \in [BrokerSocket -> {"closed", "connecting", "open", "closing", "failing"}]
             /\ socket' \in BrokerSocket \cup {None}
  BY <1>3 DEF Reconnect, ConnectBroker, IsLeast, ExtTypeOK
<1>4. ASSUME NEW i \in BrokerSocket, BrokerOpens(i) PROVE WireTypeOK' /\ ExtTypeOK'
  BY <1>1, <1>2, <1>4 DEF BrokerOpens, ExtTypeOK
<1>5. ASSUME NEW i \in BrokerSocket, BrokerCloses(i) PROVE WireTypeOK' /\ ExtTypeOK'
  <2> DEFINE b == [broker EXCEPT ![i] = "closed"]
  <2>1. b \in [BrokerSocket -> {"closed", "connecting", "open", "closing", "failing"}]
    BY DEF ExtTypeOK
  <2> QED BY <1>1, <1>2, <1>3, <1>5, <2>1 DEF BrokerCloses, ExtTypeOK
<1>6. ASSUME NEW i \in BrokerSocket, BrokerFails(i) PROVE WireTypeOK' /\ ExtTypeOK'
  <2> DEFINE b == CloseSocket([broker EXCEPT ![i] = "closed"])
  <2>1. b \in [BrokerSocket -> {"closed", "connecting", "open", "closing", "failing"}]
    BY DEF ExtTypeOK, CloseSocket
  <2> QED BY <1>1, <1>2, <1>3, <1>6, <2>1 DEF BrokerFails, ExtTypeOK
<1>7. ASSUME NEW i \in BrokerSocket, BrokerSays(i) PROVE WireTypeOK' /\ ExtTypeOK'
  BY <1>1, <1>2, <1>7 DEF BrokerSays, ExtTypeOK, flagVars, sockVars
<1> QED BY <1>0, <1>4, <1>5, <1>6, <1>7 DEF Broker, BrokerLoss, BrokerPush

LEMMA TypesKept == BridgeTypeOK /\ [Next]_vars => BridgeTypeOK'
<1> SUFFICES ASSUME BridgeTypeOK, [Next]_vars PROVE BridgeTypeOK'
  OBVIOUS
<1>1. CASE UNCHANGED vars
  BY <1>1 DEF vars, wireVars, extVars, srvVars, flagVars, sockVars, threadVars, connVars,
              BridgeTypeOK, WireTypeOK, ExtTypeOK, ServerTypeOK
<1>2. CASE Next
  BY <1>2, ThreadsTyped, HandlersTyped, AppTyped, PageTyped, BrokerTyped DEF Next
<1> QED BY <1>1, <1>2

\* Every variable of Bridge has its type in every reachable state.
THEOREM BridgeTypeCorrect == Spec => []BridgeTypeOK
<1>1. Init => BridgeTypeOK BY InitTyped
<1>2. BridgeTypeOK /\ [Next]_vars => BridgeTypeOK' BY TypesKept
<1> QED BY <1>1, <1>2, PTL DEF Spec

-----------------------------------------------------------------------------
(* Who changes what                                                        *)

\* The steps of the program that BinomoApi belongs to
Program == \/ ServerThread \/ Handler \/ PingThread \/ Callback \/ OpenInCallback
           \/ Waiting \/ Timeout \/ Destroying \/ Minute \/ Destruction

\* The steps of the browser, the broker and the network
Browser == \/ Page \/ NoServer \/ \E i \in BrokerSocket : Broker(i)
           \/ BrokerLoss \/ BrokerPush \/ ApiLoss \/ Reload \/ SetPort

LEMMA TwoSides == Next => Program \/ Browser
BY DEF Next, Program, Browser

LEMMA BrowserFrame == Browser => UNCHANGED srvVars /\ (api_lost => api_lost')
BY DEF Browser, Page, NoServer, Broker, BrokerLoss, BrokerPush, ApiLoss, Reload, SetPort,
       worldVars, Trouble

LEMMA ProgramFrame == Program => UNCHANGED extVars /\ (api_lost => api_lost')
BY DEF Program, ServerThread, Handler, PingThread, Callback, OpenInCallback, Waiting,
       Timeout, Destroying, Minute, Destruction, worldVars

-----------------------------------------------------------------------------
(* The destructor                                                          *)

\* What the destructor relies on: no handler runs between two runs of the server,
\* and from its wait for the server on, at most one call is running or about to
\* be started, unless the server was made and not yet started when it was stopped.
DestroyInv ==
    /\ app \in {"stop", "locks", "futures", "server", "members", "done"} => is_shutdown
    /\ thread \in {"loop", "made", "done"} => handler = "idle"
    /\ app = "server" /\ thread \notin {"made", "serving"} =>
          IF handler = "idle" THEN starting <= 1 ELSE starting = 0
    /\ app = "members" => starting <= 1 /\ thread = "done"

LEMMA DestroyInvKept ==
    ASSUME BridgeTypeOK, DestroyInv, [Next]_vars
    PROVE  DestroyInv'
<1>1. CASE UNCHANGED vars \/ Browser
  BY <1>1, BrowserFrame DEF vars, srvVars, threadVars, DestroyInv
<1>0. starting \in Nat
  BY DEF BridgeTypeOK, ServerTypeOK
<1> USE <1>0 DEF DestroyInv
<1>2. ASSUME ServerThread PROVE DestroyInv'
  <2>1. ASSUME ServerLoop PROVE DestroyInv'
    BY <2>1 DEF ServerLoop
  <2>2. ASSUME ServerStart PROVE DestroyInv'
    BY <2>2 DEF ServerStart
  <2>3. ASSUME ServerStops PROVE DestroyInv'
    BY <2>3 DEF ServerStops
  <2> QED BY <1>2, <2>1, <2>2, <2>3 DEF ServerThread
<1>3. ASSUME Handler PROVE DestroyInv'
  <2>1. ASSUME NEW c \in Conn, NEW e, Handled(c, e) PROVE DestroyInv'
    BY <2>1 DEF Handled, threadVars
  <2>2. ASSUME SetConnected PROVE DestroyInv'
    BY <2>2 DEF SetConnected, HandlerFrame
  <2>3. ASSUME PushStart PROVE DestroyInv'
    BY <2>3 DEF PushStart, HandlerFrame
  <2>4. ASSUME ClearFutures PROVE DestroyInv'
    BY <2>4 DEF ClearFutures, HandlerFrame
  <2> QED
    BY <1>3, <2>1, <2>2, <2>3, <2>4
       DEF Handler, OnOpen, OnClose, OnError, ReceiveSocket, ReceiveOther, ReceiveUnreadable, ReceiveUnreadable
<1>4. ASSUME PingThread \/ Callback \/ OpenInCallback PROVE DestroyInv'
  BY <1>4 DEF PingThread, PingEnds, Callback, CallbackReturns, OpenInCallback, CallbackBlocks
<1> USE DEF App, AppFrame, Idles
<1>5. ASSUME Waiting \/ Minute \/ Destruction PROVE DestroyInv'
  BY <1>5 DEF Waiting, WaitLoop, WaitReturns, Minute, WaitMinute, Destruction, Destroy
<1>6. ASSUME Timeout PROVE DestroyInv'
  BY <1>6 DEF Timeout, WaitTimeout, Stop
<1>7. ASSUME Destroying PROVE DestroyInv'
  <2>1. ASSUME DestroyStops PROVE DestroyInv'
    BY <2>1 DEF DestroyStops, Stop
  <2>2. ASSUME DestroyFutures PROVE DestroyInv'
    BY <2>2 DEF DestroyFutures
  <2>3. ASSUME DestroyServer PROVE DestroyInv'
    BY <2>3 DEF DestroyServer
  <2>4. ASSUME DestroyMembers PROVE DestroyInv'
    BY <2>4 DEF DestroyMembers
  <2>5. ASSUME DestroyLocks PROVE DestroyInv'
    BY <2>5 DEF DestroyLocks
  <2> QED BY <1>7, <2>1, <2>2, <2>3, <2>4, <2>5 DEF Destroying
<1> QED BY <1>1, <1>2, <1>3, <1>4, <1>5, <1>6, <1>7, TwoSides DEF Program

LEMMA DestroyInvInit == Init => DestroyInv
BY DEF Init, ServerInit, DestroyInv

\* When the members of BinomoApi are destroyed, at most one call of on_start is
\* still running (~BinomoApi).
THEOREM DestructorLeavesOne == Spec => []AtMostOneOutlives
<1>1. Init => BridgeTypeOK /\ DestroyInv BY InitTyped, DestroyInvInit
<1>2. BridgeTypeOK /\ DestroyInv /\ [Next]_vars => BridgeTypeOK' /\ DestroyInv'
  BY TypesKept, DestroyInvKept
<1>3. DestroyInv => AtMostOneOutlives BY DEF DestroyInv, AtMostOneOutlives
<1> QED BY <1>1, <1>2, <1>3, PTL DEF Spec

-----------------------------------------------------------------------------
(* One connection and one broker socket                                    *)

\* The program changes no connection, except that a server that is stopped cuts
\* those that are open, after a time-out of wait() or in the destructor.
LEMMA ProgramLinks ==
    ASSUME DestroyInv, Program
    PROVE  UNCHANGED link \/ (CutAll /\ (api_lost' \/ is_shutdown'))
<1>1. ASSUME ServerThread \/ PingThread \/ Callback \/ OpenInCallback \/ Handler
             \/ Waiting \/ Minute \/ Destruction
      PROVE  UNCHANGED link
  BY <1>1 DEF ServerThread, ServerLoop, ServerStart, ServerStops, PingThread, PingEnds,
              Callback, CallbackReturns, OpenInCallback, CallbackBlocks, Handler, OnOpen,
              OnClose, OnError, ReceiveSocket, ReceiveOther, ReceiveUnreadable, Handled, SetConnected, PushStart,
              ClearFutures, HandlerFrame, Waiting, WaitLoop, WaitReturns, Minute, WaitMinute,
              Destruction, Destroy, Idles, wireVars
<1>2. ASSUME Timeout PROVE UNCHANGED link \/ (CutAll /\ api_lost')
  BY <1>2 DEF Timeout, WaitTimeout, Stop, wireVars
<1>3. ASSUME Destroying PROVE UNCHANGED link \/ (CutAll /\ is_shutdown')
  BY <1>3 DEF Destroying, DestroyStops, DestroyLocks, DestroyFutures, DestroyServer, DestroyMembers,
              App, Idles, Stop, DestroyInv, wireVars
<1> QED BY <1>1, <1>2, <1>3 DEF Program

LEMMA OneApiConnectionKept ==
    ASSUME BridgeTypeOK, DestroyInv, OneApiConnection, [Next]_vars
    PROVE  OneApiConnection'
<1> USE DEF OneApiConnection
<1>1. CASE UNCHANGED vars
  BY <1>1 DEF vars, wireVars, extVars
<1>2. CASE Program
  BY <1>2, ProgramFrame, ProgramLinks DEF extVars, CutAll
<1>0. WireTypeOK /\ ExtTypeOK
  BY DEF BridgeTypeOK
<1> USE <1>0 DEF WireTypeOK, ExtTypeOK
<1>3. ASSUME NEW c \in Conn, LoadPage(c) \/ ApiCloses(c) PROVE OneApiConnection'
  BY <1>3 DEF LoadPage, ApiCloses, Connect
<1>4. ASSUME ApiOpens PROVE OneApiConnection'
  BY <1>4 DEF ApiOpens
<1>5. ASSUME ApiRefused \/ (\E p \in Port : ChangePort(p)) PROVE OneApiConnection'
  BY <1>5 DEF ApiRefused, ChangePort, wireVars
<1>6. ASSUME NEW c \in Conn, NEW how, link[c] = "open", Cut(c, how), UNCHANGED extVars
      PROVE  OneApiConnection'
  BY <1>6 DEF Cut, extVars
<1>7. ASSUME UnloadPage PROVE OneApiConnection'
  BY <1>7 DEF UnloadPage
<1>8. ASSUME NEW i \in BrokerSocket,
             BrokerOpens(i) \/ BrokerCloses(i) \/ BrokerFails(i) \/ BrokerSays(i)
      PROVE  OneApiConnection'
  BY <1>8 DEF BrokerOpens, BrokerCloses, BrokerFails, BrokerSays
<1>9. CASE Browser
  BY <1>9, <1>3, <1>4, <1>5, <1>6, <1>7, <1>8
     DEF Browser, Page, NoServer, Broker, BrokerLoss, BrokerPush, ApiLoss, Reload, SetPort
<1> QED BY <1>1, <1>2, <1>9, TwoSides

LEMMA OneApiConnectionInit == Init => OneApiConnection
BY DEF Init, WireInit, OneApiConnection

\* Until a connection is lost, the script's own one is never cut, and there is a
\* broker socket only behind an open one.
BrokerInv ==
    ~ api_lost /\ ~ is_shutdown =>
        /\ \A i \in BrokerSocket :
              broker[i] # "closed" => i = socket /\ api_socket # None
                                      /\ link[api_socket] = "open"
        /\ api_socket # None => link[api_socket] \in {"connecting", "open"}

LEMMA BrokerInvKept ==
    ASSUME BridgeTypeOK, DestroyInv, BrokerInv, [Next]_vars
    PROVE  BrokerInv'
<1> USE DEF BrokerInv
<1>1. CASE UNCHANGED vars
  BY <1>1 DEF vars, wireVars, extVars, sockVars, srvVars, worldVars
<1>2. CASE Program
  <2>1. is_shutdown \in BOOLEAN /\ (is_shutdown => is_shutdown')
    BY <1>2 DEF BridgeTypeOK, ServerTypeOK, Program, ServerThread, ServerLoop, ServerStart,
           ServerStops, PingThread, PingEnds, Callback, CallbackReturns, OpenInCallback,
           CallbackBlocks, Handler, OnOpen, OnClose, OnError, ReceiveSocket, ReceiveOther, ReceiveUnreadable,
           Handled, SetConnected, PushStart, ClearFutures, HandlerFrame, Waiting, WaitLoop,
           WaitReturns, Timeout, WaitTimeout, Minute, WaitMinute, Destruction, Destroy,
           Destroying, DestroyStops, DestroyLocks, DestroyFutures, DestroyServer, DestroyMembers
  <2> QED BY <1>2, <2>1, ProgramFrame, ProgramLinks DEF extVars, sockVars
<1>0. WireTypeOK /\ ExtTypeOK
  BY DEF BridgeTypeOK
<1> USE <1>0 DEF WireTypeOK, ExtTypeOK
<1>3. ASSUME Browser, ~ api_lost', ~ is_shutdown' PROVE ~ api_lost /\ ~ is_shutdown
  BY <1>3, BrowserFrame DEF srvVars
<1>4. ASSUME NEW c \in Conn, LoadPage(c) \/ ApiCloses(c), ~ api_lost, ~ is_shutdown
      PROVE  /\ api_socket' = c /\ link'[c] = "connecting"
             /\ \A i \in BrokerSocket : broker'[i] = "closed"
  BY <1>4 DEF LoadPage, ApiCloses, Connect, sockVars
<1>5. ASSUME ApiOpens, ~ api_lost, ~ is_shutdown
      PROVE  /\ \A i \in BrokerSocket : broker'[i] # "closed" => i = socket'
             /\ api_socket' # None /\ link'[api_socket'] = "open"
  BY <1>5 DEF ApiOpens, ConnectBroker, IsLeast
<1>6. ASSUME ApiRefused, ~ api_lost, ~ is_shutdown
      PROVE  /\ api_socket' # None /\ link'[api_socket'] = "connecting"
             /\ \A i \in BrokerSocket : broker'[i] = "closed"
  BY <1>6 DEF ApiRefused, DropBroker, CloseSocket, wireVars
<1>7. ASSUME UnloadPage
      PROVE  api_socket' = None /\ \A i \in BrokerSocket : broker'[i] = "closed"
  BY <1>7 DEF UnloadPage
<1>8. ASSUME NEW p \in Port, ChangePort(p) PROVE UNCHANGED <<link, api_socket, sockVars>>
  BY <1>8 DEF ChangePort, wireVars
<1>9. ASSUME NEW i \in BrokerSocket, ~ api_lost, ~ is_shutdown,
             BrokerOpens(i) \/ BrokerCloses(i) \/ BrokerFails(i) \/ BrokerSays(i)
      PROVE  /\ \A j \in BrokerSocket : broker'[j] # "closed" => j = socket'
             /\ api_socket' # None /\ link'[api_socket'] = "open"
  <2>1. broker[i] # "closed" /\ i = socket /\ api_socket # None /\ link[api_socket] = "open"
    BY <1>9 DEF BrokerOpens, BrokerCloses, BrokerFails, BrokerSays, Live
  <2>2. \A j \in BrokerSocket : j # i => broker[j] = "closed"
    BY <1>9, <2>1
  <2>3. link' = link /\ api_socket' = api_socket
    BY <1>9 DEF BrokerOpens, BrokerCloses, BrokerFails, BrokerSays
  <2>4. CASE BrokerOpens(i) \/ BrokerSays(i)
    BY <2>1, <2>2, <2>3, <2>4 DEF BrokerOpens, BrokerSays, sockVars
  <2>5. CASE BrokerCloses(i) \/ BrokerFails(i)
    <3> DEFINE left == [broker EXCEPT ![i] = "closed"]
    <3>1. \A j \in BrokerSocket : left[j] = "closed"
      BY <2>2
    <3>2. left \in [BrokerSocket -> {"closed", "connecting", "open", "closing", "failing"}]
      OBVIOUS
    <3>3. \E b \in {left, CloseSocket(left)} : Reconnect(b)
      BY <2>5 DEF BrokerCloses, BrokerFails
    <3> HIDE DEF left
    <3>4. CloseSocket(left) = left
      <4>1. left[socket] = "closed" /\ socket # None
        BY <2>1, <3>1
      <4>2. CloseSocket(left) = [left EXCEPT ![socket] = left[socket]]
        BY <4>1 DEF CloseSocket
      <4> QED BY <3>2, <4>2
    <3>5. Reconnect(left)
      BY <3>3, <3>4
    <3>6. \A j \in BrokerSocket : broker'[j] # "closed" => j = socket'
      BY <3>1, <3>2, <3>5 DEF Reconnect, ConnectBroker, IsLeast
    <3> QED BY <2>1, <2>3, <3>6
  <2> QED BY <1>9, <2>4, <2>5
<1>10. CASE Browser
  <2> SUFFICES ASSUME ~ api_lost', ~ is_shutdown' PROVE BrokerInv'
    OBVIOUS
  <2>1. ~ api_lost /\ ~ is_shutdown
    BY <1>10, <1>3
  <2>2. CASE Page
    BY <2>1, <2>2, <1>4, <1>5 DEF Page
  <2>3. CASE NoServer
    BY <2>1, <2>3, <1>6 DEF NoServer
  <2>4. CASE (\E i \in BrokerSocket : Broker(i)) \/ BrokerLoss \/ BrokerPush
    BY <2>1, <2>4, <1>9 DEF Broker, BrokerLoss, BrokerPush
  <2>5. CASE ApiLoss \/ Reload
    BY <2>5, <1>7 DEF ApiLoss, Reload
  <2>6. CASE SetPort
    BY <2>1, <2>6, <1>8 DEF SetPort, sockVars
  <2> QED BY <1>10, <2>2, <2>3, <2>4, <2>5, <2>6 DEF Browser
<1> QED BY <1>1, <1>2, <1>10, TwoSides

LEMMA BrokerInvInit == Init => BrokerInv
BY DEF Init, ExtInit, BrokerInv

\* The script has one connection to the server, the one in api_socket
\* (connect_api).
THEOREM OneApiConnectionAlways == Spec => []OneApiConnection
<1> DEFINE Inv == BridgeTypeOK /\ DestroyInv /\ OneApiConnection
<1>1. Init => Inv BY InitTyped, DestroyInvInit, OneApiConnectionInit
<1>2. Inv /\ [Next]_vars => Inv' BY TypesKept, DestroyInvKept, OneApiConnectionKept
<1>3. Inv => OneApiConnection OBVIOUS
<1> QED BY <1>1, <1>2, <1>3, PTL DEF Spec

\* As long as no connection to the server was lost, there is one broker socket
\* and it is the newest (connect_broker).
THEOREM OneBrokerSocketAlways == Spec => []OneBrokerSocket
<1> DEFINE Inv == BridgeTypeOK /\ DestroyInv /\ BrokerInv
<1>1. Init => Inv BY InitTyped, DestroyInvInit, BrokerInvInit
<1>2. Inv /\ [Next]_vars => Inv' BY TypesKept, DestroyInvKept, BrokerInvKept
<1>3. Inv => OneBrokerSocket BY DEF BrokerInv, OneBrokerSocket, Live
<1> QED BY <1>1, <1>2, <1>3, PTL DEF Spec

-----------------------------------------------------------------------------
(* The connection the server sends to                                      *)

\* What the events of one connection are like: it opens first if it is still to
\* open, and it was not cut.
OpensFirst(w) == \A k \in DOMAIN w : w[k] = "open" => k = 1
Opening(w)    == w # <<>> /\ w[1] = "open"
Unbroken(w)   == \A k \in DOMAIN w : w[k] \notin {"closed", "failed"}

LEMMA TailOfEvents ==
    ASSUME NEW w \in Seq(Event), w # <<>>, OpensFirst(w)
    PROVE  /\ OpensFirst(Tail(w)) /\ ~ Opening(Tail(w))
           /\ Unbroken(w) => Unbroken(Tail(w))
           /\ Head(w) = "open" <=> Opening(w)
           /\ Unbroken(w) => Head(w) \notin {"closed", "failed"}
<1>1. Len(w) \in Nat /\ Len(w) > 0 /\ Len(Tail(w)) = Len(w) - 1
  OBVIOUS
<1>2. \A k \in DOMAIN Tail(w) : k + 1 \in DOMAIN w /\ Tail(w)[k] = w[k + 1] /\ k + 1 # 1
  BY <1>1
<1>3. Head(w) = w[1] /\ 1 \in DOMAIN w
  BY <1>1
<1>4. OpensFirst(Tail(w)) /\ ~ Opening(Tail(w))
  <2>1. \A k \in DOMAIN Tail(w) : Tail(w)[k] # "open"
    BY <1>2 DEF OpensFirst
  <2>2. Tail(w) # <<>> => 1 \in DOMAIN Tail(w)
    BY <1>1
  <2> QED BY <2>1, <2>2 DEF OpensFirst, Opening
<1>5. Unbroken(w) => Unbroken(Tail(w))
  BY <1>2 DEF Unbroken
<1> QED BY <1>3, <1>4, <1>5 DEF Opening, Unbroken

LEMMA MoreEvents ==
    ASSUME NEW w \in Seq(Event), NEW m \in Seq(Event), OpensFirst(w),
           \A k \in DOMAIN m : m[k] # "open"
    PROVE  /\ OpensFirst(w \o m) /\ (Opening(w \o m) <=> Opening(w))
           /\ Unbroken(w) /\ Unbroken(m) => Unbroken(w \o m)
<1>1. Len(w) \in Nat /\ Len(m) \in Nat /\ Len(w \o m) = Len(w) + Len(m)
  OBVIOUS
<1>2. \A k \in DOMAIN (w \o m) : \/ k \in DOMAIN w /\ (w \o m)[k] = w[k]
                                 \/ k - Len(w) \in DOMAIN m /\ (w \o m)[k] = m[k - Len(w)]
  BY <1>1
<1>3. OpensFirst(w \o m)
  BY <1>2 DEF OpensFirst
<1>4. Unbroken(w) /\ Unbroken(m) => Unbroken(w \o m)
  BY <1>2 DEF Unbroken
<1>5. CASE w = <<>>
  <2>1. w \o m = m
    BY <1>5
  <2>2. m # <<>> => 1 \in DOMAIN m
    BY <1>1
  <2> QED BY <1>3, <1>4, <1>5, <2>1, <2>2 DEF Opening
<1>6. CASE w # <<>>
  <2>1. (w \o m)[1] = w[1] /\ w \o m # <<>>
    BY <1>1, <1>6
  <2> QED BY <1>3, <1>4, <1>6, <2>1 DEF Opening
<1> QED BY <1>5, <1>6

LEMMA LastEvent ==
    ASSUME NEW w \in Seq(Event), NEW e \in {"closed", "failed"}, OpensFirst(w)
    PROVE  OpensFirst(Append(w, e)) /\ (Opening(Append(w, e)) <=> Opening(w))
<1>1. <<e>> \in Seq(Event) /\ \A k \in DOMAIN <<e>> : <<e>>[k] # "open"
  BY DEF Event
<1>2. Append(w, e) = w \o <<e>>
  OBVIOUS
<1> QED BY <1>1, <1>2, MoreEvents, ZenonT(60)

LEMMA NoEvents == OpensFirst(<<>>) /\ ~ Opening(<<>>) /\ Unbroken(<<>>)
BY DEF OpensFirst, Opening, Unbroken

LEMMA FirstEvent == OpensFirst(<<"open">>) /\ Opening(<<"open">>) /\ Unbroken(<<"open">>)
BY DEF OpensFirst, Opening, Unbroken

\* One connection at a time has an on_open to come, and once it has come the
\* server sends to the connection that is open; a new connection is not the one
\* the server knows.
NewestInv ==
    /\ \A c \in Conn : OpensFirst(wire[c])
    /\ \A c, d \in Conn : Opening(wire[c]) /\ Opening(wire[d]) => c = d
    /\ \A c \in Conn : link[c] = "open" =>
          /\ Unbroken(wire[c])
          /\ \/ Opening(wire[c])
             \/ current_connection = c /\ \A d \in Conn : ~ Opening(wire[d])
    /\ \A c \in Conn : link[c] = "connecting" => wire[c] = <<>> /\ current_connection # c

LEMMA NewestHandler ==
    ASSUME BridgeTypeOK, NewestInv, NEW c \in Conn,
           \/ OnOpen(c) \/ OnClose(c) \/ OnError(c) \/ ReceiveSocket(c) \/ ReceiveOther(c)
           \/ ReceiveUnreadable(c)
    PROVE  NewestInv'
<1>0. wire \in [Conn -> Seq(Event)] /\ link \in [Conn -> {"free", "connecting", "open", "cut"}]
  BY DEF BridgeTypeOK, WireTypeOK
<1>1. PICK e \in Event : Handled(c, e)
  BY DEF OnOpen, OnClose, OnError, ReceiveSocket, ReceiveOther, ReceiveUnreadable, Event, Message
<1>2. /\ wire[c] # <<>> /\ Head(wire[c]) = e /\ link' = link
      /\ wire' = [wire EXCEPT ![c] = Tail(@)]
  BY <1>1 DEF Handled
<1>3. /\ OpensFirst(Tail(wire[c])) /\ ~ Opening(Tail(wire[c]))
      /\ Unbroken(wire[c]) => Unbroken(Tail(wire[c])) /\ e \notin {"closed", "failed"}
      /\ e = "open" <=> Opening(wire[c])
  BY <1>0, <1>2, TailOfEvents DEF NewestInv
<1>4. \/ e = "open" /\ current_connection' = c
      \/ /\ e \in {"closed", "failed"}
         /\ IF current_connection = c THEN current_connection' = None
            ELSE current_connection' = current_connection
      \/ e \notin {"open", "closed", "failed"} /\ current_connection' = current_connection
  BY <1>2 DEF OnOpen, OnClose, OnError, ReceiveSocket, ReceiveOther, ReceiveUnreadable, Handled, Forget, connVars
<1>5. /\ wire'[c] = Tail(wire[c])
      /\ \A d \in Conn : d # c => wire'[d] = wire[d]
  BY <1>0, <1>2
<1>6. /\ \A d \in Conn : OpensFirst(wire'[d])
      /\ \A d \in Conn : Opening(wire'[d]) => d # c /\ Opening(wire[d])
  BY <1>3, <1>5 DEF NewestInv
<1>7. ASSUME NEW d \in Conn, link[d] = "open"
      PROVE  /\ Unbroken(wire'[d])
             /\ \/ Opening(wire'[d])
                \/ current_connection' = d /\ \A f \in Conn : ~ Opening(wire'[f])
  <2>1. Unbroken(wire'[d])
    BY <1>3, <1>5, <1>7 DEF NewestInv
  <2>2. CASE e = "open"
    <3>1. d = c
      BY <1>3, <1>7, <2>2 DEF NewestInv
    <3>2. \A f \in Conn : ~ Opening(wire'[f])
      BY <1>3, <1>6, <2>2 DEF NewestInv
    <3> QED BY <1>4, <2>1, <2>2, <3>1, <3>2
  <2>3. CASE e # "open"
    <3>1. CASE Opening(wire[d])
      <4>1. d # c
        BY <1>3, <2>3, <3>1
      <4> QED BY <1>5, <2>1, <3>1, <4>1
    <3>2. CASE ~ Opening(wire[d])
      <4>1. current_connection = d /\ \A f \in Conn : ~ Opening(wire[f])
        BY <1>7, <3>2 DEF NewestInv
      <4>2. \A f \in Conn : ~ Opening(wire'[f])
        BY <1>6, <4>1
      <4>3. current_connection' = d
        <5>1. CASE d = c
          BY <1>3, <1>4, <1>7, <2>3, <4>1, <5>1 DEF NewestInv
        <5>2. CASE d # c
          BY <1>4, <2>3, <4>1, <5>2
        <5> QED BY <5>1, <5>2
      <4> QED BY <2>1, <4>2, <4>3
    <3> QED BY <3>1, <3>2
  <2> QED BY <2>2, <2>3
<1>8. ASSUME NEW d \in Conn, link[d] = "connecting"
      PROVE  wire'[d] = <<>> /\ current_connection' # d
  <2>1. d # c /\ wire[d] = <<>> /\ current_connection # d
    BY <1>2, <1>8 DEF NewestInv
  <2> QED BY <1>4, <1>5, <2>1
<1>9. \A d, f \in Conn : Opening(wire'[d]) /\ Opening(wire'[f]) => d = f
  BY <1>6 DEF NewestInv
<1> QED BY <1>2, <1>6, <1>7, <1>8, <1>9 DEF NewestInv

LEMMA NewestProgram ==
    ASSUME BridgeTypeOK, NewestInv, Program
    PROVE  NewestInv'
<1>1. CASE \E c \in Conn : OnOpen(c) \/ OnClose(c) \/ OnError(c) \/ ReceiveSocket(c)
                           \/ ReceiveOther(c) \/ ReceiveUnreadable(c)
  BY <1>1, NewestHandler
<1>2. CASE UNCHANGED <<wireVars, current_connection>>
  BY <1>2 DEF wireVars, NewestInv
<1>3. CASE CutAll /\ UNCHANGED current_connection
  <2>1. link \in [Conn -> {"free", "connecting", "open", "cut"}]
    BY DEF BridgeTypeOK, WireTypeOK
  <2>2. \A c \in Conn : /\ wire'[c] = <<>>
                        /\ link'[c] # "open"
                        /\ link'[c] = "connecting" => link[c] = "connecting"
    BY <1>3, <2>1 DEF CutAll
  <2> QED BY <1>3, <2>2, NoEvents DEF NewestInv
<1>4. ASSUME ServerThread \/ PingThread \/ Callback \/ OpenInCallback \/ Waiting \/ Minute
             \/ Destruction \/ SetConnected \/ PushStart \/ ClearFutures
      PROVE  UNCHANGED <<wireVars, current_connection>>
  BY <1>4 DEF ServerThread, ServerLoop, ServerStart, ServerStops, PingThread, PingEnds,
              Callback, CallbackReturns, OpenInCallback, CallbackBlocks, SetConnected,
              PushStart, ClearFutures, HandlerFrame, Waiting, WaitLoop, WaitReturns, Minute,
              WaitMinute, Destruction, Destroy, Idles, AppFrame, connVars
<1>5. ASSUME Timeout \/ Destroying
      PROVE  \/ UNCHANGED <<wireVars, current_connection>>
             \/ CutAll /\ UNCHANGED current_connection
  BY <1>5 DEF Timeout, WaitTimeout, Destroying, DestroyStops, DestroyLocks, DestroyFutures, DestroyServer,
              DestroyMembers, Idles, Stop, AppFrame, connVars
<1> QED BY <1>1, <1>2, <1>3, <1>4, <1>5 DEF Program, Handler

\* A connection that ends takes nothing from the others.
LEMMA NewestEnds ==
    ASSUME NewestInv, NEW c \in Conn, UNCHANGED current_connection,
           OpensFirst(wire'[c]), Opening(wire'[c]) <=> Opening(wire[c]),
           link'[c] \in {"cut", "free"},
           \A d \in Conn : d # c => wire'[d] = wire[d] /\ link'[d] = link[d]
    PROVE  NewestInv'
<1> USE DEF NewestInv
<1>1. \A d \in Conn : OpensFirst(wire'[d]) /\ (Opening(wire'[d]) <=> Opening(wire[d]))
  <2> TAKE d \in Conn
  <2>1. CASE d = c
    BY <2>1
  <2>2. CASE d # c
    BY <2>2
  <2> QED BY <2>1, <2>2
<1>2. \A d \in Conn : link'[d] = "open" =>
          /\ Unbroken(wire'[d])
          /\ \/ Opening(wire'[d])
             \/ current_connection' = d /\ \A f \in Conn : ~ Opening(wire'[f])
  <2> SUFFICES ASSUME NEW d \in Conn, link'[d] = "open"
               PROVE  /\ Unbroken(wire'[d])
                      /\ \/ Opening(wire'[d])
                         \/ current_connection' = d /\ \A f \in Conn : ~ Opening(wire'[f])
    OBVIOUS
  <2>1. d # c
    OBVIOUS
  <2>2. wire'[d] = wire[d] /\ link[d] = "open"
    BY <2>1
  <2>3. Unbroken(wire[d])
    BY <2>2
  <2>4. Opening(wire[d]) \/ (current_connection = d /\ \A f \in Conn : ~ Opening(wire[f]))
    BY <2>2
  <2>5. CASE Opening(wire[d])
    BY <2>2, <2>3, <2>5
  <2>6. CASE current_connection = d /\ \A f \in Conn : ~ Opening(wire[f])
    <3>1. \A f \in Conn : ~ Opening(wire'[f])
      BY <1>1, <2>6, Zenon
    <3>2. Unbroken(wire'[d])
      BY <2>2, <2>3
    <3> QED BY <2>6, <3>1, <3>2
  <2> QED BY <2>4, <2>5, <2>6
<1>3. \A d \in Conn : link'[d] = "connecting" => wire'[d] = <<>> /\ current_connection' # d
  <2> SUFFICES ASSUME NEW d \in Conn, link'[d] = "connecting"
               PROVE  wire'[d] = <<>> /\ current_connection' # d
    OBVIOUS
  <2>1. d # c
    OBVIOUS
  <2>2. wire'[d] = wire[d] /\ link[d] = "connecting"
    BY <2>1
  <2> QED BY <2>2
<1>4. \A d, f \in Conn : Opening(wire'[d]) /\ Opening(wire'[f]) => d = f
  BY <1>1
<1> QED BY <1>1, <1>2, <1>3, <1>4

LEMMA NewestBrowser ==
    ASSUME BridgeTypeOK, OneApiConnection, NewestInv, Browser
    PROVE  NewestInv'
<1>0. /\ wire \in [Conn -> Seq(Event)] /\ link \in [Conn -> {"free", "connecting", "open", "cut"}]
      /\ api_socket \in Conn \cup {None}
  BY DEF BridgeTypeOK, WireTypeOK, ExtTypeOK
<1>c. current_connection' = current_connection
  BY BrowserFrame DEF srvVars, connVars
<1> USE <1>0, <1>c DEF NewestInv
<1>1. ASSUME NEW c \in Unused, LoadPage(c) \/ ApiCloses(c) PROVE NewestInv'
  <2>1. c \in Conn /\ wire[c] = <<>> /\ current_connection # c
    BY DEF Unused
  <2>2. /\ wire' = wire
        /\ \A d \in Conn : \/ link'[d] = link[d] \/ link'[d] = "free"
                           \/ d = c /\ link'[d] = "connecting"
    BY <1>1, <2>1 DEF LoadPage, ApiCloses, Connect
  <2> QED BY <2>1, <2>2
<1>2. ASSUME Answers, ApiOpens PROVE NewestInv'
  <2>1. api_socket \in Conn /\ link[api_socket] = "connecting" /\ wire[api_socket] = <<>>
    BY <1>2 DEF ApiOpens
  <2>2. /\ link' = [link EXCEPT ![api_socket] = "open"]
        /\ wire' = [wire EXCEPT ![api_socket] = <<"open">>]
    BY <1>2, <2>1 DEF ApiOpens
  <2>3. \A c \in Conn : wire[c] # <<>> => wire[c][1] # "open"
    BY <1>2 DEF Answers
  <2>4. \A c \in Conn : ~ Opening(wire[c])
    BY <2>3 DEF Opening
  <2>5. \A c \in Conn : c # api_socket => link'[c] = "free" /\ wire'[c] = wire[c]
    BY <2>1, <2>2 DEF OneApiConnection
  <2>6. wire'[api_socket] = <<"open">> /\ link'[api_socket] = "open"
    BY <2>1, <2>2
  <2> QED BY <2>1, <2>4, <2>5, <2>6, FirstEvent
<1>3. CASE UNCHANGED wireVars
  BY <1>3 DEF wireVars
<1>4. ASSUME NEW c \in Conn, NEW how \in {"closed", "failed"}, link[c] = "open", Cut(c, how)
      PROVE  NewestInv'
  <2>1. /\ link' = [link EXCEPT ![c] = "cut"]
        /\ wire' = [wire EXCEPT ![c] = Append(wire[c], how)]
    BY <1>4 DEF Cut
  <2>2. OpensFirst(Append(wire[c], how)) /\ (Opening(Append(wire[c], how)) <=> Opening(wire[c]))
    BY LastEvent
  <2>3. wire'[c] = Append(wire[c], how) /\ link'[c] = "cut"
    BY <2>1
  <2>4. \A d \in Conn : d # c => wire'[d] = wire[d] /\ link'[d] = link[d]
    BY <2>1
  <2> QED BY <2>2, <2>3, <2>4, NewestEnds
<1>5. ASSUME UnloadPage PROVE NewestInv'
  <2>1. api_socket \in Conn /\ link' = [link EXCEPT ![api_socket] = "free"]
    BY <1>5 DEF UnloadPage
  <2>2. /\ OpensFirst(Append(wire[api_socket], "closed"))
        /\ Opening(Append(wire[api_socket], "closed")) <=> Opening(wire[api_socket])
    BY <2>1, LastEvent
  <2>3. wire' \in {wire, [wire EXCEPT ![api_socket] = Append(wire[api_socket], "closed")]}
    BY <1>5 DEF UnloadPage
  <2>4. wire'[api_socket] \in {wire[api_socket], Append(wire[api_socket], "closed")}
    BY <2>1, <2>3
  <2>5. \A d \in Conn : d # api_socket => wire'[d] = wire[d] /\ link'[d] = link[d]
    BY <2>1, <2>3
  <2>6. link'[api_socket] = "free"
    BY <2>1
  <2>7. OpensFirst(wire'[api_socket]) /\ (Opening(wire'[api_socket]) <=> Opening(wire[api_socket]))
    BY <2>1, <2>2, <2>4
  <2> QED BY <2>1, <2>5, <2>6, <2>7, NewestEnds
<1>6. ASSUME NEW m \in Seq(Message), Tell(m), link' = link PROVE NewestInv'
  <2>1. CASE wire' = wire
    BY <1>6, <2>1
  <2>2. CASE link[api_socket] = "open" /\ wire' = [wire EXCEPT ![api_socket] = @ \o m]
    <3>1. CASE api_socket \in Conn
      <4>1. /\ m \in Seq(Event)
            /\ \A k \in DOMAIN m : m[k] \notin {"open", "closed", "failed"}
        BY DEF Event, Message
      <4>2. /\ OpensFirst(wire[api_socket] \o m)
            /\ Opening(wire[api_socket] \o m) <=> Opening(wire[api_socket])
            /\ Unbroken(wire[api_socket]) => Unbroken(wire[api_socket] \o m)
        BY <3>1, <4>1, MoreEvents DEF Unbroken
      <4>3. wire'[api_socket] = wire[api_socket] \o m
        BY <2>2, <3>1
      <4>4. \A d \in Conn : d # api_socket => wire'[d] = wire[d]
        BY <2>2, <3>1
      <4> QED BY <1>6, <2>2, <3>1, <4>2, <4>3, <4>4
    <3>2. CASE api_socket \notin Conn
      BY <1>6, <2>2, <3>2
    <3> QED BY <3>1, <3>2
  <2> QED BY <1>6, <2>1, <2>2 DEF Tell
<1>7. ASSUME NEW i \in BrokerSocket,
             BrokerOpens(i) \/ BrokerCloses(i) \/ BrokerFails(i) \/ BrokerSays(i)
      PROVE  NewestInv'
  <2>1. /\ <<"socket">> \in Seq(Message) /\ <<"init">> \in Seq(Message)
        /\ <<"init", "init">> \in Seq(Message) /\ <<"balance">> \in Seq(Message)
    BY DEF Message
  <2>2. link' = link
    BY <1>7 DEF BrokerOpens, BrokerCloses, BrokerFails, BrokerSays
  <2>3. \E m \in Seq(Message) : Tell(m)
    BY <1>7, <2>1 DEF BrokerOpens, BrokerCloses, BrokerFails, BrokerSays
  <2> QED BY <1>6, <2>2, <2>3
<1>8. CASE Page
  BY <1>1, <1>2, <1>8 DEF Page, IsLeast
<1>9. CASE NoServer \/ SetPort
  BY <1>3, <1>9 DEF NoServer, ApiRefused, SetPort, ChangePort
<1>10. CASE ApiLoss \/ Reload
  BY <1>3, <1>4, <1>5, <1>10 DEF ApiLoss, ApiRefused, Reload
<1>11. CASE (\E i \in BrokerSocket : Broker(i)) \/ BrokerLoss \/ BrokerPush
  BY <1>7, <1>11 DEF Broker, BrokerLoss, BrokerPush
<1> QED BY <1>8, <1>9, <1>10, <1>11 DEF Browser

LEMMA NewestInvInit == Init => NewestInv
BY NoEvents DEF Init, WireInit, NewestInv

\* Once the server has seen everything, it sends to the connection that is open
\* (on_open, on_close, on_error).
THEOREM SendsToNewestAlways == Spec => []SendsToNewest
<1> DEFINE Inv == BridgeTypeOK /\ DestroyInv /\ OneApiConnection /\ NewestInv
<1>1. Init => Inv
  BY InitTyped, DestroyInvInit, OneApiConnectionInit, NewestInvInit
<1>2. Inv /\ [Next]_vars => Inv'
  <2> SUFFICES ASSUME Inv, [Next]_vars PROVE Inv'
    OBVIOUS
  <2>1. NewestInv'
    <3>1. CASE UNCHANGED vars
      BY <3>1 DEF vars, wireVars, srvVars, connVars, NewestInv
    <3> QED BY <3>1, NewestProgram, NewestBrowser, TwoSides
  <2> QED BY <2>1, TypesKept, DestroyInvKept, OneApiConnectionKept
<1>3. Inv => SendsToNewest
  BY DEF BridgeTypeOK, ExtTypeOK, NewestInv, SendsToNewest, Opening
<1> QED BY <1>1, <1>2, <1>3, PTL DEF Spec
=============================================================================
