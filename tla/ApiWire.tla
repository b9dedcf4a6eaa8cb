------------------------------- MODULE ApiWire -------------------------------
(***************************************************************************)
(* What lies between the browser extension (Extension) and the WebSocket   *)
(* server of BinomoApi (Server): the connections the extension makes to    *)
(* ws://localhost:port/binomo-api and the events the server has yet to     *)
(* see on each.  The two network stacks are external.                      *)
(***************************************************************************)
EXTENDS Naturals, Sequences

CONSTANTS
    Conn,    \* identities of connections, used again once nothing is left of them
    None     \* no connection

ASSUME ConnAssumption == Conn \subseteq Nat \ {0} /\ None \notin Conn

VARIABLES
    link,    \* each connection as the browser sees it
    wire     \* the calls each connection still owes the server, in order

wireVars == <<link, wire>>

\* The extension's messages: a broker session that opened, one that is lost or
\* fails to open ("init"), and what the broker itself says.
Message == {"socket", "init", "balance"}
Event   == Message \cup {"open", "closed", "failed"}

WireTypeOK ==
    /\ link \in [Conn -> {"free", "connecting", "open", "cut"}]
    /\ wire \in [Conn -> Seq(Event)]

WireInit ==
    /\ link = [c \in Conn |-> "free"]
    /\ wire = [c \in Conn |-> <<>>]

\* The connection breaks, and the server is told of it after all that was sent.
Cut(c, how) ==
    /\ link' = [link EXCEPT ![c] = "cut"]
    /\ wire' = [wire EXCEPT ![c] = Append(@, how)]

\* The server closes every connection without a call of on_close.
CutAll ==
    /\ link' = [c \in Conn |-> IF link[c] = "open" THEN "cut" ELSE link[c]]
    /\ wire' = [c \in Conn |-> <<>>]
=============================================================================
