-------------------------------- MODULE Deals --------------------------------
(***************************************************************************)
(* The deal tracker of BinomoApi (include/binomo-cpp-api.hpp): the threads *)
(* that async_open_bo starts, the WebSocket thread that parses what the    *)
(* browser extension forwards from the broker, and the ping thread.  They  *)
(* share the four maps that tie a request number, a deal uuid and a broker *)
(* deal id to a bet.                                                       *)
(*                                                                         *)
(* Atomicity: one action per critical section of the code (a std::mutex    *)
(* scope or an access to one std::atomic).  Two neighbouring accesses are  *)
(* one action only where no other thread reads both objects.               *)
(*                                                                         *)
(* Data: a deal's uuid and its broker id are both named after the task     *)
(* whose request created the deal, a market stands for a symbol with a     *)
(* closing timestamp, and a price is a small natural number, 0 for "none". *)
(***************************************************************************)
EXTENDS Naturals, Sequences, TLC

CONSTANTS
    Task,         \* the calls of async_open_bo, each with its std::async thread
    None,         \* an absent map entry, uuid, broker id or bet
    Market,       \* pairs (symbol, closing timestamp) a bet can be opened on
    Closing,      \* the closing timestamp of each market
    Reclosed,     \* the market of a bet that takes its closing time from another
    Grace,        \* xtime::SECONDS_IN_MINUTE, in ticks of the model's clock
    BetsDelay,    \* bets_delay, in ticks of the model's clock
    Trends,       \* the contract types callers ask for
    OpenRates,    \* prices at which the broker opens deals
    EndRates,     \* prices at which the broker closes markets
    JoinRef,      \* join_ref, the request number of phx_join
    PingsRefused, \* whether the broker may answer phx_join and pings with an error
    IsoResults,   \* results convert_iso has on the broker's timestamps
    \* Bounds of the model
    Horizon,      \* the clock stops here
    MaxRef,       \* last request number handed out
    MaxBetId,     \* last api_bet_id handed out
    MaxOpens,     \* times the extension reports an open broker socket
    MaxDrops,     \* connections lost, and attempts to connect that fail
    MaxPings,     \* rounds of the ping thread
    MaxClears,    \* calls of clear_bets_array
    CanShutDown   \* whether the object may be destroyed

ASSUME NoneAssumption ==
    /\ None \notin Task
    /\ None \notin Nat

ASSUME MarketAssumption ==
    /\ Closing \in [Market -> Nat \ {0}]
    /\ Reclosed \in [Market \X Market -> Market]

ASSUME RateAssumption ==
    /\ Trends \subseteq {"BUY", "SELL"}
    /\ OpenRates \subseteq Nat \ {0}
    /\ EndRates \subseteq Nat \ {0}

ASSUME TimingAssumption ==
    /\ BetsDelay \in Nat
    /\ Grace \in Nat
    /\ Horizon \in Nat

ASSUME CounterAssumption ==
    /\ JoinRef \in Nat
    /\ MaxRef \in Nat
    /\ JoinRef =< MaxRef
    /\ MaxBetId \in Nat

ASSUME BoundAssumption ==
    /\ {MaxOpens, MaxDrops, MaxPings, MaxClears} \subseteq Nat
    /\ CanShutDown \in BOOLEAN
    /\ PingsRefused \in BOOLEAN
    /\ IsoResults \subseteq BOOLEAN

Ref   == JoinRef .. MaxRef
BetId == 0 .. MaxBetId

Final  == {"OPENING_ERROR", "CHECK_ERROR", "WIN", "LOSS"}
Status == Final \cup {"UNKNOWN_STATE", "WAITING_COMPLETION"}

\* common::Bet, its fields that decide what happens to a deal
Bet == [contract_type : Trends,
        market        : Market,
        status        : Status,
        broker_bet_id : Task \cup {None},
        open_price    : OpenRates \cup {0}]

ASSUME NoBetAssumption == None \notin Bet

NewBet(c, m) == [contract_type |-> c, market |-> m,
                 status |-> "UNKNOWN_STATE",
                 broker_bet_id |-> None, open_price |-> 0]

-----------------------------------------------------------------------------
VARIABLES
    \* The thread of each call
    pc,               \* where it is
    ref,              \* current_ref
    bet_id,           \* api_bet_id
    user_bet,         \* user_bet
    bet,              \* its own copy, bet
    last_bet_status,  \* last_bet_status of its poll loop
    reported,         \* the statuses its callback was given
    \* BinomoApi
    array_bets, ref_to_bet_id, uuid_to_bet_id, broker_bet_id_to_bet_id,
    ref_counter, bets_id_counter,
    since,            \* time passed since bets_last_timestamp, up to BetsDelay
    is_connected,
    current_connection,
    is_shutdown,
    handler,          \* the WebSocket thread, between two of its sections
    ping,             \* whether the ping thread has seen is_connected
    \* The extension, the broker and time
    inbox,            \* messages on their way to on_message
    requests,         \* requests on their way to the broker
    broker_up,        \* the extension's socket to the broker
    deal,             \* what the broker did with the request of each task
    end_rate,         \* the price each market closed at, 0 before that
    now,
    used              \* how much of each bound is used up

callVars   == <<ref, bet_id, user_bet>>
copyVars   == <<bet, last_bet_status, reported>>
localVars  == <<callVars, copyVars>>
indexVars  == <<ref_to_bet_id, uuid_to_bet_id, broker_bet_id_to_bet_id>>
mapVars    == <<array_bets, indexVars>>
counters   == <<ref_counter, bets_id_counter>>
connVars   == <<is_connected, current_connection, is_shutdown>>
apiVars    == <<counters, since, connVars, handler, ping>>
brokerVars == <<broker_up, deal, end_rate>>
envVars    == <<inbox, requests, brokerVars, now, used>>

vars == <<pc, localVars, mapVars, apiVars, envVars>>

\* What no step of a bet's thread, of a message handler, or of the extension,
\* the broker and their network changes.
ThreadFrame  == UNCHANGED <<callVars, counters, connVars, handler, ping,
                            inbox, brokerVars, now, used>>
HandlerFrame == UNCHANGED <<pc, localVars, bets_id_counter, since,
                            current_connection, is_shutdown, ping, brokerVars,
                            now, used>>
WorldFrame   == UNCHANGED <<pc, localVars, mapVars, apiVars, now>>

BoundNames == {"opens", "drops", "pings", "clears"}

Idle == [at |-> "idle", bet_id |-> None, uuid |-> None, open_rate |-> 0,
         market |-> None]

Init ==
    /\ pc = [t \in Task |-> "idle"]
    /\ ref = [t \in Task |-> JoinRef]
    /\ bet_id = [t \in Task |-> None]
    /\ user_bet = [t \in Task |-> None]
    /\ bet = [t \in Task |-> None]
    /\ last_bet_status = [t \in Task |-> "UNKNOWN_STATE"]
    /\ reported = [t \in Task |-> <<>>]
    /\ array_bets = [i \in BetId |-> None]
    /\ ref_to_bet_id = [r \in Ref |-> None]
    /\ uuid_to_bet_id = [u \in Task |-> None]
    /\ broker_bet_id_to_bet_id = [b \in Task |-> None]
    /\ ref_counter = JoinRef
    /\ bets_id_counter = 0
    /\ since = BetsDelay          \* bets_last_timestamp = 0: no delay is due
    /\ is_connected = FALSE
    /\ current_connection = FALSE
    /\ is_shutdown = FALSE
    /\ handler = Idle
    /\ ping = FALSE
    /\ inbox = <<>>
    /\ requests = {}
    /\ broker_up = FALSE
    /\ deal = [t \in Task |-> "none"]
    /\ end_rate = [m \in Market |-> 0]
    /\ now = 0
    /\ used = [b \in BoundNames |-> 0]

Bounded(b, max) == used[b] < max /\ used' = [used EXCEPT ![b] = @ + 1]

\* The extension passes a request on while its broker socket is open and
\* drops it otherwise; send() drops it without a current connection.  A good
\* answer to phx_join or a ping (t = None) has no uuid and changes nothing, so
\* these requests are followed only when the broker may refuse them.
Send(t, r) ==
    requests' = IF current_connection /\ broker_up /\ (t # None \/ PingsRefused)
                THEN requests \cup {[task |-> t, ref |-> r]}
                ELSE requests

\* ref_counter++
DrawRef == ref_counter =< MaxRef /\ ref_counter' = ref_counter + 1

Goto(t, label) == pc' = [pc EXCEPT ![t] = label]

-----------------------------------------------------------------------------
(***************************************************************************)
(* async_open_bo: the caller's part.  The connection check, the request    *)
(* number and the api_bet_id are three separate accesses.  Nothing here    *)
(* looks at is_shutdown: a callback may call while the destructor waits.   *)
(***************************************************************************)
CheckConnected(t) ==
    /\ pc[t] = "idle"
    /\ is_connected               \* else AUTHORIZATION_ERROR
    /\ Goto(t, "checked")
    /\ ThreadFrame /\ UNCHANGED <<copyVars, mapVars, since, requests>>

\* The number and the arguments of the call
DrawNumber(t) ==
    /\ pc[t] = "checked"
    /\ ref' = [ref EXCEPT ![t] = ref_counter]
    /\ DrawRef
    /\ \E c \in Trends, m \in Market :
          /\ now < Closing[m]
          /\ user_bet' = [user_bet EXCEPT ![t] = NewBet(c, m)]
    /\ Goto(t, "drawn")
    /\ UNCHANGED <<bet_id, copyVars, mapVars, bets_id_counter, since, connVars,
                   handler, ping, envVars>>

\* The section of bets_id_counter_mutex; then the thread is started.
TakeBetId(t) ==
    /\ pc[t] = "drawn"
    /\ bets_id_counter =< MaxBetId
    /\ bet_id' = [bet_id EXCEPT ![t] = bets_id_counter]
    /\ bets_id_counter' = bets_id_counter + 1
    /\ Goto(t, "delay")
    /\ UNCHANGED <<ref, user_bet, copyVars, mapVars, ref_counter, since, connVars,
                   handler, ping, envVars>>

TakeNumbers(t) == DrawNumber(t) \/ TakeBetId(t)

(***************************************************************************)
(* async_open_bo: the thread.                                              *)
(***************************************************************************)
\* bets_last_timestamp is read here and written in Stamp, with no lock held.
DelayOver(t) ==
    /\ pc[t] = "delay"
    /\ since = BetsDelay
    /\ Goto(t, "stamp")
    /\ ThreadFrame /\ UNCHANGED <<copyVars, mapVars, since, requests>>

DelayStopped(t) ==
    /\ pc[t] = "delay"
    /\ since < BetsDelay
    /\ is_shutdown
    /\ Goto(t, "stopped")
    /\ ThreadFrame /\ UNCHANGED <<copyVars, mapVars, since, requests>>

Stamp(t) ==
    /\ pc[t] = "stamp"
    /\ since' = 0
    /\ bet' = [bet EXCEPT ![t] = user_bet[t]]
    /\ array_bets' = [array_bets EXCEPT ![bet_id[t]] = user_bet[t]]
    /\ Goto(t, "map_ref")
    /\ ThreadFrame /\ UNCHANGED <<last_bet_status, reported, indexVars,
                                  requests>>

\* Mutant: the thread takes the number from the counter, not from current_ref.
MapRefLate(t) ==
    /\ pc[t] = "map_ref"
    /\ ref_to_bet_id' = [ref_to_bet_id EXCEPT ![ref_counter - 1] = bet_id[t]]
    /\ Goto(t, "send")
    /\ ThreadFrame /\ UNCHANGED <<copyVars, array_bets, uuid_to_bet_id,
                                  broker_bet_id_to_bet_id, since, requests>>

MapRef(t) ==
    /\ pc[t] = "map_ref"
    /\ ref_to_bet_id' = [ref_to_bet_id EXCEPT ![ref[t]] = bet_id[t]]
    /\ Goto(t, "send")
    /\ ThreadFrame /\ UNCHANGED <<copyVars, array_bets, uuid_to_bet_id,
                                  broker_bet_id_to_bet_id, since, requests>>

Callback(t, s) == reported' = [reported EXCEPT ![t] = Append(@, s)]

SendRequest(t) ==
    /\ pc[t] = "send"
    /\ Send(t, ref[t])
    /\ Callback(t, "UNKNOWN_STATE")
    /\ last_bet_status' = [last_bet_status EXCEPT ![t] = "UNKNOWN_STATE"]
    /\ Goto(t, "poll")
    /\ ThreadFrame /\ UNCHANGED <<bet, mapVars, since>>

\* Mutant: the loop runs on while there is a bet, whatever the destructor says.
PollRoundUnstopped(t) ==
    /\ pc[t] = "poll"
    /\ Goto(t, "read")
    /\ ThreadFrame /\ UNCHANGED <<copyVars, mapVars, since, requests>>

\* The head of the poll loop; a round that passed it reads the bet after its
\* sleep, whatever the destructor did meanwhile.
PollRound(t) ==
    /\ pc[t] = "poll"
    /\ Goto(t, IF is_shutdown THEN "stopped" ELSE "read")
    /\ ThreadFrame /\ UNCHANGED <<copyVars, mapVars, since, requests>>

SameStatus(t) ==
    /\ array_bets[bet_id[t]] # None
    /\ array_bets[bet_id[t]].status = last_bet_status[t]

\* An unchanged status ends the round, before the closing time is looked at.
ReadSame(t) ==
    /\ pc[t] = "read"
    /\ SameStatus(t)
    /\ Goto(t, "poll")
    /\ ThreadFrame /\ UNCHANGED <<copyVars, mapVars, since, requests>>

\* Mutant: no minute of grace, and the closing time itself counts as late.
FoundEarly(t) ==
    LET stored == array_bets[bet_id[t]]
        late   == now >= Closing[user_bet[t].market]
    IN  IF stored = None \/ late
        THEN [bet[t] EXCEPT !.status = "CHECK_ERROR"]
        ELSE stored

\* What a round reports otherwise: the bet as it is now, CHECK_ERROR for a bet
\* that is gone, and CHECK_ERROR for a change that comes more than a minute
\* after the closing time.
Found(t) ==
    LET stored == array_bets[bet_id[t]]
        late   == now > Closing[user_bet[t].market] + Grace
    IN  IF stored = None \/ late
        THEN [bet[t] EXCEPT !.status = "CHECK_ERROR"]
        ELSE stored

\* Whether what a round reports ends the loop.
\* Mutant: the stored bet decides instead of the report.
EndsByStored(t) ==
    array_bets[bet_id[t]] # None /\ array_bets[bet_id[t]].status \in Final

Ends(t) == Found(t).status \in Final

ReadChanged(t) ==
    /\ pc[t] = "read"
    /\ ~SameStatus(t)
    /\ IF array_bets[bet_id[t]] = None
       THEN UNCHANGED last_bet_status
       ELSE last_bet_status' = [last_bet_status EXCEPT
                                   ![t] = array_bets[bet_id[t]].status]
    /\ bet' = [bet EXCEPT ![t] = Found(t)]
    /\ Callback(t, Found(t).status)
    /\ Goto(t, IF Ends(t) THEN "erase_broker" ELSE "poll")
    /\ ThreadFrame /\ UNCHANGED <<mapVars, since, requests>>

EraseBroker(t) ==
    /\ pc[t] = "erase_broker"
    /\ broker_bet_id_to_bet_id' =
          [b \in Task |-> IF b = bet[t].broker_bet_id
                          THEN None ELSE broker_bet_id_to_bet_id[b]]
    /\ Goto(t, "erase_ref")
    /\ ThreadFrame /\ UNCHANGED <<copyVars, array_bets, ref_to_bet_id,
                                  uuid_to_bet_id, since, requests>>

\* Mutant: the number is erased with the bet's copy, under the wrong key.
EraseRefByBet(t) ==
    /\ pc[t] = "erase_ref"
    /\ ref_to_bet_id' = [r \in Ref |-> IF r = bet_id[t] THEN None ELSE ref_to_bet_id[r]]
    /\ Goto(t, "erase_bet")
    /\ ThreadFrame /\ UNCHANGED <<copyVars, array_bets, uuid_to_bet_id,
                                  broker_bet_id_to_bet_id, since, requests>>

EraseRef(t) ==
    /\ pc[t] = "erase_ref"
    /\ ref_to_bet_id' = [ref_to_bet_id EXCEPT ![ref[t]] = None]
    /\ Goto(t, "erase_bet")
    /\ ThreadFrame /\ UNCHANGED <<copyVars, array_bets, uuid_to_bet_id,
                                  broker_bet_id_to_bet_id, since, requests>>

EraseBet(t) ==
    /\ pc[t] = "erase_bet"
    /\ array_bets' = [array_bets EXCEPT ![bet_id[t]] = None]
    /\ bet' = [bet EXCEPT ![t] = None]                  \* the thread ends
    /\ last_bet_status' = [last_bet_status EXCEPT ![t] = "UNKNOWN_STATE"]
    /\ Goto(t, "done")
    /\ ThreadFrame /\ UNCHANGED <<reported, indexVars, since, requests>>

Thread(t) ==
    \/ DelayOver(t) \/ DelayStopped(t) \/ Stamp(t) \/ MapRef(t) \/ SendRequest(t)
    \/ PollRound(t) \/ ReadSame(t) \/ ReadChanged(t)
    \/ EraseBroker(t) \/ EraseRef(t) \/ EraseBet(t)

-----------------------------------------------------------------------------
(***************************************************************************)
(* The WebSocket thread.  on_message runs one handler at a time; a handler *)
(* that takes several locks gives other threads a chance between them, and *)
(* its last step ends with is_connected = true, whatever the message was.  *)
(* No handler looks at is_shutdown: what runs or has arrived when the      *)
(* destructor stops the server may still be handled, or not.               *)
(***************************************************************************)
Receiving(event) ==
    /\ handler = Idle
    /\ current_connection
    /\ inbox # <<>> /\ Head(inbox).event = event
    /\ inbox' = Tail(inbox)

HandlerDone == handler' = Idle /\ is_connected' = TRUE

\* Mutant: the number is not looked for before the bet is taken.
ReceiveReplyUnchecked ==
    /\ Receiving("phx_reply")
    /\ LET m == Head(inbox)
       IN  handler' = [Idle EXCEPT !.at = IF m.uuid # None THEN "uuid" ELSE "refused",
                                   !.bet_id = ref_to_bet_id[m.ref],
                                   !.uuid = m.uuid]
    /\ HandlerFrame /\ UNCHANGED <<is_connected, mapVars, ref_counter, requests>>

\* parse_phx_reply: a reply to a request nobody waits for is dropped.
ReceiveReply ==
    /\ Receiving("phx_reply")
    /\ LET m == Head(inbox)
           i == ref_to_bet_id[m.ref]
       IN  IF i = None
           THEN HandlerDone
           ELSE /\ handler' = [Idle EXCEPT !.at = IF m.uuid # None
                                                  THEN "uuid" ELSE "refused",
                                           !.bet_id = i,
                                           !.uuid = m.uuid]
                /\ UNCHANGED is_connected
    /\ HandlerFrame /\ UNCHANGED <<mapVars, ref_counter, requests>>

StoreUuid ==
    /\ handler.at = "uuid"
    /\ uuid_to_bet_id' = [uuid_to_bet_id EXCEPT ![handler.uuid] = handler.bet_id]
    /\ HandlerDone
    /\ HandlerFrame /\ UNCHANGED <<array_bets, ref_to_bet_id,
                                   broker_bet_id_to_bet_id, ref_counter, inbox,
                                   requests>>

\* Mutant: array_bets[i] creates the bet it does not find.
UpdateBetCreating(i, b) ==
    array_bets' = [array_bets EXCEPT ![i] =
                      IF @ = None
                      THEN NewBet(CHOOSE c \in Trends : TRUE, CHOOSE m \in Market : TRUE)
                      ELSE b]

\* A handler changes the bets it finds and never adds one.
UpdateBet(i, b) ==
    array_bets' = IF array_bets[i] = None
                  THEN array_bets
                  ELSE [array_bets EXCEPT ![i] = b]

MarkRefused ==
    /\ handler.at = "refused"
    /\ UpdateBet(handler.bet_id,
                 [array_bets[handler.bet_id] EXCEPT !.status = "OPENING_ERROR"])
    /\ HandlerDone
    /\ HandlerFrame /\ UNCHANGED <<indexVars, ref_counter, inbox, requests>>

\* parse_deal_created
ReceiveCreated ==
    /\ Receiving("deal_created")
    /\ LET m == Head(inbox)
           i == uuid_to_bet_id[m.uuid]
       IN  IF i = None
           THEN HandlerDone
           ELSE /\ handler' = [at |-> "created", bet_id |-> i, uuid |-> m.uuid,
                               open_rate |-> m.open_rate, market |-> m.market]
                /\ UNCHANGED is_connected
    /\ HandlerFrame /\ UNCHANGED <<mapVars, ref_counter, requests>>

MapBrokerId ==
    /\ handler.at = "created"
    /\ broker_bet_id_to_bet_id' =
          [broker_bet_id_to_bet_id EXCEPT ![handler.uuid] = handler.bet_id]
    /\ handler' = [handler EXCEPT !.at = "opened"]
    /\ HandlerFrame /\ UNCHANGED <<array_bets, ref_to_bet_id, uuid_to_bet_id,
                                   ref_counter, is_connected, inbox, requests>>

\* The bet takes the closing time the broker gives its deal.  A timestamp
\* convert_iso cannot read makes the bet a CHECK_ERROR before its price is
\* stored; the broker id is there already, the closing time is or is not.
MarkCreated ==
    /\ handler.at = "opened"
    /\ LET old    == array_bets[handler.bet_id]
           known  == [old EXCEPT !.broker_bet_id = handler.uuid]
           closed == [known EXCEPT !.market = Reclosed[<<old.market, handler.market>>]]
       IN  \/ /\ TRUE \in IsoResults
              /\ UpdateBet(handler.bet_id,
                           [closed EXCEPT !.open_price = handler.open_rate,
                                          !.status = "WAITING_COMPLETION"])
           \/ /\ FALSE \in IsoResults
              /\ \E b \in {known, closed} :
                    UpdateBet(handler.bet_id, [b EXCEPT !.status = "CHECK_ERROR"])
    /\ HandlerDone
    /\ HandlerFrame /\ UNCHANGED <<indexVars, ref_counter, inbox, requests>>

\* parse_close_deal_batch: every bet of the market is settled, whatever its
\* status; an equal price is a loss.
Wins(b, rate) ==
    \/ b.contract_type = "BUY" /\ rate > b.open_price
    \/ b.contract_type = "SELL" /\ rate < b.open_price

Settled(b, rate) ==
    [b EXCEPT !.status = IF Wins(b, rate) THEN "WIN" ELSE "LOSS"]

\* Mutant: a close settles the bets of every market.
InBatchAny(b, m) == b # None

InBatch(b, m) == b # None /\ b.market = m

ReceiveClose ==
    /\ Receiving("close_deal_batch")
    /\ LET m == Head(inbox)
       IN  array_bets' =
              [i \in BetId |-> IF InBatch(array_bets[i], m.market)
                               THEN Settled(array_bets[i], m.end_rate)
                               ELSE array_bets[i]]
    /\ HandlerDone
    /\ HandlerFrame /\ UNCHANGED <<indexVars, ref_counter, requests>>

\* parse_socket: numbering starts again at JoinRef for the new broker session.
ReceiveSocket ==
    /\ Receiving("socket")
    /\ is_connected' = FALSE
    /\ ref_counter' = JoinRef
    /\ handler' = [Idle EXCEPT !.at = "join"]
    /\ HandlerFrame /\ UNCHANGED <<mapVars, requests>>

SendJoin ==
    /\ handler.at = "join"
    /\ Send(None, ref_counter)
    /\ DrawRef
    /\ handler' = [Idle EXCEPT !.at = "ping"]
    /\ HandlerFrame /\ UNCHANGED <<mapVars, is_connected, inbox>>

SendFirstPing ==
    /\ handler.at = "ping"
    /\ Send(None, ref_counter)
    /\ DrawRef
    /\ HandlerDone
    /\ HandlerFrame /\ UNCHANGED <<mapVars, inbox>>

\* "init" messages, answers to pings, quotes of opinion: nothing is stored.
ReceiveOther ==
    /\ Receiving("other")
    /\ HandlerDone
    /\ HandlerFrame /\ UNCHANGED <<mapVars, ref_counter, requests>>

Handler ==
    \/ ReceiveReply \/ StoreUuid \/ MarkRefused
    \/ ReceiveCreated \/ MapBrokerId \/ MarkCreated
    \/ ReceiveClose \/ ReceiveSocket \/ SendJoin \/ SendFirstPing \/ ReceiveOther

\* on_open, and on_close or on_error of the current connection
OpenConnection ==
    /\ handler = Idle
    /\ ~current_connection
    /\ current_connection' = TRUE
    /\ UNCHANGED <<pc, localVars, mapVars, counters, since, is_connected,
                   is_shutdown, handler, ping, envVars>>

CloseConnection ==
    /\ handler = Idle
    /\ current_connection
    /\ Bounded("drops", MaxDrops)
    /\ current_connection' = FALSE
    /\ is_connected' = FALSE
    /\ broker_up' = FALSE
    /\ inbox' = <<>>
    /\ requests' = {}
    /\ UNCHANGED <<pc, localVars, mapVars, counters, since, is_shutdown,
                   handler, ping, deal, end_rate, now>>

-----------------------------------------------------------------------------
(***************************************************************************)
(* The ping thread, and the calls of the object's owner.                   *)
(***************************************************************************)
CheckPing ==
    /\ ~ping
    /\ ~is_shutdown /\ is_connected
    /\ Bounded("pings", MaxPings)
    /\ ping' = TRUE
    /\ UNCHANGED <<pc, localVars, mapVars, counters, since, connVars, handler,
                   inbox, requests, brokerVars, now>>

SendPing ==
    /\ ping
    /\ Send(None, ref_counter)
    /\ DrawRef
    /\ ping' = FALSE
    /\ UNCHANGED <<pc, localVars, mapVars, bets_id_counter, since, connVars,
                   handler, inbox, brokerVars, now, used>>

ClearBetsArray ==
    /\ Bounded("clears", MaxClears)
    /\ array_bets' = [i \in BetId |-> None]
    /\ bets_id_counter' = 0
    /\ UNCHANGED <<pc, localVars, indexVars, ref_counter, since, connVars,
                   handler, ping, inbox, requests, brokerVars, now>>

\* ~BinomoApi raises both flags and waits for the threads.
ShutDown ==
    /\ CanShutDown /\ ~is_shutdown
    /\ is_shutdown' = TRUE
    /\ UNCHANGED <<pc, localVars, mapVars, counters, since, is_connected,
                   current_connection, handler, ping, envVars>>

-----------------------------------------------------------------------------
(***************************************************************************)
(* The extension, the broker and the clock.                                *)
(***************************************************************************)
Tell(messages) == inbox' = IF broker_up THEN inbox \o messages ELSE inbox

\* The extension's socket to the broker opens, and is lost.
OpenBroker ==
    /\ current_connection /\ ~broker_up
    /\ Bounded("opens", MaxOpens)
    /\ broker_up' = TRUE
    /\ inbox' = Append(inbox, [event |-> "socket"])
    /\ WorldFrame /\ UNCHANGED <<requests, deal, end_rate>>

LoseBroker ==
    /\ broker_up
    /\ Bounded("drops", MaxDrops)
    /\ broker_up' = FALSE
    /\ requests' = {}
    /\ inbox' = Append(inbox, [event |-> "other"])
    /\ WorldFrame /\ UNCHANGED <<deal, end_rate>>

\* An attempt to connect fails: an "init" message of onerror, one of onclose.
FailToConnect ==
    /\ current_connection /\ ~broker_up
    /\ Bounded("drops", MaxDrops)
    /\ inbox' = inbox \o <<[event |-> "other"], [event |-> "other"]>>
    /\ WorldFrame /\ UNCHANGED <<requests, brokerVars>>

\* The broker takes a deal before its market closes: a reply with the deal's
\* uuid, then deal_created.
AcceptDeal(q) ==
    /\ q.task # None
    /\ now < Closing[user_bet[q.task].market]
    /\ requests' = requests \ {q}
    /\ deal' = [deal EXCEPT ![q.task] = "open"]
    /\ \E r \in OpenRates :
          Tell(<<[event |-> "phx_reply", ref |-> q.ref, uuid |-> q.task],
                 [event |-> "deal_created", uuid |-> q.task, open_rate |-> r,
                  market |-> user_bet[q.task].market]>>)
    /\ WorldFrame /\ UNCHANGED <<broker_up, end_rate, used>>

RefuseRequest(q) ==
    /\ requests' = requests \ {q}
    /\ deal' = IF q.task = None THEN deal ELSE [deal EXCEPT ![q.task] = "refused"]
    /\ Tell(<<[event |-> "phx_reply", ref |-> q.ref, uuid |-> None]>>)
    /\ WorldFrame /\ UNCHANGED <<broker_up, end_rate, used>>

\* A phx_join or a ping that goes well
AnswerPing(q) ==
    /\ q.task = None
    /\ requests' = requests \ {q}
    /\ WorldFrame /\ UNCHANGED <<inbox, brokerVars, used>>

CloseMarket(m) ==
    /\ end_rate[m] = 0
    /\ now >= Closing[m]
    /\ \E r \in EndRates :
          /\ end_rate' = [end_rate EXCEPT ![m] = r]
          /\ Tell(<<[event |-> "close_deal_batch", market |-> m, end_rate |-> r]>>)
    /\ WorldFrame /\ UNCHANGED <<requests, broker_up, deal, used>>

Broker ==
    \/ \E q \in requests : AcceptDeal(q) \/ RefuseRequest(q) \/ AnswerPing(q)
    \/ \E m \in Market : CloseMarket(m)

Tick ==
    /\ now < Horizon \/ since < BetsDelay
    /\ now' = IF now < Horizon THEN now + 1 ELSE now
    /\ since' = IF since < BetsDelay THEN since + 1 ELSE since
    /\ UNCHANGED <<pc, localVars, mapVars, counters, connVars, handler, ping,
                   inbox, requests, brokerVars, used>>

-----------------------------------------------------------------------------
Next ==
    \/ \E t \in Task : CheckConnected(t) \/ TakeNumbers(t) \/ Thread(t)
    \/ Handler \/ OpenConnection \/ CloseConnection
    \/ CheckPing \/ SendPing \/ ClearBetsArray \/ ShutDown
    \/ OpenBroker \/ LoseBroker \/ FailToConnect \/ Broker \/ Tick

Spec == Init /\ [][Next]_vars

(***************************************************************************)
(* Threads are scheduled by the operating system and never wait for one    *)
(* another outside their short critical sections, so each is weakly fair;  *)
(* the WebSocket thread handles what has arrived until the destructor      *)
(* stops the server, and ends the handler it is in even then; time passes; *)
(* and the broker answers requests and closes its markets.  Callers, the   *)
(* owner of the object and the network owe nothing.                        *)
(***************************************************************************)
HandlerOwed == (~is_shutdown \/ handler # Idle) /\ Handler

ThreadsRun == \A t \in Task : WF_vars(TakeNumbers(t) \/ Thread(t))

Fairness ==
    /\ ThreadsRun
    /\ WF_vars(HandlerOwed)
    /\ WF_vars(Broker)
    /\ WF_vars(Tick)

FairSpec == Spec /\ Fairness

\* The bets' threads run; nothing else has to happen, or even goes on.
ThreadSpec == Spec /\ ThreadsRun

-----------------------------------------------------------------------------
Label == {"idle", "checked", "drawn", "delay", "stamp", "map_ref", "send", "poll", "read",
          "erase_broker", "erase_ref", "erase_bet", "done", "stopped"}

Message ==
    [event : {"phx_reply"}, ref : Ref, uuid : Task \cup {None}]
    \cup [event : {"deal_created"}, uuid : Task, open_rate : OpenRates,
          market : Market]
    \cup [event : {"close_deal_batch"}, market : Market, end_rate : EndRates]
    \cup [event : {"socket", "other"}]

HandlerState ==
    [at : {"idle", "uuid", "refused", "created", "opened", "join", "ping"},
     bet_id : BetId \cup {None}, uuid : Task \cup {None},
     open_rate : OpenRates \cup {0}, market : Market \cup {None}]

\* A thread that has its numbers and its bet, and one whose bet is in array_bets
Numbered(t) == pc[t] \notin {"idle", "checked", "drawn"}
Copied(t)   == pc[t] \in {"map_ref", "send", "poll", "read",
                         "erase_broker", "erase_ref", "erase_bet"}

\* A thread whose request number may be in ref_to_bet_id, and one whose bet may
\* be in array_bets: it will still erase them, or the destructor stopped it.
Mapped(t) == pc[t] \in {"send", "poll", "read", "erase_broker", "erase_ref",
                       "stopped"}
Kept(t)   == Copied(t) \/ pc[t] = "stopped"

CallTypes ==
    /\ pc \in [Task -> Label]
    /\ ref \in [Task -> Ref]
    /\ bet_id \in [Task -> BetId \cup {None}]
    /\ user_bet \in [Task -> Bet \cup {None}]
    /\ bet \in [Task -> Bet \cup {None}]
    /\ last_bet_status \in [Task -> Status]
    /\ reported \in [Task -> Seq(Status)]

\* What a thread has at each point of async_open_bo
ThreadTypes ==
    \A t \in Task :
        /\ Numbered(t) => bet_id[t] \in BetId
        /\ Numbered(t) \/ pc[t] = "drawn" => user_bet[t] \in Bet
        /\ Copied(t) => bet[t] \in Bet

MapTypes ==
    /\ array_bets \in [BetId -> Bet \cup {None}]
    /\ ref_to_bet_id \in [Ref -> BetId \cup {None}]
    /\ uuid_to_bet_id \in [Task -> BetId \cup {None}]
    /\ broker_bet_id_to_bet_id \in [Task -> BetId \cup {None}]

CounterTypes ==
    /\ ref_counter \in JoinRef .. (MaxRef + 1)
    /\ bets_id_counter \in 0 .. (MaxBetId + 1)
    /\ since \in 0 .. BetsDelay

FlagTypes ==
    /\ is_connected \in BOOLEAN
    /\ current_connection \in BOOLEAN
    /\ is_shutdown \in BOOLEAN
    /\ ping \in BOOLEAN
    /\ broker_up \in BOOLEAN

\* What the WebSocket thread holds between two sections
HandlerTypes ==
    /\ handler \in HandlerState
    /\ handler.at \in {"uuid", "refused", "created", "opened"}
          => handler.bet_id \in BetId
    /\ handler.at \in {"uuid", "created", "opened"} => handler.uuid \in Task
    /\ handler.at \in {"created", "opened"} =>
          handler.open_rate \in OpenRates /\ handler.market \in Market

ChannelTypes ==
    /\ inbox \in Seq(Message)
    /\ requests \subseteq [task : Task \cup {None}, ref : Ref]
    /\ \A q \in requests : q.task # None => Numbered(q.task)

WorldTypes ==
    /\ deal \in [Task -> {"none", "open", "refused"}]
    /\ end_rate \in [Market -> EndRates \cup {0}]
    /\ now \in 0 .. Horizon
    /\ used \in [BoundNames -> Nat]

\* Every variable holds what its declaration in the code allows, and a thread or
\* a handler that goes on has the numbers and bets it goes on with.
TypeOK ==
    /\ CallTypes /\ ThreadTypes /\ MapTypes /\ CounterTypes /\ FlagTypes
    /\ HandlerTypes /\ ChannelTypes /\ WorldTypes

-----------------------------------------------------------------------------
(***************************************************************************)
(* Who answers for an entry of a map                                       *)
(***************************************************************************)
\* Every number in ref_to_bet_id belongs to a thread that will still erase it
\* or that the destructor stopped: a new broker session may hand the same
\* request number out again, and one thread may overwrite or erase the entry
\* of another, but no finished bet is ever left behind in the map.
RefsHaveThreads ==
    \A r \in Ref : ref_to_bet_id[r] # None =>
        \E t \in Task : ref[t] = r /\ bet_id[t] = ref_to_bet_id[r] /\ Mapped(t)

\* Every bet in array_bets has a thread that polls it, will erase it, or was
\* stopped by the destructor.  The handlers of late broker messages look bets
\* up in the same map and must not bring an erased one back.
BetsHaveThreads ==
    \A i \in BetId : array_bets[i] # None =>
        \E t \in Task : bet_id[t] = i /\ Kept(t)

\* A deal of the broker is followed under the api_bet_id of the call whose
\* request opened it, as long as no other bet was given the same request number:
\* the number, the uuid and the broker's id lead to that api_bet_id, across
\* reconnects and for bets that are already over.  Until clear_bets_array starts
\* their numbering again no other call has the same api_bet_id, so the deal is
\* followed as this call's bet and no other.
DealsFollowed ==
    \A t \in Task :
        (\A u \in Task : u # t /\ Numbered(u) => ref[u] # ref[t]) =>
            /\ uuid_to_bet_id[t] \in {bet_id[t], None}
            /\ broker_bet_id_to_bet_id[t] \in {bet_id[t], None}
            /\ \A i \in BetId :
                  array_bets[i] # None /\ array_bets[i].broker_bet_id = t
                    => bet_id[t] = i /\ deal[t] = "open"
            /\ used["clears"] = 0 /\ Numbered(t) =>
                  \A u \in Task \ {t} : Numbered(u) => bet_id[u] # bet_id[t]

\* A stored result is the one the broker's prices give: the market of the bet
\* has closed, and a bet with an opening price has won exactly when the closing
\* price lies strictly on its side.
ResultsFollowPrices ==
    \A i \in BetId :
        LET b == array_bets[i]
        IN  b # None /\ b.status \in {"WIN", "LOSS"} =>
              /\ end_rate[b.market] # 0
              /\ now >= Closing[b.market]
              /\ b.open_price # 0 =>
                    (b.status = "WIN" <=> Wins(b, end_rate[b.market]))

\* What the callback of a bet is told follows BetLifecycle: UNKNOWN_STATE, then
\* perhaps WAITING_COMPLETION, then at most one final status and nothing more,
\* whatever order the messages, the poll and the erasures come in.
Lifecycle == INSTANCE BetLifecycle WITH Task <- Task, reported <- reported
ReportsFollowLifecycle == Lifecycle!Spec

\* The destructor's wait for request_future ends: after the shutdown flags are
\* up every thread that was started leaves its delay, its poll loop or its
\* cleanup.
ShutDownEndsThreads ==
    is_shutdown ~>
        \A t \in Task : pc[t] \in {"idle", "checked", "drawn", "done", "stopped"}

\* A final status the WebSocket thread stores is told to the caller and ends the
\* bet: unless the destructor stops it, the thread leaves its loop having just
\* told the status that is stored (another message may have stored another final
\* one meanwhile: a refused bet is settled with its market), or CHECK_ERROR if it
\* is later than a minute after the closing time.  A bet that clear_bets_array
\* took away is out of the claim.
Closed(t) ==
    /\ pc[t] \in {"poll", "read"}
    /\ array_bets[bet_id[t]] # None
    /\ array_bets[bet_id[t]].status \in Final

LeavesHavingTold(t) ==
    LET told == reported[t][Len(reported[t])]
    IN  /\ pc[t] = "erase_broker"
        /\ array_bets[bet_id[t]] # None
        /\ \/ told = array_bets[bet_id[t]].status
           \/ told = "CHECK_ERROR" /\ now > Closing[user_bet[t].market] + Grace

FinalStatusReported ==
    MaxClears = 0 =>
        \A t \in Task : Closed(t) ~> pc[t] = "stopped" \/ LeavesHavingTold(t)

-----------------------------------------------------------------------------
(***************************************************************************)
(* What the comments of the code say and the code does not do              *)
(***************************************************************************)
\* "Find the deal and mark it as failed" (parse_phx_reply): a bet is marked
\* OPENING_ERROR only when the broker refused its request, and not for the
\* refusal of phx_join or a ping that drew the same number.
RefusalsReal ==
    \A t \in Task :
        Copied(t) /\ array_bets[bet_id[t]] # None
            /\ array_bets[bet_id[t]].status = "OPENING_ERROR"
                => deal[t] = "refused"

\* "Wait in a loop until the deal is closed" (async_open_bo): the loop ends.
WaitEnds == \A t \in Task : pc[t] = "poll" ~> pc[t] \in {"done", "stopped"}
=============================================================================
