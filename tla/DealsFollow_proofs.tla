-------------------------- MODULE DealsFollow_proofs --------------------------
(***************************************************************************)
(* What the broker does with a deal reaches the bet it was opened for, and *)
(* what the callback of a bet hears is a run of BetLifecycle: for every    *)
(* value of the constants of Deals, the second as long as nobody calls     *)
(* clear_bets_array.                                                       *)
(***************************************************************************)
EXTENDS Deals_proofs

USE NoneAssumption, MarketAssumption, RateAssumption, TimingAssumption,
    CounterAssumption, BoundAssumption, NoBetAssumption

-----------------------------------------------------------------------------
(***************************************************************************)
(* The trail of a deal: the request names the call's number, the reply     *)
(* names the same number and the deal, and the number leads to the bet, if *)
(* no other call holds it.                                                 *)
(***************************************************************************)
\* A call whose request may have left, and one that shares its number with no
\* other.
Sent(t) == pc[t] \notin {"idle", "checked", "drawn", "delay", "stamp", "map_ref", "send"}

Alone(t) == \A u \in Task : u # t /\ Numbered(u) => ref[u] # ref[t]

\* The broker holds the deal of t, and i is its bet if t is alone.
Traced(t, i) == deal[t] = "open" /\ (Alone(t) => i = bet_id[t])

RequestsTraced ==
    \A q \in requests : q.task # None =>
        q.ref = ref[q.task] /\ Sent(q.task) /\ deal[q.task] = "none"

DealsSent == \A t \in Task : deal[t] # "none" => Sent(t)

MessagesTraced ==
    \A k \in 1 .. Len(inbox) :
        /\ inbox[k].event = "phx_reply" /\ inbox[k].uuid # None =>
              deal[inbox[k].uuid] = "open" /\ inbox[k].ref = ref[inbox[k].uuid]
        /\ inbox[k].event = "deal_created" => deal[inbox[k].uuid] = "open"

HandlerTraced ==
    handler.at \in {"uuid", "created", "opened"} => Traced(handler.uuid, handler.bet_id)

IndexTraced ==
    \A t \in Task :
        /\ uuid_to_bet_id[t] # None => Traced(t, uuid_to_bet_id[t])
        /\ broker_bet_id_to_bet_id[t] # None => Traced(t, broker_bet_id_to_bet_id[t])

BetsTraced ==
    \A t \in Task, i \in BetId :
        array_bets[i] # None /\ array_bets[i].broker_bet_id = t => Traced(t, i)

CallsUntraced ==
    \A t \in Task : user_bet[t] # None => user_bet[t].broker_bet_id = None

TraceInv ==
    /\ RequestsTraced /\ DealsSent /\ MessagesTraced
    /\ HandlerTraced /\ IndexTraced /\ BetsTraced /\ CallsUntraced

\* What no step takes back: the numbers of a call, its request, its deal.
GoesOn ==
    /\ \A u \in Task : Numbered(u) =>
          Numbered(u)' /\ ref'[u] = ref[u] /\ bet_id'[u] = bet_id[u]
    /\ \A u \in Task : Sent(u) => Sent(u)'
    /\ \A u \in Task : deal[u] = "open" => deal'[u] = "open"

LEMMA TraceInit == Init => TraceInv
  BY DEF Init, Idle, TraceInv, RequestsTraced, DealsSent, MessagesTraced, HandlerTraced,
     IndexTraced, BetsTraced, CallsUntraced

\* The steps of the program and of the world that leave requests and deals alone,
\* but for those the network loses and those that name no call.
LEMMA NewRequest ==
    ASSUME TypeOK, [Next]_vars, NEW q \in requests', q \notin requests, q.task # None
    PROVE  q.task \in Task /\ SendRequest(q.task) /\ q.ref = ref[q.task]
<1>1. ASSUME NEW t \in Task, SendRequest(t)
      PROVE  q = [task |-> t, ref |-> ref[t]]
  BY <1>1 DEF SendRequest, Send
<1>2. ASSUME NEW t \in Task, Thread(t), ~SendRequest(t)
      PROVE  requests' = requests
  BY <1>2 DEF Thread, DelayOver, DelayStopped, Stamp, MapRef, PollRound, ReadSame,
     ReadChanged, EraseBroker, EraseRef, EraseBet
<1>3. ASSUME NEW t \in Task, CheckConnected(t) \/ TakeNumbers(t)
      PROVE  requests' = requests
  BY <1>3 DEF CheckConnected, TakeNumbers, DrawNumber, TakeBetId, envVars
<1>4. ASSUME NEW r, Send(None, r)
      PROVE  FALSE
  BY <1>4 DEF Send
<1>5. ~Handler
  BY <1>4 DEF Handler, ReceiveReply, StoreUuid, MarkRefused, ReceiveCreated, MapBrokerId,
     MarkCreated, ReceiveClose, ReceiveSocket, SendJoin, SendFirstPing, ReceiveOther
<1>6. ~(\/ OpenConnection \/ CloseConnection \/ CheckPing \/ SendPing
        \/ ClearBetsArray \/ ShutDown \/ Tick)
  BY <1>4 DEF OpenConnection, CloseConnection, CheckPing, SendPing, ClearBetsArray,
     ShutDown, Tick, envVars
<1>7. ~(OpenBroker \/ LoseBroker \/ FailToConnect \/ Broker)
  BY DEF OpenBroker, LoseBroker, FailToConnect, Broker, AcceptDeal, RefuseRequest,
     AnswerPing, CloseMarket
<1>8. ~UNCHANGED vars
  BY DEF vars, envVars
<1> QED BY <1>1, <1>2, <1>3, <1>5, <1>6, <1>7, <1>8 DEF Next

LEMMA DealAnswered ==
    ASSUME TypeOK, [Next]_vars, NEW t \in Task, deal'[t] # deal[t]
    PROVE  \E q \in requests : q.task = t /\ (AcceptDeal(q) \/ RefuseRequest(q))
<1>1. ASSUME NEW u \in Task, CheckConnected(u) \/ TakeNumbers(u) \/ Thread(u)
      PROVE  FALSE
  BY <1>1 DEF CheckConnected, TakeNumbers, DrawNumber, TakeBetId, Thread, DelayOver, DelayStopped, Stamp, MapRef,
     SendRequest, PollRound, ReadSame, ReadChanged, EraseBroker, EraseRef, EraseBet,
     ThreadFrame, envVars, brokerVars
<1>2. ~Handler
  BY DEF Handler, ReceiveReply, StoreUuid, MarkRefused, ReceiveCreated, MapBrokerId,
     MarkCreated, ReceiveClose, ReceiveSocket, SendJoin, SendFirstPing, ReceiveOther,
     HandlerFrame, brokerVars
<1>3. ~(\/ OpenConnection \/ CloseConnection \/ CheckPing \/ SendPing
        \/ ClearBetsArray \/ ShutDown \/ Tick)
  BY DEF OpenConnection, CloseConnection, CheckPing, SendPing, ClearBetsArray, ShutDown,
     Tick, envVars, brokerVars
<1>4. ~(OpenBroker \/ LoseBroker \/ FailToConnect \/ UNCHANGED vars)
  BY DEF OpenBroker, LoseBroker, FailToConnect, vars, envVars, brokerVars
<1>5. ASSUME NEW m \in Market, CloseMarket(m) PROVE FALSE
  BY <1>5 DEF CloseMarket
<1>6. PICK q \in requests : AcceptDeal(q) \/ RefuseRequest(q) \/ AnswerPing(q)
  BY <1>1, <1>2, <1>3, <1>4, <1>5 DEF Next, Broker
<1>7. q.task = t /\ ~AnswerPing(q)
  BY <1>6 DEF AcceptDeal, RefuseRequest, AnswerPing, brokerVars, TypeOK, WorldTypes
<1> QED BY <1>6, <1>7

LEMMA StepGoesOn == ASSUME TypeOK, TraceInv, [Next]_vars PROVE GoesOn
<1>1. \A u \in Task : deal[u] = "open" => deal'[u] = "open"
  BY DealAnswered DEF TraceInv, RequestsTraced
<1>2. ASSUME UNCHANGED <<pc, callVars>> PROVE GoesOn
  BY <1>1, <1>2 DEF GoesOn, Numbered, Sent, callVars
<1>3. ASSUME NEW t \in Task, CheckConnected(t) \/ TakeNumbers(t) PROVE GoesOn
  <2>1. pc[t] \in {"idle", "checked", "drawn"} /\ \A u \in Task \ {t} : pc'[u] = pc[u]
    BY <1>3 DEF TypeOK, CallTypes, CheckConnected, TakeNumbers, DrawNumber, TakeBetId, Goto
  <2>2. \A u \in Task \ {t} : ref'[u] = ref[u] /\ bet_id'[u] = bet_id[u]
    BY <1>3 DEF TypeOK, CallTypes, CheckConnected, TakeNumbers, DrawNumber, TakeBetId, ThreadFrame, callVars
  <2> QED BY <1>1, <2>1, <2>2 DEF GoesOn, Numbered, Sent
<1>4. ASSUME NEW t \in Task, Thread(t) PROVE GoesOn
  <2>1. UNCHANGED callVars
    BY <1>4 DEF Thread, DelayOver, DelayStopped, Stamp, MapRef, SendRequest, PollRound,
       ReadSame, ReadChanged, EraseBroker, EraseRef, EraseBet, ThreadFrame
  <2>2. /\ \A u \in Task \ {t} : pc'[u] = pc[u]
        /\ Sent(t) => Sent(t)'
        /\ Numbered(t) => Numbered(t)'
    BY <1>4 DEF TypeOK, CallTypes, Thread, DelayOver, DelayStopped, Stamp, MapRef, SendRequest,
       PollRound, ReadSame, ReadChanged, EraseBroker, EraseRef, EraseBet, Goto, Sent, Numbered
  <2> QED BY <1>1, <2>1, <2>2 DEF GoesOn, Numbered, Sent, callVars
<1>5. CASE Handler
  BY <1>2, <1>5 DEF Handler, ReceiveReply, StoreUuid, MarkRefused, ReceiveCreated,
     MapBrokerId, MarkCreated, ReceiveClose, ReceiveSocket, SendJoin, SendFirstPing,
     ReceiveOther, HandlerFrame, localVars
<1>6. CASE OpenConnection \/ CloseConnection \/ CheckPing \/ SendPing
           \/ ClearBetsArray \/ ShutDown \/ Tick
  BY <1>2, <1>6 DEF OpenConnection, CloseConnection, CheckPing, SendPing,
     ClearBetsArray, ShutDown, Tick, localVars
<1>7. CASE OpenBroker \/ LoseBroker \/ FailToConnect \/ Broker
  BY <1>2, <1>7 DEF OpenBroker, LoseBroker, FailToConnect, Broker, AcceptDeal, RefuseRequest,
     AnswerPing, CloseMarket, WorldFrame, localVars
<1>8. CASE UNCHANGED vars
  BY <1>2, <1>8 DEF vars, localVars
<1> QED BY <1>3, <1>4, <1>5, <1>6, <1>7, <1>8 DEF Next

\* What leads from a deal to its bet goes on doing so.
LEMMA TracedOn ==
    ASSUME DealsSent, GoesOn, NEW t \in Task, NEW i, Traced(t, i)
    PROVE  (Traced(t, i))'
<1>1. Numbered(t) /\ deal'[t] = "open"
  BY DEF DealsSent, Traced, GoesOn, Sent, Numbered
<1>2. Alone(t)' => Alone(t)
  BY <1>1 DEF Alone, GoesOn
<1> QED BY <1>1, <1>2 DEF Traced, GoesOn

\* A call sends one request, and the broker answers a request once.
LEMMA RequestsNext ==
    ASSUME TypeOK, TraceInv, [Next]_vars
    PROVE  RequestsTraced' /\ DealsSent'
<1>1. GoesOn
  BY StepGoesOn
<1>2. ASSUME NEW q \in requests', q.task # None
      PROVE  q.ref = ref'[q.task] /\ Sent(q.task)' /\ deal'[q.task] = "none"
  <2>1. CASE q \in requests
    <3>1. /\ q.task \in Task /\ q.ref = ref[q.task] /\ Sent(q.task)
          /\ deal[q.task] = "none" /\ Numbered(q.task)
      BY <1>2, <2>1 DEF TypeOK, ChannelTypes, TraceInv, RequestsTraced
    <3>2. ASSUME NEW p \in requests, p.task = q.task, requests' = requests \ {p}
          PROVE  FALSE
      <4>1. p.ref = q.ref
        BY <1>2, <3>1, <3>2 DEF TraceInv, RequestsTraced
      <4>2. p = [task |-> p.task, ref |-> p.ref] /\ q = [task |-> q.task, ref |-> q.ref]
        BY <2>1, <3>2 DEF TypeOK, ChannelTypes
      <4>3. p = q
        BY <3>2, <4>1, <4>2
      <4> QED BY <3>2, <4>3
    <3>3. deal'[q.task] = deal[q.task]
      BY <3>1, <3>2, DealAnswered, ZenonT(60) DEF AcceptDeal, RefuseRequest
    <3> QED BY <1>1, <3>1, <3>3 DEF GoesOn
  <2>2. CASE q \notin requests
    <3>1. q.task \in Task /\ SendRequest(q.task) /\ q.ref = ref[q.task]
      BY <1>2, <2>2, NewRequest
    <3>2. ~Sent(q.task) /\ Sent(q.task)'
      BY <3>1 DEF TypeOK, CallTypes, SendRequest, Goto, Sent
    <3>3. deal[q.task] = "none" /\ deal' = deal /\ ref' = ref
      BY <3>1, <3>2 DEF TraceInv, DealsSent, SendRequest, ThreadFrame, callVars, brokerVars
    <3> QED BY <3>1, <3>2, <3>3
  <2> QED BY <2>1, <2>2
<1>3. ASSUME NEW t \in Task, deal'[t] # "none"
      PROVE  Sent(t)'
  BY <1>1, <1>3, DealAnswered DEF GoesOn, TraceInv, DealsSent, RequestsTraced
<1> QED BY <1>2, <1>3 DEF RequestsTraced, DealsSent

\* A message about a deal comes from the broker that holds it: d says what the
\* broker did, r the numbers of the calls.
TracedMessage(m, d, r) ==
    /\ m.event = "phx_reply" /\ m.uuid # None =>
          d[m.uuid] = "open" /\ m.ref = r[m.uuid]
    /\ m.event = "deal_created" => d[m.uuid] = "open"

LEMMA MessageFields ==
    ASSUME NEW m \in Message
    PROVE  /\ m.event = "phx_reply" => m.ref \in Ref /\ m.uuid \in Task \cup {None}
           /\ m.event = "deal_created" => m.uuid \in Task /\ m.open_rate \in OpenRates
  BY DEF Message

LEMMA MessageOn ==
    ASSUME TraceInv, GoesOn, NEW m \in Message, TracedMessage(m, deal, ref)
    PROVE  TracedMessage(m, deal', ref')
<1>1. \A t \in Task : deal[t] = "open" => deal'[t] = "open" /\ ref'[t] = ref[t]
  BY DEF GoesOn, TraceInv, DealsSent, Sent, Numbered
<1> QED BY <1>1, MessageFields DEF TracedMessage

LEMMA MessagesOn ==
    ASSUME TypeOK, TraceInv, GoesOn,
           \A k \in 1 .. Len(inbox') :
              \/ \E l \in 1 .. Len(inbox) : inbox'[k] = inbox[l]
              \/ TracedMessage(inbox'[k], deal', ref')
    PROVE  MessagesTraced'
<1> SUFFICES ASSUME NEW k \in 1 .. Len(inbox')
             PROVE  TracedMessage(inbox'[k], deal', ref')
  BY DEF MessagesTraced, TracedMessage
<1>1. ASSUME NEW l \in 1 .. Len(inbox)
      PROVE  TracedMessage(inbox[l], deal', ref')
  <2>1. inbox[l] \in Message
    BY DEF TypeOK, ChannelTypes
  <2>2. TracedMessage(inbox[l], deal, ref)
    BY DEF TraceInv, MessagesTraced, TracedMessage
  <2> QED BY <2>1, <2>2, MessageOn
<1> QED BY <1>1

\* Messages put behind those of the inbox.
LEMMA MessagesAppended ==
    ASSUME TypeOK, TraceInv, GoesOn, NEW ms \in Seq(Message),
           \A k \in 1 .. Len(ms) : TracedMessage(ms[k], deal', ref'),
           inbox' = inbox \/ inbox' = inbox \o ms
    PROVE  MessagesTraced'
<1> SUFFICES ASSUME NEW k \in 1 .. Len(inbox')
             PROVE  \/ \E l \in 1 .. Len(inbox) : inbox'[k] = inbox[l]
                    \/ TracedMessage(inbox'[k], deal', ref')
  BY MessagesOn
<1>1. inbox \in Seq(Message)
  BY DEF TypeOK, ChannelTypes
<1>2. CASE inbox' = inbox
  BY <1>2
<1>3. CASE inbox' = inbox \o ms
  <2>1. \/ k \in 1 .. Len(inbox) /\ inbox'[k] = inbox[k]
        \/ k - Len(inbox) \in 1 .. Len(ms) /\ inbox'[k] = ms[k - Len(inbox)]
    BY <1>1, <1>3, ConcatProperties
  <2> QED BY <2>1
<1> QED BY <1>2, <1>3

\* The broker's answer to a request names the request and its call.
LEMMA MessagesAnswer ==
    ASSUME TypeOK, TraceInv, GoesOn, NEW q \in requests,
           AcceptDeal(q) \/ RefuseRequest(q)
    PROVE  MessagesTraced'
<1>1. q.ref \in Ref /\ q.task \in Task \cup {None} /\ ref' = ref
  BY DEF TypeOK, ChannelTypes, AcceptDeal, RefuseRequest, WorldFrame, localVars, callVars
<1>2. CASE AcceptDeal(q)
  <2>1. PICK r \in OpenRates :
           Tell(<<[event |-> "phx_reply", ref |-> q.ref, uuid |-> q.task],
                  [event |-> "deal_created", uuid |-> q.task, open_rate |-> r,
                   market |-> user_bet[q.task].market]>>)
    BY <1>2 DEF AcceptDeal
  <2> DEFINE reply == [event |-> "phx_reply", ref |-> q.ref, uuid |-> q.task]
             created == [event |-> "deal_created", uuid |-> q.task, open_rate |-> r,
                         market |-> user_bet[q.task].market]
             ms == <<reply, created>>
  <2>2. q.task \in Task /\ reply \in Message /\ created \in Message
    <3>1. q.task \in Task /\ user_bet[q.task].market \in Market
      BY <1>2 DEF TypeOK, ChannelTypes, ThreadTypes, AcceptDeal, Bet
    <3> QED BY <1>1, <3>1 DEF Message
  <2>3. q.ref = ref[q.task] /\ deal'[q.task] = "open"
    BY <1>2, <2>2 DEF TraceInv, RequestsTraced, AcceptDeal, TypeOK, WorldTypes
  <2>4. TracedMessage(reply, deal', ref') /\ TracedMessage(created, deal', ref')
    BY <1>1, <2>3 DEF TracedMessage
  <2>5. inbox' = inbox \/ inbox' = inbox \o ms
    BY <2>1 DEF Tell
  <2> HIDE DEF reply, created
  <2>6. ms \in Seq(Message) /\ \A k \in 1 .. Len(ms) : TracedMessage(ms[k], deal', ref')
    BY <2>2, <2>4
  <2> QED BY <2>5, <2>6, MessagesAppended
<1>3. CASE RefuseRequest(q)
  <2> DEFINE reply == [event |-> "phx_reply", ref |-> q.ref, uuid |-> None]
             ms == <<reply>>
  <2>1. reply \in Message /\ TracedMessage(reply, deal', ref')
    BY <1>1 DEF Message, TracedMessage
  <2>2. inbox' = inbox \/ inbox' = inbox \o ms
    BY <1>3 DEF RefuseRequest, Tell
  <2> HIDE DEF reply
  <2>3. ms \in Seq(Message) /\ \A k \in 1 .. Len(ms) : TracedMessage(ms[k], deal', ref')
    BY <2>1
  <2> QED BY <2>2, <2>3, MessagesAppended
<1> QED BY <1>2, <1>3

LEMMA MessagesOther ==
    ASSUME TypeOK, TraceInv, GoesOn,
           OpenBroker \/ LoseBroker \/ FailToConnect \/ \E m \in Market : CloseMarket(m)
    PROVE  MessagesTraced'
<1> DEFINE Untraced(m) == m \in Message /\ m.event \in {"socket", "other", "close_deal_batch"}
<1>1. \A e \in {"socket", "other"} : Untraced([event |-> e])
  BY DEF Message
<1>2. \A m \in Market, r \in EndRates :
         Untraced([event |-> "close_deal_batch", market |-> m, end_rate |-> r])
  BY DEF Message
<1>3. PICK ms : /\ ms \in Seq(Message) /\ \A k \in 1 .. Len(ms) : Untraced(ms[k])
                /\ inbox' = inbox \/ inbox' = inbox \o ms
  <2>1. CASE OpenBroker \/ LoseBroker
    <3>1. PICK e \in {"socket", "other"} : inbox' = Append(inbox, [event |-> e])
      BY <2>1 DEF OpenBroker, LoseBroker
    <3>2. inbox' = inbox \o <<[event |-> e]>>
      BY <1>1, <3>1 DEF TypeOK, ChannelTypes
    <3> HIDE DEF Untraced
    <3>3. \A k \in 1 .. Len(<<[event |-> e]>>) : Untraced(<<[event |-> e]>>[k])
      BY <1>1
    <3>4. <<[event |-> e]>> \in Seq(Message)
      BY <1>1 DEF Untraced
    <3> QED BY <3>2, <3>3, <3>4
  <2>2. CASE FailToConnect
    <3> DEFINE ms == <<[event |-> "other"], [event |-> "other"]>>
    <3>1. inbox' = inbox \o ms
      BY <2>2 DEF FailToConnect
    <3>2. ms \in Seq(Message) /\ \A k \in 1 .. Len(ms) : Untraced(ms[k])
      BY <1>1
    <3> QED BY <3>1, <3>2
  <2>3. CASE \E m \in Market : CloseMarket(m)
    <3>1. PICK m \in Market, r \in EndRates :
             Tell(<<[event |-> "close_deal_batch", market |-> m, end_rate |-> r]>>)
      BY <2>3 DEF CloseMarket
    <3> DEFINE c == [event |-> "close_deal_batch", market |-> m, end_rate |-> r]
    <3>2. Untraced(c)
      BY <1>2
    <3>3. inbox' = inbox \/ inbox' = inbox \o <<c>>
      BY <3>1 DEF Tell
    <3> HIDE DEF c
    <3>4. <<c>> \in Seq(Message) /\ \A k \in 1 .. Len(<<c>>) : Untraced(<<c>>[k])
      BY <3>2
    <3> QED BY <3>3, <3>4
  <2> QED BY <2>1, <2>2, <2>3
<1>4. \A k \in 1 .. Len(ms) : TracedMessage(ms[k], deal', ref')
  BY <1>3 DEF TracedMessage
<1> QED BY <1>3, <1>4, MessagesAppended

LEMMA MessagesNext ==
    ASSUME TypeOK, TraceInv, [Next]_vars
    PROVE  MessagesTraced'
<1>1. GoesOn
  BY StepGoesOn
<1>2. ASSUME inbox' = inbox \/ inbox' = <<>> PROVE MessagesTraced'
  BY <1>1, <1>2, MessagesOn
<1>3. ASSUME NEW t \in Task, CheckConnected(t) \/ TakeNumbers(t) \/ Thread(t)
      PROVE  MessagesTraced'
  BY <1>2, <1>3 DEF CheckConnected, TakeNumbers, DrawNumber, TakeBetId, Thread, DelayOver, DelayStopped, Stamp,
     MapRef, SendRequest, PollRound, ReadSame, ReadChanged, EraseBroker, EraseRef, EraseBet,
     ThreadFrame, envVars
<1>4. CASE Handler
  <2>1. inbox' = inbox \/ \E e : Receiving(e)
    BY <1>4 DEF Handler, ReceiveReply, StoreUuid, MarkRefused, ReceiveCreated, MapBrokerId,
       MarkCreated, ReceiveClose, ReceiveSocket, SendJoin, SendFirstPing, ReceiveOther
  <2>2. \A k \in 1 .. Len(inbox') : \E l \in 1 .. Len(inbox) : inbox'[k] = inbox[l]
    BY <2>1, ReceivingCloses
  <2> QED BY <1>1, <2>2, MessagesOn
<1>5. CASE OpenConnection \/ CloseConnection \/ CheckPing \/ SendPing
           \/ ClearBetsArray \/ ShutDown \/ Tick
  BY <1>2, <1>5 DEF OpenConnection, CloseConnection, CheckPing, SendPing,
     ClearBetsArray, ShutDown, Tick, envVars
<1>6. CASE UNCHANGED vars
  BY <1>2, <1>6 DEF vars, envVars
<1>7. ASSUME NEW q \in requests, AnswerPing(q) PROVE MessagesTraced'
  BY <1>2, <1>7 DEF AnswerPing
<1> QED BY <1>1, <1>3, <1>4, <1>5, <1>6, <1>7, MessagesAnswer, MessagesOther DEF Next, Broker

\* The number in the reply leads to the bet of the call, when no other call has
\* that number: the entry belongs to a call that has it.
LEMMA ReplyTraced ==
    ASSUME TypeOK, TraceInv, RefsHaveThreads, GoesOn, ReceiveReply
    PROVE  HandlerTraced'
<1> DEFINE m == Head(inbox)
<1>1. m \in Message /\ m.event = "phx_reply" /\ m = inbox[1] /\ 1 \in 1 .. Len(inbox)
  BY ReceivingType DEF TypeOK, ChannelTypes, ReceiveReply, Receiving
<1> SUFFICES ASSUME handler'.at \in {"uuid", "created", "opened"}
             PROVE  (Traced(handler.uuid, handler.bet_id))'
  BY DEF HandlerTraced
<1>2. /\ handler'.uuid = m.uuid /\ handler'.bet_id = ref_to_bet_id[m.ref]
      /\ m.uuid # None /\ ref_to_bet_id[m.ref] # None
  <2>1. ref_to_bet_id[m.ref] # None
    BY DEF ReceiveReply, HandlerDone, Idle
  <2>2. handler' = [at |-> IF m.uuid # None THEN "uuid" ELSE "refused",
                    bet_id |-> ref_to_bet_id[m.ref], uuid |-> m.uuid, open_rate |-> 0,
                    market |-> None]
    BY <2>1 DEF ReceiveReply, Idle
  <2> QED BY <2>1, <2>2
<1>3. m.uuid \in Task /\ m.ref \in Ref
  BY <1>1, <1>2, MessageFields
<1>4. deal[m.uuid] = "open" /\ m.ref = ref[m.uuid]
  BY <1>1, <1>2 DEF TraceInv, MessagesTraced
<1>5. PICK u \in Task : ref[u] = m.ref /\ bet_id[u] = ref_to_bet_id[m.ref] /\ Mapped(u)
  BY <1>2, <1>3 DEF RefsHaveThreads
<1>6. Alone(m.uuid) => u = m.uuid
  BY <1>3, <1>4, <1>5 DEF Alone, Mapped, Numbered
<1> HIDE DEF m
<1>7. Traced(m.uuid, ref_to_bet_id[m.ref])
  BY <1>4, <1>5, <1>6 DEF Traced
<1>8. UNCHANGED <<pc, callVars, deal>>
  BY DEF ReceiveReply, HandlerFrame, localVars, brokerVars
<1> QED BY <1>2, <1>7, <1>8 DEF Traced, Alone, Numbered, callVars

LEMMA HandlerNext ==
    ASSUME TypeOK, TraceInv, RefsHaveThreads, [Next]_vars
    PROVE  HandlerTraced'
<1>1. GoesOn
  BY StepGoesOn
<1>2. CASE handler' = handler
  <2>1. handler.at \in {"uuid", "created", "opened"} => handler.uuid \in Task
    BY DEF TypeOK, HandlerTypes
  <2>2. ASSUME handler.at \in {"uuid", "created", "opened"}
        PROVE  handler.uuid \in Task /\ Traced(handler.uuid, handler.bet_id)
    BY <2>1, <2>2 DEF TraceInv, HandlerTraced
  <2>3. ASSUME handler.at \in {"uuid", "created", "opened"}
        PROVE  (Traced(handler.uuid, handler.bet_id))'
    BY <1>1, <1>2, <2>2, <2>3, TracedOn, SMTT(30) DEF TraceInv, Traced, Alone
  <2> QED BY <1>2, <2>3 DEF HandlerTraced
<1>3. CASE ReceiveReply
  BY <1>1, <1>3, ReplyTraced
<1>4. CASE ReceiveCreated
  <2> DEFINE m == Head(inbox)
  <2>1. m \in Message /\ m.event = "deal_created"
    BY <1>4, ReceivingType DEF TypeOK, ReceiveCreated
  <2>2. m.uuid \in Task
    BY <2>1, MessageFields
  <2>3. handler'.at = "created" =>
           /\ handler'.uuid = m.uuid /\ handler'.bet_id = uuid_to_bet_id[m.uuid]
           /\ uuid_to_bet_id[m.uuid] # None
    BY <1>4 DEF ReceiveCreated, HandlerDone, Idle
  <2>4. handler'.at \in {"idle", "created"}
    BY <1>4 DEF ReceiveCreated, HandlerDone, Idle
  <2>5. UNCHANGED <<pc, callVars, deal>>
    BY <1>4 DEF ReceiveCreated, HandlerFrame, localVars, brokerVars
  <2> HIDE DEF m
  <2>6. ASSUME handler'.at = "created"
        PROVE  (Traced(handler.uuid, handler.bet_id))'
    <3>1. Traced(m.uuid, uuid_to_bet_id[m.uuid])
      BY <2>2, <2>3, <2>6 DEF TraceInv, IndexTraced
    <3> QED BY <2>3, <2>5, <2>6, <3>1 DEF Traced, Alone, Numbered, callVars
  <2> QED BY <2>4, <2>6 DEF HandlerTraced
<1>5. CASE MapBrokerId
  <2>1. /\ handler.at = "created"
        /\ handler'.uuid = handler.uuid /\ handler'.bet_id = handler.bet_id
    BY <1>5 DEF TypeOK, HandlerTypes, HandlerState, MapBrokerId
  <2>2. UNCHANGED <<pc, callVars, deal>>
    BY <1>5 DEF MapBrokerId, HandlerFrame, localVars, brokerVars
  <2>3. Traced(handler.uuid, handler.bet_id)
    BY <2>1 DEF TraceInv, HandlerTraced
  <2>4. (Traced(handler.uuid, handler.bet_id))'
    BY <2>1, <2>2, <2>3 DEF Traced, Alone, Numbered, callVars
  <2> QED BY <2>4 DEF HandlerTraced
<1>6. CASE handler'.at \in {"idle", "join", "ping", "refused"}
  BY <1>6 DEF HandlerTraced
<1>7. \/ handler' = handler \/ ReceiveReply \/ ReceiveCreated \/ MapBrokerId
      \/ handler'.at \in {"idle", "join", "ping", "refused"}
  <2>1. CASE Handler
    <3>1. CASE MarkCreated
      BY <3>1 DEF MarkCreated, HandlerDone, Idle
    <3>2. CASE ~MarkCreated
      BY <2>1, <3>2 DEF Handler, StoreUuid, MarkRefused, ReceiveClose, ReceiveSocket,
         SendJoin, SendFirstPing, ReceiveOther, HandlerDone, Idle
    <3> QED BY <3>1, <3>2
  <2>2. ASSUME NEW t \in Task, CheckConnected(t) \/ TakeNumbers(t) \/ Thread(t)
        PROVE  handler' = handler
    BY <2>2 DEF CheckConnected, TakeNumbers, DrawNumber, TakeBetId, Thread, DelayOver, DelayStopped, Stamp,
       MapRef, SendRequest, PollRound, ReadSame, ReadChanged, EraseBroker, EraseRef, EraseBet,
       ThreadFrame
  <2>3. CASE OpenConnection \/ CloseConnection \/ CheckPing \/ SendPing
             \/ ClearBetsArray \/ ShutDown \/ Tick
    BY <2>3 DEF OpenConnection, CloseConnection, CheckPing, SendPing,
       ClearBetsArray, ShutDown, Tick
  <2>4. CASE OpenBroker \/ LoseBroker \/ FailToConnect \/ Broker \/ UNCHANGED vars
    BY <2>4 DEF OpenBroker, LoseBroker, FailToConnect, Broker, AcceptDeal, RefuseRequest,
       AnswerPing, CloseMarket, WorldFrame, apiVars, vars
  <2> QED BY <2>1, <2>2, <2>3, <2>4 DEF Next
<1> QED BY <1>2, <1>3, <1>4, <1>5, <1>6, <1>7

\* An entry of the two indexes is an old one, or the one the handler makes.
LEMMA IndexNext ==
    ASSUME TypeOK, TraceInv, [Next]_vars
    PROVE  IndexTraced'
<1>1. GoesOn
  BY StepGoesOn
<1>2. ASSUME NEW t \in Task, NEW i, Traced(t, i), NEW j, j = i
      PROVE  deal'[t] = "open" /\ (Alone(t)' => j = bet_id'[t])
  <2>1. (Traced(t, i))'
    BY <1>1, <1>2, TracedOn DEF TraceInv
  <2>2. Numbered(t) /\ bet_id'[t] = bet_id[t] /\ (Alone(t)' => Alone(t))
    BY <1>1, <1>2 DEF GoesOn, TraceInv, DealsSent, Traced, Sent, Numbered, Alone
  <2> QED BY <1>2, <2>1, <2>2 DEF Traced
<1>3. ASSUME NEW t \in Task,
             uuid_to_bet_id'[t] \in {uuid_to_bet_id[t], None},
             broker_bet_id_to_bet_id'[t] \in {broker_bet_id_to_bet_id[t], None}
      PROVE  /\ uuid_to_bet_id'[t] # None => (Traced(t, uuid_to_bet_id[t]))'
             /\ broker_bet_id_to_bet_id'[t] # None =>
                   (Traced(t, broker_bet_id_to_bet_id[t]))'
  <2>1. ASSUME uuid_to_bet_id'[t] # None PROVE (Traced(t, uuid_to_bet_id[t]))'
    <3>1. uuid_to_bet_id'[t] = uuid_to_bet_id[t] /\ Traced(t, uuid_to_bet_id[t])
      BY <1>3, <2>1 DEF TraceInv, IndexTraced
    <3> QED BY <1>2, <3>1 DEF Traced
  <2>2. ASSUME broker_bet_id_to_bet_id'[t] # None
        PROVE  (Traced(t, broker_bet_id_to_bet_id[t]))'
    <3>1. /\ broker_bet_id_to_bet_id'[t] = broker_bet_id_to_bet_id[t]
          /\ Traced(t, broker_bet_id_to_bet_id[t])
      BY <1>3, <2>2 DEF TraceInv, IndexTraced
    <3> QED BY <1>2, <3>1 DEF Traced
  <2> QED BY <2>1, <2>2
<1>4. CASE StoreUuid
  <2>1. /\ handler.uuid \in Task /\ Traced(handler.uuid, handler.bet_id)
        /\ uuid_to_bet_id' = [uuid_to_bet_id EXCEPT ![handler.uuid] = handler.bet_id]
        /\ broker_bet_id_to_bet_id' = broker_bet_id_to_bet_id
    BY <1>4 DEF TypeOK, HandlerTypes, TraceInv, HandlerTraced, StoreUuid
  <2>2. \A t \in Task \ {handler.uuid} : uuid_to_bet_id'[t] = uuid_to_bet_id[t]
    BY <2>1 DEF TypeOK, MapTypes
  <2>3. uuid_to_bet_id'[handler.uuid] = handler.bet_id
    BY <2>1 DEF TypeOK, MapTypes
  <2>4. \A t \in Task : uuid_to_bet_id'[t] # None => (Traced(t, uuid_to_bet_id[t]))'
    <3> SUFFICES ASSUME NEW t \in Task, uuid_to_bet_id'[t] # None
                 PROVE  (Traced(t, uuid_to_bet_id[t]))'
      OBVIOUS
    <3>1. CASE t = handler.uuid
      BY <1>2, <2>1, <2>3, <3>1 DEF Traced
    <3>2. CASE t # handler.uuid
      BY <1>2, <2>2, <3>2 DEF Traced, TraceInv, IndexTraced
    <3> QED BY <3>1, <3>2
  <2>5. \A t \in Task : broker_bet_id_to_bet_id'[t] # None =>
                           (Traced(t, broker_bet_id_to_bet_id[t]))'
    BY <1>2, <2>1 DEF Traced, TraceInv, IndexTraced
  <2> QED BY <2>4, <2>5 DEF IndexTraced
<1>5. CASE MapBrokerId
  <2>1. /\ handler.uuid \in Task /\ Traced(handler.uuid, handler.bet_id)
        /\ broker_bet_id_to_bet_id' =
              [broker_bet_id_to_bet_id EXCEPT ![handler.uuid] = handler.bet_id]
        /\ uuid_to_bet_id' = uuid_to_bet_id
    BY <1>5 DEF TypeOK, HandlerTypes, TraceInv, HandlerTraced, MapBrokerId
  <2>2. \A t \in Task \ {handler.uuid} :
           broker_bet_id_to_bet_id'[t] = broker_bet_id_to_bet_id[t]
    BY <2>1 DEF TypeOK, MapTypes
  <2>3. broker_bet_id_to_bet_id'[handler.uuid] = handler.bet_id
    BY <2>1 DEF TypeOK, MapTypes
  <2>4. \A t \in Task : broker_bet_id_to_bet_id'[t] # None =>
                           (Traced(t, broker_bet_id_to_bet_id[t]))'
    <3> SUFFICES ASSUME NEW t \in Task, broker_bet_id_to_bet_id'[t] # None
                 PROVE  (Traced(t, broker_bet_id_to_bet_id[t]))'
      OBVIOUS
    <3>1. CASE t = handler.uuid
      BY <1>2, <2>1, <2>3, <3>1 DEF Traced
    <3>2. CASE t # handler.uuid
      BY <1>2, <2>2, <3>2 DEF Traced, TraceInv, IndexTraced
    <3> QED BY <3>1, <3>2
  <2>5. \A t \in Task : uuid_to_bet_id'[t] # None => (Traced(t, uuid_to_bet_id[t]))'
    BY <1>2, <2>1 DEF Traced, TraceInv, IndexTraced
  <2> QED BY <2>4, <2>5 DEF IndexTraced
<1>6. ASSUME \A t \in Task :
                /\ uuid_to_bet_id'[t] \in {uuid_to_bet_id[t], None}
                /\ broker_bet_id_to_bet_id'[t] \in {broker_bet_id_to_bet_id[t], None}
      PROVE  IndexTraced'
  BY <1>3, <1>6 DEF IndexTraced
<1>7. CASE Handler
  BY <1>4, <1>5, <1>6, <1>7 DEF Handler, ReceiveReply, MarkRefused, ReceiveCreated, MarkCreated,
     ReceiveClose, ReceiveSocket, SendJoin, SendFirstPing, ReceiveOther, mapVars, indexVars
<1>8. ASSUME NEW t \in Task, CheckConnected(t) \/ TakeNumbers(t) \/ Thread(t)
      PROVE  IndexTraced'
  <2>1. CASE EraseBroker(t)
    BY <1>6, <2>1 DEF EraseBroker
  <2>2. CASE ~EraseBroker(t)
    BY <1>6, <1>8, <2>2 DEF CheckConnected, TakeNumbers, DrawNumber, TakeBetId, Thread, DelayOver, DelayStopped, Stamp,
       MapRef, SendRequest, PollRound, ReadSame, ReadChanged, EraseRef, EraseBet,
       mapVars, indexVars
  <2> QED BY <2>1, <2>2
<1>9. CASE OpenConnection \/ CloseConnection \/ CheckPing \/ SendPing
           \/ ClearBetsArray \/ ShutDown \/ Tick
  BY <1>6, <1>9 DEF OpenConnection, CloseConnection, CheckPing, SendPing,
     ClearBetsArray, ShutDown, Tick, mapVars, indexVars
<1>10. CASE OpenBroker \/ LoseBroker \/ FailToConnect \/ Broker \/ UNCHANGED vars
  BY <1>6, <1>10 DEF OpenBroker, LoseBroker, FailToConnect, Broker, AcceptDeal, RefuseRequest,
     AnswerPing, CloseMarket, WorldFrame, vars, mapVars, indexVars
<1> QED BY <1>7, <1>8, <1>9, <1>10 DEF Next

\* A bet gets the broker's id from the handler of deal_created and from nobody
\* else: a call starts without one, and the other handlers leave it alone.
LEMMA BetsTracedNext ==
    ASSUME TypeOK, TraceInv, [Next]_vars
    PROVE  BetsTraced'
<1>1. GoesOn
  BY StepGoesOn
<1>2. ASSUME NEW t \in Task, NEW i \in BetId, Traced(t, i)
      PROVE  (Traced(t, i))'
  BY <1>1, <1>2, TracedOn DEF TraceInv
<1>3. ASSUME \A i \in BetId : array_bets'[i] # None =>
                \/ /\ array_bets[i] # None
                   /\ array_bets'[i].broker_bet_id = array_bets[i].broker_bet_id
                \/ array_bets'[i].broker_bet_id = None
                \/ /\ array_bets'[i].broker_bet_id \in Task
                   /\ Traced(array_bets'[i].broker_bet_id, i)
      PROVE  BetsTraced'
  <2> SUFFICES ASSUME NEW t \in Task, NEW i \in BetId,
                      array_bets'[i] # None, array_bets'[i].broker_bet_id = t
               PROVE  (Traced(t, i))'
    BY DEF BetsTraced
  <2>1. Traced(t, i)
    BY <1>3 DEF TraceInv, BetsTraced
  <2> QED BY <1>2, <2>1
<1>4. ASSUME \A i \in BetId : array_bets'[i] \in {array_bets[i], None}
      PROVE  BetsTraced'
  BY <1>3, <1>4
<1>5. ASSUME NEW t \in Task, CheckConnected(t) \/ TakeNumbers(t) \/ Thread(t)
      PROVE  BetsTraced'
  <2>1. CASE Stamp(t)
    <3>1. user_bet[t] # None /\ user_bet[t].broker_bet_id = None
      BY <2>1 DEF TypeOK, ThreadTypes, Numbered, Stamp, TraceInv, CallsUntraced
    <3>2. \A i \in BetId : array_bets'[i] = array_bets[i] \/ array_bets'[i] = user_bet[t]
      BY <2>1 DEF Stamp, TypeOK, MapTypes
    <3> QED BY <1>3, <3>1, <3>2
  <2>2. CASE EraseBet(t)
    BY <1>4, <2>2 DEF TypeOK, MapTypes, EraseBet
  <2>3. CASE ~Stamp(t) /\ ~EraseBet(t)
    BY <1>4, <1>5, <2>3 DEF CheckConnected, TakeNumbers, DrawNumber, TakeBetId, Thread, DelayOver, DelayStopped,
       MapRef, SendRequest, PollRound, ReadSame, ReadChanged, EraseBroker, EraseRef, mapVars
  <2> QED BY <2>1, <2>2, <2>3
<1>6. CASE MarkCreated
  <2>1. handler.bet_id \in BetId /\ handler.uuid \in Task /\ Traced(handler.uuid, handler.bet_id)
    BY <1>6 DEF TypeOK, HandlerTypes, TraceInv, HandlerTraced, MarkCreated
  <2>2. ASSUME NEW i \in BetId, array_bets'[i] # array_bets[i]
        PROVE  i = handler.bet_id /\ array_bets'[i].broker_bet_id = handler.uuid
    BY <1>6, <2>2, CreatedBet
  <2> QED BY <1>3, <2>1, <2>2
<1>7. CASE MarkRefused
  <2>1. handler.bet_id \in BetId
    BY <1>7 DEF TypeOK, HandlerTypes, MarkRefused
  <2>2. ASSUME NEW i \in BetId, array_bets'[i] # array_bets[i]
        PROVE  array_bets[i] # None /\ array_bets'[i].broker_bet_id = array_bets[i].broker_bet_id
    BY <1>7, <2>1, <2>2 DEF TypeOK, MapTypes, Bet, MarkRefused, UpdateBet
  <2> QED BY <1>3, <2>2
<1>8. CASE ReceiveClose
  <2>1. ASSUME NEW i \in BetId, array_bets'[i] # array_bets[i]
        PROVE  array_bets[i] # None /\ array_bets'[i].broker_bet_id = array_bets[i].broker_bet_id
    BY <1>8, <2>1 DEF TypeOK, MapTypes, Bet, ReceiveClose, InBatch, Settled
  <2> QED BY <1>3, <2>1
<1>9. CASE Handler
  BY <1>4, <1>6, <1>7, <1>8, <1>9 DEF Handler, ReceiveReply, StoreUuid, ReceiveCreated,
     MapBrokerId, ReceiveSocket, SendJoin, SendFirstPing, ReceiveOther, mapVars
<1>10. CASE OpenConnection \/ CloseConnection \/ CheckPing \/ SendPing
            \/ ClearBetsArray \/ ShutDown \/ Tick
  BY <1>4, <1>10 DEF OpenConnection, CloseConnection, CheckPing, SendPing,
     ClearBetsArray, ShutDown, Tick, mapVars
<1>11. CASE OpenBroker \/ LoseBroker \/ FailToConnect \/ Broker \/ UNCHANGED vars
  BY <1>4, <1>11 DEF OpenBroker, LoseBroker, FailToConnect, Broker, AcceptDeal, RefuseRequest,
     AnswerPing, CloseMarket, WorldFrame, vars, mapVars
<1> QED BY <1>5, <1>9, <1>10, <1>11 DEF Next

LEMMA CallsUntracedNext ==
    ASSUME TypeOK, TraceInv, [Next]_vars
    PROVE  CallsUntraced'
<1>1. ASSUME NEW t \in Task, TakeNumbers(t) PROVE CallsUntraced'
  BY <1>1 DEF TypeOK, CallTypes, TraceInv, CallsUntraced, TakeNumbers, DrawNumber, TakeBetId, NewBet
<1>2. ASSUME NEW t \in Task, CheckConnected(t) \/ Thread(t) PROVE CallsUntraced'
  BY <1>2 DEF CheckConnected, Thread, DelayOver, DelayStopped, Stamp, MapRef, SendRequest,
     PollRound, ReadSame, ReadChanged, EraseBroker, EraseRef, EraseBet, ThreadFrame, callVars,
     TraceInv, CallsUntraced
<1>3. CASE Handler
  BY <1>3 DEF Handler, ReceiveReply, StoreUuid, MarkRefused, ReceiveCreated, MapBrokerId,
     MarkCreated, ReceiveClose, ReceiveSocket, SendJoin, SendFirstPing, ReceiveOther,
     HandlerFrame, localVars, callVars, TraceInv, CallsUntraced
<1>4. CASE OpenConnection \/ CloseConnection \/ CheckPing \/ SendPing
           \/ ClearBetsArray \/ ShutDown \/ Tick
  BY <1>4 DEF OpenConnection, CloseConnection, CheckPing, SendPing, ClearBetsArray,
     ShutDown, Tick, localVars, callVars, TraceInv, CallsUntraced
<1>5. CASE OpenBroker \/ LoseBroker \/ FailToConnect \/ Broker \/ UNCHANGED vars
  BY <1>5 DEF OpenBroker, LoseBroker, FailToConnect, Broker, AcceptDeal, RefuseRequest,
     AnswerPing, CloseMarket, WorldFrame, vars, localVars, callVars, TraceInv, CallsUntraced
<1> QED BY <1>1, <1>2, <1>3, <1>4, <1>5 DEF Next

LEMMA TraceNext == TypeOK /\ RefsHaveThreads /\ TraceInv /\ [Next]_vars => TraceInv'
  BY RequestsNext, MessagesNext, HandlerNext, IndexNext, BetsTracedNext, CallsUntracedNext
     DEF TraceInv

-----------------------------------------------------------------------------
(***************************************************************************)
(* Until clear_bets_array starts the numbering of bets again, no two calls *)
(* share an api_bet_id.                                                    *)
(***************************************************************************)
IdsDiffer ==
    \A t \in Task : Numbered(t) =>
        /\ bet_id[t] < bets_id_counter
        /\ \A u \in Task \ {t} : Numbered(u) => bet_id[u] # bet_id[t]

LEMMA IdsNext ==
    ASSUME TypeOK, IdsDiffer, [Next]_vars, ~ClearBetsArray
    PROVE  IdsDiffer'
<1>1. ASSUME UNCHANGED <<bet_id, bets_id_counter>>,
             \A u \in Task : Numbered(u)' => Numbered(u)
      PROVE  IdsDiffer'
  BY <1>1 DEF IdsDiffer
<1>2. ASSUME NEW t \in Task, TakeNumbers(t) PROVE IdsDiffer'
  <2>1. CASE DrawNumber(t)
    <3>1. \A u \in Task : Numbered(u)' => Numbered(u)
      BY <2>1 DEF TypeOK, CallTypes, DrawNumber, Goto, Numbered
    <3> QED BY <1>1, <2>1, <3>1 DEF DrawNumber
  <2>2. CASE TakeBetId(t)
    <3>1. /\ bet_id'[t] = bets_id_counter /\ bets_id_counter' = bets_id_counter + 1
          /\ bets_id_counter \in Nat
      BY <2>2 DEF TypeOK, CallTypes, CounterTypes, TakeBetId
    <3>2. \A u \in Task \ {t} : bet_id'[u] = bet_id[u] /\ (Numbered(u)' => Numbered(u))
      BY <2>2 DEF TypeOK, CallTypes, TakeBetId, Goto, Numbered
    <3>3. \A u \in Task : Numbered(u) => bet_id[u] \in Nat
      BY DEF TypeOK, ThreadTypes, BetId
    <3>4. \A u \in Task \ {t} : Numbered(u) => bet_id[u] < bets_id_counter
      BY DEF IdsDiffer
    <3> QED BY <3>1, <3>2, <3>3, <3>4 DEF IdsDiffer
  <2> QED BY <1>2, <2>1, <2>2 DEF TakeNumbers
<1>3. ASSUME NEW t \in Task, CheckConnected(t) \/ Thread(t) PROVE IdsDiffer'
  <2>1. \A u \in Task : Numbered(u)' => Numbered(u)
    BY <1>3 DEF TypeOK, CallTypes, CheckConnected, Thread, DelayOver, DelayStopped, Stamp,
       MapRef, SendRequest, PollRound, ReadSame, ReadChanged, EraseBroker, EraseRef, EraseBet,
       Goto, Numbered
  <2> QED BY <1>1, <1>3, <2>1 DEF CheckConnected, Thread, DelayOver, DelayStopped, Stamp,
       MapRef, SendRequest, PollRound, ReadSame, ReadChanged, EraseBroker, EraseRef, EraseBet,
       ThreadFrame, callVars, counters
<1>4. CASE Handler
  BY <1>1, <1>4 DEF Handler, ReceiveReply, StoreUuid, MarkRefused, ReceiveCreated, MapBrokerId,
     MarkCreated, ReceiveClose, ReceiveSocket, SendJoin, SendFirstPing, ReceiveOther,
     HandlerFrame, localVars, callVars, Numbered
<1>5. CASE OpenConnection \/ CloseConnection \/ CheckPing \/ SendPing \/ ShutDown \/ Tick
  BY <1>1, <1>5 DEF OpenConnection, CloseConnection, CheckPing, SendPing, ShutDown, Tick,
     localVars, callVars, counters, Numbered
<1>6. CASE OpenBroker \/ LoseBroker \/ FailToConnect \/ Broker \/ UNCHANGED vars
  BY <1>1, <1>6 DEF OpenBroker, LoseBroker, FailToConnect, Broker, AcceptDeal, RefuseRequest,
     AnswerPing, CloseMarket, WorldFrame, vars, localVars, callVars, apiVars, counters, Numbered
<1> QED BY <1>2, <1>3, <1>4, <1>5, <1>6 DEF Next

\* Only a clear counts as one.
LEMMA ClearsStay ==
    ASSUME TypeOK, [Next]_vars, ~ClearBetsArray
    PROVE  used'["clears"] = used["clears"]
<1>1. ASSUME NEW b \in BoundNames \ {"clears"}, NEW max, Bounded(b, max)
      PROVE  used'["clears"] = used["clears"]
  BY <1>1 DEF Bounded, BoundNames, TypeOK, WorldTypes
<1>2. {"opens", "drops", "pings"} \subseteq BoundNames \ {"clears"}
  BY DEF BoundNames
<1>3. \/ used' = used
      \/ CloseConnection \/ CheckPing \/ OpenBroker \/ LoseBroker \/ FailToConnect
  <2>1. ASSUME NEW t \in Task, CheckConnected(t) \/ TakeNumbers(t) \/ Thread(t)
        PROVE  used' = used
    BY <2>1 DEF CheckConnected, TakeNumbers, DrawNumber, TakeBetId, Thread, DelayOver,
       DelayStopped, Stamp, MapRef, SendRequest, PollRound, ReadSame, ReadChanged,
       EraseBroker, EraseRef, EraseBet, ThreadFrame, envVars
  <2>2. Handler => HandlerFrame
    BY DEF Handler, ReceiveReply, StoreUuid, MarkRefused, ReceiveCreated, MapBrokerId,
       MarkCreated, ReceiveClose, ReceiveSocket, SendJoin, SendFirstPing, ReceiveOther
  <2>3. Handler => used' = used
    BY <2>2 DEF HandlerFrame
  <2>4. OpenConnection \/ SendPing \/ ShutDown \/ Tick \/ Broker \/ UNCHANGED vars => used' = used
    BY DEF OpenConnection, SendPing, ShutDown, Tick, Broker, AcceptDeal, RefuseRequest,
       AnswerPing, CloseMarket, envVars, vars
  <2> QED BY <2>1, <2>3, <2>4 DEF Next
<1> QED BY <1>1, <1>2, <1>3
        DEF CloseConnection, CheckPing, OpenBroker, LoseBroker, FailToConnect

LEMMA UntilCleared ==
    ASSUME TypeOK, used["clears"] = 0 => IdsDiffer, [Next]_vars
    PROVE  used'["clears"] = 0 => IdsDiffer'
<1>1. CASE ClearBetsArray
  <2>1. used'["clears"] = used["clears"] + 1 /\ used["clears"] \in Nat
    BY <1>1 DEF ClearBetsArray, Bounded, BoundNames, TypeOK, WorldTypes
  <2> QED BY <2>1
<1>2. CASE ~ClearBetsArray
  BY <1>2, ClearsStay, IdsNext
<1> QED BY <1>1, <1>2

\* A deal is followed under the api_bet_id of the call whose request opened it,
\* across reconnects, for bets that are over, and whatever the answers of the
\* broker overtake; until clear_bets_array is called no other call has that id.
THEOREM DealsFollowedAlways == Spec => []DealsFollowed
<1> DEFINE Separate == used["clears"] = 0 => IdsDiffer
<1>1. TraceInv /\ Separate => DealsFollowed
  <2> SUFFICES ASSUME TraceInv, Separate, NEW t \in Task, Alone(t)
               PROVE  /\ uuid_to_bet_id[t] \in {bet_id[t], None}
                      /\ broker_bet_id_to_bet_id[t] \in {bet_id[t], None}
                      /\ \A i \in BetId :
                            array_bets[i] # None /\ array_bets[i].broker_bet_id = t
                              => bet_id[t] = i /\ deal[t] = "open"
                      /\ used["clears"] = 0 /\ Numbered(t) =>
                            \A u \in Task \ {t} : Numbered(u) => bet_id[u] # bet_id[t]
    BY DEF DealsFollowed, Alone
  <2> QED BY DEF TraceInv, IndexTraced, BetsTraced, Traced, IdsDiffer
<1>2. Init => Separate
  BY DEF Init, IdsDiffer, Numbered
<1>3. TypeOK /\ Separate /\ [Next]_vars => Separate'
  BY UntilCleared
<1> QED BY <1>1, <1>2, <1>3, TraceInit, TraceNext, TypeCorrect, RefsOwned, PTL DEF Spec

-----------------------------------------------------------------------------
(***************************************************************************)
(* The callbacks.  While no two calls share an api_bet_id, nobody but its  *)
(* own thread puts the bet of a call back to UNKNOWN_STATE; a clear starts *)
(* the ids again, and then a poll may find the fresh bet of another call   *)
(* under its id.                                                           *)
(***************************************************************************)
\* A callback hears nothing before the request is sent, and the poll loop
\* remembers what it was told last.
ToldByLoop ==
    \A t \in Task :
        /\ ~Sent(t) => reported[t] = <<>>
        /\ pc[t] \in {"poll", "read"} =>
              /\ reported[t] # <<>>
              /\ reported[t][Len(reported[t])] = last_bet_status[t]
              /\ last_bet_status[t] \notin Final

\* A deal the broker holds is not unknown again.
StatusGoesOn ==
    \A t \in Task :
        /\ pc[t] \in {"poll", "read"}
        /\ last_bet_status[t] = "WAITING_COMPLETION"
        /\ array_bets[bet_id[t]] # None
        => array_bets[bet_id[t]].status # "UNKNOWN_STATE"

ReportInv == IdsDiffer /\ ToldByLoop /\ StatusGoesOn

LEMMA ReportInit == Init => ReportInv
  BY DEF Init, ReportInv, IdsDiffer, ToldByLoop, StatusGoesOn, Numbered, Sent

\* Only the thread that stores its bet makes a bet unknown.
LEMMA UnknownOnlyNew ==
    ASSUME TypeOK, [Next]_vars, NEW i \in BetId,
           array_bets'[i] # None, array_bets'[i].status = "UNKNOWN_STATE"
    PROVE  \/ array_bets[i] # None /\ array_bets[i].status = "UNKNOWN_STATE"
           \/ \E t \in Task : Stamp(t) /\ i = bet_id[t]
<1>1. CASE array_bets'[i] = array_bets[i]
  BY <1>1
<1>2. CASE array_bets'[i] # array_bets[i]
  <2>1. ASSUME NEW t \in Task, CheckConnected(t) \/ TakeNumbers(t) \/ Thread(t)
        PROVE  Stamp(t) /\ i = bet_id[t]
    <3>1. CASE Stamp(t)
      BY <1>2, <3>1 DEF Stamp, TypeOK, MapTypes
    <3>2. CASE EraseBet(t)
      BY <1>2, <3>2 DEF EraseBet, TypeOK, MapTypes
    <3>3. CASE ~Stamp(t) /\ ~EraseBet(t)
      BY <1>2, <2>1, <3>3 DEF CheckConnected, TakeNumbers, DrawNumber, TakeBetId, Thread, DelayOver, DelayStopped,
         MapRef, SendRequest, PollRound, ReadSame, ReadChanged, EraseBroker, EraseRef, mapVars
    <3> QED BY <3>1, <3>2, <3>3
  <2>2. CASE MarkRefused
    <3>1. handler.bet_id \in BetId
      BY <2>2 DEF TypeOK, HandlerTypes, MarkRefused
    <3>2. array_bets'[i].status = "OPENING_ERROR"
      BY <1>2, <2>2, <3>1 DEF TypeOK, MapTypes, Bet, MarkRefused, UpdateBet
    <3> QED BY <3>2
  <2>3. CASE MarkCreated
    <3>1. array_bets'[i].status \in {"WAITING_COMPLETION", "CHECK_ERROR"}
      BY <1>2, <2>3, CreatedBet
    <3> QED BY <3>1
  <2>4. CASE ReceiveClose
    <3>1. array_bets'[i].status \in {"WIN", "LOSS"}
      BY <1>2, <2>4 DEF TypeOK, MapTypes, Bet, ReceiveClose, InBatch, Settled
    <3> QED BY <3>1
  <2>5. ~(\/ ReceiveReply \/ StoreUuid \/ ReceiveCreated \/ MapBrokerId \/ ReceiveSocket
          \/ SendJoin \/ SendFirstPing \/ ReceiveOther)
    BY <1>2 DEF ReceiveReply, StoreUuid, ReceiveCreated, MapBrokerId, ReceiveSocket,
       SendJoin, SendFirstPing, ReceiveOther, mapVars
  <2>6. ~(\/ OpenConnection \/ CloseConnection \/ CheckPing \/ SendPing
          \/ ClearBetsArray \/ ShutDown \/ Tick)
    BY <1>2 DEF OpenConnection, CloseConnection, CheckPing, SendPing,
       ClearBetsArray, ShutDown, Tick, mapVars
  <2>7. ~(OpenBroker \/ LoseBroker \/ FailToConnect \/ Broker \/ UNCHANGED vars)
    BY <1>2 DEF OpenBroker, LoseBroker, FailToConnect, Broker, AcceptDeal, RefuseRequest,
       AnswerPing, CloseMarket, WorldFrame, vars, mapVars
  <2> QED BY <2>1, <2>2, <2>3, <2>4, <2>5, <2>6, <2>7 DEF Next, Handler
<1> QED BY <1>1, <1>2

\* A step is one of the call's own, or the call stays where it is.
LEMMA OthersWait ==
    ASSUME TypeOK, [Next]_vars, NEW t \in Task
    PROVE  \/ CheckConnected(t) \/ TakeNumbers(t) \/ Thread(t)
           \/ /\ pc'[t] = pc[t] /\ reported'[t] = reported[t]
              /\ last_bet_status'[t] = last_bet_status[t]
<1>1. ASSUME UNCHANGED <<pc, copyVars>>
      PROVE  /\ pc'[t] = pc[t] /\ reported'[t] = reported[t]
             /\ last_bet_status'[t] = last_bet_status[t]
  BY <1>1 DEF copyVars
<1>2. ASSUME NEW u \in Task \ {t}, CheckConnected(u) \/ TakeNumbers(u) \/ Thread(u)
      PROVE  /\ pc'[t] = pc[t] /\ reported'[t] = reported[t]
             /\ last_bet_status'[t] = last_bet_status[t]
  <2>1. pc'[t] = pc[t]
    BY <1>2 DEF TypeOK, CallTypes, CheckConnected, TakeNumbers, DrawNumber, TakeBetId, Thread, DelayOver,
       DelayStopped, Stamp, MapRef, SendRequest, PollRound, ReadSame, ReadChanged,
       EraseBroker, EraseRef, EraseBet, Goto
  <2>2. reported'[t] = reported[t]
    BY <1>2 DEF TypeOK, CallTypes, CheckConnected, TakeNumbers, DrawNumber, TakeBetId, Thread, DelayOver,
       DelayStopped, Stamp, MapRef, SendRequest, PollRound, ReadSame, ReadChanged,
       EraseBroker, EraseRef, EraseBet, Callback, copyVars
  <2>3. last_bet_status'[t] = last_bet_status[t]
    BY <1>2 DEF TypeOK, CallTypes, CheckConnected, TakeNumbers, DrawNumber, TakeBetId, Thread, DelayOver,
       DelayStopped, Stamp, MapRef, SendRequest, PollRound, ReadSame, ReadChanged,
       EraseBroker, EraseRef, EraseBet, copyVars
  <2> QED BY <2>1, <2>2, <2>3
<1>3. CASE Handler
  BY <1>1, <1>3 DEF Handler, ReceiveReply, StoreUuid, MarkRefused, ReceiveCreated,
     MapBrokerId, MarkCreated, ReceiveClose, ReceiveSocket, SendJoin, SendFirstPing,
     ReceiveOther, HandlerFrame, localVars
<1>4. CASE OpenConnection \/ CloseConnection \/ CheckPing \/ SendPing
           \/ ClearBetsArray \/ ShutDown \/ Tick
  BY <1>1, <1>4 DEF OpenConnection, CloseConnection, CheckPing, SendPing,
     ClearBetsArray, ShutDown, Tick, localVars
<1>5. CASE OpenBroker \/ LoseBroker \/ FailToConnect \/ Broker \/ UNCHANGED vars
  BY <1>1, <1>5 DEF OpenBroker, LoseBroker, FailToConnect, Broker, AcceptDeal, RefuseRequest,
     AnswerPing, CloseMarket, WorldFrame, vars, localVars
<1> QED BY <1>2, <1>3, <1>4, <1>5 DEF Next

\* What a round of the poll loop tells that goes on: the status it read.
LEMMA RoundTells ==
    ASSUME TypeOK, ToldByLoop, NEW t \in Task, ReadChanged(t)
    PROVE  /\ Found(t).status \in Status
           /\ reported'[t] = Append(reported[t], Found(t).status)
           /\ pc'[t] = IF Found(t).status \in Final THEN "erase_broker" ELSE "poll"
           /\ Found(t).status \notin Final =>
                 /\ array_bets[bet_id[t]] # None
                 /\ Found(t).status = array_bets[bet_id[t]].status
                 /\ last_bet_status'[t] = Found(t).status
                 /\ Found(t).status # last_bet_status[t]
<1>1. bet_id[t] \in BetId /\ bet[t] \in Bet /\ Found(t) \in Bet
  <2>1. pc[t] = "read" /\ Numbered(t) /\ Copied(t)
    BY DEF ReadChanged, Numbered, Copied
  <2>2. bet_id[t] \in BetId /\ bet[t] \in Bet
    BY <2>1 DEF TypeOK, ThreadTypes
  <2> QED BY <2>1, <2>2, FoundType DEF TypeOK
<1>2. reported'[t] = Append(reported[t], Found(t).status)
  BY DEF ReadChanged, Callback, TypeOK, CallTypes
<1>3. pc'[t] = IF Found(t).status \in Final THEN "erase_broker" ELSE "poll"
  BY DEF ReadChanged, Goto, Ends, TypeOK, CallTypes
<1>4. ASSUME Found(t).status \notin Final
      PROVE  array_bets[bet_id[t]] # None /\ Found(t) = array_bets[bet_id[t]]
  BY <1>1, <1>4 DEF Found, Final, Bet
<1>5. array_bets[bet_id[t]] # None =>
         /\ last_bet_status'[t] = array_bets[bet_id[t]].status
         /\ array_bets[bet_id[t]].status # last_bet_status[t]
  BY DEF ReadChanged, SameStatus, TypeOK, CallTypes
<1> QED BY <1>1, <1>2, <1>3, <1>4, <1>5 DEF Bet

LEMMA ToldNext ==
    ASSUME TypeOK, ToldByLoop, [Next]_vars
    PROVE  ToldByLoop'
<1> SUFFICES ASSUME NEW t \in Task
             PROVE  /\ ~Sent(t)' => reported'[t] = <<>>
                    /\ pc'[t] \in {"poll", "read"} =>
                          /\ reported'[t] # <<>>
                          /\ reported'[t][Len(reported'[t])] = last_bet_status'[t]
                          /\ last_bet_status'[t] \notin Final
  BY DEF ToldByLoop
<1>1. reported[t] \in Seq(Status) /\ last_bet_status[t] \in Status
  BY DEF TypeOK, CallTypes
<1>2. CASE /\ pc'[t] = pc[t] /\ reported'[t] = reported[t]
           /\ last_bet_status'[t] = last_bet_status[t]
  BY <1>2 DEF ToldByLoop, Sent
<1>3. CASE \/ CheckConnected(t) \/ TakeNumbers(t) \/ DelayOver(t) \/ DelayStopped(t)
           \/ Stamp(t) \/ MapRef(t)
  <2>1. ~Sent(t) /\ pc'[t] \notin {"poll", "read"} /\ reported'[t] = reported[t]
    BY <1>3 DEF TypeOK, CallTypes, CheckConnected, TakeNumbers, DrawNumber, TakeBetId, DelayOver, DelayStopped,
       Stamp, MapRef, Goto, Sent, copyVars
  <2> QED BY <2>1 DEF ToldByLoop
<1>4. CASE SendRequest(t)
  <2>1. ~Sent(t) /\ Sent(t)'
    BY <1>4 DEF TypeOK, CallTypes, SendRequest, Goto, Sent
  <2>2. reported'[t] = Append(<<>>, "UNKNOWN_STATE") /\ last_bet_status'[t] = "UNKNOWN_STATE"
    BY <1>4, <2>1 DEF TypeOK, CallTypes, SendRequest, Callback, ToldByLoop
  <2> QED BY <2>1, <2>2 DEF Final
<1>5. CASE PollRound(t) \/ ReadSame(t)
  <2>1. /\ pc[t] \in {"poll", "read"} /\ Sent(t)'
        /\ reported'[t] = reported[t] /\ last_bet_status'[t] = last_bet_status[t]
    BY <1>5 DEF TypeOK, CallTypes, PollRound, ReadSame, Goto, Sent, copyVars
  <2> QED BY <2>1 DEF ToldByLoop
<1>6. CASE ReadChanged(t)
  <2>1. Sent(t)'
    BY <1>6, RoundTells DEF Sent
  <2>2. ASSUME pc'[t] \in {"poll", "read"}
        PROVE  /\ reported'[t] # <<>>
               /\ reported'[t][Len(reported'[t])] = last_bet_status'[t]
               /\ last_bet_status'[t] \notin Final
    <3>1. /\ reported'[t] = Append(reported[t], Found(t).status)
          /\ Found(t).status \in Status /\ Found(t).status \notin Final
          /\ last_bet_status'[t] = Found(t).status
      BY <1>6, <2>2, RoundTells
    <3>2. /\ reported'[t] # <<>>
          /\ reported'[t][Len(reported'[t])] = Found(t).status
      <4> DEFINE s == Found(t).status
                 old == reported[t]
      <4>1. s \in Status /\ old \in Seq(Status) /\ reported'[t] = Append(old, s)
        BY <1>1, <3>1
      <4> HIDE DEF s, old
      <4>2. Len(Append(old, s)) = Len(old) + 1 /\ Append(old, s)[Len(old) + 1] = s
        BY <4>1
      <4>3. Append(old, s) # <<>>
        BY <4>1, <4>2
      <4> QED BY <4>1, <4>2, <4>3 DEF s
    <3> QED BY <3>1, <3>2
  <2> QED BY <2>1, <2>2
<1>7. CASE EraseBroker(t) \/ EraseRef(t) \/ EraseBet(t)
  <2>1. Sent(t)' /\ pc'[t] \notin {"poll", "read"}
    BY <1>7 DEF TypeOK, CallTypes, EraseBroker, EraseRef, EraseBet, Goto, Sent
  <2> QED BY <2>1
<1> QED BY <1>2, <1>3, <1>4, <1>5, <1>6, <1>7, OthersWait DEF Thread

LEMMA StatusNext ==
    ASSUME TypeOK, TraceInv, ReportInv, [Next]_vars
    PROVE  StatusGoesOn'
<1> SUFFICES ASSUME NEW t \in Task, pc'[t] \in {"poll", "read"},
                    last_bet_status'[t] = "WAITING_COMPLETION",
                    array_bets'[bet_id'[t]] # None,
                    array_bets'[bet_id'[t]].status = "UNKNOWN_STATE"
             PROVE  FALSE
  BY DEF StatusGoesOn
<1>1. \/ pc[t] \in {"poll", "read"} /\ last_bet_status[t] = "WAITING_COMPLETION"
      \/ /\ ReadChanged(t) /\ array_bets[bet_id[t]] # None
         /\ array_bets[bet_id[t]].status = "WAITING_COMPLETION"
  <2>1. CASE ReadChanged(t)
    BY <2>1, RoundTells DEF ReportInv
  <2>2. CASE PollRound(t) \/ ReadSame(t)
    BY <2>2 DEF TypeOK, CallTypes, PollRound, ReadSame, Goto, copyVars
  <2>3. ~SendRequest(t)
    BY DEF TypeOK, CallTypes, SendRequest
  <2>4. ~(\/ CheckConnected(t) \/ TakeNumbers(t) \/ DelayOver(t) \/ DelayStopped(t)
          \/ Stamp(t) \/ MapRef(t) \/ EraseBroker(t) \/ EraseRef(t) \/ EraseBet(t))
    BY DEF TypeOK, CallTypes, CheckConnected, TakeNumbers, DrawNumber, TakeBetId, DelayOver, DelayStopped, Stamp,
       MapRef, EraseBroker, EraseRef, EraseBet, Goto
  <2> QED BY <2>1, <2>2, <2>3, <2>4, OthersWait DEF Thread
<1>2. Numbered(t) /\ pc[t] # "stamp"
  BY <1>1 DEF Numbered, ReadChanged
<1>3. bet_id'[t] = bet_id[t] /\ bet_id[t] \in BetId
  BY <1>2, StepGoesOn DEF GoesOn, TypeOK, ThreadTypes
<1>4. ASSUME NEW u \in Task, Stamp(u), bet_id[t] = bet_id[u]
      PROVE  FALSE
  BY <1>2, <1>4 DEF ReportInv, IdsDiffer, Stamp, Numbered
<1>5. array_bets[bet_id[t]] # None /\ array_bets[bet_id[t]].status = "UNKNOWN_STATE"
  BY <1>3, <1>4, UnknownOnlyNew
<1> QED BY <1>1, <1>5 DEF ReportInv, StatusGoesOn

LEMMA ReportNext ==
    ASSUME MaxClears = 0, TypeOK, TraceInv, ReportInv, [Next]_vars
    PROVE  ReportInv'
<1>1. ~ClearBetsArray
  BY DEF ClearBetsArray, Bounded, BoundNames, TypeOK, WorldTypes
<1> QED BY <1>1, IdsNext, ToldNext, StatusNext DEF ReportInv

\* Each call of a callback is a step of BetLifecycle, and nothing else is.
LEMMA LifecycleStep ==
    ASSUME TypeOK, ReportInv, [Next]_vars
    PROVE  [Lifecycle!Next]_reported
<1>1. ASSUME NEW t \in Task, SendRequest(t) PROVE Lifecycle!Announce(t)
  <2>1. reported[t] = <<>>
    BY <1>1 DEF ReportInv, ToldByLoop, SendRequest, Sent
  <2> QED BY <1>1, <2>1 DEF SendRequest, Callback, Lifecycle!Announce, Lifecycle!Announced,
          Lifecycle!Report
<1>2. ASSUME NEW t \in Task, ReadChanged(t)
      PROVE  Lifecycle!Accept(t) \/ Lifecycle!Close(t)
  <2> DEFINE s == Found(t).status
  <2>1. pc[t] = "read" /\ reported' = [reported EXCEPT ![t] = Append(@, s)]
    BY <1>2 DEF ReadChanged, Callback
  <2>2. /\ reported[t] # <<>> /\ reported[t] \in Seq(Status)
        /\ reported[t][Len(reported[t])] = last_bet_status[t]
        /\ last_bet_status[t] \notin Final /\ last_bet_status[t] \in Status
    BY <2>1 DEF ReportInv, ToldByLoop, TypeOK, CallTypes
  <2>3. /\ s \in Status
        /\ s \notin Final => /\ array_bets[bet_id[t]] # None
                             /\ s = array_bets[bet_id[t]].status
                             /\ s # last_bet_status[t]
    BY <1>2, RoundTells DEF ReportInv
  <2>4. s \notin Final => s = "WAITING_COMPLETION" /\ last_bet_status[t] = "UNKNOWN_STATE"
    BY <2>1, <2>2, <2>3 DEF ReportInv, StatusGoesOn, Status
  <2> HIDE DEF s
  <2>5. Lifecycle!Announced(t) /\ Lifecycle!LastReport(t) = last_bet_status[t]
    BY <2>2 DEF Lifecycle!Announced, Lifecycle!LastReport
  <2>6. Lifecycle!Final = Final /\ Lifecycle!Report(t, s)
    BY <2>1 DEF Lifecycle!Final, Final, Lifecycle!Report
  <2>7. CASE s \in Final
    BY <2>2, <2>5, <2>6, <2>7 DEF Lifecycle!Close
  <2>8. CASE s \notin Final
    BY <2>4, <2>5, <2>6, <2>8 DEF Lifecycle!Accept
  <2> QED BY <2>7, <2>8
<1>3. ASSUME NEW t \in Task, CheckConnected(t) \/ TakeNumbers(t) \/ Thread(t),
             ~SendRequest(t), ~ReadChanged(t)
      PROVE  reported' = reported
  BY <1>3 DEF CheckConnected, TakeNumbers, DrawNumber, TakeBetId, Thread, DelayOver, DelayStopped, Stamp, MapRef,
     PollRound, ReadSame, EraseBroker, EraseRef, EraseBet, copyVars
<1>4. CASE Handler
  BY <1>4 DEF Handler, ReceiveReply, StoreUuid, MarkRefused, ReceiveCreated, MapBrokerId,
     MarkCreated, ReceiveClose, ReceiveSocket, SendJoin, SendFirstPing, ReceiveOther,
     HandlerFrame, localVars, copyVars
<1>5. CASE OpenConnection \/ CloseConnection \/ CheckPing \/ SendPing
           \/ ClearBetsArray \/ ShutDown \/ Tick
  BY <1>5 DEF OpenConnection, CloseConnection, CheckPing, SendPing, ClearBetsArray,
     ShutDown, Tick, localVars, copyVars
<1>6. CASE OpenBroker \/ LoseBroker \/ FailToConnect \/ Broker \/ UNCHANGED vars
  BY <1>6 DEF OpenBroker, LoseBroker, FailToConnect, Broker, AcceptDeal, RefuseRequest,
     AnswerPing, CloseMarket, WorldFrame, vars, localVars, copyVars
<1> QED BY <1>1, <1>2, <1>3, <1>4, <1>5, <1>6 DEF Next, Thread, Lifecycle!Next

\* The deal tracker implements BetLifecycle as long as clear_bets_array is not
\* called: whatever is lost, refused or late, a callback hears UNKNOWN_STATE,
\* perhaps WAITING_COMPLETION, then at most one final status and nothing more.
THEOREM ReportsFollowLifecycleAlways ==
    ASSUME MaxClears = 0
    PROVE  Spec => ReportsFollowLifecycle
<1>1. Init => Lifecycle!Init
  BY DEF Init, Lifecycle!Init
<1>2. TypeOK /\ RefsHaveThreads /\ TraceInv /\ ReportInv /\ [Next]_vars
         => TraceInv' /\ ReportInv'
  BY TraceNext, ReportNext
<1>3. TypeOK /\ ReportInv /\ [Next]_vars => [Lifecycle!Next]_reported
  BY LifecycleStep
<1> QED BY <1>1, <1>2, <1>3, TraceInit, ReportInit, TypeCorrect, RefsOwned, PTL
        DEF Spec, ReportsFollowLifecycle, Lifecycle!Spec
=============================================================================
