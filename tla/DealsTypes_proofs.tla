-------------------------- MODULE DealsTypes_proofs --------------------------
(***************************************************************************)
(* Type correctness of Deals, for every value of its constants.            *)
(***************************************************************************)
EXTENDS Deals, SequenceTheorems, TLAPS

USE NoneAssumption, MarketAssumption, RateAssumption, TimingAssumption,
    CounterAssumption, BoundAssumption, NoBetAssumption

(***************************************************************************)
(* What a step leaves alone keeps its type.                                *)
(***************************************************************************)
LEMMA KeepThreads ==
    ASSUME CallTypes, ThreadTypes, UNCHANGED <<pc, localVars>>
    PROVE  CallTypes' /\ ThreadTypes'
  BY DEF CallTypes, ThreadTypes, Numbered, Copied, localVars, callVars, copyVars

LEMMA KeepMaps ==
    ASSUME MapTypes, UNCHANGED mapVars
    PROVE  MapTypes'
  BY DEF MapTypes, mapVars, indexVars

LEMMA KeepCounters ==
    ASSUME CounterTypes, UNCHANGED <<counters, since>>
    PROVE  CounterTypes'
  BY DEF CounterTypes, counters

LEMMA KeepFlags ==
    ASSUME FlagTypes, UNCHANGED <<connVars, ping, broker_up>>
    PROVE  FlagTypes'
  BY Zenon DEF FlagTypes, connVars

LEMMA KeepHandler ==
    ASSUME HandlerTypes, UNCHANGED handler
    PROVE  HandlerTypes'
  BY DEF HandlerTypes

LEMMA KeepChannels ==
    ASSUME ChannelTypes, UNCHANGED <<inbox, requests>>,
           \A u \in Task : Numbered(u) => Numbered(u)'
    PROVE  ChannelTypes'
<1>1. \A q \in requests : q.task # None => Numbered(q.task)'
  BY DEF ChannelTypes
<1> QED BY <1>1 DEF ChannelTypes

LEMMA KeepWorld ==
    ASSUME WorldTypes, UNCHANGED <<deal, end_rate, now, used>>
    PROVE  WorldTypes'
  BY DEF WorldTypes

(***************************************************************************)
(* The operators the actions are built from                                *)
(***************************************************************************)
\* A bet starts as a bet without a broker id and without a price.
LEMMA NewBetType ==
    ASSUME NEW c \in Trends, NEW m \in Market
    PROVE  NewBet(c, m) \in Bet
  BY DEF NewBet, Bet, Status, Final

LEMMA IdleType == Idle \in HandlerState /\ Idle.at = "idle"
  BY DEF Idle, HandlerState

\* A reply names a request, a deal_created names a deal and its price.
LEMMA ReplyFields ==
    ASSUME NEW m \in Message, m.event = "phx_reply"
    PROVE  m.ref \in Ref /\ m.uuid \in Task \cup {None}
  BY DEF Message

LEMMA CreatedFields ==
    ASSUME NEW m \in Message, m.event = "deal_created"
    PROVE  m.uuid \in Task /\ m.open_rate \in OpenRates /\ m.market \in Market
  BY DEF Message

\* A bet keeps its type when only its status changes.
LEMMA StatusType ==
    ASSUME NEW b \in Bet, NEW s \in Status
    PROVE  [b EXCEPT !.status = s] \in Bet
  BY DEF Bet

\* A poll round reports a bet.
LEMMA FoundType ==
    ASSUME CallTypes, ThreadTypes, MapTypes, NEW t \in Task, pc[t] = "read"
    PROVE  Found(t) \in Bet
<1>1. bet[t] \in Bet /\ bet_id[t] \in BetId
  BY DEF ThreadTypes, Numbered, Copied
<1>2. [bet[t] EXCEPT !.status = "CHECK_ERROR"] \in Bet
  BY <1>1, StatusType DEF Status, Final
<1> QED BY <1>1, <1>2 DEF MapTypes, Found

\* The WebSocket thread finds a well-formed message at the head of the inbox.
LEMMA ReceivingType ==
    ASSUME ChannelTypes, NEW e, Receiving(e)
    PROVE  /\ Head(inbox) \in Message /\ Head(inbox).event = e
           /\ inbox' \in Seq(Message)
  BY DEF ChannelTypes, Receiving

\* send() adds a request that names its sender and its number.
LEMMA SendType ==
    ASSUME ChannelTypes, NEW t \in Task \cup {None}, NEW r \in Ref, Send(t, r),
           inbox' = inbox, t # None => Numbered(t)',
           \A u \in Task : Numbered(u) => Numbered(u)'
    PROVE  ChannelTypes'
<1>1. requests' \subseteq requests \cup {[task |-> t, ref |-> r]}
  BY DEF Send
<1>2. \A q \in requests' : q \in [task : Task \cup {None}, ref : Ref]
  BY <1>1 DEF ChannelTypes
<1>3. \A q \in requests' : q.task # None => Numbered(q.task)'
  BY <1>1 DEF ChannelTypes
<1> QED BY <1>2, <1>3 DEF ChannelTypes

\* The broker puts well-formed messages into the inbox.
LEMMA TellType ==
    ASSUME inbox \in Seq(Message), NEW ms \in Seq(Message), Tell(ms)
    PROVE  inbox' \in Seq(Message)
  BY ConcatProperties DEF Tell

\* Answered and lost requests leave the channels in order.
LEMMA ChannelType ==
    ASSUME ChannelTypes, inbox' \in Seq(Message), requests' \subseteq requests,
           UNCHANGED pc
    PROVE  ChannelTypes'
<1>1. \A q \in requests' : q.task # None => Numbered(q.task)'
  BY DEF ChannelTypes, Numbered
<1> QED BY <1>1 DEF ChannelTypes

LEMMA BoundedType ==
    ASSUME used \in [BoundNames -> Nat], NEW b \in BoundNames, NEW max, Bounded(b, max)
    PROVE  used' \in [BoundNames -> Nat]
  BY DEF Bounded

-----------------------------------------------------------------------------
(***************************************************************************)
(* Type correctness: the initial states, then every action.                *)
(***************************************************************************)
\* The program starts in a well-typed state.
LEMMA InitTypes == Init => TypeOK
<1> SUFFICES ASSUME Init PROVE TypeOK
  OBVIOUS
<1>1. CallTypes
  <2>1. <<>> \in Seq(Status)
    OBVIOUS
  <2> QED BY <2>1 DEF Init, CallTypes, Label, Status, Final, Ref
<1>2. ThreadTypes
  BY DEF Init, ThreadTypes, Numbered, Copied
<1>3. MapTypes
  BY DEF Init, MapTypes
<1>4. CounterTypes
  BY DEF Init, CounterTypes
<1>5. FlagTypes
  BY Zenon DEF Init, FlagTypes
<1>6. HandlerTypes
  BY IdleType DEF Init, HandlerTypes
<1>7. ChannelTypes
  <2>1. inbox \in Seq(Message)
    BY DEF Init
  <2> QED BY <2>1 DEF Init, ChannelTypes
<1>8. WorldTypes
  BY DEF Init, WorldTypes
<1> QED BY <1>1, <1>2, <1>3, <1>4, <1>5, <1>6, <1>7, <1>8 DEF TypeOK

(***************************************************************************)
(* Steps of a bet's thread                                                 *)
(***************************************************************************)
\* A thread that goes on to a point for which it has what it needs stays well
\* typed, and so does all that ThreadFrame leaves alone.
LEMMA ThreadStepTypes ==
    ASSUME TypeOK, ThreadFrame,
           NEW t \in Task, NEW label \in Label \ {"drawn"}, Goto(t, label),
           label \notin {"idle", "checked"} <=> Numbered(t),
           Copied(t)' => bet'[t] \in Bet,
           \A u \in Task \ {t} : bet'[u] = bet[u],
           bet' \in [Task -> Bet \cup {None}],
           last_bet_status' \in [Task -> Status],
           reported' \in [Task -> Seq(Status)],
           since' \in 0 .. BetsDelay,
           MapTypes',
           requests' = requests \/ (Numbered(t) /\ Send(t, ref[t]))
    PROVE  TypeOK'
<1> USE DEF TypeOK
<1>1. /\ pc' \in [Task -> Label]
      /\ pc'[t] = label
      /\ \A u \in Task \ {t} : pc'[u] = pc[u]
  BY DEF CallTypes, Goto
<1>2. CallTypes'
  BY <1>1 DEF CallTypes, ThreadFrame, callVars
<1>3. \A u \in Task : Numbered(u) <=> Numbered(u)'
  BY <1>1 DEF Numbered
<1>4. ThreadTypes'
  <2>1. \A u \in Task :
           /\ Numbered(u)' => bet_id'[u] \in BetId
           /\ Numbered(u)' \/ pc'[u] = "drawn" => user_bet'[u] \in Bet
    BY <1>1, <1>3 DEF ThreadTypes, ThreadFrame, callVars
  <2>2. \A u \in Task : Copied(u)' => bet'[u] \in Bet
    BY <1>1 DEF ThreadTypes, Copied
  <2> QED BY <2>1, <2>2 DEF ThreadTypes
<1>5. ChannelTypes'
  <2>1. inbox' = inbox /\ ref[t] \in Ref
    BY DEF ThreadFrame, CallTypes
  <2>2. CASE requests' = requests
    BY <1>3, <2>1, <2>2, KeepChannels
  <2>3. CASE Numbered(t) /\ Send(t, ref[t])
    BY <1>3, <2>1, <2>3, SendType
  <2> QED BY <2>2, <2>3
<1>6. CounterTypes'
  BY DEF CounterTypes, ThreadFrame, counters
<1>7. FlagTypes' /\ HandlerTypes' /\ WorldTypes'
  BY KeepFlags, KeepHandler, KeepWorld DEF ThreadFrame, brokerVars
<1> QED BY <1>2, <1>4, <1>5, <1>6, <1>7

\* The same for a step that only moves the thread on.
LEMMA GotoTypes ==
    ASSUME TypeOK, ThreadFrame,
           NEW t \in Task, NEW label \in Label \ {"drawn"}, Goto(t, label),
           label \notin {"idle", "checked"} <=> Numbered(t),
           Copied(t)' => Copied(t),
           UNCHANGED <<copyVars, mapVars, since, requests>>
    PROVE  TypeOK'
<1>1. MapTypes'
  BY KeepMaps DEF TypeOK
<1>2. Copied(t)' => bet'[t] \in Bet
  BY DEF TypeOK, ThreadTypes, copyVars
<1>3. /\ bet' = bet
      /\ bet' \in [Task -> Bet \cup {None}]
      /\ last_bet_status' \in [Task -> Status]
      /\ reported' \in [Task -> Seq(Status)]
      /\ since' \in 0 .. BetsDelay
  BY DEF TypeOK, CallTypes, CounterTypes, copyVars
<1> QED BY <1>1, <1>2, <1>3, ThreadStepTypes

LEMMA CheckConnectedTypes ==
    ASSUME TypeOK, NEW t \in Task, CheckConnected(t)
    PROVE  TypeOK'
<1>1. pc[t] = "idle" /\ pc'[t] = "checked"
  BY DEF TypeOK, CallTypes, CheckConnected, Goto
<1> QED BY <1>1, GotoTypes DEF CheckConnected, Label, Numbered, Copied

LEMMA DelayTypes ==
    ASSUME TypeOK, NEW t \in Task, DelayOver(t) \/ DelayStopped(t)
    PROVE  TypeOK'
<1>1. pc[t] = "delay" /\ pc'[t] \in {"stamp", "stopped"}
  BY DEF TypeOK, CallTypes, DelayOver, DelayStopped, Goto
<1> QED BY <1>1, GotoTypes DEF DelayOver, DelayStopped, Label, Numbered, Copied

LEMMA PollTypes ==
    ASSUME TypeOK, NEW t \in Task, PollRound(t) \/ ReadSame(t)
    PROVE  TypeOK'
<1>1. pc[t] \in {"poll", "read"} /\ pc'[t] \in {"poll", "read", "stopped"}
  BY DEF TypeOK, CallTypes, PollRound, ReadSame, Goto
<1> QED BY <1>1, GotoTypes DEF PollRound, ReadSame, Label, Numbered, Copied

\* The call takes a number within its bounds and makes a new bet.
LEMMA DrawNumberTypes ==
    ASSUME TypeOK, NEW t \in Task, DrawNumber(t)
    PROVE  TypeOK'
<1> USE DEF TypeOK
<1>1. ref_counter \in Ref
  BY DEF CounterTypes, DrawNumber, DrawRef, Ref
<1>2. PICK c \in Trends, m \in Market :
          user_bet' = [user_bet EXCEPT ![t] = NewBet(c, m)]
  BY DEF DrawNumber
<1>3. NewBet(c, m) \in Bet
  BY NewBetType
<1>4. /\ user_bet' \in [Task -> Bet \cup {None}]
      /\ \A u \in Task \ {t} : user_bet'[u] = user_bet[u]
  BY <1>2, <1>3 DEF CallTypes
<1>5. bet_id' = bet_id /\ ref' \in [Task -> Ref]
  BY <1>1 DEF CallTypes, DrawNumber
<1>6. /\ pc' \in [Task -> Label]
      /\ pc[t] = "checked" /\ pc'[t] = "drawn"
      /\ \A u \in Task \ {t} : pc'[u] = pc[u]
  BY DEF CallTypes, DrawNumber, Goto, Label
<1>7. bet' = bet /\ last_bet_status' = last_bet_status /\ reported' = reported
  BY DEF DrawNumber, copyVars
<1>8. CallTypes'
  BY <1>4, <1>5, <1>6, <1>7 DEF CallTypes
<1>9. ThreadTypes'
  <2>1. ~Numbered(t)' /\ \A u \in Task \ {t} : Numbered(u)' <=> Numbered(u)
    BY <1>6 DEF Numbered
  <2>2. user_bet'[t] \in Bet
    BY <1>2, <1>3 DEF CallTypes
  <2>3. \A u \in Task : Copied(u)' => Copied(u) /\ u # t
    BY <1>6 DEF Copied
  <2> QED BY <1>4, <1>5, <1>6, <1>7, <2>1, <2>2, <2>3 DEF ThreadTypes
<1>10. CounterTypes'
  BY DEF CounterTypes, DrawNumber, DrawRef
<1>11. ChannelTypes'
  BY <1>6, KeepChannels DEF Numbered, DrawNumber, envVars
<1>12. MapTypes' /\ FlagTypes' /\ HandlerTypes' /\ WorldTypes'
  BY KeepMaps, KeepFlags, KeepHandler, KeepWorld
     DEF DrawNumber, envVars, brokerVars
<1> QED BY <1>8, <1>9, <1>10, <1>11, <1>12

\* The bet of a call that has drawn its number is there when its thread starts.
LEMMA TakeBetIdTypes ==
    ASSUME TypeOK, NEW t \in Task, TakeBetId(t)
    PROVE  TypeOK'
<1> USE DEF TypeOK
<1>1. bets_id_counter \in BetId /\ user_bet[t] \in Bet
  BY DEF CounterTypes, ThreadTypes, TakeBetId, BetId
<1>2. /\ bet_id' \in [Task -> BetId \cup {None}]
      /\ bet_id'[t] \in BetId
      /\ \A u \in Task \ {t} : bet_id'[u] = bet_id[u]
  BY <1>1 DEF CallTypes, TakeBetId
<1>3. /\ pc' \in [Task -> Label]
      /\ pc[t] = "drawn" /\ pc'[t] = "delay"
      /\ \A u \in Task \ {t} : pc'[u] = pc[u]
  BY DEF CallTypes, TakeBetId, Goto, Label
<1>4. /\ ref' = ref /\ user_bet' = user_bet
      /\ bet' = bet /\ last_bet_status' = last_bet_status /\ reported' = reported
  BY DEF TakeBetId, copyVars
<1>5. CallTypes'
  BY <1>2, <1>3, <1>4 DEF CallTypes
<1>6. ThreadTypes'
  BY <1>1, <1>2, <1>3, <1>4 DEF ThreadTypes, Numbered, Copied
<1>7. CounterTypes'
  BY DEF CounterTypes, TakeBetId
<1>8. ChannelTypes'
  BY <1>3, KeepChannels DEF Numbered, TakeBetId, envVars
<1>9. MapTypes' /\ FlagTypes' /\ HandlerTypes' /\ WorldTypes'
  BY KeepMaps, KeepFlags, KeepHandler, KeepWorld
     DEF TakeBetId, envVars, brokerVars
<1> QED BY <1>5, <1>6, <1>7, <1>8, <1>9

LEMMA StampTypes ==
    ASSUME TypeOK, NEW t \in Task, Stamp(t)
    PROVE  TypeOK'
<1> USE DEF TypeOK
<1>1. pc[t] = "stamp" /\ bet_id[t] \in BetId /\ user_bet[t] \in Bet
  BY DEF ThreadTypes, Numbered, Stamp
<1>2. /\ bet' \in [Task -> Bet \cup {None}]
      /\ bet'[t] \in Bet
      /\ \A u \in Task \ {t} : bet'[u] = bet[u]
  BY <1>1 DEF CallTypes, Stamp
<1>3. MapTypes'
  BY <1>1 DEF MapTypes, Stamp, indexVars
<1>4. /\ last_bet_status' \in [Task -> Status]
      /\ reported' \in [Task -> Seq(Status)]
      /\ since' \in 0 .. BetsDelay
  BY DEF CallTypes, Stamp
<1> QED BY <1>1, <1>2, <1>3, <1>4, ThreadStepTypes DEF Stamp, Label, Numbered

LEMMA MapRefTypes ==
    ASSUME TypeOK, NEW t \in Task, MapRef(t)
    PROVE  TypeOK'
<1> USE DEF TypeOK
<1>1. pc[t] = "map_ref" /\ bet_id[t] \in BetId /\ bet[t] \in Bet
  BY DEF ThreadTypes, Numbered, Copied, MapRef
<1>2. MapTypes'
  BY <1>1 DEF MapTypes, MapRef
<1>3. /\ bet' = bet
      /\ bet \in [Task -> Bet \cup {None}]
      /\ last_bet_status' \in [Task -> Status]
      /\ reported' \in [Task -> Seq(Status)]
      /\ since' \in 0 .. BetsDelay
  BY DEF CallTypes, CounterTypes, MapRef, copyVars
<1> QED BY <1>1, <1>2, <1>3, ThreadStepTypes DEF MapRef, Label, Numbered

LEMMA SendRequestTypes ==
    ASSUME TypeOK, NEW t \in Task, SendRequest(t)
    PROVE  TypeOK'
<1> USE DEF TypeOK
<1>1. pc[t] = "send" /\ bet[t] \in Bet
  BY DEF ThreadTypes, Copied, SendRequest
<1>2. "UNKNOWN_STATE" \in Status
  BY DEF Status
<1>3. /\ last_bet_status' \in [Task -> Status]
      /\ reported' \in [Task -> Seq(Status)]
  BY <1>2 DEF CallTypes, SendRequest, Callback
<1>4. MapTypes'
  BY KeepMaps DEF SendRequest
<1>5. /\ bet' = bet
      /\ bet \in [Task -> Bet \cup {None}]
      /\ since' \in 0 .. BetsDelay
  BY DEF CallTypes, CounterTypes, SendRequest
<1> QED BY <1>1, <1>3, <1>4, <1>5, ThreadStepTypes DEF SendRequest, Label, Numbered

LEMMA ReadChangedTypes ==
    ASSUME TypeOK, NEW t \in Task, ReadChanged(t)
    PROVE  TypeOK'
<1> USE DEF TypeOK
<1>1. pc[t] = "read" /\ bet_id[t] \in BetId
  BY DEF ThreadTypes, Numbered, ReadChanged
<1>2. Found(t) \in Bet /\ Found(t).status \in Status
  BY <1>1, FoundType DEF Bet
<1>3. /\ bet' \in [Task -> Bet \cup {None}]
      /\ bet'[t] \in Bet
      /\ \A u \in Task \ {t} : bet'[u] = bet[u]
  BY <1>2 DEF CallTypes, ReadChanged
<1>4. last_bet_status' \in [Task -> Status]
  <2>1. array_bets[bet_id[t]] # None => array_bets[bet_id[t]].status \in Status
    BY <1>1 DEF MapTypes, Bet
  <2> QED BY <2>1 DEF CallTypes, ReadChanged
<1>5. reported' \in [Task -> Seq(Status)]
  BY <1>2 DEF CallTypes, ReadChanged, Callback
<1>6. MapTypes' /\ since' \in 0 .. BetsDelay
  BY KeepMaps DEF CounterTypes, ReadChanged
<1>7. PICK label \in {"erase_broker", "poll"} : Goto(t, label)
  BY DEF ReadChanged
<1>8. label \in Label \ {"drawn"} /\ label \notin {"idle", "checked"}
  BY DEF Label
<1> QED BY <1>1, <1>3, <1>4, <1>5, <1>6, <1>7, <1>8, ThreadStepTypes
        DEF ReadChanged, Numbered

LEMMA EraseBrokerTypes ==
    ASSUME TypeOK, NEW t \in Task, EraseBroker(t)
    PROVE  TypeOK'
<1> USE DEF TypeOK
<1>1. pc[t] = "erase_broker" /\ bet[t] \in Bet
  BY DEF ThreadTypes, Copied, EraseBroker
<1>2. MapTypes'
  BY DEF MapTypes, EraseBroker
<1>3. /\ bet' = bet
      /\ bet \in [Task -> Bet \cup {None}]
      /\ last_bet_status' \in [Task -> Status]
      /\ reported' \in [Task -> Seq(Status)]
      /\ since' \in 0 .. BetsDelay
  BY DEF CallTypes, CounterTypes, EraseBroker, copyVars
<1> QED BY <1>1, <1>2, <1>3, ThreadStepTypes DEF EraseBroker, Label, Numbered

LEMMA EraseRefTypes ==
    ASSUME TypeOK, NEW t \in Task, EraseRef(t)
    PROVE  TypeOK'
<1> USE DEF TypeOK
<1>1. pc[t] = "erase_ref" /\ bet[t] \in Bet
  BY DEF ThreadTypes, Copied, EraseRef
<1>2. MapTypes'
  BY DEF MapTypes, EraseRef
<1>3. /\ bet' = bet
      /\ bet \in [Task -> Bet \cup {None}]
      /\ last_bet_status' \in [Task -> Status]
      /\ reported' \in [Task -> Seq(Status)]
      /\ since' \in 0 .. BetsDelay
  BY DEF CallTypes, CounterTypes, EraseRef, copyVars
<1> QED BY <1>1, <1>2, <1>3, ThreadStepTypes DEF EraseRef, Label, Numbered

LEMMA EraseBetTypes ==
    ASSUME TypeOK, NEW t \in Task, EraseBet(t)
    PROVE  TypeOK'
<1> USE DEF TypeOK
<1>1. pc[t] = "erase_bet" /\ pc'[t] = "done"
  BY DEF CallTypes, EraseBet, Goto
<1>2. MapTypes'
  BY DEF MapTypes, EraseBet, indexVars
<1>3. /\ bet' \in [Task -> Bet \cup {None}]
      /\ \A u \in Task \ {t} : bet'[u] = bet[u]
  BY DEF CallTypes, EraseBet
<1>4. /\ last_bet_status' \in [Task -> Status]
      /\ reported' \in [Task -> Seq(Status)]
      /\ since' \in 0 .. BetsDelay
  BY DEF CallTypes, CounterTypes, EraseBet, Status
<1> QED BY <1>1, <1>2, <1>3, <1>4, ThreadStepTypes
        DEF EraseBet, Label, Numbered, Copied

(***************************************************************************)
(* Steps of the WebSocket thread                                           *)
(***************************************************************************)
\* What HandlerFrame leaves alone stays well typed.
LEMMA HandlerStepTypes ==
    ASSUME TypeOK, HandlerFrame,
           MapTypes', HandlerTypes',
           is_connected' \in BOOLEAN,
           ref_counter' \in JoinRef .. (MaxRef + 1),
           inbox' \in Seq(Message),
           \/ requests' = requests
           \/ inbox' = inbox /\ ref_counter \in Ref /\ Send(None, ref_counter)
    PROVE  TypeOK'
<1> USE DEF TypeOK
<1>1. pc' = pc /\ \A u \in Task : Numbered(u) => Numbered(u)'
  BY DEF HandlerFrame, Numbered
<1>2. CallTypes' /\ ThreadTypes'
  BY KeepThreads DEF HandlerFrame
<1>3. CounterTypes'
  BY DEF CounterTypes, HandlerFrame
<1>4. FlagTypes'
  BY Zenon DEF FlagTypes, HandlerFrame, brokerVars
<1>5. ChannelTypes'
  <2>1. CASE requests' = requests
    BY <1>1, <2>1, ChannelType
  <2>2. CASE inbox' = inbox /\ ref_counter \in Ref /\ Send(None, ref_counter)
    BY <1>1, <2>2, SendType
  <2> QED BY <2>1, <2>2
<1>6. WorldTypes'
  BY KeepWorld DEF HandlerFrame, brokerVars
<1> QED BY <1>2, <1>3, <1>4, <1>5, <1>6

\* The same when the handler returns.
LEMMA HandlerDoneTypes ==
    ASSUME TypeOK, HandlerFrame, HandlerDone,
           MapTypes',
           UNCHANGED <<ref_counter, requests>>,
           inbox' \in Seq(Message)
    PROVE  TypeOK'
<1>1. HandlerTypes' /\ is_connected' \in BOOLEAN
  BY IdleType DEF HandlerDone, HandlerTypes
<1>2. ref_counter' \in JoinRef .. (MaxRef + 1)
  BY DEF TypeOK, CounterTypes
<1> QED BY <1>1, <1>2, HandlerStepTypes

LEMMA ReceiveReplyTypes ==
    ASSUME TypeOK, ReceiveReply
    PROVE  TypeOK'
<1> USE DEF TypeOK
<1> DEFINE i == ref_to_bet_id[Head(inbox).ref]
<1>1. /\ Head(inbox).ref \in Ref /\ Head(inbox).uuid \in Task \cup {None}
      /\ inbox' \in Seq(Message)
  BY ReceivingType, ReplyFields DEF ReceiveReply
<1>2. MapTypes'
  BY KeepMaps DEF ReceiveReply
<1>3. CASE i = None
  BY <1>1, <1>2, <1>3, HandlerDoneTypes DEF ReceiveReply
<1>4. CASE i # None
  <2>1. i \in BetId
    BY <1>1, <1>4 DEF MapTypes
  <2>2. handler' = [at |-> IF Head(inbox).uuid # None THEN "uuid" ELSE "refused",
                    bet_id |-> i, uuid |-> Head(inbox).uuid, open_rate |-> 0,
                    market |-> None]
    BY <1>4 DEF ReceiveReply, Idle
  <2>3. HandlerTypes'
    BY <1>1, <2>1, <2>2 DEF HandlerTypes, HandlerState
  <2>4. is_connected' \in BOOLEAN /\ ref_counter' \in JoinRef .. (MaxRef + 1)
    BY <1>4 DEF FlagTypes, CounterTypes, ReceiveReply
  <2> QED BY <1>1, <1>2, <2>3, <2>4, HandlerStepTypes DEF ReceiveReply
<1> QED BY <1>3, <1>4

LEMMA StoreUuidTypes ==
    ASSUME TypeOK, StoreUuid
    PROVE  TypeOK'
<1>1. MapTypes'
  BY DEF TypeOK, MapTypes, HandlerTypes, StoreUuid
<1>2. inbox' \in Seq(Message)
  BY DEF TypeOK, ChannelTypes, StoreUuid
<1> QED BY <1>1, <1>2, HandlerDoneTypes DEF StoreUuid

\* A bet found in array_bets may be replaced by a bet.
LEMMA UpdateBetType ==
    ASSUME MapTypes, NEW i \in BetId, NEW b, UpdateBet(i, b), UNCHANGED indexVars,
           array_bets[i] # None => b \in Bet
    PROVE  MapTypes'
  BY DEF MapTypes, UpdateBet, indexVars

LEMMA MarkRefusedTypes ==
    ASSUME TypeOK, MarkRefused
    PROVE  TypeOK'
<1> DEFINE i == handler.bet_id
<1>1. i \in BetId /\ (array_bets[i] # None => array_bets[i] \in Bet)
  BY DEF TypeOK, MapTypes, HandlerTypes, MarkRefused
<1>2. array_bets[i] # None => [array_bets[i] EXCEPT !.status = "OPENING_ERROR"] \in Bet
  BY <1>1, StatusType DEF Status, Final
<1>3. MapTypes'
  BY <1>1, <1>2, UpdateBetType DEF TypeOK, MarkRefused
<1>4. inbox' \in Seq(Message)
  BY DEF TypeOK, ChannelTypes, MarkRefused
<1> QED BY <1>3, <1>4, HandlerDoneTypes DEF MarkRefused

LEMMA ReceiveCreatedTypes ==
    ASSUME TypeOK, ReceiveCreated
    PROVE  TypeOK'
<1> USE DEF TypeOK
<1> DEFINE i == uuid_to_bet_id[Head(inbox).uuid]
<1>1. /\ Head(inbox).uuid \in Task /\ Head(inbox).open_rate \in OpenRates
      /\ Head(inbox).market \in Market
      /\ inbox' \in Seq(Message)
  BY ReceivingType, CreatedFields DEF ReceiveCreated
<1>2. MapTypes'
  BY KeepMaps DEF ReceiveCreated
<1>3. CASE i = None
  BY <1>1, <1>2, <1>3, HandlerDoneTypes DEF ReceiveCreated
<1>4. CASE i # None
  <2>1. i \in BetId
    BY <1>1, <1>4 DEF MapTypes
  <2>2. handler' = [at |-> "created", bet_id |-> i, uuid |-> Head(inbox).uuid,
                    open_rate |-> Head(inbox).open_rate,
                    market |-> Head(inbox).market]
    BY <1>4 DEF ReceiveCreated
  <2>3. HandlerTypes'
    BY <1>1, <2>1, <2>2 DEF HandlerTypes, HandlerState
  <2>4. is_connected' \in BOOLEAN /\ ref_counter' \in JoinRef .. (MaxRef + 1)
    BY <1>4 DEF FlagTypes, CounterTypes, ReceiveCreated
  <2> QED BY <1>1, <1>2, <2>3, <2>4, HandlerStepTypes DEF ReceiveCreated
<1> QED BY <1>3, <1>4

LEMMA MapBrokerIdTypes ==
    ASSUME TypeOK, MapBrokerId
    PROVE  TypeOK'
<1> USE DEF TypeOK
<1>1. MapTypes'
  BY DEF MapTypes, HandlerTypes, MapBrokerId
<1>2. HandlerTypes'
  BY DEF HandlerTypes, HandlerState, MapBrokerId
<1>3. /\ is_connected' \in BOOLEAN /\ ref_counter' \in JoinRef .. (MaxRef + 1)
      /\ inbox' \in Seq(Message)
  BY DEF FlagTypes, CounterTypes, ChannelTypes, MapBrokerId
<1> QED BY <1>1, <1>2, <1>3, HandlerStepTypes DEF MapBrokerId

LEMMA MarkCreatedTypes ==
    ASSUME TypeOK, MarkCreated
    PROVE  TypeOK'
<1> DEFINE i == handler.bet_id
           old    == array_bets[i]
           known  == [old EXCEPT !.broker_bet_id = handler.uuid]
           closed == [known EXCEPT !.market = Reclosed[<<old.market, handler.market>>]]
           bad(b) == [b EXCEPT !.status = "CHECK_ERROR"]
           good   == [closed EXCEPT !.open_price = handler.open_rate,
                                    !.status = "WAITING_COMPLETION"]
<1>1. /\ i \in BetId /\ handler.uuid \in Task /\ handler.open_rate \in OpenRates
      /\ handler.market \in Market
  BY DEF TypeOK, HandlerTypes, MarkCreated
<1>2. old # None => old \in Bet
  BY <1>1 DEF TypeOK, MapTypes
<1>3. old # None => known \in Bet /\ closed \in Bet
  <2> SUFFICES ASSUME old # None PROVE known \in Bet /\ closed \in Bet
    OBVIOUS
  <2>1. known \in Bet
    BY <1>1, <1>2 DEF Bet
  <2>2. old.market \in Market
    BY <1>2 DEF Bet
  <2>3. Reclosed[<<old.market, handler.market>>] \in Market
    <3> HIDE DEF old
    <3>1. <<old.market, handler.market>> \in Market \X Market
      BY <1>1, <2>2
    <3> QED BY <3>1
  <2> QED BY <2>1, <2>3 DEF Bet
<1>4. old # None => bad(known) \in Bet /\ bad(closed) \in Bet
  BY <1>3, StatusType DEF Status, Final
<1>5. old # None => good \in Bet
  BY <1>1, <1>3 DEF Bet, Status
<1>6. UpdateBet(i, good) \/ UpdateBet(i, bad(known)) \/ UpdateBet(i, bad(closed))
  BY DEF MarkCreated
<1>7. MapTypes'
  <2>1. MapTypes /\ UNCHANGED indexVars
    BY DEF TypeOK, MarkCreated
  <2> HIDE DEF i, good, bad, known, closed
  <2> QED BY <1>1, <1>4, <1>5, <1>6, <2>1, UpdateBetType DEF i, old
<1>8. inbox' \in Seq(Message)
  BY DEF TypeOK, ChannelTypes, MarkCreated
<1> QED BY <1>7, <1>8, HandlerDoneTypes DEF MarkCreated

\* What the handler of deal_created does to the bets: the one it found gets the
\* broker's id, and its status says whether the timestamps could be read.
LEMMA CreatedBet ==
    ASSUME TypeOK, MarkCreated, NEW i \in BetId, array_bets'[i] # array_bets[i]
    PROVE  /\ i = handler.bet_id /\ array_bets[i] # None
           /\ array_bets'[i].broker_bet_id = handler.uuid
           /\ array_bets'[i].status \in {"WAITING_COMPLETION", "CHECK_ERROR"}
<1> DEFINE old    == array_bets[handler.bet_id]
           known  == [old EXCEPT !.broker_bet_id = handler.uuid]
           closed == [known EXCEPT !.market = Reclosed[<<old.market, handler.market>>]]
           bad(b) == [b EXCEPT !.status = "CHECK_ERROR"]
           good   == [closed EXCEPT !.open_price = handler.open_rate,
                                    !.status = "WAITING_COMPLETION"]
           Is(b)  == /\ b.broker_bet_id = handler.uuid
                     /\ b.status \in {"WAITING_COMPLETION", "CHECK_ERROR"}
<1>1. handler.bet_id \in BetId
  BY DEF TypeOK, HandlerTypes, MarkCreated
<1>2. UpdateBet(handler.bet_id, good) \/ UpdateBet(handler.bet_id, bad(known))
         \/ UpdateBet(handler.bet_id, bad(closed))
  BY DEF MarkCreated
<1>3. old # None => Is(good) /\ Is(bad(known)) /\ Is(bad(closed))
  <2> SUFFICES ASSUME old # None PROVE Is(good) /\ Is(bad(known)) /\ Is(bad(closed))
    OBVIOUS
  <2>1. old \in Bet
    BY <1>1 DEF TypeOK, MapTypes
  <2> HIDE DEF old
  <2>2. known = [contract_type |-> old.contract_type, market |-> old.market,
                 status |-> old.status, broker_bet_id |-> handler.uuid,
                 open_price |-> old.open_price]
    BY <2>1 DEF Bet
  <2> QED BY <2>2
<1> HIDE DEF good, bad, known, closed
<1>4. /\ i = handler.bet_id /\ array_bets[i] # None
      /\ array_bets'[i] \in {good, bad(known), bad(closed)}
  BY <1>1, <1>2 DEF UpdateBet, TypeOK, MapTypes
<1> QED BY <1>3, <1>4

LEMMA ReceiveCloseTypes ==
    ASSUME TypeOK, ReceiveClose
    PROVE  TypeOK'
<1> DEFINE m == Head(inbox)
<1>1. \A b \in Bet : Settled(b, m.end_rate) \in Bet
  BY StatusType DEF Settled, Status, Final
<1>2. \A i \in BetId : InBatch(array_bets[i], m.market) => array_bets[i] \in Bet
  BY DEF TypeOK, MapTypes, InBatch
<1>3. MapTypes'
  BY <1>1, <1>2 DEF TypeOK, MapTypes, ReceiveClose, indexVars
<1>4. inbox' \in Seq(Message)
  BY ReceivingType DEF TypeOK, ReceiveClose
<1> QED BY <1>3, <1>4, HandlerDoneTypes DEF ReceiveClose

LEMMA ReceiveSocketTypes ==
    ASSUME TypeOK, ReceiveSocket
    PROVE  TypeOK'
<1>1. HandlerTypes'
  BY DEF ReceiveSocket, HandlerTypes, HandlerState, Idle
<1>2. MapTypes' /\ inbox' \in Seq(Message)
  BY KeepMaps, ReceivingType DEF TypeOK, ReceiveSocket
<1>3. is_connected' \in BOOLEAN
  BY DEF ReceiveSocket
<1>4. ref_counter' \in JoinRef .. (MaxRef + 1)
  <2>1. JoinRef \in JoinRef .. (MaxRef + 1)
    OBVIOUS
  <2> QED BY <2>1 DEF ReceiveSocket
<1> QED BY <1>1, <1>2, <1>3, <1>4, HandlerStepTypes DEF ReceiveSocket

LEMMA SendJoinTypes ==
    ASSUME TypeOK, SendJoin \/ SendFirstPing
    PROVE  TypeOK'
<1> USE DEF TypeOK
<1>1. HandlerTypes'
  BY IdleType DEF SendJoin, SendFirstPing, HandlerDone, HandlerTypes, HandlerState, Idle
<1>2. MapTypes'
  BY KeepMaps DEF SendJoin, SendFirstPing
<1>3. is_connected' \in BOOLEAN
  BY DEF SendJoin, SendFirstPing, HandlerDone, FlagTypes
<1>4. ref_counter \in Ref /\ ref_counter' \in JoinRef .. (MaxRef + 1)
  BY DEF CounterTypes, Ref, SendJoin, SendFirstPing, DrawRef
<1>5. inbox' = inbox /\ inbox' \in Seq(Message) /\ Send(None, ref_counter)
  BY DEF ChannelTypes, SendJoin, SendFirstPing
<1> QED BY <1>1, <1>2, <1>3, <1>4, <1>5, HandlerStepTypes DEF SendJoin, SendFirstPing

LEMMA ReceiveOtherTypes ==
    ASSUME TypeOK, ReceiveOther
    PROVE  TypeOK'
<1>1. MapTypes' /\ inbox' \in Seq(Message)
  BY KeepMaps, ReceivingType DEF TypeOK, ReceiveOther
<1> QED BY <1>1, HandlerDoneTypes DEF ReceiveOther

(***************************************************************************)
(* Steps of the connection, the ping thread, the owner, the extension, the *)
(* broker and the clock                                                    *)
(***************************************************************************)
LEMMA ConnectionTypes ==
    ASSUME TypeOK, OpenConnection \/ CloseConnection
    PROVE  TypeOK'
<1> USE DEF TypeOK
<1>1. FlagTypes'
  BY Zenon DEF FlagTypes, OpenConnection, CloseConnection, envVars, brokerVars
<1>2. ChannelTypes'
  <2>1. <<>> \in Seq(Message)
    OBVIOUS
  <2>2. inbox' \in Seq(Message)
    BY <2>1 DEF ChannelTypes, OpenConnection, CloseConnection, envVars
  <2>3. requests' \subseteq requests /\ pc' = pc
    BY DEF OpenConnection, CloseConnection, envVars
  <2> QED BY <2>2, <2>3, ChannelType
<1>3. WorldTypes'
  BY BoundedType DEF WorldTypes, BoundNames, OpenConnection, CloseConnection,
     envVars, brokerVars
<1>4. CallTypes' /\ ThreadTypes' /\ MapTypes' /\ CounterTypes' /\ HandlerTypes'
  BY KeepThreads, KeepMaps, KeepCounters, KeepHandler
     DEF OpenConnection, CloseConnection
<1> QED BY <1>1, <1>2, <1>3, <1>4

LEMMA CheckPingTypes ==
    ASSUME TypeOK, CheckPing
    PROVE  TypeOK'
<1> USE DEF TypeOK
<1>1. FlagTypes'
  BY Zenon DEF FlagTypes, CheckPing, connVars, brokerVars
<1>2. ChannelTypes'
  BY ChannelType DEF ChannelTypes, CheckPing
<1>3. WorldTypes'
  BY BoundedType DEF WorldTypes, BoundNames, CheckPing, brokerVars
<1>4. CallTypes' /\ ThreadTypes' /\ MapTypes' /\ CounterTypes' /\ HandlerTypes'
  BY KeepThreads, KeepMaps, KeepCounters, KeepHandler DEF CheckPing
<1> QED BY <1>1, <1>2, <1>3, <1>4

LEMMA SendPingTypes ==
    ASSUME TypeOK, SendPing
    PROVE  TypeOK'
<1> USE DEF TypeOK
<1>1. FlagTypes'
  BY Zenon DEF FlagTypes, SendPing, connVars, brokerVars
<1>2. ref_counter \in Ref /\ CounterTypes'
  BY DEF CounterTypes, Ref, SendPing, DrawRef
<1>3. ChannelTypes'
  BY <1>2, SendType DEF Numbered, SendPing
<1>4. CallTypes' /\ ThreadTypes' /\ MapTypes' /\ HandlerTypes' /\ WorldTypes'
  BY KeepThreads, KeepMaps, KeepHandler, KeepWorld DEF SendPing, brokerVars
<1> QED BY <1>1, <1>2, <1>3, <1>4

LEMMA ClearBetsArrayTypes ==
    ASSUME TypeOK, ClearBetsArray
    PROVE  TypeOK'
<1> USE DEF TypeOK
<1>1. MapTypes'
  BY DEF MapTypes, ClearBetsArray, indexVars
<1>2. CounterTypes'
  BY DEF CounterTypes, ClearBetsArray
<1>3. ChannelTypes'
  BY ChannelType DEF ChannelTypes, ClearBetsArray
<1>4. WorldTypes'
  BY BoundedType DEF WorldTypes, BoundNames, ClearBetsArray, brokerVars
<1>5. CallTypes' /\ ThreadTypes' /\ FlagTypes' /\ HandlerTypes'
  BY KeepThreads, KeepFlags, KeepHandler DEF ClearBetsArray, brokerVars
<1> QED BY <1>1, <1>2, <1>3, <1>4, <1>5

LEMMA ShutDownTypes ==
    ASSUME TypeOK, ShutDown
    PROVE  TypeOK'
<1> USE DEF TypeOK
<1>1. FlagTypes'
  BY Zenon DEF FlagTypes, ShutDown, envVars, brokerVars
<1>2. ChannelTypes' /\ WorldTypes'
  BY ChannelType, KeepWorld DEF ChannelTypes, ShutDown, envVars, brokerVars
<1>3. CallTypes' /\ ThreadTypes' /\ MapTypes' /\ CounterTypes' /\ HandlerTypes'
  BY KeepThreads, KeepMaps, KeepCounters, KeepHandler DEF ShutDown
<1> QED BY <1>1, <1>2, <1>3

LEMMA TickTypes ==
    ASSUME TypeOK, Tick
    PROVE  TypeOK'
<1> USE DEF TypeOK
<1>1. CounterTypes'
  BY DEF CounterTypes, Tick, counters
<1>2. WorldTypes'
  BY DEF WorldTypes, Tick, brokerVars
<1>3. ChannelTypes'
  BY ChannelType DEF ChannelTypes, Tick
<1>4. CallTypes' /\ ThreadTypes' /\ MapTypes' /\ FlagTypes' /\ HandlerTypes'
  BY KeepThreads, KeepMaps, KeepFlags, KeepHandler DEF Tick, brokerVars
<1> QED BY <1>1, <1>2, <1>3, <1>4

\* What WorldFrame leaves alone stays well typed.
LEMMA WorldStepTypes ==
    ASSUME TypeOK, WorldFrame,
           inbox' \in Seq(Message), requests' \subseteq requests,
           broker_up' \in BOOLEAN,
           deal' \in [Task -> {"none", "open", "refused"}],
           end_rate' \in [Market -> EndRates \cup {0}],
           used' \in [BoundNames -> Nat]
    PROVE  TypeOK'
<1> USE DEF TypeOK
<1>1. FlagTypes'
  BY Zenon DEF FlagTypes, WorldFrame, apiVars, connVars
<1>2. ChannelTypes'
  BY ChannelType DEF WorldFrame
<1>3. WorldTypes'
  BY DEF WorldTypes, WorldFrame
<1>4. CallTypes' /\ ThreadTypes' /\ MapTypes' /\ CounterTypes' /\ HandlerTypes'
  BY KeepThreads, KeepMaps, KeepCounters, KeepHandler DEF WorldFrame, apiVars
<1> QED BY <1>1, <1>2, <1>3, <1>4

LEMMA ExtensionTypes ==
    ASSUME TypeOK, OpenBroker \/ LoseBroker \/ FailToConnect
    PROVE  TypeOK'
<1> USE DEF TypeOK
<1>1. [event |-> "socket"] \in Message /\ [event |-> "other"] \in Message
  BY DEF Message
<1>2. inbox' \in Seq(Message)
  <2>1. \A m \in Message : Append(inbox, m) \in Seq(Message)
    BY DEF ChannelTypes
  <2>2. <<[event |-> "other"], [event |-> "other"]>> \in Seq(Message)
    BY <1>1
  <2>3. CASE OpenBroker \/ LoseBroker
    BY <1>1, <2>1, <2>3 DEF OpenBroker, LoseBroker
  <2>4. CASE FailToConnect
    BY <2>2, <2>4, ConcatProperties DEF ChannelTypes, FailToConnect
  <2> QED BY <2>3, <2>4
<1>3. used' \in [BoundNames -> Nat]
  BY BoundedType DEF WorldTypes, BoundNames, OpenBroker, LoseBroker, FailToConnect
<1>4. broker_up' \in BOOLEAN
  BY Zenon DEF FlagTypes, OpenBroker, LoseBroker, FailToConnect, brokerVars
<1>5. /\ requests' \subseteq requests
      /\ deal' \in [Task -> {"none", "open", "refused"}]
      /\ end_rate' \in [Market -> EndRates \cup {0}]
  BY DEF WorldTypes, OpenBroker, LoseBroker, FailToConnect, brokerVars
<1> QED BY <1>2, <1>3, <1>4, <1>5, WorldStepTypes DEF OpenBroker, LoseBroker, FailToConnect

LEMMA AcceptDealTypes ==
    ASSUME TypeOK, NEW q \in requests, AcceptDeal(q)
    PROVE  TypeOK'
<1> USE DEF TypeOK
<1>1. q.task \in Task /\ q.ref \in Ref /\ user_bet[q.task].market \in Market
  BY DEF ChannelTypes, ThreadTypes, AcceptDeal, Bet
<1>2. PICK r \in OpenRates :
          Tell(<<[event |-> "phx_reply", ref |-> q.ref, uuid |-> q.task],
                 [event |-> "deal_created", uuid |-> q.task, open_rate |-> r,
                  market |-> user_bet[q.task].market]>>)
  BY DEF AcceptDeal
<1>3. /\ [event |-> "phx_reply", ref |-> q.ref, uuid |-> q.task] \in Message
      /\ [event |-> "deal_created", uuid |-> q.task, open_rate |-> r,
                  market |-> user_bet[q.task].market] \in Message
  BY <1>1 DEF Message
<1>4. <<[event |-> "phx_reply", ref |-> q.ref, uuid |-> q.task],
        [event |-> "deal_created", uuid |-> q.task, open_rate |-> r,
                  market |-> user_bet[q.task].market]>> \in Seq(Message)
  BY <1>3
<1>5. inbox' \in Seq(Message)
  BY <1>2, <1>4, TellType DEF ChannelTypes
<1>6. /\ broker_up' \in BOOLEAN
      /\ requests' \subseteq requests
      /\ deal' \in [Task -> {"none", "open", "refused"}]
      /\ end_rate' \in [Market -> EndRates \cup {0}]
      /\ used' \in [BoundNames -> Nat]
  BY DEF FlagTypes, WorldTypes, AcceptDeal
<1> QED BY <1>5, <1>6, WorldStepTypes DEF AcceptDeal

LEMMA RefuseRequestTypes ==
    ASSUME TypeOK, NEW q \in requests, RefuseRequest(q)
    PROVE  TypeOK'
<1> USE DEF TypeOK
<1>1. <<[event |-> "phx_reply", ref |-> q.ref, uuid |-> None]>> \in Seq(Message)
  BY DEF ChannelTypes, Message
<1>2. inbox' \in Seq(Message)
  BY <1>1, TellType DEF ChannelTypes, RefuseRequest
<1>3. /\ broker_up' \in BOOLEAN
      /\ requests' \subseteq requests
      /\ deal' \in [Task -> {"none", "open", "refused"}]
      /\ end_rate' \in [Market -> EndRates \cup {0}]
      /\ used' \in [BoundNames -> Nat]
  BY DEF FlagTypes, WorldTypes, RefuseRequest
<1> QED BY <1>2, <1>3, WorldStepTypes DEF RefuseRequest

LEMMA AnswerPingTypes ==
    ASSUME TypeOK, NEW q \in requests, AnswerPing(q)
    PROVE  TypeOK'
<1>1. /\ inbox' \in Seq(Message) /\ requests' \subseteq requests
      /\ broker_up' \in BOOLEAN
      /\ deal' \in [Task -> {"none", "open", "refused"}]
      /\ end_rate' \in [Market -> EndRates \cup {0}]
      /\ used' \in [BoundNames -> Nat]
  BY DEF TypeOK, FlagTypes, ChannelTypes, WorldTypes, AnswerPing, brokerVars
<1> QED BY <1>1, WorldStepTypes DEF AnswerPing

LEMMA CloseMarketTypes ==
    ASSUME TypeOK, NEW m \in Market, CloseMarket(m)
    PROVE  TypeOK'
<1> USE DEF TypeOK
<1>1. PICK r \in EndRates :
          /\ end_rate' = [end_rate EXCEPT ![m] = r]
          /\ Tell(<<[event |-> "close_deal_batch", market |-> m, end_rate |-> r]>>)
  BY DEF CloseMarket
<1>2. <<[event |-> "close_deal_batch", market |-> m, end_rate |-> r]>> \in Seq(Message)
  BY DEF Message
<1>3. inbox' \in Seq(Message)
  BY <1>1, <1>2, TellType DEF ChannelTypes
<1>4. end_rate' \in [Market -> EndRates \cup {0}]
  BY <1>1 DEF WorldTypes
<1>5. /\ broker_up' \in BOOLEAN
      /\ requests' \subseteq requests
      /\ deal' \in [Task -> {"none", "open", "refused"}]
      /\ used' \in [BoundNames -> Nat]
  BY DEF FlagTypes, WorldTypes, CloseMarket
<1> QED BY <1>3, <1>4, <1>5, WorldStepTypes DEF CloseMarket

\* A step that changes nothing keeps every type.
LEMMA StutterTypes ==
    ASSUME TypeOK, UNCHANGED vars
    PROVE  TypeOK'
  BY KeepThreads, KeepMaps, KeepCounters, KeepFlags, KeepHandler, ChannelType,
     KeepWorld
     DEF TypeOK, ChannelTypes, vars, apiVars, envVars, brokerVars

\* Every step of the program keeps every type.
LEMMA NextTypes == TypeOK /\ [Next]_vars => TypeOK'
<1> SUFFICES ASSUME TypeOK, [Next]_vars PROVE TypeOK'
  OBVIOUS
<1>1. ASSUME NEW t \in Task, CheckConnected(t) \/ TakeNumbers(t) PROVE TypeOK'
  BY <1>1, CheckConnectedTypes, DrawNumberTypes, TakeBetIdTypes DEF TakeNumbers
<1>2. ASSUME NEW t \in Task, Thread(t) PROVE TypeOK'
  BY <1>2, DelayTypes, StampTypes, MapRefTypes, SendRequestTypes, PollTypes,
     ReadChangedTypes, EraseBrokerTypes, EraseRefTypes, EraseBetTypes DEF Thread
<1>3. CASE Handler
  BY <1>3, ReceiveReplyTypes, StoreUuidTypes, MarkRefusedTypes, ReceiveCreatedTypes,
     MapBrokerIdTypes, MarkCreatedTypes, ReceiveCloseTypes, ReceiveSocketTypes,
     SendJoinTypes, ReceiveOtherTypes DEF Handler
<1>4. CASE OpenConnection \/ CloseConnection
  BY <1>4, ConnectionTypes
<1>5. CASE CheckPing \/ SendPing \/ ClearBetsArray \/ ShutDown \/ Tick
  BY <1>5, CheckPingTypes, SendPingTypes, ClearBetsArrayTypes, ShutDownTypes, TickTypes
<1>6. CASE OpenBroker \/ LoseBroker \/ FailToConnect
  BY <1>6, ExtensionTypes
<1>7. CASE Broker
  BY <1>7, AcceptDealTypes, RefuseRequestTypes, AnswerPingTypes, CloseMarketTypes
     DEF Broker
<1>8. CASE UNCHANGED vars
  BY <1>8, StutterTypes
<1> QED BY <1>1, <1>2, <1>3, <1>4, <1>5, <1>6, <1>7, <1>8 DEF Next

\* Type correctness: every variable of the deal tracker keeps the type its
\* declaration gives it, and a thread or handler that goes on has what it uses.
THEOREM TypeCorrect == Spec => []TypeOK
  BY InitTypes, NextTypes, PTL DEF Spec

=============================================================================
