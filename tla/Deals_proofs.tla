---------------------------- MODULE Deals_proofs ----------------------------
(***************************************************************************)
(* Safety of the deal tracker, for every value of the constants of Deals:  *)
(* what the maps hold has a thread that answers for it, and the results    *)
(* stored in array_bets are those the broker's prices give.                *)
(***************************************************************************)
EXTENDS DealsTypes_proofs

USE NoneAssumption, MarketAssumption, RateAssumption, TimingAssumption,
    CounterAssumption, BoundAssumption, NoBetAssumption

-----------------------------------------------------------------------------
(***************************************************************************)
(* The entries of ref_to_bet_id                                            *)
(***************************************************************************)
\* Steps that leave the map and the numbers of the calls alone, and under which
\* a thread that answers for an entry goes on doing so.
LEMMA RefsKept ==
    ASSUME RefsHaveThreads, UNCHANGED <<ref_to_bet_id, callVars>>,
           \A u \in Task : Mapped(u) => Mapped(u)'
    PROVE  RefsHaveThreads'
<1> SUFFICES ASSUME NEW r \in Ref, ref_to_bet_id'[r] # None
             PROVE  \E u \in Task : ref'[u] = r /\ bet_id'[u] = ref_to_bet_id'[r] /\ Mapped(u)'
  BY DEF RefsHaveThreads
<1>1. PICK u \in Task : ref[u] = r /\ bet_id[u] = ref_to_bet_id[r] /\ Mapped(u)
  BY DEF RefsHaveThreads
<1> QED BY <1>1 DEF callVars

\* The thread that enters its number answers for the entry.
LEMMA RefsMapRef ==
    ASSUME TypeOK, RefsHaveThreads, NEW t \in Task, MapRef(t)
    PROVE  RefsHaveThreads'
<1> SUFFICES ASSUME NEW r \in Ref, ref_to_bet_id'[r] # None
             PROVE  \E u \in Task : ref'[u] = r /\ bet_id'[u] = ref_to_bet_id'[r] /\ Mapped(u)'
  BY DEF RefsHaveThreads
<1>1. /\ pc[t] = "map_ref" /\ pc'[t] = "send"
      /\ \A u \in Task \ {t} : pc'[u] = pc[u]
  BY DEF TypeOK, CallTypes, MapRef, Goto
<1>2. ref' = ref /\ bet_id' = bet_id
  BY DEF MapRef, ThreadFrame, callVars
<1>3. CASE r = ref[t]
  <2>1. ref_to_bet_id'[r] = bet_id[t]
    BY <1>3 DEF TypeOK, MapTypes, MapRef
  <2> QED BY <1>1, <1>2, <1>3, <2>1 DEF Mapped
<1>4. CASE r # ref[t]
  <2>1. ref_to_bet_id'[r] = ref_to_bet_id[r]
    BY <1>4 DEF TypeOK, MapTypes, MapRef
  <2>2. PICK u \in Task : ref[u] = r /\ bet_id[u] = ref_to_bet_id[r] /\ Mapped(u)
    BY <2>1 DEF RefsHaveThreads
  <2> QED BY <1>1, <1>2, <1>4, <2>1, <2>2 DEF Mapped
<1> QED BY <1>3, <1>4

\* The thread that erases its number leaves no entry it would answer for.
LEMMA RefsEraseRef ==
    ASSUME TypeOK, RefsHaveThreads, NEW t \in Task, EraseRef(t)
    PROVE  RefsHaveThreads'
<1> SUFFICES ASSUME NEW r \in Ref, ref_to_bet_id'[r] # None
             PROVE  \E u \in Task : ref'[u] = r /\ bet_id'[u] = ref_to_bet_id'[r] /\ Mapped(u)'
  BY DEF RefsHaveThreads
<1>1. \A u \in Task \ {t} : pc'[u] = pc[u]
  BY DEF TypeOK, CallTypes, EraseRef, Goto
<1>2. r # ref[t] /\ ref_to_bet_id'[r] = ref_to_bet_id[r]
  BY DEF TypeOK, MapTypes, EraseRef
<1>3. PICK u \in Task : ref[u] = r /\ bet_id[u] = ref_to_bet_id[r] /\ Mapped(u)
  BY <1>2 DEF RefsHaveThreads
<1> QED BY <1>1, <1>2, <1>3 DEF Mapped, EraseRef, ThreadFrame, callVars

\* The call that takes its numbers answers for no entry yet.
LEMMA RefsTakeNumbers ==
    ASSUME TypeOK, RefsHaveThreads, NEW t \in Task, TakeNumbers(t)
    PROVE  RefsHaveThreads'
<1> SUFFICES ASSUME NEW r \in Ref, ref_to_bet_id'[r] # None
             PROVE  \E u \in Task : ref'[u] = r /\ bet_id'[u] = ref_to_bet_id'[r] /\ Mapped(u)'
  BY DEF RefsHaveThreads
<1>1. ref_to_bet_id' = ref_to_bet_id
  BY DEF TakeNumbers, DrawNumber, TakeBetId, mapVars, indexVars
<1>2. PICK u \in Task : ref[u] = r /\ bet_id[u] = ref_to_bet_id[r] /\ Mapped(u)
  BY <1>1 DEF RefsHaveThreads
<1>3. u # t
  BY <1>2 DEF Mapped, TakeNumbers, DrawNumber, TakeBetId
<1>4. ref'[u] = ref[u] /\ bet_id'[u] = bet_id[u] /\ pc'[u] = pc[u]
  BY <1>3 DEF TypeOK, CallTypes, TakeNumbers, DrawNumber, TakeBetId, Goto
<1> QED BY <1>1, <1>2, <1>4 DEF Mapped

LEMMA RefsNext == TypeOK /\ RefsHaveThreads /\ [Next]_vars => RefsHaveThreads'
<1> SUFFICES ASSUME TypeOK, RefsHaveThreads, [Next]_vars PROVE RefsHaveThreads'
  OBVIOUS
<1>1. ASSUME NEW t \in Task, CheckConnected(t) \/ TakeNumbers(t)
      PROVE  RefsHaveThreads'
  <2>1. CASE CheckConnected(t)
    <3>1. \A u \in Task : Mapped(u) => Mapped(u)'
      BY <2>1 DEF TypeOK, CallTypes, Mapped, CheckConnected, Goto
    <3> QED BY <2>1, <3>1, RefsKept DEF CheckConnected, ThreadFrame, mapVars, indexVars
  <2>2. CASE TakeNumbers(t)
    BY <2>2, RefsTakeNumbers
  <2> QED BY <1>1, <2>1, <2>2
<1>2. ASSUME NEW t \in Task, Thread(t)
      PROVE  RefsHaveThreads'
  <2>1. CASE MapRef(t)
    BY <2>1, RefsMapRef
  <2>2. CASE EraseRef(t)
    BY <2>2, RefsEraseRef
  <2>3. CASE DelayOver(t) \/ DelayStopped(t) \/ Stamp(t) \/ SendRequest(t)
    <3>1. \A u \in Task : Mapped(u) => Mapped(u)'
      BY <2>3 DEF TypeOK, CallTypes, Mapped, DelayOver, DelayStopped, Stamp,
         SendRequest, Goto
    <3> QED BY <2>3, <3>1, RefsKept DEF DelayOver, DelayStopped, Stamp, SendRequest,
            ThreadFrame, mapVars, indexVars
  <2>4. CASE PollRound(t) \/ ReadSame(t) \/ ReadChanged(t) \/ EraseBroker(t) \/ EraseBet(t)
    <3>1. \A u \in Task : Mapped(u) => Mapped(u)'
      BY <2>4 DEF TypeOK, CallTypes, Mapped, PollRound, ReadSame, ReadChanged,
         EraseBroker, EraseBet, Goto
    <3> QED BY <2>4, <3>1, RefsKept DEF PollRound, ReadSame, ReadChanged, EraseBroker,
            EraseBet, ThreadFrame, mapVars, indexVars
  <2> QED BY <1>2, <2>1, <2>2, <2>3, <2>4 DEF Thread
<1>3. ASSUME UNCHANGED <<pc, ref_to_bet_id, callVars>> PROVE RefsHaveThreads'
  BY <1>3, RefsKept DEF Mapped
<1>4. CASE Handler
  BY <1>3, <1>4 DEF Handler, ReceiveReply, StoreUuid, MarkRefused, ReceiveCreated,
     MapBrokerId, MarkCreated, ReceiveClose, ReceiveSocket, SendJoin, SendFirstPing,
     ReceiveOther, HandlerFrame, localVars, mapVars, indexVars
<1>5. CASE OpenConnection \/ CloseConnection \/ CheckPing \/ SendPing
           \/ ClearBetsArray \/ ShutDown \/ Tick
  BY <1>3, <1>5 DEF OpenConnection, CloseConnection, CheckPing, SendPing,
     ClearBetsArray, ShutDown, Tick, localVars, mapVars, indexVars
<1>6. CASE OpenBroker \/ LoseBroker \/ FailToConnect \/ Broker
  BY <1>3, <1>6 DEF OpenBroker, LoseBroker, FailToConnect, Broker, AcceptDeal, RefuseRequest,
     AnswerPing, CloseMarket, WorldFrame, localVars, mapVars, indexVars
<1>7. CASE UNCHANGED vars
  BY <1>3, <1>7 DEF vars, localVars, mapVars, indexVars
<1> QED BY <1>1, <1>2, <1>4, <1>5, <1>6, <1>7 DEF Next

\* Every number in ref_to_bet_id belongs to a thread that will still erase it or
\* that the destructor stopped, whatever the broker sessions do to the counter.
THEOREM RefsOwned == Spec => []RefsHaveThreads
<1>1. Init => RefsHaveThreads
  BY DEF Init, RefsHaveThreads
<1> QED BY <1>1, TypeCorrect, RefsNext, PTL DEF Spec

-----------------------------------------------------------------------------
(***************************************************************************)
(* The bets of array_bets                                                  *)
(***************************************************************************)
\* Steps that add no bet and under which a thread keeps answering for its own.
LEMMA BetsKept ==
    ASSUME BetsHaveThreads, UNCHANGED bet_id,
           \A i \in BetId : array_bets'[i] # None => array_bets[i] # None,
           \A u \in Task : Kept(u) => Kept(u)'
    PROVE  BetsHaveThreads'
  BY DEF BetsHaveThreads

\* The thread that stores its bet answers for it.
LEMMA BetsStamp ==
    ASSUME TypeOK, BetsHaveThreads, NEW t \in Task, Stamp(t)
    PROVE  BetsHaveThreads'
<1> SUFFICES ASSUME NEW i \in BetId, array_bets'[i] # None
             PROVE  \E u \in Task : bet_id'[u] = i /\ Kept(u)'
  BY DEF BetsHaveThreads
<1>1. /\ pc[t] = "stamp" /\ pc'[t] = "map_ref"
      /\ \A u \in Task \ {t} : pc'[u] = pc[u]
  BY DEF TypeOK, CallTypes, Stamp, Goto
<1>2. bet_id' = bet_id
  BY DEF Stamp, ThreadFrame, callVars
<1>3. CASE i = bet_id[t]
  BY <1>1, <1>2, <1>3 DEF Kept, Copied
<1>4. CASE i # bet_id[t]
  <2>1. array_bets'[i] = array_bets[i]
    BY <1>4 DEF TypeOK, MapTypes, Stamp
  <2>2. PICK u \in Task : bet_id[u] = i /\ Kept(u)
    BY <2>1 DEF BetsHaveThreads
  <2> QED BY <1>1, <1>2, <1>4, <2>2 DEF Kept, Copied
<1> QED BY <1>3, <1>4

\* The thread that erases its bet leaves no bet it would answer for.
LEMMA BetsEraseBet ==
    ASSUME TypeOK, BetsHaveThreads, NEW t \in Task, EraseBet(t)
    PROVE  BetsHaveThreads'
<1> SUFFICES ASSUME NEW i \in BetId, array_bets'[i] # None
             PROVE  \E u \in Task : bet_id'[u] = i /\ Kept(u)'
  BY DEF BetsHaveThreads
<1>1. \A u \in Task \ {t} : pc'[u] = pc[u]
  BY DEF TypeOK, CallTypes, EraseBet, Goto
<1>2. i # bet_id[t] /\ array_bets'[i] = array_bets[i]
  BY DEF TypeOK, MapTypes, EraseBet
<1>3. PICK u \in Task : bet_id[u] = i /\ Kept(u)
  BY <1>2 DEF BetsHaveThreads
<1> QED BY <1>1, <1>2, <1>3 DEF Kept, Copied, EraseBet, ThreadFrame, callVars

\* The call that takes its numbers answers for no bet yet.
LEMMA BetsTakeNumbers ==
    ASSUME TypeOK, BetsHaveThreads, NEW t \in Task, TakeNumbers(t)
    PROVE  BetsHaveThreads'
<1>1. \A u \in Task : Kept(u) => Kept(u)' /\ bet_id'[u] = bet_id[u]
  BY DEF TypeOK, CallTypes, TakeNumbers, DrawNumber, TakeBetId, Goto, Kept, Copied
<1>2. array_bets' = array_bets
  BY DEF TakeNumbers, DrawNumber, TakeBetId, mapVars
<1> QED BY <1>1, <1>2 DEF BetsHaveThreads

LEMMA BetsNext == TypeOK /\ BetsHaveThreads /\ [Next]_vars => BetsHaveThreads'
<1> SUFFICES ASSUME TypeOK, BetsHaveThreads, [Next]_vars PROVE BetsHaveThreads'
  OBVIOUS
<1>1. ASSUME NEW t \in Task, CheckConnected(t) \/ TakeNumbers(t)
      PROVE  BetsHaveThreads'
  <2>1. CASE CheckConnected(t)
    <3>1. \A u \in Task : Kept(u) => Kept(u)'
      BY <2>1 DEF TypeOK, CallTypes, Kept, Copied, CheckConnected, Goto
    <3> QED BY <2>1, <3>1, BetsKept DEF CheckConnected, ThreadFrame, callVars, mapVars
  <2>2. CASE TakeNumbers(t)
    BY <2>2, BetsTakeNumbers
  <2> QED BY <1>1, <2>1, <2>2
<1>2. ASSUME NEW t \in Task, Thread(t)
      PROVE  BetsHaveThreads'
  <2>1. CASE Stamp(t)
    BY <2>1, BetsStamp
  <2>2. CASE EraseBet(t)
    BY <2>2, BetsEraseBet
  <2>3. CASE DelayOver(t) \/ DelayStopped(t) \/ MapRef(t) \/ SendRequest(t) \/ PollRound(t)
    <3>1. \A u \in Task : Kept(u) => Kept(u)'
      BY <2>3 DEF TypeOK, CallTypes, Kept, Copied, DelayOver, DelayStopped, MapRef,
         SendRequest, PollRound, Goto
    <3> QED BY <2>3, <3>1, BetsKept DEF DelayOver, DelayStopped, MapRef, SendRequest,
            PollRound, ThreadFrame, callVars, mapVars
  <2>4. CASE ReadSame(t) \/ ReadChanged(t) \/ EraseBroker(t) \/ EraseRef(t)
    <3>1. \A u \in Task : Kept(u) => Kept(u)'
      BY <2>4 DEF TypeOK, CallTypes, Kept, Copied, ReadSame, ReadChanged, EraseBroker,
         EraseRef, Goto
    <3> QED BY <2>4, <3>1, BetsKept DEF ReadSame, ReadChanged, EraseBroker, EraseRef,
            ThreadFrame, callVars, mapVars
  <2> QED BY <1>2, <2>1, <2>2, <2>3, <2>4 DEF Thread
<1>3. ASSUME UNCHANGED <<pc, bet_id>>,
             \A i \in BetId : array_bets'[i] # None => array_bets[i] # None
      PROVE  BetsHaveThreads'
  BY <1>3, BetsKept DEF Kept, Copied
<1>4. CASE Handler
  <2>1. UNCHANGED <<pc, bet_id>>
    BY <1>4 DEF Handler, ReceiveReply, StoreUuid, MarkRefused, ReceiveCreated,
       MapBrokerId, MarkCreated, ReceiveClose, ReceiveSocket, SendJoin, SendFirstPing,
       ReceiveOther, HandlerFrame, localVars, callVars
  <2>2. CASE MarkRefused \/ MarkCreated
    <3>1. \A i \in BetId : array_bets'[i] # None => array_bets[i] # None
      BY <2>2 DEF TypeOK, MapTypes, HandlerTypes, MarkRefused, MarkCreated, UpdateBet
    <3> QED BY <1>3, <2>1, <3>1
  <2>3. CASE ReceiveClose
    <3>1. \A i \in BetId : array_bets'[i] # None => array_bets[i] # None
      BY <2>3 DEF ReceiveClose, InBatch
    <3> QED BY <1>3, <2>1, <3>1
  <2>4. CASE ReceiveReply \/ StoreUuid \/ ReceiveCreated \/ MapBrokerId \/ ReceiveSocket
             \/ SendJoin \/ SendFirstPing \/ ReceiveOther
    BY <1>3, <2>1, <2>4 DEF ReceiveReply, StoreUuid, ReceiveCreated, MapBrokerId,
       ReceiveSocket, SendJoin, SendFirstPing, ReceiveOther, mapVars
  <2> QED BY <1>4, <2>2, <2>3, <2>4 DEF Handler
<1>5. CASE ClearBetsArray
  BY <1>5 DEF ClearBetsArray, BetsHaveThreads
<1>6. CASE OpenConnection \/ CloseConnection \/ CheckPing \/ SendPing
           \/ ShutDown \/ Tick
  BY <1>3, <1>6 DEF OpenConnection, CloseConnection, CheckPing, SendPing,
     ShutDown, Tick, localVars, callVars, mapVars
<1>7. CASE OpenBroker \/ LoseBroker \/ FailToConnect \/ Broker
  BY <1>3, <1>7 DEF OpenBroker, LoseBroker, FailToConnect, Broker, AcceptDeal, RefuseRequest,
     AnswerPing, CloseMarket, WorldFrame, localVars, callVars, mapVars
<1>8. CASE UNCHANGED vars
  BY <1>3, <1>8 DEF vars, localVars, callVars, mapVars
<1> QED BY <1>1, <1>2, <1>4, <1>5, <1>6, <1>7, <1>8 DEF Next

\* No handler of a late broker message brings an erased bet back, and no thread
\* ends without erasing its own.
THEOREM BetsOwned == Spec => []BetsHaveThreads
<1>1. Init => BetsHaveThreads
  BY DEF Init, BetsHaveThreads
<1> QED BY <1>1, TypeCorrect, BetsNext, PTL DEF Spec

-----------------------------------------------------------------------------
(***************************************************************************)
(* The results of bets                                                     *)
(***************************************************************************)
\* A result comes from a message and a message from a market: every message
\* that closes a market names the price it closed at, also while it waits in
\* the inbox behind messages of other kinds, and no market closes early.
ClosesFollowMarkets ==
    /\ \A m \in Market : end_rate[m] # 0 => now >= Closing[m]
    /\ \A k \in 1 .. Len(inbox) :
          inbox[k].event = "close_deal_batch" =>
              inbox[k].end_rate = end_rate[inbox[k].market]

\* The bet of a call, as the call made it, has no result.
CallsHaveNoResult ==
    \A t \in Task : user_bet[t] # None => user_bet[t].status = "UNKNOWN_STATE"

ResultsInv == ResultsFollowPrices /\ ClosesFollowMarkets /\ CallsHaveNoResult

\* A bet that carries no result says nothing about prices.
BetFollowsPrice(b) ==
    b # None /\ b.status \in {"WIN", "LOSS"} =>
        /\ end_rate[b.market] # 0
        /\ now >= Closing[b.market]
        /\ b.open_price # 0 => (b.status = "WIN" <=> Wins(b, end_rate[b.market]))

\* Steps that add no result.
LEMMA ResultsKept ==
    ASSUME TypeOK, TypeOK', ResultsFollowPrices, end_rate' = end_rate, now' >= now,
           \A i \in BetId : \/ array_bets'[i] = array_bets[i]
                            \/ array_bets'[i] = None
                            \/ array_bets'[i].status \notin {"WIN", "LOSS"}
    PROVE  ResultsFollowPrices'
<1> SUFFICES ASSUME NEW i \in BetId, array_bets'[i] # None,
                    array_bets'[i].status \in {"WIN", "LOSS"}
             PROVE  BetFollowsPrice(array_bets[i])'
  BY DEF ResultsFollowPrices, BetFollowsPrice
<1>1. array_bets'[i] = array_bets[i] /\ array_bets[i] \in Bet
  BY DEF TypeOK, MapTypes
<1>2. BetFollowsPrice(array_bets[i])
  BY <1>1 DEF ResultsFollowPrices, BetFollowsPrice
<1>3. now \in Nat /\ now' \in Nat /\ Closing[array_bets[i].market] \in Nat
  BY <1>1 DEF TypeOK, WorldTypes, Bet
<1> QED BY <1>1, <1>2, <1>3 DEF BetFollowsPrice, Wins

\* Steps after which the inbox holds no other messages that close markets.
LEMMA ClosesKept ==
    ASSUME TypeOK, TypeOK', ClosesFollowMarkets, end_rate' = end_rate, now' >= now,
           \A k \in 1 .. Len(inbox') :
              \/ \E l \in 1 .. Len(inbox) : inbox'[k] = inbox[l]
              \/ inbox'[k].event # "close_deal_batch"
    PROVE  ClosesFollowMarkets'
<1>1. \A m \in Market : end_rate'[m] # 0 => now' >= Closing[m]
  BY DEF ClosesFollowMarkets, TypeOK, WorldTypes
<1>2. \A k \in 1 .. Len(inbox') : inbox'[k].event = "close_deal_batch" =>
              inbox'[k].end_rate = end_rate'[inbox'[k].market]
  BY DEF ClosesFollowMarkets
<1> QED BY <1>1, <1>2 DEF ClosesFollowMarkets

\* Taking a message leaves the rest of the inbox as it was.
LEMMA ReceivingCloses ==
    ASSUME TypeOK, NEW e, Receiving(e)
    PROVE  \A k \in 1 .. Len(inbox') : \E l \in 1 .. Len(inbox) : inbox'[k] = inbox[l]
<1>1. inbox \in Seq(Message) /\ inbox # <<>> /\ inbox' = Tail(inbox)
  BY DEF TypeOK, ChannelTypes, Receiving
<1>2. \A k \in 1 .. Len(inbox') : inbox'[k] = inbox[k + 1] /\ k + 1 \in 1 .. Len(inbox)
  BY <1>1
<1> QED BY <1>2

\* The close of a market settles its bets by the market's price.
LEMMA ResultsReceiveClose ==
    ASSUME TypeOK, ResultsInv, ReceiveClose
    PROVE  ResultsFollowPrices'
<1> DEFINE m == Head(inbox)
<1>1. m \in Message /\ m.event = "close_deal_batch"
  BY ReceivingType DEF TypeOK, ReceiveClose
<1>2. m.market \in Market /\ m.end_rate \in EndRates
  BY <1>1 DEF Message
<1>3. m.end_rate = end_rate[m.market]
  <2>1. inbox \in Seq(Message) /\ inbox # <<>>
    BY DEF TypeOK, ChannelTypes, ReceiveClose, Receiving
  <2>2. 1 \in 1 .. Len(inbox) /\ m = inbox[1]
    BY <2>1
  <2> QED BY <1>1, <2>2 DEF ResultsInv, ClosesFollowMarkets
<1>4. end_rate[m.market] # 0 /\ now >= Closing[m.market]
  BY <1>2, <1>3 DEF ResultsInv, ClosesFollowMarkets
<1>5. end_rate' = end_rate /\ now' = now
  BY DEF ReceiveClose, HandlerFrame, brokerVars
<1> SUFFICES ASSUME NEW i \in BetId, array_bets'[i] # None,
                    array_bets'[i].status \in {"WIN", "LOSS"}
             PROVE  BetFollowsPrice(array_bets[i])'
  BY DEF ResultsFollowPrices, BetFollowsPrice
<1>6. CASE InBatch(array_bets[i], m.market)
  <2>1. array_bets[i] \in Bet /\ array_bets[i].market = m.market
    BY <1>6 DEF InBatch, TypeOK, MapTypes
  <2>2. array_bets'[i] = Settled(array_bets[i], m.end_rate)
    BY <1>6 DEF ReceiveClose
  <2>3. /\ array_bets'[i].market = m.market
        /\ array_bets'[i].open_price = array_bets[i].open_price
        /\ array_bets'[i].contract_type = array_bets[i].contract_type
        /\ array_bets'[i].status = IF Wins(array_bets[i], m.end_rate) THEN "WIN" ELSE "LOSS"
    BY <2>1, <2>2 DEF Settled, Bet
  <2> QED BY <1>3, <1>4, <1>5, <2>1, <2>3 DEF BetFollowsPrice, Wins
<1>7. CASE ~InBatch(array_bets[i], m.market)
  <2>1. array_bets'[i] = array_bets[i]
    BY <1>7 DEF ReceiveClose
  <2> QED BY <1>5, <2>1 DEF ResultsInv, ResultsFollowPrices, BetFollowsPrice, Wins
<1> QED BY <1>6, <1>7

\* A market closes once, at or after its time, and says so.
LEMMA ResultsCloseMarket ==
    ASSUME TypeOK, TypeOK', ResultsInv, NEW m \in Market, CloseMarket(m)
    PROVE  ResultsInv'
<1>1. PICK r \in EndRates :
          /\ end_rate' = [end_rate EXCEPT ![m] = r]
          /\ Tell(<<[event |-> "close_deal_batch", market |-> m, end_rate |-> r]>>)
  BY DEF CloseMarket
<1>2. /\ end_rate'[m] = r /\ r # 0 /\ now' = now /\ now >= Closing[m]
      /\ \A n \in Market : end_rate[n] # 0 => end_rate'[n] = end_rate[n]
  BY <1>1 DEF TypeOK, WorldTypes, CloseMarket, WorldFrame
<1>3. \A n \in Market : end_rate'[n] # 0 => now' >= Closing[n]
  BY <1>1, <1>2 DEF ResultsInv, ClosesFollowMarkets, TypeOK, WorldTypes
<1>4. \A k \in 1 .. Len(inbox') : inbox'[k].event = "close_deal_batch" =>
              inbox'[k].end_rate = end_rate'[inbox'[k].market]
  <2> DEFINE c == [event |-> "close_deal_batch", market |-> m, end_rate |-> r]
  <2> SUFFICES ASSUME NEW k \in 1 .. Len(inbox'), inbox'[k].event = "close_deal_batch"
               PROVE  inbox'[k].end_rate = end_rate'[inbox'[k].market]
    OBVIOUS
  <2>1. inbox \in Seq(Message) /\ <<c>> \in Seq(Message)
    BY DEF TypeOK, ChannelTypes, Message
  <2>2. \/ k \in 1 .. Len(inbox) /\ inbox'[k] = inbox[k]
        \/ inbox'[k] = c
    BY <1>1, <2>1, ConcatProperties DEF Tell
  <2>3. CASE k \in 1 .. Len(inbox) /\ inbox'[k] = inbox[k]
    <3>1. inbox[k] \in Message /\ inbox[k].event = "close_deal_batch"
      BY <2>1, <2>3
    <3>2. inbox[k].market \in Market /\ inbox[k].end_rate \in EndRates
      BY <3>1 DEF Message
    <3>3. inbox[k].end_rate = end_rate[inbox[k].market]
      BY <2>3, <3>1 DEF ResultsInv, ClosesFollowMarkets
    <3> QED BY <1>2, <2>3, <3>2, <3>3
  <2>4. CASE inbox'[k] = c
    BY <1>2, <2>4
  <2> QED BY <2>2, <2>3, <2>4
<1>5. ClosesFollowMarkets'
  BY <1>3, <1>4 DEF ClosesFollowMarkets
<1>6. ResultsFollowPrices'
  <2> SUFFICES ASSUME NEW i \in BetId, array_bets'[i] # None,
                      array_bets'[i].status \in {"WIN", "LOSS"}
               PROVE  BetFollowsPrice(array_bets[i])'
    BY DEF ResultsFollowPrices, BetFollowsPrice
  <2>1. array_bets' = array_bets
    BY DEF CloseMarket, WorldFrame, mapVars
  <2>2. array_bets[i] \in Bet /\ BetFollowsPrice(array_bets[i])
    BY <2>1 DEF TypeOK, MapTypes, ResultsInv, ResultsFollowPrices, BetFollowsPrice
  <2>3. end_rate[array_bets[i].market] # 0 /\ array_bets[i].market \in Market
    BY <2>1, <2>2 DEF BetFollowsPrice, Bet
  <2>4. end_rate'[array_bets[i].market] = end_rate[array_bets[i].market]
    BY <1>2, <2>3
  <2> QED BY <1>2, <2>1, <2>2, <2>4 DEF BetFollowsPrice, Wins
<1>7. CallsHaveNoResult'
  BY DEF ResultsInv, CallsHaveNoResult, CloseMarket, WorldFrame, localVars, callVars
<1> QED BY <1>5, <1>6, <1>7 DEF ResultsInv

\* A thread adds no result to array_bets.
LEMMA ResultsThread ==
    ASSUME TypeOK, TypeOK', ResultsInv, NEW t \in Task, Thread(t)
    PROVE  ResultsInv'
<1>1. UNCHANGED <<end_rate, now, inbox, user_bet>> /\ now \in Nat
  BY DEF Thread, DelayOver, DelayStopped, Stamp, MapRef, SendRequest, PollRound,
     ReadSame, ReadChanged, EraseBroker, EraseRef, EraseBet, ThreadFrame, callVars,
     brokerVars, TypeOK, WorldTypes
<1>2. \A i \in BetId : \/ array_bets'[i] = array_bets[i]
                       \/ array_bets'[i] = None
                       \/ array_bets'[i].status \notin {"WIN", "LOSS"}
  <2>1. CASE Stamp(t)
    <3>1. user_bet[t] # None
      BY <2>1 DEF TypeOK, ThreadTypes, Numbered, Stamp
    <3> QED BY <2>1, <3>1 DEF TypeOK, MapTypes, ResultsInv, CallsHaveNoResult, Stamp
  <2>2. CASE EraseBet(t)
    BY <2>2 DEF TypeOK, MapTypes, EraseBet
  <2>3. CASE ~Stamp(t) /\ ~EraseBet(t)
    BY <2>3 DEF Thread, DelayOver, DelayStopped, MapRef, SendRequest, PollRound,
       ReadSame, ReadChanged, EraseBroker, EraseRef, mapVars
  <2> QED BY <2>1, <2>2, <2>3
<1>3. ResultsFollowPrices'
  BY <1>1, <1>2, ResultsKept DEF ResultsInv
<1> QED BY <1>1, <1>3 DEF ResultsInv, ClosesFollowMarkets, CallsHaveNoResult

\* A handler adds a result only when its market has closed.
LEMMA ResultsHandler ==
    ASSUME TypeOK, TypeOK', ResultsInv, Handler
    PROVE  ResultsInv'
<1>1. UNCHANGED <<end_rate, now, user_bet>> /\ now \in Nat
  <2>1. HandlerFrame
    BY DEF Handler, ReceiveReply, StoreUuid, MarkRefused, ReceiveCreated, MapBrokerId,
       MarkCreated, ReceiveClose, ReceiveSocket, SendJoin, SendFirstPing, ReceiveOther
  <2> QED BY <2>1 DEF HandlerFrame, localVars, callVars, brokerVars, TypeOK, WorldTypes
<1>2. ClosesFollowMarkets'
  <2>1. inbox' = inbox \/ \E e : Receiving(e)
    BY DEF Handler, ReceiveReply, StoreUuid, MarkRefused, ReceiveCreated, MapBrokerId,
       MarkCreated, ReceiveClose, ReceiveSocket, SendJoin, SendFirstPing, ReceiveOther
  <2>2. \A k \in 1 .. Len(inbox') : \E l \in 1 .. Len(inbox) : inbox'[k] = inbox[l]
    BY <2>1, ReceivingCloses
  <2> QED BY <1>1, <2>2, ClosesKept DEF ResultsInv
<1>3. ResultsFollowPrices'
  <2>1. CASE ReceiveClose
    BY <2>1, ResultsReceiveClose
  <2>2. CASE MarkRefused
    <3>1. handler.bet_id \in BetId
      BY <2>2 DEF TypeOK, HandlerTypes, MarkRefused
    <3>2. \A i \in BetId : array_bets'[i] = array_bets[i]
                           \/ array_bets'[i].status = "OPENING_ERROR"
      BY <2>2, <3>1 DEF TypeOK, MapTypes, Bet, MarkRefused, UpdateBet
    <3> QED BY <1>1, <3>2, ResultsKept DEF ResultsInv
  <2>3. CASE MarkCreated
    <3>1. \A i \in BetId : array_bets'[i] = array_bets[i]
                           \/ array_bets'[i].status \in {"WAITING_COMPLETION", "CHECK_ERROR"}
      BY <2>3, CreatedBet
    <3> QED BY <1>1, <3>1, ResultsKept DEF ResultsInv
  <2>4. CASE ReceiveReply \/ StoreUuid \/ ReceiveCreated \/ MapBrokerId \/ ReceiveSocket
             \/ SendJoin \/ SendFirstPing \/ ReceiveOther
    <3>1. array_bets' = array_bets
      BY <2>4 DEF ReceiveReply, StoreUuid, ReceiveCreated, MapBrokerId, ReceiveSocket,
         SendJoin, SendFirstPing, ReceiveOther, mapVars
    <3> QED BY <1>1, <3>1, ResultsKept DEF ResultsInv
  <2> QED BY <2>1, <2>2, <2>3, <2>4 DEF Handler
<1> QED BY <1>1, <1>2, <1>3 DEF ResultsInv, CallsHaveNoResult

\* Messages of other kinds behind those of the inbox close no market.
LEMMA AppendedCloses ==
    ASSUME inbox \in Seq(Message), NEW ms \in Seq(Message),
           \A k \in 1 .. Len(ms) : ms[k].event # "close_deal_batch",
           inbox' = inbox \o ms
    PROVE  \A k \in 1 .. Len(inbox') :
              \/ \E l \in 1 .. Len(inbox) : inbox'[k] = inbox[l]
              \/ inbox'[k].event # "close_deal_batch"
<1> SUFFICES ASSUME NEW k \in 1 .. Len(inbox')
             PROVE  \/ \E l \in 1 .. Len(inbox) : inbox'[k] = inbox[l]
                    \/ inbox'[k].event # "close_deal_batch"
  OBVIOUS
<1>1. \/ k \in 1 .. Len(inbox) /\ inbox'[k] = inbox[k]
      \/ k - Len(inbox) \in 1 .. Len(ms) /\ inbox'[k] = ms[k - Len(inbox)]
  BY ConcatProperties
<1> QED BY <1>1

\* Steps of the world after which the inbox holds no other closes.
LEMMA WorldKept ==
    ASSUME TypeOK, TypeOK', ResultsInv, WorldFrame, end_rate' = end_rate,
           \/ inbox' = inbox
           \/ \E ms \in Seq(Message) :
                 /\ \A k \in 1 .. Len(ms) : ms[k].event # "close_deal_batch"
                 /\ inbox' = inbox \o ms
    PROVE  ResultsInv'
<1>1. UNCHANGED <<now, user_bet, array_bets>> /\ now \in Nat
  BY DEF WorldFrame, localVars, callVars, mapVars, TypeOK, WorldTypes
<1>2. \A k \in 1 .. Len(inbox') :
         \/ \E l \in 1 .. Len(inbox) : inbox'[k] = inbox[l]
         \/ inbox'[k].event # "close_deal_batch"
  BY AppendedCloses DEF TypeOK, ChannelTypes
<1>3. ClosesFollowMarkets'
  BY <1>1, <1>2, ClosesKept DEF ResultsInv
<1>4. ResultsFollowPrices'
  BY <1>1, ResultsKept DEF ResultsInv
<1> QED BY <1>1, <1>3, <1>4 DEF ResultsInv, CallsHaveNoResult

\* The extension reports its socket, and the broker answers requests.
LEMMA ResultsExtension ==
    ASSUME TypeOK, TypeOK', ResultsInv, OpenBroker \/ LoseBroker \/ FailToConnect
    PROVE  ResultsInv'
<1> DEFINE Notes(ms) == /\ ms \in Seq(Message)
                        /\ \A k \in 1 .. Len(ms) : ms[k].event # "close_deal_batch"
<1>1. /\ [event |-> "socket"] \in Message
      /\ [event |-> "other"] \in Message
  BY DEF Message
<1>2. \A e \in {"socket", "other"} : Notes(<<[event |-> e]>>)
  BY <1>1
<1>3. Notes(<<[event |-> "other"], [event |-> "other"]>>)
  BY <1>1
<1>4. \E ms : Notes(ms) /\ inbox' = inbox \o ms
  <2>1. CASE OpenBroker \/ LoseBroker
    <3>1. PICK e \in {"socket", "other"} : inbox' = Append(inbox, [event |-> e])
      BY <2>1 DEF OpenBroker, LoseBroker
    <3>2. inbox' = inbox \o <<[event |-> e]>>
      BY <1>1, <3>1 DEF TypeOK, ChannelTypes
    <3> QED BY <1>2, <3>2
  <2>2. CASE FailToConnect
    BY <1>3, <2>2 DEF FailToConnect
  <2> QED BY <2>1, <2>2
<1>5. WorldFrame /\ end_rate' = end_rate
  BY DEF OpenBroker, LoseBroker, FailToConnect, brokerVars
<1> QED BY <1>4, <1>5, WorldKept

LEMMA ResultsAnswer ==
    ASSUME TypeOK, TypeOK', ResultsInv, NEW q \in requests,
           AcceptDeal(q) \/ RefuseRequest(q) \/ AnswerPing(q)
    PROVE  ResultsInv'
<1>1. q.ref \in Ref /\ q.task \in Task \cup {None}
  BY DEF TypeOK, ChannelTypes
<1>2. CASE AcceptDeal(q)
  <2>1. PICK r \in OpenRates :
           Tell(<<[event |-> "phx_reply", ref |-> q.ref, uuid |-> q.task],
                  [event |-> "deal_created", uuid |-> q.task, open_rate |-> r,
                   market |-> user_bet[q.task].market]>>)
    BY <1>2 DEF AcceptDeal
  <2> DEFINE ms == <<[event |-> "phx_reply", ref |-> q.ref, uuid |-> q.task],
                     [event |-> "deal_created", uuid |-> q.task, open_rate |-> r,
                      market |-> user_bet[q.task].market]>>
  <2>2. /\ [event |-> "phx_reply", ref |-> q.ref, uuid |-> q.task] \in Message
        /\ [event |-> "deal_created", uuid |-> q.task, open_rate |-> r,
            market |-> user_bet[q.task].market] \in Message
    <3>1. q.task \in Task /\ user_bet[q.task].market \in Market
      BY <1>1, <1>2 DEF TypeOK, ChannelTypes, ThreadTypes, AcceptDeal, Bet
    <3> QED BY <1>1, <3>1 DEF Message
  <2>3. ms \in Seq(Message) /\ \A k \in 1 .. Len(ms) : ms[k].event # "close_deal_batch"
    BY <2>2
  <2>4. inbox' = inbox \/ inbox' = inbox \o ms
    BY <2>1 DEF Tell
  <2>5. WorldFrame /\ end_rate' = end_rate
    BY <1>2 DEF AcceptDeal
  <2> HIDE DEF ms
  <2> QED BY <2>3, <2>4, <2>5, WorldKept
<1>3. CASE RefuseRequest(q)
  <2> DEFINE ms == <<[event |-> "phx_reply", ref |-> q.ref, uuid |-> None]>>
  <2>1. ms \in Seq(Message) /\ \A k \in 1 .. Len(ms) : ms[k].event # "close_deal_batch"
    BY <1>1 DEF Message
  <2>2. inbox' = inbox \/ inbox' = inbox \o ms
    BY <1>3 DEF RefuseRequest, Tell
  <2>3. WorldFrame /\ end_rate' = end_rate
    BY <1>3 DEF RefuseRequest
  <2> HIDE DEF ms
  <2> QED BY <2>1, <2>2, <2>3, WorldKept
<1>4. CASE AnswerPing(q)
  BY <1>4, WorldKept DEF AnswerPing, brokerVars
<1> QED BY <1>2, <1>3, <1>4

\* The owner of the object, its connection, the ping thread and the clock.
LEMMA ResultsOwner ==
    ASSUME TypeOK, TypeOK', ResultsInv,
           \/ OpenConnection \/ CloseConnection \/ CheckPing \/ SendPing
           \/ ClearBetsArray \/ ShutDown \/ Tick
    PROVE  ResultsInv'
<1>1. UNCHANGED <<end_rate, user_bet>>
  BY DEF OpenConnection, CloseConnection, CheckPing, SendPing, ClearBetsArray, ShutDown,
     Tick, localVars, callVars, envVars, brokerVars
<1>2. now \in Nat /\ now' \in Nat /\ now' >= now
  BY DEF OpenConnection, CloseConnection, CheckPing, SendPing, ClearBetsArray, ShutDown,
     Tick, envVars, TypeOK, WorldTypes
<1>3. inbox' = inbox \/ inbox' = <<>>
  BY DEF OpenConnection, CloseConnection, CheckPing, SendPing, ClearBetsArray, ShutDown,
     Tick, envVars
<1>4. ClosesFollowMarkets'
  BY <1>1, <1>2, <1>3, ClosesKept DEF ResultsInv
<1>5. \A i \in BetId : array_bets'[i] = array_bets[i] \/ array_bets'[i] = None
  BY DEF OpenConnection, CloseConnection, CheckPing, SendPing, ClearBetsArray, ShutDown,
     Tick, mapVars
<1>6. ResultsFollowPrices'
  BY <1>1, <1>2, <1>5, ResultsKept DEF ResultsInv
<1> QED BY <1>1, <1>4, <1>6 DEF ResultsInv, CallsHaveNoResult

LEMMA ResultsNext == TypeOK /\ TypeOK' /\ ResultsInv /\ [Next]_vars => ResultsInv'
<1> SUFFICES ASSUME TypeOK, TypeOK', ResultsInv, [Next]_vars PROVE ResultsInv'
  OBVIOUS
<1>1. ASSUME UNCHANGED <<end_rate, now, inbox, array_bets>>, CallsHaveNoResult'
      PROVE  ResultsInv'
  <2>1. now \in Nat
    BY DEF TypeOK, WorldTypes
  <2>2. ResultsFollowPrices'
    BY <1>1, <2>1, ResultsKept DEF ResultsInv
  <2> QED BY <1>1, <2>2 DEF ResultsInv, ClosesFollowMarkets
<1>2. ASSUME NEW t \in Task, CheckConnected(t) PROVE ResultsInv'
  BY <1>1, <1>2 DEF CheckConnected, ThreadFrame, callVars, mapVars, brokerVars,
     ResultsInv, CallsHaveNoResult
<1>3. ASSUME NEW t \in Task, TakeNumbers(t) PROVE ResultsInv'
  <2>1. CallsHaveNoResult'
    BY <1>3 DEF TypeOK, CallTypes, ResultsInv, CallsHaveNoResult, TakeNumbers, DrawNumber, TakeBetId, NewBet
  <2> QED BY <1>1, <1>3, <2>1 DEF TakeNumbers, DrawNumber, TakeBetId, mapVars, envVars, brokerVars
<1>4. CASE UNCHANGED vars
  BY <1>1, <1>4 DEF vars, localVars, callVars, mapVars, envVars, brokerVars,
     ResultsInv, CallsHaveNoResult
<1>5. CASE \E m \in Market : CloseMarket(m)
  BY <1>5, ResultsCloseMarket
<1> QED BY <1>2, <1>3, <1>4, <1>5, ResultsThread, ResultsHandler,
        ResultsExtension, ResultsAnswer, ResultsOwner DEF Next, Broker

\* A stored result is the one the broker's prices give, in whatever order the
\* answers of the broker and its closes of markets are handled.
THEOREM ResultsCorrect == Spec => []ResultsFollowPrices
<1>1. Init => ResultsInv
  BY DEF Init, ResultsInv, ResultsFollowPrices, ClosesFollowMarkets, CallsHaveNoResult
<1>2. ResultsInv => ResultsFollowPrices
  BY DEF ResultsInv
<1> QED BY <1>1, <1>2, TypeCorrect, ResultsNext, PTL DEF Spec
=============================================================================
