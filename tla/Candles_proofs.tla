--------------------------- MODULE Candles_proofs ---------------------------
(***************************************************************************)
(* Type correctness of the price stream, and that it implements BarFeed:   *)
(* on_candle tells of the bars of each series one after another.           *)
(*                                                                         *)
(* The argument is about time.  The broker quotes a symbol in the order of *)
(* time, the network keeps that order, and later quotes belong to the same *)
(* or to later bars; so no quote that is still to be handled belongs to a  *)
(* bar before the one told last, which is the last bar of its series.      *)
(***************************************************************************)
EXTENDS Candles, SequenceTheorems, TLAPS

(***************************************************************************)
(* Times and bars                                                          *)
(***************************************************************************)
\* The floor of x to a multiple of p is monotone.
LEMMA Times ==
    ASSUME NEW a \in Nat, NEW b \in Nat, NEW p \in Nat \ {0}, a =< b
    PROVE  p * a =< p * b
  BY SMT

LEMMA Division ==
    ASSUME NEW x \in Nat, NEW p \in Nat \ {0}
    PROVE  /\ x = p * (x \div p) + (x % p)
           /\ x % p \in 0 .. (p - 1)
           /\ x \div p \in Nat
  BY SMT

LEMMA FloorMonotone ==
    ASSUME NEW x \in Nat, NEW y \in Nat, NEW p \in Nat \ {0}, x =< y
    PROVE  x - (x % p) =< y - (y % p)
<1> DEFINE a == x \div p
           b == y \div p
<1>1. x = p * a + (x % p) /\ x % p \in 0 .. (p - 1) /\ a \in Nat
  BY Division
<1>2. y = p * b + (y % p) /\ y % p \in 0 .. (p - 1) /\ b \in Nat
  BY Division
<1> HIDE DEF a, b
<1>3. a =< b
  <2> SUFFICES ASSUME a >= b + 1 PROVE FALSE
    BY <1>1, <1>2
  <2>1. p * (b + 1) =< p * a
    BY Times, <1>1, <1>2
  <2>2. p * (b + 1) = p * b + p
    BY <1>2
  <2> QED BY <1>1, <1>2, <2>1, <2>2
<1>4. p * a =< p * b
  BY Times, <1>1, <1>2, <1>3
<1> QED BY <1>1, <1>2, <1>4

\* A quote belongs to a bar that ends at its time or within a period after it.
LEMMA BarOfBounds ==
    ASSUME NEW t \in Nat \ {0}, NEW p \in Nat \ {0}
    PROVE  BarOf(t, p) \in t .. (t + p - 1)
<1>1. (t - 1) % p \in 0 .. (p - 1) /\ (t - 1) % p =< t - 1
  <2>1. t - 1 \in Nat
    OBVIOUS
  <2>2. (t - 1) % p \in 0 .. (p - 1)
    BY <2>1, Division
  <2>3. t - 1 = p * ((t - 1) \div p) + ((t - 1) % p) /\ (t - 1) \div p \in Nat
    BY <2>1, Division
  <2>4. p * 0 =< p * ((t - 1) \div p)
    BY <2>3, Times
  <2> QED BY <2>1, <2>2, <2>3, <2>4
<1> QED BY <1>1 DEF BarOf

LEMMA BarOfType ==
    ASSUME NEW t \in Nat \ {0}, NEW p \in Nat \ {0}
    PROVE  BarOf(t, p) \in Nat
<1>1. BarOf(t, p) \in t .. (t + p - 1)
  BY BarOfBounds
<1> QED BY <1>1

\* Later quotes belong to the same or to later bars.
LEMMA BarOfMonotone ==
    ASSUME NEW t \in Nat \ {0}, NEW u \in Nat \ {0}, NEW p \in Nat \ {0}, t =< u
    PROVE  BarOf(t, p) =< BarOf(u, p)
<1> DEFINE x == t - 1
           y == u - 1
           r == x % p
           q == y % p
<1>1. x \in Nat /\ y \in Nat /\ x =< y
  OBVIOUS
<1>2. BarOf(t, p) = x - r + p /\ BarOf(u, p) = y - q + p
  BY DEF BarOf
<1> HIDE DEF x, y
<1>3. x - r =< y - q
  BY <1>1, FloorMonotone
<1>4. r \in Nat /\ q \in Nat
  BY <1>1, Division
<1> HIDE DEF r, q
<1> QED BY <1>1, <1>2, <1>3, <1>4

-----------------------------------------------------------------------------
USE PeriodAssumption, PriceAssumption, ModeAssumption

\* A volume in the weighted mode is counted from the last bar, so the types are
\* inductive only with the fact that a series with bars has a last one.
IsLast(b, bars) == b \in DOMAIN bars /\ \A x \in DOMAIN bars : x =< b

HasLast == \A s \in Series : DOMAIN candles[s] # {} => \E b : IsLast(b, candles[s])

TypeInv == TypeOK /\ HasLast

-----------------------------------------------------------------------------
(***************************************************************************)
(* The operators the actions are built from                                *)
(***************************************************************************)
LEMMA LastBarIsLast ==
    ASSUME NEW bars, \E b : IsLast(b, bars)
    PROVE  IsLast(LastBar(bars), bars)
  BY DEF IsLast, LastBar

\* Whatever is known to be the last bar is what LastBar finds.
LEMMA LastBarUnique ==
    ASSUME NEW bars, DOMAIN bars \subseteq Nat, NEW b, IsLast(b, bars)
    PROVE  LastBar(bars) = b
<1>1. IsLast(LastBar(bars), bars)
  BY LastBarIsLast
<1> QED BY <1>1 DEF IsLast

LEMMA DistanceType == \A x, y \in Nat : Distance(x, y) \in Nat
  BY DEF Distance

LEMMA NewCandleType ==
    ASSUME NEW m, NEW x \in Price, NEW b \in Nat
    PROVE  NewCandle(m, x, b) \in Candle /\ NewCandle(m, x, b).timestamp = b
  BY DEF NewCandle, Candle

LEMMA AddedVolumeType ==
    ASSUME NEW bars, \E b : IsLast(b, bars), \A b \in DOMAIN bars : bars[b] \in Candle,
           NEW c \in Candle, NEW x \in Price, NEW m \in VolumeModes
    PROVE  AddedVolume(m, bars, c, x) \in Nat
<1>1. bars[LastBar(bars)].close \in Nat /\ c.close \in Nat /\ x \in Nat
  BY LastBarIsLast DEF IsLast, Candle
<1>2. Distance(x, IF c.volume = 0 THEN bars[LastBar(bars)].close ELSE c.close) \in Nat
  BY <1>1, DistanceType
<1>3. m \in {"none", "count", "weight"}
  OBVIOUS
<1> QED BY <1>2, <1>3 DEF AddedVolume

\* An update only spreads a bar.
LEMMA UpdatedType ==
    ASSUME NEW bars, \E b : IsLast(b, bars), \A b \in DOMAIN bars : bars[b] \in Candle,
           NEW c \in Candle, NEW x \in Price, NEW m \in VolumeModes
    PROVE  /\ Updated(m, bars, c, x) \in Candle
           /\ Updated(m, bars, c, x).timestamp = c.timestamp
           /\ Updated(m, bars, c, x).open = c.open
           /\ Updated(m, bars, c, x).high >= c.high
           /\ Updated(m, bars, c, x).low =< c.low
           /\ Updated(m, bars, c, x).volume >= c.volume
<1> DEFINE v == AddedVolume(m, bars, c, x)
<1>1. v \in Nat
  BY AddedVolumeType
<1> HIDE DEF v
<1>2. Updated(m, bars, c, x) =
        [c EXCEPT !.volume = @ + v, !.close = x,
                  !.high = IF x > @ THEN x ELSE @, !.low = IF x < @ THEN x ELSE @]
  BY DEF Updated, v
<1>3. c = [timestamp |-> c.timestamp, open |-> c.open, high |-> c.high,
            low |-> c.low, close |-> c.close, volume |-> c.volume]
  BY DEF Candle
<1>4. /\ c.timestamp \in Nat /\ c.volume \in Nat
      /\ c.open \in Price /\ c.high \in Price /\ c.low \in Price /\ c.close \in Price
  BY DEF Candle
<1>5. Updated(m, bars, c, x) =
        [timestamp |-> c.timestamp, open |-> c.open,
         high |-> IF x > c.high THEN x ELSE c.high,
         low |-> IF x < c.low THEN x ELSE c.low, close |-> x,
         volume |-> c.volume + v]
  BY <1>2, <1>3
<1> HIDE DEF Updated
<1>6. Updated(m, bars, c, x) \in Candle
  BY <1>1, <1>4, <1>5 DEF Candle
<1>7. /\ Updated(m, bars, c, x).timestamp = c.timestamp
      /\ Updated(m, bars, c, x).open = c.open
      /\ Updated(m, bars, c, x).high = IF x > c.high THEN x ELSE c.high
      /\ Updated(m, bars, c, x).low = IF x < c.low THEN x ELSE c.low
      /\ Updated(m, bars, c, x).volume = c.volume + v
  BY <1>5
<1>8. c.high \in Nat /\ c.low \in Nat /\ x \in Nat /\ c.volume \in Nat
  BY <1>4
<1> QED BY <1>1, <1>6, <1>7, <1>8

LEMMA PutLast ==
    ASSUME NEW bars, DOMAIN bars \subseteq Nat, NEW k \in Nat, NEW v,
           DOMAIN bars # {} => \E b : IsLast(b, bars)
    PROVE  \E b : IsLast(b, Put(bars, k, v))
<1>1. DOMAIN Put(bars, k, v) = DOMAIN bars \cup {k}
  BY DEF Put
<1>2. CASE DOMAIN bars = {}
  BY <1>1, <1>2 DEF IsLast
<1>3. CASE DOMAIN bars # {}
  <2>1. PICK b : IsLast(b, bars)
    BY <1>3
  <2>2. CASE b =< k
    <3>1. IsLast(k, Put(bars, k, v))
      BY <1>1, <2>1, <2>2 DEF IsLast
    <3> QED BY <3>1
  <2>3. CASE ~(b =< k)
    <3>1. IsLast(b, Put(bars, k, v))
      BY <1>1, <2>1, <2>3 DEF IsLast
    <3> QED BY <3>1
  <2> QED BY <2>2, <2>3
<1> QED BY <1>2, <1>3

-----------------------------------------------------------------------------
(***************************************************************************)
(* The parser.  Whatever it writes is a bar under its own timestamp.       *)
(***************************************************************************)
WorkingParser == [at : {"period", "new_bar"}, symbol : Symbol, quote : Quote,
                  periods : Seq(Period) \ {<<>>}]

LEMMA ParserAtWork ==
    ASSUME TypeInv, parser.at \in {"period", "new_bar"}
    PROVE  /\ parser \in WorkingParser
           /\ Current \in Series
           /\ Current.period \in Nat \ {0}
           /\ parser.quote.time \in Nat \ {0} /\ parser.quote.price \in Price
           /\ CurrentBar \in Nat
           /\ DOMAIN Bars \subseteq Nat
           /\ \A b \in DOMAIN Bars : Bars[b] \in Candle /\ Bars[b].timestamp = b
           /\ DOMAIN Bars # {} => IsLast(LastBar(Bars), Bars)
<1>1. parser \in WorkingParser
  BY DEF TypeInv, TypeOK, ParserTypes, WorkingParser, Idle
<1>2. Head(parser.periods) \in Period
  BY <1>1 DEF WorkingParser
<1>3. Current \in Series /\ Current.period \in Nat \ {0}
  BY <1>1, <1>2 DEF Current, Series, WorkingParser
<1>4. parser.quote.time \in Nat \ {0} /\ parser.quote.price \in Price
  BY <1>1, BoundAssumption DEF WorkingParser, Quote, Time
<1>5. CurrentBar \in Nat
  BY <1>3, <1>4, BarOfType DEF CurrentBar
<1>6. /\ DOMAIN Bars \subseteq Nat
      /\ \A b \in DOMAIN Bars : Bars[b] \in Candle /\ Bars[b].timestamp = b
  BY <1>3 DEF TypeInv, TypeOK, BarTypes, Bars
<1>7. DOMAIN Bars # {} => IsLast(LastBar(Bars), Bars)
  BY <1>3, LastBarIsLast DEF TypeInv, HasLast, Bars
<1> QED BY <1>1, <1>3, <1>4, <1>5, <1>6, <1>7

\* Storing a bar under its timestamp keeps the types of all bars.
LEMMA PutTypes ==
    ASSUME TypeInv, NEW s \in Series, NEW b \in Nat, NEW c \in Candle,
           c.timestamp = b,
           candles' = [candles EXCEPT ![s] = Put(candles[s], b, c)]
    PROVE  DOMAIN candles' = Series /\ BarTypes' /\ HasLast'
<1>1. DOMAIN candles' = Series /\ candles'[s] = Put(candles[s], b, c)
  BY DEF TypeInv, TypeOK
<1>2. \A r \in Series : r # s => candles'[r] = candles[r]
  BY DEF TypeInv, TypeOK
<1>3. BarTypes'
  <2> SUFFICES ASSUME NEW r \in Series, NEW x \in DOMAIN candles'[r]
               PROVE  /\ x \in Nat /\ candles'[r][x] \in Candle
                      /\ candles'[r][x].timestamp = x
    BY DEF BarTypes
  <2>1. CASE r # s
    BY <2>1, <1>2 DEF TypeInv, TypeOK, BarTypes
  <2>2. CASE r = s
    <3>1. x \in DOMAIN candles[s] \cup {b}
      BY <2>2, <1>1 DEF Put
    <3>2. candles'[s][x] = IF x = b THEN c ELSE candles[s][x]
      BY <3>1, <1>1 DEF Put
    <3> QED BY <2>2, <3>1, <3>2 DEF TypeInv, TypeOK, BarTypes
  <2> QED BY <2>1, <2>2
<1>4. HasLast'
  <2>1. \E x : IsLast(x, candles'[s])
    BY <1>1, PutLast DEF TypeInv, TypeOK, BarTypes, HasLast
  <2> QED BY <2>1, <1>2 DEF TypeInv, HasLast
<1> QED BY <1>1, <1>3, <1>4

LEMMA PeriodDoneTypes ==
    ASSUME TypeInv, parser \in WorkingParser, PeriodDone
    PROVE  ParserTypes' /\ is_websocket_init' \in BOOLEAN
<1>1. CASE Len(parser.periods) = 1
  BY <1>1 DEF PeriodDone, ParserTypes
<1>2. CASE Len(parser.periods) # 1
  <2>1. Tail(parser.periods) \in Seq(Period) /\ Tail(parser.periods) # <<>>
    <3>1. parser.periods \in Seq(Period) /\ parser.periods # <<>>
      BY DEF WorkingParser
    <3>2. Len(parser.periods) \in Nat /\ Len(parser.periods) # 0
      BY <3>1, EmptySeq
    <3>3. /\ Tail(parser.periods) \in Seq(Period)
          /\ Len(Tail(parser.periods)) = Len(parser.periods) - 1
      BY <3>1, HeadTailProperties
    <3>4. Len(Tail(parser.periods)) # 0
      BY <1>2, <3>2, <3>3
    <3> QED BY <3>3, <3>4, EmptySeq
  <2>2. parser' \in WorkingParser
    BY <1>2, <2>1 DEF PeriodDone, WorkingParser
  <2>3. is_websocket_init' \in BOOLEAN
    BY <1>2 DEF PeriodDone, TypeInv, TypeOK
  <2> QED BY <2>2, <2>3 DEF ParserTypes, WorkingParser
<1> QED BY <1>1, <1>2

LEMMA OnCandleType ==
    ASSUME TypeInv, Current \in Series, NEW c \in Candle, NEW z \in BOOLEAN,
           OnCandle(c, z)
    PROVE  told' \in [Series -> Call \cup {None}]
<1>1. [candle |-> c, closed |-> z] \in Call
  BY DEF Call
<1> QED BY <1>1 DEF OnCandle, TypeInv, TypeOK

\* What the parser leaves alone while it works
LEMMA ParserFrameTypes ==
    ASSUME TypeInv, ParserFrame
    PROVE  /\ list_subscriptions' \in [Symbol -> Seq(Period)]
           /\ is_open' \in BOOLEAN
           /\ volume_mode' \in VolumeModes
           /\ subscribed' \subseteq Symbol
           /\ inbox' \in Seq(Message)
           /\ quotes' \in [Symbol -> Seq(Quote)]
           /\ used' \in [BoundNames -> Nat]
           /\ seen' \in [Series -> Seq(Quote)]
  BY DEF TypeInv, TypeOK, ParserFrame, subVars, connVars, worldVars

LEMMA CloseBarTypes == ASSUME TypeInv, CloseBar PROVE TypeInv'
<1>1. Bars[LastBar(Bars)] \in Candle /\ Current \in Series /\ parser \in WorkingParser
  BY ParserAtWork DEF CloseBar, IsLast
<1>2. told' \in [Series -> Call \cup {None}]
  BY <1>1, OnCandleType DEF CloseBar
<1>3. ParserTypes'
  BY <1>1 DEF CloseBar, WorkingParser, ParserTypes
<1>4. BarTypes' /\ HasLast' /\ DOMAIN candles' = Series /\ is_websocket_init' \in BOOLEAN
  BY DEF CloseBar, TypeInv, TypeOK, BarTypes, HasLast
<1>5. ParserFrame
  BY DEF CloseBar
<1> QED BY <1>2, <1>3, <1>4, <1>5, ParserFrameTypes DEF TypeInv, TypeOK

LEMMA OpenBarTypes == ASSUME TypeInv, OpenBar PROVE TypeInv'
<1> DEFINE c == NewCandle(volume_mode, parser.quote.price, CurrentBar)
<1>1. parser.at \in {"period", "new_bar"}
  BY DEF OpenBar
<1>2. c \in Candle /\ c.timestamp = CurrentBar
  <2>1. parser.quote.price \in Price /\ CurrentBar \in Nat
    BY <1>1, ParserAtWork
  <2> QED BY <2>1, NewCandleType
<1>3. told' \in [Series -> Call \cup {None}]
  BY <1>1, <1>2, ParserAtWork, OnCandleType DEF OpenBar
<1>4. DOMAIN candles' = Series /\ BarTypes' /\ HasLast'
  <2>1. Current \in Series /\ CurrentBar \in Nat
    BY <1>1, ParserAtWork
  <2>2. candles' = [candles EXCEPT ![Current] = Put(candles[Current], CurrentBar, c)]
    BY DEF OpenBar, Bars
  <2> HIDE DEF c
  <2> QED BY <1>2, <2>1, <2>2, PutTypes
<1>5. ParserTypes' /\ is_websocket_init' \in BOOLEAN
  BY <1>1, ParserAtWork, PeriodDoneTypes DEF OpenBar
<1>6. ParserFrame
  BY DEF OpenBar
<1> QED BY <1>3, <1>4, <1>5, <1>6, ParserFrameTypes DEF TypeInv, TypeOK

LEMMA UpdateBarTypes == ASSUME TypeInv, UpdateBar PROVE TypeInv'
<1> DEFINE c == Updated(volume_mode, Bars, Bars[CurrentBar], parser.quote.price)
<1>1. parser.at \in {"period", "new_bar"} /\ CurrentBar \in DOMAIN Bars
  BY DEF UpdateBar
<1>2. c \in Candle /\ c.timestamp = CurrentBar
  <2>1. \E b : IsLast(b, Bars)
    BY <1>1, ParserAtWork
  <2>2. volume_mode \in VolumeModes
    BY DEF TypeInv, TypeOK
  <2>3. /\ \A b \in DOMAIN Bars : Bars[b] \in Candle /\ Bars[b].timestamp = b
        /\ parser.quote.price \in Price
    BY <1>1, ParserAtWork
  <2>4. c \in Candle /\ c.timestamp = Bars[CurrentBar].timestamp
    <3>1. Bars[CurrentBar] \in Candle /\ \A b \in DOMAIN Bars : Bars[b] \in Candle
      BY <1>1, <2>3
    <3> HIDE PeriodAssumption, PriceAssumption, ModeAssumption
    <3> QED BY <2>1, <2>2, <2>3, <3>1, UpdatedType
  <2> QED BY <1>1, <2>3, <2>4
<1>3. told' \in [Series -> Call \cup {None}]
  BY <1>1, <1>2, ParserAtWork, OnCandleType DEF UpdateBar
<1>4. DOMAIN candles' = Series /\ BarTypes' /\ HasLast'
  <2>1. Current \in Series /\ CurrentBar \in Nat
    BY <1>1, ParserAtWork
  <2>2. candles' = [candles EXCEPT ![Current] = Put(candles[Current], CurrentBar, c)]
    BY DEF UpdateBar, Bars
  <2> HIDE DEF c
  <2> QED BY <1>2, <2>1, <2>2, PutTypes
<1>5. ParserTypes' /\ is_websocket_init' \in BOOLEAN
  BY <1>1, ParserAtWork, PeriodDoneTypes DEF UpdateBar
<1>6. ParserFrame
  BY DEF UpdateBar
<1> QED BY <1>3, <1>4, <1>5, <1>6, ParserFrameTypes DEF TypeInv, TypeOK

-----------------------------------------------------------------------------
(***************************************************************************)
(* Messages, connections and the broker: the bars stay as they are.        *)
(***************************************************************************)
LEMMA KeepStream ==
    ASSUME TypeInv, UNCHANGED candles
    PROVE  DOMAIN candles' = Series /\ BarTypes' /\ HasLast'
  BY DEF TypeInv, TypeOK, BarTypes, HasLast

LEMMA HeadOfInbox ==
    ASSUME TypeInv, Arrived
    PROVE  Head(inbox) \in Message /\ Tail(inbox) \in Seq(Message)
  BY HeadTailProperties DEF TypeInv, TypeOK, Arrived

LEMMA ReceiveOtherTypes == ASSUME TypeInv, ReceiveOther PROVE TypeInv'
<1>1. DOMAIN candles' = Series /\ BarTypes' /\ HasLast'
  BY KeepStream DEF ReceiveOther
<1>2. inbox' \in Seq(Message)
  BY HeadOfInbox DEF ReceiveOther
<1> QED BY <1>1, <1>2 DEF TypeInv, TypeOK, ParserTypes, ReceiveOther, subVars, connVars

LEMMA ReceiveQuoteTypes == ASSUME TypeInv, ReceiveQuote PROVE TypeInv'
<1> DEFINE m == Head(inbox)
           periods == list_subscriptions[m.symbol]
<1>1. DOMAIN candles' = Series /\ BarTypes' /\ HasLast'
  BY KeepStream DEF ReceiveQuote
<1>2. m.symbol \in Symbol /\ m.quote \in Quote /\ inbox' \in Seq(Message)
  BY HeadOfInbox DEF ReceiveQuote, Message, Reply
<1>3. periods \in Seq(Period)
  BY <1>2 DEF TypeInv, TypeOK
<1>4. ParserTypes' /\ is_websocket_init' \in BOOLEAN
  <2>1. CASE periods = <<>>
    BY <2>1 DEF ReceiveQuote, TypeInv, TypeOK, ParserTypes
  <2>2. CASE periods # <<>>
    <3>1. parser' = [at |-> "period", symbol |-> m.symbol, quote |-> m.quote,
                     periods |-> periods]
      BY <2>2 DEF ReceiveQuote
    <3>2. parser' \in WorkingParser
      BY <1>2, <1>3, <2>2, <3>1 DEF WorkingParser
    <3>3. is_websocket_init' \in BOOLEAN
      BY <2>2 DEF ReceiveQuote, TypeInv, TypeOK
    <3> QED BY <3>2, <3>3 DEF ParserTypes, WorkingParser
  <2> QED BY <2>1, <2>2
<1>5. seen' \in [Series -> Seq(Quote)]
  <2> DEFINE series == {[symbol |-> m.symbol, period |-> periods[i]] :
                          i \in DOMAIN periods}
  <2>1. seen' = [s \in Series |-> IF s \in series THEN Append(seen[s], m.quote)
                                                  ELSE seen[s]]
    BY DEF ReceiveQuote
  <2> HIDE DEF series, m
  <2>2. \A s \in Series : seen[s] \in Seq(Quote) /\ Append(seen[s], m.quote) \in Seq(Quote)
    BY <1>2 DEF TypeInv, TypeOK
  <2> QED BY <2>1, <2>2
<1> QED BY <1>1, <1>2, <1>4, <1>5 DEF TypeInv, TypeOK, ReceiveQuote, subVars, connVars

LEMMA AddedType ==
    ASSUME TypeInv, NEW s \in Series
    PROVE  Added(list_subscriptions, s) \in [Symbol -> Seq(Period)]
<1>1. s.symbol \in Symbol /\ s.period \in Period
  BY DEF Series
<1>2. Append(list_subscriptions[s.symbol], s.period) \in Seq(Period)
  BY <1>1 DEF TypeInv, TypeOK
<1> QED BY <1>1, <1>2 DEF Added, TypeInv, TypeOK

LEMMA OpenTypes == ASSUME TypeInv, Open PROVE TypeInv'
<1>1. DOMAIN candles' = Series /\ BarTypes' /\ HasLast'
  BY KeepStream DEF Open, streamVars
<1>2. list_subscriptions' \in [Symbol -> Seq(Period)]
  BY AddedType, StartAssumption DEF Open, TypeInv, TypeOK
<1>3. Reply \in Message
  BY DEF Message
<1>4. inbox' \in Seq(Message)
  BY <1>3 DEF Open
<1> QED BY <1>1, <1>2, <1>4 DEF TypeInv, TypeOK, ParserTypes, Open, streamVars

LEMMA BoundedTypes ==
    ASSUME TypeInv, NEW b \in BoundNames, NEW max, Bounded(b, max)
    PROVE  used' \in [BoundNames -> Nat]
  BY DEF TypeInv, TypeOK, Bounded

LEMMA CloseTypes == ASSUME TypeInv, Close PROVE TypeInv'
<1>1. DOMAIN candles' = Series /\ BarTypes' /\ HasLast'
  BY KeepStream DEF Close
<1>2. used' \in [BoundNames -> Nat]
  BY BoundedTypes DEF Close, BoundNames
<1>3. ParserTypes' /\ {is_open, is_websocket_init}' \subseteq BOOLEAN
  BY DEF Close, TypeInv, TypeOK, ParserTypes
<1>4. /\ list_subscriptions' \in [Symbol -> Seq(Period)] /\ volume_mode' \in VolumeModes
      /\ subscribed' \subseteq Symbol /\ inbox' \in Seq(Message)
      /\ quotes' \in [Symbol -> Seq(Quote)]
      /\ told' \in [Series -> Call \cup {None}] /\ seen' \in [Series -> Seq(Quote)]
  BY DEF Close, TypeInv, TypeOK
<1> QED BY <1>1, <1>2, <1>3, <1>4 DEF TypeInv, TypeOK

LEMMA RequestTypes ==
    ASSUME TypeInv, NEW s,
           \/ s \in Series /\ AddCandlesStream(s)
           \/ s \in Symbol /\ (Subscribe(s) \/ Unsubscribe(s))
    PROVE  TypeInv'
<1>1. DOMAIN candles' = Series /\ BarTypes' /\ HasLast'
  BY KeepStream DEF AddCandlesStream, Subscribe, Unsubscribe, streamVars
<1>2. used' \in [BoundNames -> Nat]
  BY BoundedTypes DEF AddCandlesStream, Subscribe, Unsubscribe, BoundNames
<1>3. list_subscriptions' \in [Symbol -> Seq(Period)]
  BY AddedType DEF AddCandlesStream, Subscribe, Unsubscribe, TypeInv, TypeOK
<1>4. subscribed' \subseteq Symbol
  BY DEF AddCandlesStream, Subscribe, Unsubscribe, TypeInv, TypeOK
<1>5. UNCHANGED <<is_open, is_websocket_init, volume_mode, parser, inbox, quotes, told,
                  seen>>
  BY DEF AddCandlesStream, Subscribe, Unsubscribe, streamVars, connVars
<1>6. ParserTypes' /\ {is_open, is_websocket_init}' \subseteq BOOLEAN
  BY <1>5 DEF TypeInv, TypeOK, ParserTypes
<1>7. /\ volume_mode' \in VolumeModes
      /\ inbox' \in Seq(Message) /\ quotes' \in [Symbol -> Seq(Quote)]
      /\ told' \in [Series -> Call \cup {None}] /\ seen' \in [Series -> Seq(Quote)]
  BY <1>5 DEF TypeInv, TypeOK
<1> QED BY <1>1, <1>2, <1>3, <1>4, <1>6, <1>7 DEF TypeInv, TypeOK

LEMMA SendQuoteTypes ==
    ASSUME TypeInv, NEW s \in Symbol, SendQuote(s)
    PROVE  TypeInv'
<1>1. DOMAIN candles' = Series /\ BarTypes' /\ HasLast'
  BY KeepStream DEF SendQuote, streamVars
<1>2. PICK q \in Quote :
          /\ quotes' = [quotes EXCEPT ![s] = Append(@, q)]
          /\ inbox' \in {inbox, Append(inbox, [symbol |-> s, quote |-> q])}
  BY DEF SendQuote
<1>3. quotes' \in [Symbol -> Seq(Quote)]
  <2>1. Append(quotes[s], q) \in Seq(Quote)
    BY DEF TypeInv, TypeOK
  <2> QED BY <1>2, <2>1 DEF TypeInv, TypeOK
<1>4. inbox' \in Seq(Message)
  <2>1. [symbol |-> s, quote |-> q] \in Message
    BY DEF Message
  <2>2. inbox \in Seq(Message)
    BY DEF TypeInv, TypeOK
  <2>3. Append(inbox, [symbol |-> s, quote |-> q]) \in Seq(Message)
    BY <2>1, <2>2, AppendProperties
  <2> QED BY <1>2, <2>2, <2>3
<1> QED BY <1>1, <1>3, <1>4
        DEF TypeInv, TypeOK, ParserTypes, SendQuote, streamVars, subVars, connVars

-----------------------------------------------------------------------------
LEMMA TypeInit == ASSUME Init PROVE TypeInv
<1>1. DOMAIN candles = Series /\ \A s \in Series : DOMAIN candles[s] = {}
  BY DEF Init
<1>2. BarTypes /\ HasLast
  BY <1>1 DEF BarTypes, HasLast
<1>3. /\ seen \in [Series -> Seq(Quote)] /\ quotes \in [Symbol -> Seq(Quote)]
      /\ inbox \in Seq(Message)
  BY DEF Init
<1>4. told \in [Series -> Call \cup {None}]
  BY DEF Init
<1>5. list_subscriptions \in [Symbol -> Seq(Period)]
  BY StartAssumption DEF Init
<1> QED BY <1>1, <1>2, <1>3, <1>4, <1>5 DEF Init, TypeInv, TypeOK, ParserTypes

LEMMA TypeStep == ASSUME TypeInv, [Next]_vars PROVE TypeInv'
<1>1. CASE UNCHANGED vars
  BY <1>1 DEF TypeInv, TypeOK, HasLast, BarTypes, ParserTypes, vars, streamVars,
              subVars, connVars, worldVars
<1>2. CASE Parser
  BY <1>2, ReceiveOtherTypes, ReceiveQuoteTypes, CloseBarTypes, OpenBarTypes,
     UpdateBarTypes DEF Parser
<1>3. CASE Open
  BY <1>3, OpenTypes
<1>4. CASE Close
  BY <1>4, CloseTypes
<1>5. ASSUME NEW s \in Series, AddCandlesStream(s) PROVE TypeInv'
  BY <1>5, RequestTypes
<1>6. ASSUME NEW s \in Symbol, Subscribe(s) \/ Unsubscribe(s) PROVE TypeInv'
  BY <1>6, RequestTypes
<1>7. ASSUME NEW s \in Symbol, SendQuote(s) PROVE TypeInv'
  BY <1>7, SendQuoteTypes
<1> QED BY <1>1, <1>2, <1>3, <1>4, <1>5, <1>6, <1>7 DEF Next

\* The types and the last bars are an invariant.
LEMMA TypeInvariant == Spec => []TypeInv
  BY TypeInit, TypeStep, PTL DEF Spec

\* At every moment of the price stream every variable holds what its declaration
\* in the code allows, every bar is stored under its own timestamp, and the
\* parser has a period left while it works, whatever the symbols, periods,
\* prices and bounds are.
THEOREM StreamTypeCorrect == Spec => []TypeOK
<1>1. TypeInv => TypeOK
  BY DEF TypeInv
<1> QED BY <1>1, TypeInvariant, PTL

-----------------------------------------------------------------------------
(***************************************************************************)
(* The order of time                                                       *)
(***************************************************************************)
\* A quote of symbol y at time t is not after the broker's last one.
QuotedBy(y, t) == quotes[y] # <<>> /\ t =< quotes[y][Len(quotes[y])].time

\* What was told last of a series is its last bar, and a series nothing was told
\* of has none.
LastIsTold ==
    \A s \in Series :
        IF told[s] = None
        THEN DOMAIN candles[s] = {}
        ELSE /\ DOMAIN candles[s] # {}
             /\ told[s].candle = candles[s][LastBar(candles[s])]

InboxInOrder ==
    \A i \in DOMAIN inbox : inbox[i].symbol # None =>
        /\ QuotedBy(inbox[i].symbol, inbox[i].quote.time)
        /\ \A j \in DOMAIN inbox :
              i < j /\ inbox[j].symbol = inbox[i].symbol
                  => inbox[i].quote.time =< inbox[j].quote.time

ParserInOrder ==
    parser # Idle =>
        /\ QuotedBy(parser.symbol, parser.quote.time)
        /\ \A i \in DOMAIN inbox : inbox[i].symbol = parser.symbol
                => parser.quote.time =< inbox[i].quote.time

\* No quote to come belongs to a bar before the one told last.
ToldOnward ==
    \A s \in Series : told[s] # None =>
        /\ quotes[s.symbol] # <<>>
        /\ told[s].candle.timestamp =<
              BarOf(quotes[s.symbol][Len(quotes[s.symbol])].time, s.period)
        /\ \A i \in DOMAIN inbox : inbox[i].symbol = s.symbol
              => told[s].candle.timestamp =< BarOf(inbox[i].quote.time, s.period)
        /\ parser # Idle /\ parser.symbol = s.symbol
              => told[s].candle.timestamp =< BarOf(parser.quote.time, s.period)

\* Only the series the parser is about to open a bar of was told a closed one.
ToldClosed ==
    \A s \in Series : told[s] # None =>
        (told[s].closed <=> parser.at = "new_bar" /\ s = Current)

AtNewBar ==
    parser.at = "new_bar" => DOMAIN Bars # {} /\ CurrentBar \notin DOMAIN Bars

OrderInv ==
    /\ TypeInv
    /\ LastIsTold
    /\ InboxInOrder
    /\ ParserInOrder
    /\ ToldOnward
    /\ ToldClosed
    /\ AtNewBar

-----------------------------------------------------------------------------
(***************************************************************************)
(* Times                                                                   *)
(***************************************************************************)
LEMMA LastQuoteTime ==
    ASSUME TypeInv, NEW y \in Symbol, quotes[y] # <<>>
    PROVE  quotes[y][Len(quotes[y])].time \in Nat \ {0}
<1>1. quotes[y] \in Seq(Quote)
  BY DEF TypeInv, TypeOK
<1>2. quotes[y][Len(quotes[y])] \in Quote
  BY <1>1, EmptySeq, ElementOfSeq
<1> QED BY <1>2, BoundAssumption DEF Quote, Time

LEMMA InboxTime ==
    ASSUME TypeInv, NEW i \in DOMAIN inbox, inbox[i].symbol # None
    PROVE  inbox[i].symbol \in Symbol /\ inbox[i].quote.time \in Nat \ {0}
<1>1. inbox[i] \in Message
  BY DEF TypeInv, TypeOK
<1>2. inbox[i] \in [symbol : Symbol, quote : Quote]
  BY <1>1 DEF Message, Reply
<1> QED BY <1>2, BoundAssumption DEF Quote, Time

LEMMA CallIsSome ==
    ASSUME NEW c \in Candle, NEW z \in BOOLEAN
    PROVE  [candle |-> c, closed |-> z] \in Call /\ [candle |-> c, closed |-> z] # None
<1>1. [candle |-> c, closed |-> z] \in Call
  BY DEF Call
<1> QED BY <1>1, NoneAssumption DEF Call

\* The bar of a quote the parser is at, and those of the quotes after it
LEMMA CurrentBarBounds ==
    ASSUME OrderInv, parser.at \in {"period", "new_bar"}
    PROVE  /\ parser # Idle /\ parser.symbol = Current.symbol /\ parser.symbol \in Symbol
           /\ quotes[parser.symbol] # <<>>
           /\ CurrentBar =< BarOf(quotes[parser.symbol][Len(quotes[parser.symbol])].time,
                                  Current.period)
           /\ \A i \in DOMAIN inbox : inbox[i].symbol = parser.symbol
                 => CurrentBar =< BarOf(inbox[i].quote.time, Current.period)
<1>1. parser # Idle
  BY DEF Idle
<1>2. parser.symbol \in Symbol /\ parser.symbol = Current.symbol
  BY ParserAtWork DEF OrderInv, WorkingParser, Current
<1>3. Current.period \in Nat \ {0} /\ parser.quote.time \in Nat \ {0}
  BY ParserAtWork DEF OrderInv
<1>4. /\ quotes[parser.symbol] # <<>>
      /\ parser.quote.time =< quotes[parser.symbol][Len(quotes[parser.symbol])].time
  BY <1>1 DEF OrderInv, ParserInOrder, QuotedBy
<1>5. CurrentBar =< BarOf(quotes[parser.symbol][Len(quotes[parser.symbol])].time,
                          Current.period)
  BY <1>2, <1>3, <1>4, LastQuoteTime, BarOfMonotone DEF OrderInv, CurrentBar
<1>6. ASSUME NEW i \in DOMAIN inbox, inbox[i].symbol = parser.symbol
      PROVE  CurrentBar =< BarOf(inbox[i].quote.time, Current.period)
  <2>1. inbox[i].symbol # None
    BY <1>2, <1>6, NoneAssumption
  <2>2. parser.quote.time =< inbox[i].quote.time
    BY <1>1, <1>6 DEF OrderInv, ParserInOrder
  <2> QED BY <1>3, <2>1, <2>2, InboxTime, BarOfMonotone DEF OrderInv, CurrentBar
<1> QED BY <1>1, <1>2, <1>4, <1>5, <1>6

\* The bar of the parser is the one told last or a later one.
LEMMA ToldBeforeCurrent ==
    ASSUME OrderInv, parser.at \in {"period", "new_bar"}, told[Current] # None
    PROVE  /\ DOMAIN Bars # {}
           /\ told[Current] \in Call
           /\ told[Current].candle = Bars[LastBar(Bars)]
           /\ told[Current].candle.timestamp = LastBar(Bars)
           /\ IsLast(LastBar(Bars), Bars)
           /\ LastBar(Bars) \in Nat
           /\ LastBar(Bars) =< CurrentBar
<1>1. Current \in Series
  BY ParserAtWork DEF OrderInv
<1>2. DOMAIN Bars # {} /\ told[Current].candle = Bars[LastBar(Bars)]
  BY <1>1 DEF OrderInv, LastIsTold, Bars
<1>3. IsLast(LastBar(Bars), Bars)
  BY <1>2, ParserAtWork DEF OrderInv
<1>4. LastBar(Bars) \in DOMAIN Bars /\ LastBar(Bars) \in Nat
  BY <1>3, ParserAtWork DEF OrderInv, IsLast
<1>5. told[Current].candle.timestamp = LastBar(Bars)
  BY <1>2, <1>4, ParserAtWork DEF OrderInv
<1>6. told[Current].candle.timestamp =< CurrentBar
  BY <1>1, CurrentBarBounds DEF OrderInv, ToldOnward, CurrentBar
<1>7. told[Current] \in Call
  BY <1>1 DEF OrderInv, TypeInv, TypeOK
<1> QED BY <1>2, <1>3, <1>4, <1>5, <1>6, <1>7

-----------------------------------------------------------------------------
(***************************************************************************)
(* The parser at work: what its three actions do to one series             *)
(***************************************************************************)
\* The messages and the quotes stay, and the parser keeps its quote until it
\* is done.
LEMMA WorkKeepsOrder ==
    ASSUME OrderInv, parser.at \in {"period", "new_bar"}, UNCHANGED <<inbox, quotes>>,
           parser' = Idle \/ (parser'.symbol = parser.symbol /\ parser'.quote = parser.quote)
    PROVE  InboxInOrder' /\ ParserInOrder'
<1>1. InboxInOrder'
  BY DEF OrderInv, InboxInOrder, QuotedBy
<1>2. parser # Idle
  BY DEF Idle
<1>3. ParserInOrder'
  BY <1>2 DEF OrderInv, ParserInOrder, QuotedBy
<1> QED BY <1>1, <1>3

LEMMA WorkKeepsOnward ==
    ASSUME OrderInv, parser.at \in {"period", "new_bar"}, UNCHANGED <<inbox, quotes>>,
           parser' = Idle \/ (parser'.symbol = parser.symbol /\ parser'.quote = parser.quote),
           NEW e, told' = [told EXCEPT ![Current] = e],
           e.candle.timestamp \in Nat, e.candle.timestamp =< CurrentBar
    PROVE  ToldOnward'
<1> SUFFICES ASSUME NEW s \in Series, told'[s] # None
             PROVE  /\ quotes[s.symbol] # <<>>
                    /\ told'[s].candle.timestamp =<
                          BarOf(quotes[s.symbol][Len(quotes[s.symbol])].time, s.period)
                    /\ \A i \in DOMAIN inbox : inbox[i].symbol = s.symbol
                          => told'[s].candle.timestamp =< BarOf(inbox[i].quote.time, s.period)
                    /\ parser' # Idle /\ parser'.symbol = s.symbol
                          => told'[s].candle.timestamp =< BarOf(parser'.quote.time, s.period)
  BY DEF ToldOnward
<1>1. parser # Idle
  BY DEF Idle
<1>2. CASE s # Current
  <2>1. told'[s] = told[s]
    BY <1>2 DEF OrderInv, TypeInv, TypeOK
  <2> QED BY <1>1, <2>1 DEF OrderInv, ToldOnward
<1>3. CASE s = Current
  <2>1. told'[s] = e
    BY <1>3 DEF OrderInv, TypeInv, TypeOK
  <2>2. CurrentBar \in Nat /\ s.period \in Nat \ {0} /\ s.symbol = parser.symbol
    BY <1>3, ParserAtWork, CurrentBarBounds DEF OrderInv
  <2>3. /\ quotes[s.symbol] # <<>>
        /\ e.candle.timestamp =<
              BarOf(quotes[s.symbol][Len(quotes[s.symbol])].time, s.period)
    <3>1. quotes[s.symbol] # <<>> /\ s.symbol \in Symbol
      BY <2>2, CurrentBarBounds
    <3> DEFINE t == quotes[s.symbol][Len(quotes[s.symbol])].time
    <3>2. t \in Nat \ {0} /\ CurrentBar =< BarOf(t, s.period)
      BY <1>3, <2>2, <3>1, CurrentBarBounds, LastQuoteTime DEF OrderInv
    <3>3. BarOf(t, s.period) \in Nat
      BY <2>2, <3>2, BarOfType
    <3> HIDE DEF t
    <3>4. e.candle.timestamp =< BarOf(t, s.period)
      BY <2>2, <3>2, <3>3
    <3> QED BY <3>1, <3>4 DEF t
  <2>4. ASSUME NEW i \in DOMAIN inbox, inbox[i].symbol = s.symbol
        PROVE  e.candle.timestamp =< BarOf(inbox[i].quote.time, s.period)
    <3> DEFINE t == inbox[i].quote.time
    <3>1. inbox[i].symbol # None
      BY <2>2, <2>4, CurrentBarBounds, NoneAssumption
    <3>2. t \in Nat \ {0} /\ CurrentBar =< BarOf(t, s.period)
      BY <1>3, <2>2, <2>4, <3>1, CurrentBarBounds, InboxTime DEF OrderInv
    <3>3. BarOf(t, s.period) \in Nat
      BY <2>2, <3>2, BarOfType
    <3> HIDE DEF t
    <3>4. e.candle.timestamp =< BarOf(t, s.period)
      BY <2>2, <3>2, <3>3
    <3> QED BY <3>4 DEF t
  <2>5. parser' # Idle => e.candle.timestamp =< BarOf(parser'.quote.time, s.period)
    BY <1>3 DEF CurrentBar
  <2> QED BY <2>1, <2>3, <2>4, <2>5
<1> QED BY <1>2, <1>3

\* A bar stored at or behind the last one is the last one.
LEMMA WorkKeepsLast ==
    ASSUME OrderInv, parser.at \in {"period", "new_bar"},
           DOMAIN Bars # {} => LastBar(Bars) =< CurrentBar,
           NEW c \in Candle, NEW z,
           candles' = [candles EXCEPT ![Current] = Put(Bars, CurrentBar, c)],
           told' = [told EXCEPT ![Current] = [candle |-> c, closed |-> z]],
           [candle |-> c, closed |-> z] # None
    PROVE  LastIsTold'
<1> DEFINE new == Put(Bars, CurrentBar, c)
<1>1. /\ Current \in Series /\ CurrentBar \in Nat /\ DOMAIN Bars \subseteq Nat
      /\ DOMAIN Bars # {} => IsLast(LastBar(Bars), Bars)
  BY ParserAtWork DEF OrderInv
<1>2. DOMAIN new = DOMAIN Bars \cup {CurrentBar} /\ new[CurrentBar] = c
  BY DEF Put
<1>3. IsLast(CurrentBar, new)
  <2>1. \A x \in DOMAIN Bars : x =< CurrentBar
    BY <1>1 DEF IsLast
  <2> QED BY <1>1, <1>2, <2>1 DEF IsLast
<1>4. LastBar(new) = CurrentBar
  <2>1. DOMAIN new \subseteq Nat
    BY <1>1, <1>2
  <2> HIDE DEF new
  <2> QED BY <1>3, <2>1, LastBarUnique
<1>5. /\ candles'[Current] = new
      /\ told'[Current] = [candle |-> c, closed |-> z]
      /\ \A s \in Series : s # Current => candles'[s] = candles[s] /\ told'[s] = told[s]
  BY <1>1 DEF OrderInv, TypeInv, TypeOK
<1> HIDE DEF new
<1> SUFFICES ASSUME NEW s \in Series
             PROVE  IF told'[s] = None
                    THEN DOMAIN candles'[s] = {}
                    ELSE /\ DOMAIN candles'[s] # {}
                         /\ told'[s].candle = candles'[s][LastBar(candles'[s])]
  BY DEF LastIsTold
<1>6. CASE s = Current
  BY <1>2, <1>4, <1>5, <1>6
<1>7. CASE s # Current
  BY <1>5, <1>7 DEF OrderInv, LastIsTold
<1> QED BY <1>6, <1>7

\* A period of the parser is done: all series were told open bars.
LEMMA WorkKeepsClosed ==
    ASSUME OrderInv, parser.at \in {"period", "new_bar"}, PeriodDone,
           NEW c, told' = [told EXCEPT ![Current] = [candle |-> c, closed |-> FALSE]]
    PROVE  ToldClosed' /\ AtNewBar'
<1>1. parser' = Idle \/ parser' = [parser EXCEPT !.at = "period", !.periods = Tail(@)]
  BY DEF PeriodDone
<1>2. parser \in WorkingParser
  BY ParserAtWork DEF OrderInv
<1>3. parser'.at # "new_bar"
  <2>1. CASE parser' = Idle
    BY <2>1 DEF Idle
  <2>2. CASE parser' = [parser EXCEPT !.at = "period", !.periods = Tail(@)]
    <3>1. parser'.at = "period"
      BY <1>2, <2>2 DEF WorkingParser
    <3> QED BY <3>1
  <2> QED BY <1>1, <2>1, <2>2
<1>4. \A s \in Series : told'[s] # None => ~told'[s].closed
  <2> SUFFICES ASSUME NEW s \in Series, told'[s] # None PROVE ~told'[s].closed
    OBVIOUS
  <2>1. CASE s = Current
    BY <2>1 DEF OrderInv, TypeInv, TypeOK
  <2>2. CASE s # Current
    <3>1. told'[s] = told[s]
      BY <2>2 DEF OrderInv, TypeInv, TypeOK
    <3> QED BY <2>2, <3>1 DEF OrderInv, ToldClosed
  <2> QED BY <2>1, <2>2
<1>5. \A s \in Series : told'[s] # None => (told'[s].closed <=> FALSE)
  BY <1>4
<1> QED BY <1>3, <1>5 DEF ToldClosed, AtNewBar

LEMMA PeriodDoneKeepsQuote ==
    ASSUME TypeInv, parser.at \in {"period", "new_bar"}, PeriodDone
    PROVE  parser' = Idle \/ (parser'.symbol = parser.symbol /\ parser'.quote = parser.quote)
<1>1. parser \in WorkingParser
  BY ParserAtWork
<1>2. parser' = Idle \/ parser' = [parser EXCEPT !.at = "period", !.periods = Tail(@)]
  BY DEF PeriodDone
<1> QED BY <1>1, <1>2 DEF WorkingParser

LEMMA OpenBarOrder == ASSUME OrderInv, OpenBar PROVE OrderInv'
<1> DEFINE c == NewCandle(volume_mode, parser.quote.price, CurrentBar)
           e == [candle |-> c, closed |-> FALSE]
<1>1. parser.at \in {"period", "new_bar"} /\ UNCHANGED <<inbox, quotes>>
  BY DEF OpenBar, ParserFrame, worldVars
<1>2. TypeInv'
  BY OpenBarTypes DEF OrderInv
<1>3. c \in Candle /\ c.timestamp = CurrentBar /\ CurrentBar \in Nat
  <2>1. parser.quote.price \in Price /\ CurrentBar \in Nat
    BY <1>1, ParserAtWork DEF OrderInv
  <2> QED BY <2>1, NewCandleType
<1>4. /\ told' = [told EXCEPT ![Current] = e]
      /\ candles' = [candles EXCEPT ![Current] = Put(Bars, CurrentBar, c)]
      /\ PeriodDone
  BY DEF OpenBar, OnCandle
<1>5. e # None
  BY <1>3, CallIsSome
<1>6. DOMAIN Bars # {} => LastBar(Bars) =< CurrentBar
  <2>1. Current \in Series
    BY <1>1, ParserAtWork DEF OrderInv
  <2>2. DOMAIN Bars # {} => told[Current] # None
    BY <2>1 DEF OrderInv, LastIsTold, Bars
  <2> QED BY <1>1, <2>2, ToldBeforeCurrent
<1>7. CurrentBar =< CurrentBar /\ e.candle.timestamp \in Nat /\ e.candle.timestamp = CurrentBar
  BY <1>3
<1>8. parser' = Idle \/ (parser'.symbol = parser.symbol /\ parser'.quote = parser.quote)
  BY <1>1, <1>4, PeriodDoneKeepsQuote DEF OrderInv
<1> HIDE DEF c
<1>9. LastIsTold'
  BY <1>1, <1>3, <1>4, <1>5, <1>6, WorkKeepsLast
<1>10. ToldClosed' /\ AtNewBar'
  BY <1>1, <1>4, WorkKeepsClosed
<1> HIDE DEF e
<1>11. InboxInOrder' /\ ParserInOrder'
  BY <1>1, <1>8, WorkKeepsOrder
<1>12. ToldOnward'
  BY <1>1, <1>4, <1>7, <1>8, WorkKeepsOnward
<1> QED BY <1>2, <1>9, <1>10, <1>11, <1>12 DEF OrderInv

\* The bar that is updated is the last one.
LEMMA UpdatedBarIsLast ==
    ASSUME OrderInv, UpdateBar
    PROVE  /\ told[Current] # None
           /\ LastBar(Bars) = CurrentBar
           /\ told[Current].candle = Bars[CurrentBar]
<1>1. parser.at = "period" /\ CurrentBar \in DOMAIN Bars
  BY DEF UpdateBar
<1>2. Current \in Series /\ CurrentBar \in Nat
  BY <1>1, ParserAtWork DEF OrderInv
<1>3. told[Current] # None
  BY <1>1, <1>2 DEF OrderInv, LastIsTold, Bars
<1>4. /\ IsLast(LastBar(Bars), Bars) /\ LastBar(Bars) \in Nat
      /\ LastBar(Bars) =< CurrentBar
      /\ told[Current].candle = Bars[LastBar(Bars)]
  BY <1>1, <1>3, ToldBeforeCurrent
<1>5. LastBar(Bars) = CurrentBar
  BY <1>1, <1>2, <1>4 DEF IsLast
<1> QED BY <1>3, <1>4, <1>5

\* What an update makes of the last bar
LEMMA UpdatedBar ==
    ASSUME OrderInv, UpdateBar, NEW c,
           c = Updated(volume_mode, Bars, Bars[CurrentBar], parser.quote.price)
    PROVE  /\ c \in Candle /\ c.timestamp = CurrentBar
           /\ c.open = Bars[CurrentBar].open
           /\ c.high >= Bars[CurrentBar].high
           /\ c.low =< Bars[CurrentBar].low
           /\ c.volume >= Bars[CurrentBar].volume
<1>1. parser.at = "period" /\ CurrentBar \in DOMAIN Bars
  BY DEF UpdateBar
<1>2. \E b : IsLast(b, Bars)
  BY <1>1, ParserAtWork DEF OrderInv
<1>3. /\ \A b \in DOMAIN Bars : Bars[b] \in Candle /\ Bars[b].timestamp = b
      /\ parser.quote.price \in Price
  BY <1>1, ParserAtWork DEF OrderInv
<1>4. Bars[CurrentBar] \in Candle /\ \A b \in DOMAIN Bars : Bars[b] \in Candle
  BY <1>1, <1>3
<1>5. volume_mode \in VolumeModes
  BY DEF OrderInv, TypeInv, TypeOK
<1>6. /\ c \in Candle /\ c.timestamp = Bars[CurrentBar].timestamp
      /\ c.open = Bars[CurrentBar].open
      /\ c.high >= Bars[CurrentBar].high
      /\ c.low =< Bars[CurrentBar].low
      /\ c.volume >= Bars[CurrentBar].volume
  <2> DEFINE b == Bars[CurrentBar]
             x == parser.quote.price
  <2>1. b \in Candle /\ x \in Price
    BY <1>3, <1>4
  <2>2. c = Updated(volume_mode, Bars, b, x)
    OBVIOUS
  <2> HIDE DEF b, x
  <2> DEFINE u == Updated(volume_mode, Bars, b, x)
  <2>3. /\ u \in Candle /\ u.timestamp = b.timestamp /\ u.open = b.open
        /\ u.high >= b.high /\ u.low =< b.low /\ u.volume >= b.volume
    BY ONLY <1>2, <1>4, <1>5, <2>1, UpdatedType
  <2> QED BY <2>2, <2>3 DEF b
<1> QED BY <1>1, <1>3, <1>6

LEMMA UpdateBarOrder == ASSUME OrderInv, UpdateBar PROVE OrderInv'
<1> DEFINE c == Updated(volume_mode, Bars, Bars[CurrentBar], parser.quote.price)
           e == [candle |-> c, closed |-> FALSE]
<1>1. /\ parser.at = "period" /\ UNCHANGED <<inbox, quotes>>
      /\ parser.at \in {"period", "new_bar"}
  BY DEF UpdateBar, ParserFrame, worldVars
<1>2. TypeInv'
  BY UpdateBarTypes DEF OrderInv
<1>3. c \in Candle /\ c.timestamp = CurrentBar
  BY UpdatedBar
<1>4. /\ told' = [told EXCEPT ![Current] = e]
      /\ candles' = [candles EXCEPT ![Current] = Put(Bars, CurrentBar, c)]
      /\ PeriodDone
  BY DEF UpdateBar, OnCandle
<1>5. CurrentBar \in Nat
  BY <1>1, ParserAtWork DEF OrderInv
<1>6. LastBar(Bars) =< CurrentBar
  BY <1>5, UpdatedBarIsLast
<1>7. e.candle.timestamp \in Nat /\ e.candle.timestamp =< CurrentBar
  BY <1>3, <1>5
<1>8. parser' = Idle \/ (parser'.symbol = parser.symbol /\ parser'.quote = parser.quote)
  BY <1>1, <1>4, PeriodDoneKeepsQuote DEF OrderInv
<1> HIDE DEF c
<1>9. LastIsTold'
  BY <1>1, <1>3, <1>4, <1>6, WorkKeepsLast, CallIsSome
<1>10. ToldClosed' /\ AtNewBar'
  BY <1>1, <1>4, WorkKeepsClosed
<1> HIDE DEF e
<1>11. InboxInOrder' /\ ParserInOrder'
  BY <1>1, <1>8, WorkKeepsOrder
<1>12. ToldOnward'
  BY <1>1, <1>4, <1>7, <1>8, WorkKeepsOnward
<1> QED BY <1>2, <1>9, <1>10, <1>11, <1>12 DEF OrderInv

\* The bar that is closed is the one told last.
LEMMA ClosedBarIsLast ==
    ASSUME OrderInv, CloseBar
    PROVE  /\ Current \in Series
           /\ told[Current] \in Call /\ told[Current] # None /\ ~told[Current].closed
           /\ told[Current].candle = Bars[LastBar(Bars)]
           /\ told' = [told EXCEPT ![Current] =
                          [candle |-> Bars[LastBar(Bars)], closed |-> TRUE]]
           /\ Bars[LastBar(Bars)] \in Candle
           /\ LastBar(Bars) \in Nat /\ LastBar(Bars) =< CurrentBar
           /\ Bars[LastBar(Bars)].timestamp = LastBar(Bars)
<1>1. parser.at = "period" /\ DOMAIN Bars # {}
  BY DEF CloseBar
<1>2. Current \in Series
  BY <1>1, ParserAtWork DEF OrderInv
<1>3. told[Current] # None
  BY <1>1, <1>2 DEF OrderInv, LastIsTold, Bars
<1>4. /\ told[Current] \in Call
      /\ told[Current].candle = Bars[LastBar(Bars)]
      /\ told[Current].candle.timestamp = LastBar(Bars)
      /\ LastBar(Bars) \in Nat /\ LastBar(Bars) =< CurrentBar
  BY <1>1, <1>3, ToldBeforeCurrent
<1>5. ~told[Current].closed
  BY <1>1, <1>2, <1>3 DEF OrderInv, ToldClosed
<1> QED BY <1>2, <1>3, <1>4, <1>5 DEF CloseBar, OnCandle, Call

LEMMA CloseBarOrder == ASSUME OrderInv, CloseBar PROVE OrderInv'
<1> DEFINE e == [candle |-> Bars[LastBar(Bars)], closed |-> TRUE]
<1>1. /\ parser.at = "period" /\ parser.at \in {"period", "new_bar"}
      /\ DOMAIN Bars # {} /\ CurrentBar \notin DOMAIN Bars
      /\ parser' = [parser EXCEPT !.at = "new_bar"]
      /\ UNCHANGED <<inbox, quotes, candles>>
  BY DEF CloseBar, ParserFrame, worldVars
<1>2. TypeInv'
  BY CloseBarTypes DEF OrderInv
<1>3. parser \in WorkingParser
  BY <1>1, ParserAtWork DEF OrderInv
<1>4. /\ parser'.at = "new_bar" /\ parser'.symbol = parser.symbol
      /\ parser'.quote = parser.quote /\ parser'.periods = parser.periods
  BY <1>1, <1>3 DEF WorkingParser
<1>5. Current' = Current /\ Bars' = Bars /\ CurrentBar' = CurrentBar
  BY <1>1, <1>4 DEF Current, Bars, CurrentBar
<1>6. /\ Current \in Series
      /\ told'[Current] = e
      /\ \A s \in Series : s # Current => told'[s] = told[s]
  BY ClosedBarIsLast DEF OrderInv, TypeInv, TypeOK
<1>7. e # None /\ e.candle = candles[Current][LastBar(candles[Current])] /\ e.closed
  BY ClosedBarIsLast, CallIsSome DEF Bars
<1>8. told' = [told EXCEPT ![Current] = e]
  BY ClosedBarIsLast
<1>9. e.candle.timestamp \in Nat /\ e.candle.timestamp =< CurrentBar
  BY ClosedBarIsLast
<1> HIDE DEF e
<1>10. LastIsTold'
  <2> SUFFICES ASSUME NEW s \in Series
               PROVE  IF told'[s] = None
                      THEN DOMAIN candles[s] = {}
                      ELSE /\ DOMAIN candles[s] # {}
                           /\ told'[s].candle = candles[s][LastBar(candles[s])]
    BY <1>1 DEF LastIsTold
  <2>1. CASE s = Current
    BY <1>1, <1>6, <1>7, <2>1 DEF Bars
  <2>2. CASE s # Current
    BY <1>6, <2>2 DEF OrderInv, LastIsTold
  <2> QED BY <2>1, <2>2
<1>11. ToldClosed'
  <2> SUFFICES ASSUME NEW s \in Series, told'[s] # None
               PROVE  told'[s].closed <=> s = Current
    BY <1>4, <1>5 DEF ToldClosed
  <2>1. CASE s = Current
    BY <1>6, <1>7, <2>1
  <2>2. CASE s # Current
    BY <1>1, <1>6, <2>2 DEF OrderInv, ToldClosed
  <2> QED BY <2>1, <2>2
<1>12. AtNewBar'
  BY <1>1, <1>5 DEF AtNewBar
<1>13. InboxInOrder' /\ ParserInOrder'
  BY <1>1, <1>4, WorkKeepsOrder
<1>14. ToldOnward'
  BY <1>1, <1>4, <1>8, <1>9, WorkKeepsOnward
<1> QED BY <1>2, <1>10, <1>11, <1>12, <1>13, <1>14 DEF OrderInv

-----------------------------------------------------------------------------
(***************************************************************************)
(* Messages, connections and the broker                                    *)
(***************************************************************************)
LEMMA IdleIsOpen ==
    ASSUME OrderInv, parser = Idle
    PROVE  /\ parser.at # "new_bar"
           /\ \A s \in Series : told[s] # None => ~told[s].closed
  BY DEF OrderInv, ToldClosed, Idle

\* Steps without a call of on_candle that leave the parser idle, and the
\* messages that stay under way those that were.
LEMMA QuietKeepsOrder ==
    ASSUME OrderInv, TypeInv', parser = Idle, parser' = Idle,
           UNCHANGED <<candles, told, quotes>>,
           \/ inbox' \in {<<>>, <<Reply>>}
           \/ inbox # <<>> /\ inbox' = Tail(inbox)
    PROVE  OrderInv'
<1>1. LastIsTold' /\ ToldClosed' /\ AtNewBar'
  BY IdleIsOpen DEF OrderInv, LastIsTold, ToldClosed, AtNewBar
<1>2. ParserInOrder'
  BY DEF ParserInOrder
<1>3. CASE inbox' \in {<<>>, <<Reply>>}
  <2>1. \A i \in DOMAIN inbox' : inbox'[i] = Reply
    BY <1>3
  <2>2. \A i \in DOMAIN inbox' : inbox'[i].symbol = None
    BY <2>1 DEF Reply
  <2>3. InboxInOrder'
    BY <2>2 DEF InboxInOrder
  <2>4. ToldOnward'
    <3>1. \A s \in Series : s.symbol # None
      BY NoneAssumption DEF Series
    <3> QED BY <2>2, <3>1 DEF OrderInv, ToldOnward
  <2> QED BY <1>1, <1>2, <2>3, <2>4 DEF OrderInv
<1>4. CASE inbox # <<>> /\ inbox' = Tail(inbox)
  <2>1. inbox \in Seq(Message)
    BY DEF OrderInv, TypeInv, TypeOK
  <2>2. \A i \in DOMAIN inbox' :
            /\ i \in Nat /\ i + 1 \in DOMAIN inbox /\ inbox'[i] = inbox[i + 1]
    BY <1>4, <2>1, HeadTailProperties
  <2>3. InboxInOrder'
    BY <2>2, SMTT(30) DEF OrderInv, InboxInOrder, QuotedBy
  <2>4. ToldOnward'
    BY <2>2 DEF OrderInv, ToldOnward
  <2> QED BY <1>1, <1>2, <2>3, <2>4 DEF OrderInv
<1> QED BY <1>3, <1>4

LEMMA ReceiveOtherOrder == ASSUME OrderInv, ReceiveOther PROVE OrderInv'
<1>1. TypeInv'
  BY ReceiveOtherTypes DEF OrderInv
<1> QED BY <1>1, QuietKeepsOrder DEF ReceiveOther, Arrived

LEMMA ConnectionOrder == ASSUME OrderInv, Open \/ Close PROVE OrderInv'
<1>1. TypeInv'
  BY OpenTypes, CloseTypes DEF OrderInv
<1> QED BY <1>1, QuietKeepsOrder DEF Open, Close, streamVars

LEMMA ReceiveQuoteOrder == ASSUME OrderInv, ReceiveQuote PROVE OrderInv'
<1> DEFINE m == Head(inbox)
           periods == list_subscriptions[m.symbol]
<1>1. TypeInv'
  BY ReceiveQuoteTypes DEF OrderInv
<1>2. /\ parser = Idle /\ inbox # <<>> /\ inbox' = Tail(inbox)
      /\ m.symbol # None
      /\ UNCHANGED <<candles, told, quotes>>
      /\ IF periods = <<>> THEN UNCHANGED parser
         ELSE parser' = [at |-> "period", symbol |-> m.symbol, quote |-> m.quote,
                         periods |-> periods]
  BY DEF ReceiveQuote, Arrived, connVars
<1>3. CASE periods = <<>>
  BY <1>1, <1>2, <1>3, QuietKeepsOrder
<1>4. CASE periods # <<>>
  <2>1. parser' = [at |-> "period", symbol |-> m.symbol, quote |-> m.quote,
                   periods |-> periods]
    BY <1>2, <1>4
  <2>2. inbox \in Seq(Message) /\ m = inbox[1] /\ 1 \in DOMAIN inbox
    BY <1>2, EmptySeq DEF OrderInv, TypeInv, TypeOK
  <2>3. \A i \in DOMAIN inbox' :
            /\ i \in Nat \ {0} /\ i + 1 \in DOMAIN inbox /\ inbox'[i] = inbox[i + 1]
    BY <1>2, <2>2, HeadTailProperties
  <2>4. LastIsTold' /\ ToldClosed' /\ AtNewBar'
    BY <1>2, <2>1, IdleIsOpen DEF OrderInv, LastIsTold, ToldClosed, AtNewBar
  <2>5. InboxInOrder'
    BY <1>2, <2>3 DEF OrderInv, InboxInOrder, QuotedBy
  <2>6. ParserInOrder'
    <3>1. QuotedBy(m.symbol, m.quote.time)
      BY <1>2, <2>2 DEF OrderInv, InboxInOrder
    <3>2. \A i \in DOMAIN inbox' : inbox'[i].symbol = m.symbol
              => m.quote.time =< inbox'[i].quote.time
      <4> SUFFICES ASSUME NEW i \in DOMAIN inbox', inbox'[i].symbol = m.symbol
                   PROVE  m.quote.time =< inbox'[i].quote.time
        OBVIOUS
      <4>1. 1 < i + 1 /\ i + 1 \in DOMAIN inbox /\ inbox'[i] = inbox[i + 1]
        BY <2>3
      <4> QED BY <1>2, <2>2, <4>1 DEF OrderInv, InboxInOrder
    <3> QED BY <1>2, <2>1, <3>1, <3>2 DEF ParserInOrder, QuotedBy
  <2>7. ToldOnward'
    BY <1>2, <2>1, <2>2, <2>3, SMTT(30) DEF OrderInv, ToldOnward
  <2> QED BY <1>1, <2>4, <2>5, <2>6, <2>7 DEF OrderInv
<1> QED BY <1>3, <1>4

LEMMA SubscriptionOrder ==
    ASSUME OrderInv, TypeInv', UNCHANGED <<candles, told, parser, quotes, inbox>>
    PROVE  OrderInv'
<1>1. Current' = Current /\ Bars' = Bars /\ CurrentBar' = CurrentBar
  BY DEF Current, Bars, CurrentBar
<1>2. LastIsTold' /\ ToldOnward'
  BY DEF OrderInv, LastIsTold, ToldOnward
<1>3. ToldClosed' /\ AtNewBar'
  BY <1>1 DEF OrderInv, ToldClosed, AtNewBar
<1>4. InboxInOrder' /\ ParserInOrder'
  BY DEF OrderInv, InboxInOrder, ParserInOrder, QuotedBy
<1> QED BY <1>2, <1>3, <1>4 DEF OrderInv

\* The broker's next quote is not before its last one.
LEMMA SendQuoteOrder ==
    ASSUME OrderInv, NEW s \in Symbol, SendQuote(s)
    PROVE  OrderInv'
<1>1. TypeInv'
  BY SendQuoteTypes DEF OrderInv
<1>2. PICK q \in Quote :
          /\ quotes[s] # <<>> => q.time >= quotes[s][Len(quotes[s])].time
          /\ quotes' = [quotes EXCEPT ![s] = Append(@, q)]
          /\ inbox' \in {inbox, Append(inbox, [symbol |-> s, quote |-> q])}
  BY DEF SendQuote
<1>3. UNCHANGED <<candles, told, parser>>
  BY DEF SendQuote, streamVars
<1>4. q.time \in Nat \ {0}
  BY BoundAssumption DEF Quote, Time
<1>5. /\ quotes'[s] # <<>> /\ quotes'[s][Len(quotes'[s])] = q
      /\ \A y \in Symbol : y # s => quotes'[y] = quotes[y]
  <2>1. quotes[s] \in Seq(Quote) /\ quotes'[s] = Append(quotes[s], q)
    BY <1>2 DEF OrderInv, TypeInv, TypeOK
  <2>2. Append(quotes[s], q) # <<>> /\ Append(quotes[s], q)[Len(Append(quotes[s], q))] = q
    BY <2>1, AppendProperties
  <2> QED BY <1>2, <2>1, <2>2 DEF OrderInv, TypeInv, TypeOK
<1>6. \A i \in DOMAIN inbox' :
          \/ i \in DOMAIN inbox /\ inbox'[i] = inbox[i]
          \/ /\ inbox'[i] = [symbol |-> s, quote |-> q]
             /\ \A j \in DOMAIN inbox' : j # i => j < i /\ j \in DOMAIN inbox
  <2>1. inbox \in Seq(Message)
    BY DEF OrderInv, TypeInv, TypeOK
  <2>2. CASE inbox' = inbox
    BY <2>2
  <2>3. CASE inbox' = Append(inbox, [symbol |-> s, quote |-> q])
    <3>1. DOMAIN inbox' = 1 .. (Len(inbox) + 1) /\ DOMAIN inbox = 1 .. Len(inbox)
      BY <2>1, <2>3
    <3>2. \A i \in 1 .. Len(inbox) : inbox'[i] = inbox[i]
      BY <2>1, <2>3
    <3>3. inbox'[Len(inbox) + 1] = [symbol |-> s, quote |-> q] /\ Len(inbox) \in Nat
      BY <2>1, <2>3
    <3> QED BY <3>1, <3>2, <3>3
  <2> QED BY <1>2, <2>2, <2>3
<1>7. DOMAIN inbox \subseteq Nat /\ DOMAIN inbox' \subseteq Nat
  BY <1>1 DEF OrderInv, TypeInv, TypeOK
\* A quote before the last one is before the new one.
<1>8. ASSUME NEW y \in Symbol, NEW t \in Nat, QuotedBy(y, t)
      PROVE  quotes'[y] # <<>> /\ t =< quotes'[y][Len(quotes'[y])].time
  <2>1. CASE y = s
    <3>1. quotes[s] # <<>> /\ t =< quotes[s][Len(quotes[s])].time
      BY <1>8, <2>1 DEF QuotedBy
    <3>2. quotes[s][Len(quotes[s])].time \in Nat
      BY <3>1, LastQuoteTime DEF OrderInv
    <3> QED BY <1>2, <1>4, <1>5, <2>1, <3>1, <3>2
  <2>2. CASE y # s
    BY <1>5, <1>8, <2>2 DEF QuotedBy
  <2> QED BY <2>1, <2>2
<1>9. InboxInOrder'
  <2> SUFFICES ASSUME NEW i \in DOMAIN inbox', inbox'[i].symbol # None
               PROVE  /\ quotes'[inbox'[i].symbol] # <<>>
                      /\ inbox'[i].quote.time =<
                            quotes'[inbox'[i].symbol][Len(quotes'[inbox'[i].symbol])].time
                      /\ \A j \in DOMAIN inbox' :
                            i < j /\ inbox'[j].symbol = inbox'[i].symbol
                                => inbox'[i].quote.time =< inbox'[j].quote.time
    BY DEF InboxInOrder, QuotedBy
  <2>1. CASE i \in DOMAIN inbox /\ inbox'[i] = inbox[i]
    <3> DEFINE y == inbox[i].symbol
               t == inbox[i].quote.time
    <3>1. y \in Symbol /\ t \in Nat /\ QuotedBy(y, t)
      BY <2>1, InboxTime DEF OrderInv, InboxInOrder
    <3>2. quotes'[y] # <<>> /\ t =< quotes'[y][Len(quotes'[y])].time
      BY <3>1, <1>8
    <3>3. ASSUME NEW j \in DOMAIN inbox', i < j, inbox'[j].symbol = y
          PROVE  t =< inbox'[j].quote.time
      <4>1. CASE j \in DOMAIN inbox /\ inbox'[j] = inbox[j]
        BY <2>1, <3>3, <4>1 DEF OrderInv, InboxInOrder
      <4>2. CASE inbox'[j] = [symbol |-> s, quote |-> q]
        BY <1>5, <3>2, <3>3, <4>2
      <4> QED BY <1>6, <4>1, <4>2
    <3> QED BY <2>1, <3>2, <3>3
  <2>2. CASE /\ inbox'[i] = [symbol |-> s, quote |-> q]
             /\ \A j \in DOMAIN inbox' : j # i => j < i /\ j \in DOMAIN inbox
    BY <1>4, <1>5, <1>7, <2>2
  <2> QED BY <1>6, <2>1, <2>2
<1>10. ParserInOrder'
  <2> SUFFICES ASSUME parser # Idle
               PROVE  /\ quotes'[parser.symbol] # <<>>
                      /\ parser.quote.time =<
                            quotes'[parser.symbol][Len(quotes'[parser.symbol])].time
                      /\ \A i \in DOMAIN inbox' : inbox'[i].symbol = parser.symbol
                            => parser.quote.time =< inbox'[i].quote.time
    BY <1>3 DEF ParserInOrder, QuotedBy
  <2>1. /\ parser.symbol \in Symbol /\ parser.quote.time \in Nat
        /\ QuotedBy(parser.symbol, parser.quote.time)
    BY BoundAssumption DEF OrderInv, ParserInOrder, TypeInv, TypeOK, ParserTypes, Quote, Time
  <2>2. /\ quotes'[parser.symbol] # <<>>
        /\ parser.quote.time =< quotes'[parser.symbol][Len(quotes'[parser.symbol])].time
    BY <1>8, <2>1
  <2>3. ASSUME NEW i \in DOMAIN inbox', inbox'[i].symbol = parser.symbol
        PROVE  parser.quote.time =< inbox'[i].quote.time
    <3>1. CASE i \in DOMAIN inbox /\ inbox'[i] = inbox[i]
      BY <2>3, <3>1 DEF OrderInv, ParserInOrder
    <3>2. CASE inbox'[i] = [symbol |-> s, quote |-> q]
      BY <1>5, <2>2, <2>3, <3>2
    <3> QED BY <1>6, <3>1, <3>2
  <2> QED BY <2>2, <2>3
<1>11. ToldOnward'
  <2> SUFFICES ASSUME NEW r \in Series, told[r] # None
               PROVE  /\ quotes'[r.symbol] # <<>>
                      /\ told[r].candle.timestamp =<
                            BarOf(quotes'[r.symbol][Len(quotes'[r.symbol])].time, r.period)
                      /\ \A i \in DOMAIN inbox' : inbox'[i].symbol = r.symbol
                            => told[r].candle.timestamp =< BarOf(inbox'[i].quote.time, r.period)
                      /\ parser # Idle /\ parser.symbol = r.symbol
                            => told[r].candle.timestamp =< BarOf(parser.quote.time, r.period)
    BY <1>3 DEF ToldOnward
  <2> DEFINE b == told[r].candle.timestamp
             t == quotes[r.symbol][Len(quotes[r.symbol])].time
  <2>1. r.symbol \in Symbol /\ r.period \in Nat \ {0}
    BY PeriodAssumption DEF Series
  <2>2. b \in Nat
    BY DEF OrderInv, TypeInv, TypeOK, Call, Candle
  <2>3. quotes[r.symbol] # <<>> /\ t \in Nat \ {0} /\ b =< BarOf(t, r.period)
    BY <2>1, LastQuoteTime DEF OrderInv, ToldOnward
  <2>4. CASE r.symbol = s
    <3>1. t =< q.time
      BY <1>2, <1>4, <2>3, <2>4
    <3>2. BarOf(t, r.period) =< BarOf(q.time, r.period)
      BY <1>4, <2>1, <2>3, <3>1, BarOfMonotone
    <3>3. BarOf(t, r.period) \in Nat /\ BarOf(q.time, r.period) \in Nat
      BY <1>4, <2>1, <2>3, BarOfType
    <3>4. b =< BarOf(q.time, r.period)
      <4> HIDE DEF b, t
      <4> QED BY <2>2, <2>3, <3>2, <3>3
    <3>5. ASSUME NEW i \in DOMAIN inbox', inbox'[i].symbol = r.symbol
          PROVE  b =< BarOf(inbox'[i].quote.time, r.period)
      <4>1. CASE i \in DOMAIN inbox /\ inbox'[i] = inbox[i]
        BY <3>5, <4>1 DEF OrderInv, ToldOnward
      <4>2. CASE inbox'[i] = [symbol |-> s, quote |-> q]
        BY <3>4, <4>2
      <4> QED BY <1>6, <4>1, <4>2
    <3> QED BY <1>5, <2>4, <3>4, <3>5 DEF OrderInv, ToldOnward
  <2>5. CASE r.symbol # s
    <3>1. quotes'[r.symbol] = quotes[r.symbol]
      BY <1>5, <2>1, <2>5
    <3>2. ASSUME NEW i \in DOMAIN inbox', inbox'[i].symbol = r.symbol
          PROVE  b =< BarOf(inbox'[i].quote.time, r.period)
      <4>1. i \in DOMAIN inbox /\ inbox'[i] = inbox[i]
        BY <1>6, <2>5, <3>2
      <4> QED BY <3>2, <4>1 DEF OrderInv, ToldOnward
    <3> QED BY <2>3, <3>1, <3>2 DEF OrderInv, ToldOnward
  <2> QED BY <2>4, <2>5
<1>12. Current' = Current /\ Bars' = Bars /\ CurrentBar' = CurrentBar
  BY <1>3 DEF Current, Bars, CurrentBar
<1>13. LastIsTold' /\ ToldClosed' /\ AtNewBar'
  BY <1>3, <1>12 DEF OrderInv, LastIsTold, ToldClosed, AtNewBar
<1> QED BY <1>1, <1>9, <1>10, <1>11, <1>13 DEF OrderInv

-----------------------------------------------------------------------------
LEMMA OrderInit == ASSUME Init PROVE OrderInv
<1>1. TypeInv
  BY TypeInit
<1>2. DOMAIN inbox = {} /\ parser = Idle /\ parser.at # "new_bar"
  BY DEF Init, Idle
<1>3. \A s \in Series : told[s] = None /\ DOMAIN candles[s] = {}
  BY DEF Init
<1> QED BY <1>1, <1>2, <1>3
        DEF OrderInv, LastIsTold, InboxInOrder, ParserInOrder, ToldOnward, ToldClosed, AtNewBar

LEMMA OrderStep == ASSUME OrderInv, [Next]_vars PROVE OrderInv'
<1>1. CASE UNCHANGED vars
  <2>1. TypeInv'
    BY <1>1, TypeStep DEF OrderInv
  <2> QED BY <1>1, <2>1, SubscriptionOrder DEF vars, streamVars, worldVars
<1>2. CASE Parser
  BY <1>2, ReceiveOtherOrder, ReceiveQuoteOrder, CloseBarOrder, OpenBarOrder,
     UpdateBarOrder DEF Parser
<1>3. CASE Open \/ Close
  BY <1>3, ConnectionOrder
<1>4. ASSUME NEW s \in Series, AddCandlesStream(s) PROVE OrderInv'
  <2>1. TypeInv'
    BY <1>4, RequestTypes DEF OrderInv
  <2> QED BY <1>4, <2>1, SubscriptionOrder DEF AddCandlesStream, streamVars
<1>5. ASSUME NEW s \in Symbol, Subscribe(s) \/ Unsubscribe(s) PROVE OrderInv'
  <2>1. TypeInv'
    BY <1>5, RequestTypes DEF OrderInv
  <2> QED BY <1>5, <2>1, SubscriptionOrder DEF Subscribe, Unsubscribe, streamVars
<1>6. ASSUME NEW s \in Symbol, SendQuote(s) PROVE OrderInv'
  BY <1>6, SendQuoteOrder
<1> QED BY <1>1, <1>2, <1>3, <1>4, <1>5, <1>6 DEF Next

LEMMA OrderInvariant == Spec => []OrderInv
  BY OrderInit, OrderStep, PTL DEF Spec

\* What on_candle was told last of a series is what the getters return as its
\* last bar once is_websocket_init is set, and they return blanks before that,
\* within the callbacks of the first message of a connection too.
THEOREM ToldIsLastAlways == Spec => ToldIsLast
<1> DEFINE Reads == \A s \in Series, ready \in {is_websocket_init, is_websocket_init'} :
                       GetCandle(ready, candles'[s]) = IF ready /\ told'[s] # None
                                                       THEN told'[s].candle
                                                       ELSE Blank
<1>1. LastIsTold' => Reads
  <2> SUFFICES ASSUME LastIsTold', NEW s \in Series,
                      NEW ready \in {is_websocket_init, is_websocket_init'}
               PROVE  GetCandle(ready, candles'[s]) = IF ready /\ told'[s] # None
                                                      THEN told'[s].candle
                                                      ELSE Blank
    OBVIOUS
  <2>1. CASE told'[s] = None
    BY <2>1, Zenon DEF LastIsTold, GetCandle
  <2>2. CASE told'[s] # None
    BY <2>2, Zenon DEF LastIsTold, GetCandle
  <2> QED BY <2>1, <2>2
<1>2. OrderInv' => LastIsTold'
  BY DEF OrderInv
<1>3. OrderInv /\ [Next]_vars => [Reads]_vars
  BY <1>1, <1>2, OrderStep
<1> QED BY <1>3, OrderInvariant, PTL DEF Spec, ToldIsLast

-----------------------------------------------------------------------------
(***************************************************************************)
(* Each call of on_candle is a step of BarFeed, and nothing else is.       *)
(***************************************************************************)
LEMMA CloseBarTells ==
    ASSUME OrderInv, CloseBar
    PROVE  Current \in Series /\ Feed!Tell(Current)
<1> DEFINE e == [candle |-> Bars[LastBar(Bars)], closed |-> TRUE]
<1>1. /\ Current \in Series
      /\ told[Current] # None /\ ~told[Current].closed
      /\ told[Current].candle = Bars[LastBar(Bars)]
      /\ told' = [told EXCEPT ![Current] = e]
      /\ e # None
  BY ClosedBarIsLast, CallIsSome
<1>2. told'[Current] = e
  BY <1>1 DEF OrderInv, TypeInv, TypeOK
<1>3. Feed!Closes(told[Current], told'[Current])
  BY <1>1, <1>2 DEF Feed!Closes
<1> QED BY <1>1, <1>2, <1>3 DEF Feed!Tell

LEMMA OpenBarTells ==
    ASSUME OrderInv, OpenBar
    PROVE  Current \in Series /\ Feed!Tell(Current)
<1> DEFINE c == NewCandle(volume_mode, parser.quote.price, CurrentBar)
           e == [candle |-> c, closed |-> FALSE]
<1>1. parser.at \in {"period", "new_bar"}
  BY DEF OpenBar
<1>2. Current \in Series /\ CurrentBar \in Nat /\ parser.quote.price \in Price
  BY <1>1, ParserAtWork DEF OrderInv
<1>3. /\ c \in Candle /\ c.timestamp = CurrentBar
      /\ c.high = c.open /\ c.low = c.open /\ c.close = c.open
  <2>1. c \in Candle /\ c.timestamp = CurrentBar
    BY <1>2, NewCandleType
  <2>2. c.high = c.open /\ c.low = c.open /\ c.close = c.open
    BY DEF NewCandle
  <2> QED BY <2>1, <2>2
<1>4. told' = [told EXCEPT ![Current] = e]
  BY DEF OpenBar, OnCandle
<1> HIDE DEF c
<1>5. told'[Current] = e /\ e # None
  BY <1>2, <1>3, <1>4, CallIsSome DEF OrderInv, TypeInv, TypeOK
<1>6. told[Current] # None => told[Current].closed /\ CurrentBar > told[Current].candle.timestamp
  <2> SUFFICES ASSUME told[Current] # None
               PROVE  told[Current].closed /\ CurrentBar > told[Current].candle.timestamp
    OBVIOUS
  <2>1. /\ DOMAIN Bars # {} /\ IsLast(LastBar(Bars), Bars)
        /\ LastBar(Bars) \in Nat /\ LastBar(Bars) =< CurrentBar
        /\ told[Current].candle.timestamp = LastBar(Bars)
    BY <1>1, ToldBeforeCurrent
  <2>2. parser.at = "new_bar"
    BY <2>1 DEF OpenBar
  <2>3. CurrentBar \notin DOMAIN Bars
    BY <2>2 DEF OrderInv, AtNewBar
  <2>4. told[Current].closed
    BY <1>2, <2>2 DEF OrderInv, ToldClosed
  <2> QED BY <1>2, <2>1, <2>3, <2>4 DEF IsLast
<1>7. Feed!Opens(told[Current], told'[Current])
  BY <1>3, <1>5, <1>6 DEF Feed!Opens
<1> QED BY <1>2, <1>4, <1>5, <1>7 DEF Feed!Tell

LEMMA UpdateBarTells ==
    ASSUME OrderInv, UpdateBar
    PROVE  Current \in Series /\ Feed!Tell(Current)
<1> DEFINE c == Updated(volume_mode, Bars, Bars[CurrentBar], parser.quote.price)
           e == [candle |-> c, closed |-> FALSE]
<1>1. parser.at = "period" /\ parser.at \in {"period", "new_bar"}
  BY DEF UpdateBar
<1>2. Current \in Series
  BY <1>1, ParserAtWork DEF OrderInv
<1>3. /\ c \in Candle /\ c.timestamp = CurrentBar
      /\ c.open = Bars[CurrentBar].open
      /\ c.high >= Bars[CurrentBar].high
      /\ c.low =< Bars[CurrentBar].low
      /\ c.volume >= Bars[CurrentBar].volume
  BY UpdatedBar
<1>4. /\ told[Current] # None /\ told[Current].candle = Bars[CurrentBar]
      /\ told[Current].candle.timestamp = CurrentBar
  BY <1>1, UpdatedBarIsLast, ToldBeforeCurrent
<1>5. ~told[Current].closed
  BY <1>1, <1>2, <1>4 DEF OrderInv, ToldClosed
<1>6. told' = [told EXCEPT ![Current] = e]
  BY DEF UpdateBar, OnCandle
<1> HIDE DEF c
<1>7. told'[Current] = e /\ e # None
  BY <1>2, <1>3, <1>6, CallIsSome DEF OrderInv, TypeInv, TypeOK
<1>8. Feed!Updates(told[Current], told'[Current])
  BY <1>3, <1>4, <1>5, <1>7 DEF Feed!Updates
<1> QED BY <1>2, <1>6, <1>7, <1>8 DEF Feed!Tell

LEMMA FeedInit == ASSUME Init PROVE Feed!Init
  BY DEF Init, Feed!Init

LEMMA FeedStep == ASSUME OrderInv, [Next]_vars PROVE [Feed!Next]_told
<1>1. CASE UNCHANGED vars
  BY <1>1 DEF vars, streamVars
<1>2. CASE Parser
  <2>1. CASE ReceiveOther \/ ReceiveQuote
    BY <2>1 DEF ReceiveOther, ReceiveQuote
  <2>2. CASE CloseBar \/ OpenBar \/ UpdateBar
    BY <2>2, CloseBarTells, OpenBarTells, UpdateBarTells DEF Feed!Next
  <2> QED BY <1>2, <2>1, <2>2 DEF Parser
<1>3. CASE ~Parser /\ Next
  BY <1>3 DEF Next, Open, Close, AddCandlesStream, Subscribe, Unsubscribe, SendQuote, streamVars
<1> QED BY <1>1, <1>2, <1>3

\* The price stream implements its abstract specification: over lost
\* connections, lost quotes and repeated subscriptions, on_candle tells of each
\* bar of a series once, in the order of time, and closes it as it was told last.
THEOREM StreamFollowsFeed == Spec => ReportsFollowFeed
<1>1. Init => Feed!Init
  BY FeedInit
<1>2. OrderInv /\ [Next]_vars => [Feed!Next]_told
  BY FeedStep
<1> QED BY <1>1, <1>2, OrderInvariant, PTL DEF Spec, ReportsFollowFeed, Feed!Spec
=============================================================================
