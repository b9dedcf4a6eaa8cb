------------------------------ MODULE Candles ------------------------------
(***************************************************************************)
(* The price stream BinomoApiPriceStream                                   *)
(* (include/binomo-cpp-api-websocket.hpp): subscriptions, the parser that  *)
(* turns the broker's quotes into bars, and the calls of on_candle.        *)
(*                                                                         *)
(* Atomicity: the parser copies the periods of a symbol in one critical    *)
(* section and then handles them with candles_mutex held.  One action is   *)
(* one call of on_candle, because the callback, which runs in the parser's *)
(* thread, reads the bars between two calls.                               *)
(*                                                                         *)
(* Data: a message holds one quote; prices are counted in units of the     *)
(* symbol's precision and volumes in halves, so that the 0.5 a weighted    *)
(* quote adds is a whole number.                                           *)
(***************************************************************************)
EXTENDS Naturals, Sequences, FiniteSets

CONSTANTS
    Symbol,       \* normalized names the broker knows
    Period,       \* lengths of bars, in ticks of the model's clock
    Price,        \* prices the broker quotes
    None,         \* no call of on_candle yet
    VolumeModes,  \* modes set_volume_mode may have set before the start
    Settings,     \* the periods of each symbol added before the start
    StartSeries,  \* the series on_start adds at every connection, or None
    \* Bounds of the model
    MaxTime,      \* last time a quote carries
    MaxQuotes,    \* quotes of each symbol
    MaxLag,       \* messages under way
    MaxAdds,      \* calls of add_candles_stream
    MaxDrops,     \* connections lost
    MaxRequests   \* calls of subscribe_symbol and unsubscribe_symbol

Series == [symbol : Symbol, period : Period]

ASSUME PeriodAssumption == Period \subseteq Nat \ {0}

ASSUME PriceAssumption == Price \subseteq Nat \ {0}

ASSUME ModeAssumption == VolumeModes \subseteq {"none", "count", "weight"}

ASSUME StartAssumption ==
    /\ Settings \in [Symbol -> Seq(Period)]
    /\ StartSeries \in Series \cup {None}

ASSUME BoundAssumption ==
    {MaxTime, MaxQuotes, MaxLag, MaxAdds, MaxDrops, MaxRequests} \subseteq Nat

Time  == 1 .. MaxTime
Quote == [time : Time, price : Price]

Candle == [timestamp : Nat, open : Price, high : Price, low : Price,
           close : Price, volume : Nat]

\* CANDLE()
Blank == [timestamp |-> 0, open |-> 0, high |-> 0, low |-> 0, close |-> 0,
          volume |-> 0]

ASSUME NoneAssumption ==
    /\ None \notin [candle : Candle, closed : BOOLEAN]
    /\ None \notin Symbol \cup Quote
    /\ None \notin Series

-----------------------------------------------------------------------------
VARIABLES
    list_subscriptions, \* the periods of each symbol, in the order added
    candles,            \* the bars of each series, by their timestamps
    is_open,
    is_websocket_init,
    volume_mode,
    parser,             \* the quote the parser is at, and the periods left
    \* The broker and its network
    subscribed,         \* symbols the broker sends on this connection
    inbox,              \* messages on their way to the parser
    quotes,             \* all quotes of the broker
    used,               \* how much of each bound is used up
    \* History
    told,               \* the last call of on_candle for each series
    seen                \* the quotes handled for each series

streamVars == <<candles, is_websocket_init, parser, told, seen>>
subVars    == <<list_subscriptions, subscribed>>
connVars   == <<is_open, volume_mode>>
worldVars  == <<inbox, quotes, used>>

vars == <<streamVars, subVars, connVars, worldVars>>

BoundNames == {"adds", "drops", "requests"}

Idle == [at |-> "idle", symbol |-> None, quote |-> None, periods |-> <<>>]

Init ==
    /\ list_subscriptions = Settings
    /\ candles = [s \in Series |-> <<>>]
    /\ is_open = FALSE
    /\ is_websocket_init = FALSE
    /\ volume_mode \in VolumeModes
    /\ parser = Idle
    /\ subscribed = {}
    /\ inbox = <<>>
    /\ quotes = [s \in Symbol |-> <<>>]
    /\ used = [b \in BoundNames |-> 0]
    /\ told = [s \in Series |-> None]
    /\ seen = [s \in Series |-> <<>>]

Bounded(b, max) == used[b] < max /\ used' = [used EXCEPT ![b] = @ + 1]

-----------------------------------------------------------------------------
(***************************************************************************)
(* Bars.  A bar carries the time of its end, and a quote at that second    *)
(* still belongs to it.                                                    *)
(***************************************************************************)
\* Mutant: a quote at the last second of a bar starts the next one.
BarOfEarly(time, p) == time - (time % p) + p

BarOf(time, p) == (time - 1) - ((time - 1) % p) + p

Put(f, k, v) == [x \in DOMAIN f \cup {k} |-> IF x = k THEN v ELSE f[x]]

LastBar(bars) == CHOOSE b \in DOMAIN bars : \A x \in DOMAIN bars : x =< b

\* get_candle, as one reads it who finds the flag is_websocket_init at ready: the
\* last bar of a series, CANDLE() without the flag or without bars.  A callback
\* finds the flag as it was before the message: the parser sets it at its end.
GetCandle(ready, bars) == IF ready /\ DOMAIN bars # {} THEN bars[LastBar(bars)] ELSE Blank

Distance(x, y) == IF x > y THEN x - y ELSE y - x

NewCandle(mode, x, b) ==
    [timestamp |-> b, open |-> x, high |-> x, low |-> x, close |-> x,
     volume |-> IF mode = "count" THEN 1 ELSE 0]

\* What a quote adds to the volume of bar c: its distance from the price before
\* it, which is looked for in the last bar as long as the volume is 0.
AddedVolume(mode, bars, c, x) ==
    CASE mode = "none" -> 0
      [] mode = "count" -> 1
      [] mode = "weight" ->
            2 * Distance(x, IF c.volume = 0 THEN bars[LastBar(bars)].close
                                            ELSE c.close) + 1

Updated(mode, bars, c, x) ==
    [c EXCEPT !.volume = @ + AddedVolume(mode, bars, c, x),
              !.close = x,
              !.high = IF x > @ THEN x ELSE @,
              !.low = IF x < @ THEN x ELSE @]

-----------------------------------------------------------------------------
(***************************************************************************)
(* The parser                                                              *)
(***************************************************************************)
Arrived == parser = Idle /\ is_open /\ inbox # <<>>

\* Answers to subscriptions, quotes of unknown symbols or with an unreadable
\* time: nothing but the flag is set.
ReceiveOther ==
    /\ Arrived /\ Head(inbox).symbol = None
    /\ inbox' = Tail(inbox)
    /\ is_websocket_init' = TRUE
    /\ UNCHANGED <<candles, parser, told, seen, subVars, connVars, quotes, used>>

\* A quote: the periods of its symbol are copied.
ReceiveQuote ==
    /\ Arrived /\ Head(inbox).symbol # None
    /\ inbox' = Tail(inbox)
    /\ LET m       == Head(inbox)
           periods == list_subscriptions[m.symbol]
           series  == {[symbol |-> m.symbol, period |-> periods[i]] :
                          i \in DOMAIN periods}
       IN  /\ IF periods = <<>>
              THEN is_websocket_init' = TRUE /\ UNCHANGED parser
              ELSE /\ parser' = [at |-> "period", symbol |-> m.symbol,
                                 quote |-> m.quote, periods |-> periods]
                   /\ UNCHANGED is_websocket_init
           /\ seen' = [s \in Series |-> IF s \in series
                                        THEN Append(seen[s], m.quote)
                                        ELSE seen[s]]
    /\ UNCHANGED <<candles, told, subVars, connVars, quotes, used>>

\* The series, the bars and the bar the parser is at
Current    == [symbol |-> parser.symbol, period |-> Head(parser.periods)]
Bars       == candles[Current]
CurrentBar == BarOf(parser.quote.time, Current.period)

OnCandle(c, closed) ==
    told' = [told EXCEPT ![Current] = [candle |-> c, closed |-> closed]]

\* Mutant: the loop runs one period too far.
PeriodDoneLate ==
    IF parser.periods = <<>>
    THEN parser' = Idle /\ is_websocket_init' = TRUE
    ELSE /\ parser' = [parser EXCEPT !.at = "period", !.periods = Tail(@)]
         /\ UNCHANGED is_websocket_init

\* The loop goes on to the next period, or the parser ends.
PeriodDone ==
    IF Len(parser.periods) = 1
    THEN parser' = Idle /\ is_websocket_init' = TRUE
    ELSE /\ parser' = [parser EXCEPT !.at = "period", !.periods = Tail(@)]
         /\ UNCHANGED is_websocket_init

ParserFrame == UNCHANGED <<seen, subVars, connVars, worldVars>>

\* Mutant: the first bar is taken for the last one.
CloseFirstBar ==
    /\ parser.at = "period"
    /\ DOMAIN Bars # {} /\ CurrentBar \notin DOMAIN Bars
    /\ OnCandle(Bars[CHOOSE b \in DOMAIN Bars : \A x \in DOMAIN Bars : b =< x], TRUE)
    /\ parser' = [parser EXCEPT !.at = "new_bar"]
    /\ UNCHANGED <<candles, is_websocket_init>>
    /\ ParserFrame

CloseBar ==
    /\ parser.at = "period"
    /\ DOMAIN Bars # {} /\ CurrentBar \notin DOMAIN Bars
    /\ OnCandle(Bars[LastBar(Bars)], TRUE)
    /\ parser' = [parser EXCEPT !.at = "new_bar"]
    /\ UNCHANGED <<candles, is_websocket_init>>
    /\ ParserFrame

OpenBar ==
    /\ \/ parser.at = "period" /\ DOMAIN Bars = {}
       \/ parser.at = "new_bar"
    /\ LET c == NewCandle(volume_mode, parser.quote.price, CurrentBar)
       IN  /\ candles' = [candles EXCEPT ![Current] = Put(Bars, CurrentBar, c)]
           /\ OnCandle(c, FALSE)
    /\ PeriodDone
    /\ ParserFrame

\* Mutant: the bar is updated in a copy, "auto candle" in place of "auto &candle".
UpdateCopy ==
    /\ parser.at = "period"
    /\ CurrentBar \in DOMAIN Bars
    /\ OnCandle(Updated(volume_mode, Bars, Bars[CurrentBar], parser.quote.price), FALSE)
    /\ UNCHANGED candles
    /\ PeriodDone
    /\ ParserFrame

UpdateBar ==
    /\ parser.at = "period"
    /\ CurrentBar \in DOMAIN Bars
    /\ LET c == Updated(volume_mode, Bars, Bars[CurrentBar], parser.quote.price)
       IN  /\ candles' = [candles EXCEPT ![Current] = Put(Bars, CurrentBar, c)]
           /\ OnCandle(c, FALSE)
    /\ PeriodDone
    /\ ParserFrame

Parser == ReceiveOther \/ ReceiveQuote \/ CloseBar \/ OpenBar \/ UpdateBar

-----------------------------------------------------------------------------
(***************************************************************************)
(* Connections, subscriptions and what the user reads                      *)
(***************************************************************************)
Reply == [symbol |-> None, quote |-> None]

Added(list, s) == [list EXCEPT ![s.symbol] = Append(@, s.period)]

\* on_open: the user's on_start, then one request for all symbols.
Open ==
    /\ parser = Idle
    /\ ~is_open
    /\ is_open' = TRUE
    /\ list_subscriptions' = IF StartSeries = None
                             THEN list_subscriptions
                             ELSE Added(list_subscriptions, StartSeries)
    /\ subscribed' = {s \in Symbol : list_subscriptions'[s] # <<>>}
    /\ inbox' = IF subscribed' = {} THEN <<>> ELSE <<Reply>>
    /\ UNCHANGED <<streamVars, volume_mode, quotes, used>>

\* Mutant: the stream still counts as connected.
CloseStillInit ==
    /\ parser = Idle
    /\ is_open
    /\ Bounded("drops", MaxDrops)
    /\ is_open' = FALSE
    /\ subscribed' = {}
    /\ inbox' = <<>>
    /\ UNCHANGED <<streamVars, list_subscriptions, volume_mode, quotes>>

\* on_close, on_error: the bars stay.
Close ==
    /\ parser = Idle
    /\ is_open
    /\ Bounded("drops", MaxDrops)
    /\ is_open' = FALSE
    /\ is_websocket_init' = FALSE
    /\ subscribed' = {}
    /\ inbox' = <<>>
    /\ UNCHANGED <<candles, parser, told, seen, list_subscriptions, volume_mode,
                   quotes>>

\* add_candles_stream: a period is added as often as it is asked for, and the
\* broker is not told.
AddCandlesStream(s) ==
    /\ Bounded("adds", MaxAdds)
    /\ list_subscriptions' = Added(list_subscriptions, s)
    /\ UNCHANGED <<streamVars, subscribed, connVars, inbox, quotes>>

Subscribe(s) ==
    /\ Bounded("requests", MaxRequests)
    /\ subscribed' = IF is_open THEN subscribed \cup {s} ELSE subscribed
    /\ UNCHANGED <<streamVars, list_subscriptions, connVars, inbox, quotes>>

Unsubscribe(s) ==
    /\ Bounded("requests", MaxRequests)
    /\ subscribed' = IF is_open THEN subscribed \ {s} ELSE subscribed
    /\ UNCHANGED <<streamVars, list_subscriptions, connVars, inbox, quotes>>

\* The broker quotes a symbol, also while nobody is connected.
SendQuote(s) ==
    /\ Len(quotes[s]) < MaxQuotes
    /\ \E q \in Quote :
          /\ quotes[s] # <<>> => q.time >= quotes[s][Len(quotes[s])].time
          /\ quotes' = [quotes EXCEPT ![s] = Append(@, q)]
          /\ IF is_open /\ s \in subscribed
             THEN /\ Len(inbox) < MaxLag
                  /\ inbox' = Append(inbox, [symbol |-> s, quote |-> q])
             ELSE UNCHANGED inbox
    /\ UNCHANGED <<streamVars, subVars, connVars, used>>

Next ==
    \/ Parser \/ Open \/ Close
    \/ \E s \in Series : AddCandlesStream(s)
    \/ \E s \in Symbol : Subscribe(s) \/ Unsubscribe(s) \/ SendQuote(s)

Spec == Init /\ [][Next]_vars

-----------------------------------------------------------------------------
Call    == [candle : Candle, closed : BOOLEAN]
Message == [symbol : Symbol, quote : Quote] \cup {Reply}

BarTypes ==
    \A s \in Series : \A b \in DOMAIN candles[s] :
        b \in Nat /\ candles[s][b] \in Candle /\ candles[s][b].timestamp = b

ParserTypes ==
    parser \in {Idle} \cup [at : {"period", "new_bar"}, symbol : Symbol,
                           quote : Quote, periods : Seq(Period) \ {<<>>}]

\* Every variable holds what its declaration in the code allows, a bar is stored
\* under its own timestamp, and the parser has a period left while it works.
TypeOK ==
    /\ list_subscriptions \in [Symbol -> Seq(Period)]
    /\ DOMAIN candles = Series
    /\ BarTypes
    /\ {is_open, is_websocket_init} \subseteq BOOLEAN
    /\ volume_mode \in VolumeModes
    /\ ParserTypes
    /\ subscribed \subseteq Symbol
    /\ inbox \in Seq(Message)
    /\ quotes \in [Symbol -> Seq(Quote)]
    /\ used \in [BoundNames -> Nat]
    /\ told \in [Series -> Call \cup {None}]
    /\ seen \in [Series -> Seq(Quote)]

-----------------------------------------------------------------------------
\* on_candle is called as BarFeed says: each bar once, in order, closed as it
\* was told last, over lost connections, lost quotes and repeated subscriptions.
Feed == INSTANCE BarFeed WITH Series <- Series, None <- None, told <- told
ReportsFollowFeed == Feed!Spec

\* The quotes of series s in the bar that ends at b, by the definition of a bar:
\* those after the end of the bar before it, up to its own.
QuotesIn(s, b) == {i \in DOMAIN seen[s] : seen[s][i].time \in (b - s.period + 1) .. b}

PriceOf(s, i) == seen[s][i].price

\* Between two messages the bars of a series are the summary of the quotes that
\* reached it: a bar for each span that has a quote, opened by the first, closed
\* by the last, and as high and as low as they go.
BarsFollowQuotes ==
    parser = Idle =>
        \A s \in Series :
            /\ \A i \in DOMAIN seen[s] : \E b \in DOMAIN candles[s] : i \in QuotesIn(s, b)
            /\ \A b \in DOMAIN candles[s] :
                  LET c == candles[s][b]
                      I == QuotesIn(s, b)
                  IN  /\ \E i \in I : c.open = PriceOf(s, i) /\ \A j \in I : i =< j
                      /\ \E i \in I : c.close = PriceOf(s, i) /\ \A j \in I : j =< i
                      /\ \E i \in I : c.high = PriceOf(s, i)
                      /\ \E i \in I : c.low = PriceOf(s, i)
                      /\ \A i \in I : PriceOf(s, i) \in c.low .. c.high

\* What on_candle was told last of a series is the bar the getters return as its
\* last one, within the callback and after it, while they return bars at all: the
\* flag goes up when the first message of a connection has been handled, so the
\* callbacks of that message, like everybody after a lost connection, get blanks.
ToldIsLast ==
    [][\A s \in Series, ready \in {is_websocket_init, is_websocket_init'} :
          GetCandle(ready, candles'[s]) = IF ready /\ told'[s] # None
                                          THEN told'[s].candle
                                          ELSE Blank]_vars

=============================================================================
