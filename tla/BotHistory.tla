----------------------------- MODULE BotHistory -----------------------------
(***************************************************************************)
(* The bot's price history for MetaTrader 4 (include/bot/binomo-bot.hpp,   *)
(* init_candles_stream_mt4): the main thread downloads the history of each *)
(* series (get_historical_data of binomo-cpp-api-http.hpp) and stores it   *)
(* in a file (tools/binomo-cpp-api-mql-hst.hpp); from then on on_candle    *)
(* writes the bars of the price stream, after it has caught up with what   *)
(* came while the history was loading.                                     *)
(*                                                                         *)
(* Atomicity: a call of on_candle runs in the thread of the stream, which  *)
(* does nothing else until the call is over.  It meets the main thread at  *)
(* the flag is_init_mql_history, before which it leaves the file alone.    *)
(* The main thread stores its bars one by one and without a lock, and the  *)
(* catch-up takes mql_history_mutex anew for each bar it adds.             *)
(***************************************************************************)
EXTENDS Candles, SequencesExt

CONSTANTS
    Minute,       \* xtime::SECONDS_IN_MINUTE, in ticks
    Span,         \* the time one answer of the broker covers
    Step,         \* time_period: how far the next request lies from the last
    History,      \* how far back the history goes
    Unfinished    \* whether an answer may hold, or lack, the current bar

ASSUME DownloadAssumption ==
    /\ {Minute, Span} \subseteq Nat \ {0}
    /\ {Step, History} \subseteq Nat
    /\ MaxTime # 0
    /\ Unfinished \subseteq BOOLEAN

VARIABLES
    now,
    main,               \* the main thread: its series, request and bars so far
    hst,                \* the file of each series, and what MqlHst keeps
    is_init_mql_history,
    is_once_mql_history,
    call,               \* the call of on_candle that is catching up
    history,            \* the bars each file got from the download
    caught              \* how the catch-up of each series went

botVars == <<now, main, hst, is_init_mql_history, is_once_mql_history, call,
             history, caught>>

Waiting == [at |-> "waiting", series |-> None, current_date |-> 0,
            stop_date |-> 0, bars |-> <<>>]

EmptyFile == [bars |-> <<>>, offset |-> 0, last_timestamp |-> 0,
              last_candle |-> Blank]

NoCall == [series |-> None, candle |-> Blank, closed |-> FALSE, ready |-> FALSE,
           date |-> 0]

BotInit ==
    /\ Init
    /\ now = 1
    /\ main = Waiting
    /\ hst = [s \in Series |-> EmptyFile]
    /\ is_init_mql_history = [s \in Series |-> FALSE]
    /\ is_once_mql_history = [s \in Series |-> FALSE]
    /\ call = NoCall
    /\ history = [s \in Series |-> <<>>]
    /\ caught = [s \in Series |-> "no"]

-----------------------------------------------------------------------------
(***************************************************************************)
(* MqlHst: the bars of the file up to offset are finished, the one behind  *)
(* it is the current one.                                                  *)
(***************************************************************************)
\* A bar with the timestamp of the one before it spreads it.
Merged(h, c) ==
    IF h.last_timestamp # c.timestamp
    THEN c
    ELSE [h.last_candle EXCEPT !.high = IF c.high > @ THEN c.high ELSE @,
                               !.low = IF c.low < @ THEN c.low ELSE @,
                               !.close = c.close,
                               !.volume = c.volume]

\* update_candle_with_memory
Update(h, c) ==
    [h EXCEPT !.bars = Append(SubSeq(@, 1, h.offset),
                              [Merged(h, c) EXCEPT !.timestamp = c.timestamp]),
              !.last_timestamp = c.timestamp,
              !.last_candle = Merged(h, c)]

\* add_new_candle_with_memory
AddNew(h, c) == [Update(h, c) EXCEPT !.offset = @ + 1]

-----------------------------------------------------------------------------
(***************************************************************************)
(* on_candle                                                               *)
(***************************************************************************)
\* Mutant: the last bar of the file is not completed before the next one.
FirstMissedAfter(s) == hst[s].last_timestamp + s.period

\* The bars the stream has from the last one of the file on are added, that one
\* included.
FirstMissed(s) == hst[s].last_timestamp

\* Mutant: the current bar itself is left to the next call.
CaughtUpWithout(h, c, closed) == h

CaughtUp(h, c, closed) == IF closed THEN AddNew(Update(h, c), c) ELSE Update(h, c)

\* Mutant: the two ways to write a bar are swapped.
WrittenSwapped(h, c, closed) == IF closed THEN Update(h, c) ELSE AddNew(h, c)

Written(h, c, closed) == IF closed THEN AddNew(h, c) ELSE Update(h, c)

\* The flag of the connection is the one at the start of the call: the thread of
\* the stream changes it after the call.
StartCatchUp(s, c, closed) ==
    /\ call' = [series |-> s, candle |-> c, closed |-> closed,
                ready |-> is_websocket_init, date |-> FirstMissed(s)]
    /\ caught' = [caught EXCEPT ![s] = IF c.timestamp < hst[s].last_timestamp
                                       THEN "behind" ELSE "clean"]
    /\ UNCHANGED hst

WriteBar(s, c, closed) ==
    /\ hst' = [hst EXCEPT ![s] = Written(@, c, closed)]
    /\ UNCHANGED <<call, caught>>

\* Mutant: the file is written as soon as it has a bar.
OnCandleEarly(s, c, closed) ==
    IF hst[s].last_timestamp = 0
    THEN UNCHANGED <<hst, call, caught>>
    ELSE IF ~is_once_mql_history[s]
    THEN StartCatchUp(s, c, closed)
    ELSE WriteBar(s, c, closed)

OnCandleOf(s, c, closed) ==
    IF ~is_init_mql_history[s] \/ hst[s].last_timestamp = 0
    THEN UNCHANGED <<hst, call, caught>>
    ELSE IF ~is_once_mql_history[s]
    THEN StartCatchUp(s, c, closed)
    ELSE WriteBar(s, c, closed)

\* get_timestamp_candle; before the first message of a connection is handled
\* the stream returns nothing.
GetTimestampCandle(s, t) ==
    IF call.ready /\ t \in DOMAIN candles[s] THEN candles[s][t] ELSE Blank

\* The catch-up adds the bars before the current one, as the stream has them.
AddMissed ==
    /\ call # NoCall /\ call.date < call.candle.timestamp
    /\ LET s == call.series
           c == GetTimestampCandle(s, call.date)
       IN  /\ hst' = [hst EXCEPT ![s] = AddNew(@, c)]
           /\ caught' = [caught EXCEPT ![s] = IF c = Blank THEN "blank" ELSE @]
    /\ call' = [call EXCEPT !.date = @ + call.series.period]
    /\ UNCHANGED <<vars, now, main, is_init_mql_history, is_once_mql_history, history>>

CatchUpEnds ==
    /\ call # NoCall /\ call.date >= call.candle.timestamp
    /\ hst' = [hst EXCEPT ![call.series] = CaughtUp(@, call.candle, call.closed)]
    /\ is_once_mql_history' = [is_once_mql_history EXCEPT ![call.series] = TRUE]
    /\ call' = NoCall
    /\ UNCHANGED <<vars, now, main, is_init_mql_history, history, caught>>

\* A call of the stream's on_candle is a call of the bot's.
CandleStep ==
    /\ call = NoCall
    /\ CloseBar \/ OpenBar \/ UpdateBar
    /\ OnCandleOf(Current, told'[Current].candle, told'[Current].closed)
    /\ UNCHANGED <<now, main, is_init_mql_history, is_once_mql_history, history>>

-----------------------------------------------------------------------------
(***************************************************************************)
(* The main thread: get_historical_data and the first bars of the file.    *)
(* wait() ends with a connection, an error or a timeout, so the download   *)
(* may start before any quote; a failed one is only reported.              *)
(***************************************************************************)
Listed(s) == \E i \in DOMAIN Settings[s.symbol] : Settings[s.symbol][i] = s.period

\* The broker's quotes of a bar, and the bar it makes of them
SentIn(s, b) == {i \in DOMAIN quotes[s.symbol] :
                    BarOf(quotes[s.symbol][i].time, s.period) = b}

BrokerBar(s, b) ==
    LET I == SentIn(s, b)
        P == {quotes[s.symbol][i].price : i \in I}
    IN  [timestamp |-> b,
         open |-> quotes[s.symbol][Min(I)].price, high |-> Max(P),
         low |-> Min(P), close |-> quotes[s.symbol][Max(I)].price, volume |-> 0]

BarsSentBy(s, from, to) ==
    {b \in (from + 1) .. to : b % s.period = 0 /\ SentIn(s, b) # {}}

\* The dates of a set in order
Ordered(B) ==
    LET I == 1 .. Cardinality(B)
    IN  {o \in [I -> B] : \A i, j \in I : i < j => o[i] < o[j]}

\* parse_history of one answer, with or without the current bar: it leaves out what
\* it cannot read, bars or all of them, and reports no error.
Answer(s, from, whole) ==
    LET B == {b \in BarsSentBy(s, from, from + Span) : whole \/ b < now}
    IN  {[i \in DOMAIN o |-> BrokerBar(s, o[i])] :
            o \in UNION {Ordered(read) : read \in SUBSET B}}

\* No quote is older than the clock of the model, which starts at 0.
StartDownload(s) ==
    /\ main.at = "waiting"
    /\ Listed(s) /\ ~is_init_mql_history[s]
    /\ LET stop  == now - (now % Minute)
           start == IF stop > History * s.period THEN stop - History * s.period ELSE 0
       IN  main' = [at |-> "fetching", series |-> s, bars |-> <<>>,
                    current_date |-> start - (start % Span), stop_date |-> stop]
    /\ UNCHANGED <<vars, now, hst, is_init_mql_history, is_once_mql_history, call,
                   history, caught>>

\* One request; the loop ends with a bar that reaches stop_date.  There are none
\* for times the model does not reach.
Fetch ==
    /\ main.at = "fetching"
    /\ main.current_date =< MaxTime
    /\ \E whole \in Unfinished :
       \E answer \in Answer(main.series, main.current_date, whole) :
          LET bars  == main.bars \o answer
              ended == bars # <<>> /\ Last(bars).timestamp >= main.stop_date
          IN  main' = [main EXCEPT
                          !.at = IF ended THEN "fetched" ELSE "fetching",
                          !.bars = bars,
                          !.current_date = IF ended THEN @ ELSE @ + Step]
    /\ UNCHANGED <<vars, now, hst, is_init_mql_history, is_once_mql_history, call,
                   history, caught>>

FetchFails ==
    /\ main.at = "fetching"
    /\ main' = [main EXCEPT !.at = "fetched"]
    /\ UNCHANGED <<vars, now, hst, is_init_mql_history, is_once_mql_history, call,
                   history, caught>>

\* The bars are stored one by one; all but the last one are finished.
StoreBar ==
    /\ main.at = "fetched" /\ main.bars # <<>>
    /\ LET c == Head(main.bars)
           h == hst[main.series]
       IN  /\ hst' = [hst EXCEPT ![main.series] =
                          IF Len(main.bars) > 1 THEN AddNew(h, c) ELSE Update(h, c)]
           /\ history' = [history EXCEPT ![main.series] = Append(@, c)]
    /\ main' = [main EXCEPT !.bars = Tail(@)]
    /\ UNCHANGED <<vars, now, is_init_mql_history, is_once_mql_history, call, caught>>

SetInit ==
    /\ main.at = "fetched" /\ main.bars = <<>>
    /\ is_init_mql_history' = [is_init_mql_history EXCEPT ![main.series] = TRUE]
    /\ main' = Waiting
    /\ UNCHANGED <<vars, now, hst, is_once_mql_history, call, history, caught>>

-----------------------------------------------------------------------------
\* Quotes carry the current time.
QuoteNow(s) ==
    /\ SendQuote(s)
    /\ Last(quotes'[s]).time = now
    /\ UNCHANGED botVars

Tick ==
    /\ now < MaxTime
    /\ now' = now + 1
    /\ UNCHANGED <<vars, main, hst, is_init_mql_history, is_once_mql_history, call,
                   history, caught>>

StreamStep ==
    /\ call = NoCall
    /\ ReceiveOther \/ ReceiveQuote \/ Open \/ Close
    /\ UNCHANGED botVars

BotNext ==
    \/ CandleStep \/ AddMissed \/ CatchUpEnds \/ StreamStep
    \/ \E s \in Series : StartDownload(s)
    \/ Fetch \/ FetchFails \/ StoreBar \/ SetInit
    \/ \E s \in Symbol : QuoteNow(s)
    \/ Tick

BotSpec == BotInit /\ [][BotNext]_<<vars, botVars>>

-----------------------------------------------------------------------------
FileBar == Candle \cup {Blank}

\* The files hold bars, at most one of them behind the finished ones, and know
\* the timestamp of the last one; only a loaded history is caught up with.
BotTypeOK ==
    /\ now \in Time
    /\ main.at \in {"waiting", "fetching", "fetched"}
    /\ \A s \in Series :
          /\ hst[s].offset \in {Len(hst[s].bars), Len(hst[s].bars) - 1}
          /\ \A i \in DOMAIN hst[s].bars : hst[s].bars[i] \in FileBar
          /\ hst[s].bars # <<>> => hst[s].last_timestamp = Last(hst[s].bars).timestamp
          /\ caught[s] # "no" <=> is_once_mql_history[s] \/ call.series = s
          /\ caught[s] # "no" => is_init_mql_history[s]

\* Bar f of a file holds all prices of bar c.
Covers(f, c) ==
    f.timestamp = c.timestamp /\ f.low =< c.low /\ f.high >= c.high

Fits(s) == caught[s] \in {"no", "clean"}

\* As long as the catch-up found the stream at or after the end of the download
\* with no bar missing, a file holds its bars in order and each once.
FileInOrder ==
    \A s \in Series : Fits(s) =>
        \A i, j \in DOMAIN hst[s].bars :
            i < j => hst[s].bars[i].timestamp < hst[s].bars[j].timestamp

\* Under the same condition what was downloaded stays in the file: the bar that
\* was the current one keeps its opening price and its spread when the stream,
\* which saw only a part of it, goes on with it.
FileKeepsHistory ==
    \A s \in Series : Fits(s) =>
        \A i \in DOMAIN history[s] : \E j \in DOMAIN hst[s].bars :
            /\ Covers(hst[s].bars[j], history[s][i])
            /\ hst[s].bars[j].open = history[s][i].open

\* After the catch-up, fit or not, the last bar of the file is the one on_candle
\* told last: no call is lost between the two threads.
FileFollowsStream ==
    \A s \in Series : is_once_mql_history[s] =>
        /\ Covers(Last(hst[s].bars), told[s].candle)
        /\ Last(hst[s].bars).close = told[s].candle.close

-----------------------------------------------------------------------------
(***************************************************************************)
(* What the comments of the code say and the code does not do              *)
(***************************************************************************)
\* "We add the missed historical data, not including the current bar" (the
\* catch-up in on_candle): what is added is a bar of the series.
MissedBarsReal ==
    \A s \in Series : \A i \in DOMAIN hst[s].bars : hst[s].bars[i] # Blank
=============================================================================
