------------------------------ MODULE Download ------------------------------
(***************************************************************************)
(* The start of the bot's main thread up to the history it downloads       *)
(* (main.cpp, init_candles_stream_mt4 of bot/binomo-bot.hpp), and the HTTP *)
(* client it downloads with (get_historical_data and check_request_limit   *)
(* of binomo-cpp-api-http.hpp).  Time is counted in minutes, and a bar     *)
(* carries the time of its end.  BotHistory has what becomes of the bars.  *)
(*                                                                         *)
(* Atomicity: one thread makes the requests; a minute may pass before each *)
(* step, between the check of the limit and the request too.               *)
(***************************************************************************)
EXTENDS Settings, FiniteSetsExt

CONSTANTS
    Commands,      \* command lines
    Period,        \* the periods the bot takes, in minutes
    ShortPeriod,   \* those of 1 and of 5 minutes
    Day,           \* minutes of a day
    Span,          \* the days one answer covers, for each period
    Limit,         \* request_limit
    FirstMinute,
    Closings,      \* when the market may close, in minutes
    Misread,       \* the positions of the bars read, if not all of an answer are
    Uint32,        \* how many numbers of candles times seconds there are,
    Uint64,        \* and how many timestamps
    \* Bounds of the model
    MaxMinute,
    MaxSlow,       \* minutes that pass while no request waits for one
    MaxLost,       \* bars of a series that may be lost before more are
    LastStart      \* the last minute from which there are enough for a series

ASSUME CommandsAssumption == Commands \subseteq Seq([dashes : Nat, text : STRING])

ASSUME DownloadAssumption ==
    /\ ShortPeriod \subseteq Period /\ Period \subseteq Nat \ {0}
    /\ Day \in Nat \ {0}
    /\ Span \in [Period -> Nat \ {0}]
    /\ Limit \in Nat /\ Limit >= 2
    /\ {MaxMinute, MaxSlow, MaxLost, LastStart} \subseteq Nat /\ FirstMinute \in 1 .. MaxMinute
    /\ Closings \subseteq Nat
    /\ {Uint32, Uint64} \subseteq Nat \ {0}

ASSUME MisreadAssumption ==
    \A r \in Misread : /\ r \in Seq(Nat \ {0})
                       /\ \A i, j \in DOMAIN r : i < j => r[i] < r[j]

\* A list of a file is an array, and the code keeps the number of candles as an
\* unsigned one.
ASSUME ListAssumption ==
    \A f \in DOMAIN Files : ~ SettingsError(Files[f]) =>
        LET s == Settings(Files[f])
        IN  /\ s.candles \in Nat
            /\ Len(s.symbols) \in Nat /\ DOMAIN s.symbols = 1 .. Len(s.symbols)

VARIABLES
    args, settings, main,               \* the command line and the main thread
    minute,
    request_counter, request_timestamp, \* of check_request_limit
    series, start_date, current_date, stop_date, candles, err,
    lost,                               \* the bars that parse_history left out
    requests,                           \* how many were sent in this minute
    closing, whole,                     \* what the broker has to answer with
    slow

limitVars    == <<request_counter, request_timestamp>>
loopVars     == <<series, start_date, current_date, stop_date, candles, err, lost>>
brokerVars   == <<closing, whole>>
givenVars    == <<args, settings>>
downloadVars == <<givenVars, main, minute, limitVars, loopVars, requests, brokerVars, slow>>

DownloadInit ==
    /\ args \in Commands
    /\ settings = Settings(<<>>)
    /\ main = "start"
    /\ minute = FirstMinute
    /\ request_counter = 0 /\ request_timestamp = 0
    /\ series = 0 /\ start_date = 0 /\ current_date = 0 /\ stop_date = 0
    /\ candles = <<>> /\ err = FALSE /\ lost = {}
    /\ requests = 0
    /\ closing \in Closings /\ whole \in BOOLEAN
    /\ slow = 0

Goes(from, to) == main = from /\ main' = to

-----------------------------------------------------------------------------
(* main and init_candles_stream_mt4                                        *)

\* A name the first table lacks is only reported, and goes on to the second.
SymbolsFail(symbols) ==
    \E i \in DOMAIN symbols :
        symbols[i].period \notin Period \/ symbols[i].symbol \notin Known

Starts ==
    /\ main = "start"
    /\ LET doc == open_json_file(FileName(args))
       IN  /\ settings' = IF SettingsError(doc) THEN settings ELSE Settings(doc)
           /\ main' = IF SettingsError(doc) \/ SymbolsFail(settings'.symbols)
                      THEN "failed" ELSE "series"
    /\ UNCHANGED <<args, minute, limitVars, loopVars, requests, brokerVars, slow>>

\* get_historical_data: how far an answer reaches, and time_period
Reach(period)      == Day * Span[period]
TimePeriod(period) == IF period \in ShortPeriod THEN Reach(period) ELSE 0

\* The first date of an answer
Aligned(date, period) ==
    LET day == date - (date % Day) IN day - (day % Reach(period))

Current == settings.symbols[series]

\* Unsigned: more history than there is time wraps into the far future.
NextSeries ==
    /\ Goes("series", "check")
    /\ series < Len(settings.symbols)
    /\ series' = series + 1
    /\ stop_date' = minute
    /\ LET s == settings.symbols[series + 1]
           h == (s.period * settings.candles) % Uint32
       IN  start_date' = Aligned((minute - h) % Uint64, s.period)
    /\ current_date' = start_date'
    /\ candles' = <<>> /\ err' = FALSE /\ lost' = {}
    /\ UNCHANGED <<givenVars, minute, limitVars, requests, brokerVars, slow>>

\* The pipe server starts; nothing looks at the variables of the download again.
Downloaded ==
    /\ Goes("series", "loop")
    /\ series = Len(settings.symbols)
    /\ series' = 0 /\ start_date' = 0 /\ current_date' = 0 /\ stop_date' = 0
    /\ candles' = <<>> /\ err' = FALSE /\ lost' = {}
    /\ request_counter' = 0 /\ request_timestamp' = 0
    /\ minute' = 0 /\ requests' = 0 /\ slow' = 0
    /\ UNCHANGED <<givenVars, brokerVars>>

-----------------------------------------------------------------------------
(* check_request_limit                                                     *)

CheckFrame == UNCHANGED <<givenVars, minute, loopVars, requests, brokerVars, slow>>

FirstRequest ==
    /\ Goes("check", "request")
    /\ request_timestamp = 0
    /\ request_counter' = request_counter + 1
    /\ request_timestamp' = minute
    /\ CheckFrame

\* Mutant: the counter is compared before the request is added to it.
SameMinuteLate ==
    /\ Goes("check", IF request_counter > Limit THEN "wait" ELSE "request")
    /\ request_timestamp = minute
    /\ request_counter' = request_counter + 1
    /\ UNCHANGED request_timestamp
    /\ CheckFrame

SameMinute ==
    /\ Goes("check", IF request_counter + 1 >= Limit THEN "wait" ELSE "request")
    /\ request_timestamp = minute
    /\ request_counter' = request_counter + 1
    /\ UNCHANGED request_timestamp
    /\ CheckFrame

\* The counter goes on in a new minute.
NewMinute ==
    /\ Goes("check", "request")
    /\ request_timestamp \notin {0, minute}
    /\ request_counter' = request_counter + 1
    /\ request_timestamp' = minute
    /\ CheckFrame

\* Only a request that has waited sets it back, and does not count itself.
WaitOver ==
    /\ Goes("wait", "request")
    /\ request_timestamp # minute
    /\ request_counter' = 0
    /\ request_timestamp' = minute
    /\ CheckFrame

-----------------------------------------------------------------------------
(* The broker's answer and the loop of get_historical_data                 *)

\* The bars of an answer, in order: a market that is open quotes in every one, up
\* to the one that is not over, which an answer may lack.
Answer(from, period) ==
    LET last  == Min({from + Reach(period), closing + period - 1,
                      IF whole THEN minute + period ELSE minute}) \div period
        first == from \div period
    IN  [i \in 1 .. Max({0, last - first}) |-> (first + i) * period]

\* parse_history: all bars, or, without an error, those before one that cannot be
\* read, those but the ones whose date cannot be converted, or none of an answer
\* that is no JSON or does not say success.
Readings(n) ==
    {[i \in 1 .. n |-> i]} \cup
    {r \in Misread : Cardinality(lost) < MaxLost /\ \A i \in DOMAIN r : r[i] <= n}

\* Mutant: the loop ends at a bar before the last one.
EndsEarly(bars) == bars # <<>> /\ bars[Len(bars)] + 1 >= stop_date

\* Mutant: the loop waits for a bar after the last one.
EndsBeyond(bars) == bars # <<>> /\ bars[Len(bars)] > stop_date

Ends(bars) == bars # <<>> /\ bars[Len(bars)] >= stop_date

\* Dates after every bar are answered alike and are not told apart.
Request ==
    /\ main = "request"
    /\ LET answer == Answer(current_date, Current.period)
       IN  \E r \in Readings(Len(answer)) :
              /\ candles' = candles \o [i \in DOMAIN r |-> answer[r[i]]]
              /\ lost' = lost \cup
                     {answer[k] : k \in DOMAIN answer \ {r[i] : i \in DOMAIN r}}
    /\ main' = IF Ends(candles') THEN "series" ELSE "check"
    /\ current_date' =
           IF Ends(candles') \/ current_date > MaxMinute + Current.period
           THEN current_date
           ELSE current_date + TimePeriod(Current.period)
    /\ requests' = requests + 1
    /\ UNCHANGED <<givenVars, minute, limitVars, series, start_date, stop_date, err, brokerVars,
                   slow>>

\* The request fails; the bars so far are kept.
RequestFails ==
    /\ Goes("request", "series")
    /\ err' = TRUE
    /\ requests' = requests + 1
    /\ UNCHANGED <<givenVars, minute, limitVars, series, start_date, current_date, stop_date,
                   candles, lost, brokerVars, slow>>

Tick ==
    /\ main \in {"series", "check", "wait", "request"}
    /\ minute < MaxMinute
    /\ IF main = "wait" /\ request_timestamp = minute
       THEN UNCHANGED slow
       ELSE slow < MaxSlow /\ slow' = slow + 1
    /\ minute' = minute + 1
    /\ requests' = 0
    /\ UNCHANGED <<givenVars, main, limitVars, loopVars, brokerVars>>

DownloadStep ==
    \/ Starts \/ NextSeries \/ Downloaded
    \/ FirstRequest \/ SameMinute \/ NewMinute \/ WaitOver
    \/ Request

-----------------------------------------------------------------------------
(* Properties                                                              *)

\* In no minute does the client send more requests than the limit, although a
\* new minute does not set the counter back, the request that waited does not
\* count itself, and the one just checked may be sent a minute later
\* (check_request_limit).
RequestsWithinLimit == requests <= Limit

\* A download that ends without an error has every bar the broker had of the
\* asked time, in order and each once, but for those that parse_history could not
\* read, which no error tells of: no bar falls between two requests.  With the
\* long periods, whose requests are all for the same date, this is so only if the
\* answer holds the bar that is not over and none was misread
\* (get_historical_data, parse_history).
HistoryComplete ==
    main = "series" /\ series > 0 /\ ~ err
    /\ (Current.period \in ShortPeriod \/ (whole /\ lost = {})) =>
        /\ \A i, j \in DOMAIN candles : i < j => candles[i] < candles[j]
        /\ {b \in start_date + 1 .. stop_date :
               b % Current.period = 0 /\ b - Current.period < closing}
           \subseteq {candles[i] : i \in DOMAIN candles} \cup lost

\* What ends the loop, if the model has minutes enough: the market is open, the answers hold the bar that is not
\* over, or do not have to, the first date did not wrap, and with the long
\* periods, whose requests are all for the same date, one answer reaches as far
\* as was asked.
AnswersReach ==
    /\ stop_date <= LastStart
    /\ closing > MaxMinute
    /\ start_date <= stop_date
    /\ IF Current.period \in ShortPeriod
       THEN whole \/ Current.period = 1
       ELSE stop_date <= start_date + Reach(Current.period)

\* The bar that was to end the loop was misread.
EndMissed == \E b \in lost : b >= stop_date

\* The download of a series then ends, however slow the requests are, whether or
\* not they have to wait, and whatever of the earlier bars is misread: only the
\* loss of the bar that was to end it makes it go on for dates that no bar has
\* (get_historical_data, check_request_limit, parse_history).
DownloadEnds ==
    main \in {"check", "wait", "request"} /\ AnswersReach ~> main = "series" \/ EndMissed
=============================================================================
