# A verification of the Binomo API and its bot

TLA+ models of `bin-cpp-1.3`: the C++ library that opens deals at the broker
Binomo through a browser extension (`src/include/binomo-cpp-api.hpp`), its
stream of quotes, the extension itself, and the bot that joins all of it to
MetaTrader 4.  The modules are checked with TLC on small instances; what matters
most is also proved with TLAPS for every value of the constants.

Abbreviations for files: **API** `src/include/binomo-cpp-api.hpp`, **WS**
`src/include/binomo-cpp-api-websocket.hpp`, **HTTP**
`src/include/binomo-cpp-api-http.hpp`, **BOT** `src/include/bot/binomo-bot.hpp`,
**SET** `src/include/bot/binomo-bot-settings.hpp`, **HST**
`src/include/tools/binomo-cpp-api-mql-hst.hpp`, **EXT**
`src/extensions/chrome/binomo-bridge/content.js`, **COM**
`src/include/binomo-cpp-api-common.hpp`.

## 1. The system

```
 MT4 expert --named pipe-- BinomoBot -- BinomoApi --ws://localhost-- extension --wss-- broker (deals)
     |                         |
  .hst files ---- MqlHst ------+------- BinomoApiPriceStream ------------wss---------- broker (quotes)
                               +------- BinomoApiHttp -------------------https-------- broker (history)
```

| Component | State it keeps | Operations | Talks to |
|---|---|---|---|
| Deal tracker of `BinomoApi` (API 170-675) | `array_bets`, `ref_to_bet_id`, `uuid_to_bet_id`, `broker_bet_id_to_bet_id`, `ref_counter`, `bets_id_counter`, `bets_last_timestamp`, `is_connected`, one thread per bet | `async_open_bo` and its thread, `parse_phx_reply`, `parse_deal_created`, `parse_close_deal_batch`, `parse_socket`, ping thread, `clear_bets_array` | the extension (messages), the caller (callback) |
| Server lifecycle (API 677-911, 1011-1025) | `server`, `server_future`, `request_future` and its mutex, shutdown flags, `last_stop_timestamp` | `init_main_thread`, `wait`, `~BinomoApi` | all threads of the tracker |
| Account (API 400-420, 931-990) | `account_config`: balances, type, tokens | `parse_balance`, `get_balance`, `change_balance` messages | extension |
| Clock offset (API 115-145, WS 105-139) | ring of 256 offsets, their sum, the average | `update_offset_timestamp`, `get_server_timestamp` | everything that needs the broker's time |
| Expiration (API 1150-1210) | none | `get_classic_bo_closing_timestamp` and relatives | `open_bo`, the bot |
| Price stream (WS) | `candles`, `list_subscriptions`, connection flags, volume mode | `parser`, `add_candles_stream`, getters, `start`, destructor | broker's quotes, `on_candle`, `on_tick` |
| HTTP client (HTTP) | request counter and its minute | `check_request_limit`, `get_historical_data`, `parse_history` | broker's history |
| Extension (EXT, `popup.js`) | `is_api_socket`, `is_socket`, the two sockets, the port | `connect_api`, `connect_broker`, port change | library, broker |
| Settings (SET, COM 420-477) | the plain fields of each section | the parsers of the sections, `process_arguments` | the bot |
| Symbol names (COM 236-366, 508-525) | constant tables | `normalize_symbol_name`, look-ups | all of the above |
| Bot (BOT) | API, stream, pipe, `is_last_connected`, one history per symbol with `is_init`/`is_once` flags | `on_candle`, history load, pipe handlers, `update_connection`, `update_ping`, `open_bo` | all of the above |
| MT4 history file (HST) | file offset, `last_timestamp`, `last_candle` | `update_candle_with_memory`, `add_new_candle_with_memory` | bot |
| MT4 expert (`src/MQL4/Experts`) | its copy of connection state, pipe buffer | `update`, `open_bo` | bot's pipe |

What is hard, by component, and what makes it correct:

* **Deal tracker.**  Every bet has a thread of its own; the WebSocket thread and
  the ping thread share four maps with it under separate mutexes, and each
  handler takes several of them in turn.  The broker's session may be lost and
  replaced at any time, which resets the request numbers while bets are open.
  It is correct when a message reaches the bet it is about, a bet's results are
  the ones the prices give, the callback hears a legal sequence of statuses, a
  finished bet leaves nothing behind, and every thread ends when it has to.
* **Server lifecycle.**  Destruction races with the creation of the server, with
  `wait()` that stops it, and with handlers that start threads; the destructor
  waits for threads whose callbacks may want its mutex.  It is correct when
  `wait()` and the destructor return and nothing runs on in what is destroyed.
* **Extension.**  Every broker socket's handlers share two flags and one variable,
  and close events arrive late.  It is correct when there is one connection each
  way and the bridge comes up again after any sequence of losses.
* **Price stream.**  Quotes, lost quotes and reconnects arrive in the stream's
  thread; each bar must be closed once, in order, with the prices of its quotes.
* **History and bot.**  Bars of the stream and of the download overlap: the file
  must hold each bar once, in order.  The download must end and must not exceed
  the broker's limit of requests.
* **Pipe.**  The state of the connection and the news about it are two steps;
  every expert must hear the last word.
* **Settings and orders.**  Defaults, values of a wrong type and names cut short
  decide which account pays for which bet.

## 2. Modules

| # | Module | Models |
|---|---|---|
| 1 | `BetLifecycle` | what the callback of one bet is promised |
| 2 | `Deals` (implements 1) | the deal tracker, its threads, the extension as environment |
| 3 | `DealsTypes_proofs`, `Deals_proofs`, `DealsFollow_proofs` | theorems about 2 |
| 4 | `BarFeed` | what `on_candle` is promised |
| 5 | `Candles` (implements 4), `StreamClient` (implements `Candles`) | price stream: parser, bars, subscriptions, reconnects; its thread, `wait()` and destructor |
| 6 | `Candles_proofs`, `CandlesFollow_proofs` | theorems about 5 |
| 7 | `BotHistory` (extends 5), `BotHistory_proofs` (extends `Candles_proofs`) | the bot's `on_candle`, the download's bars, the `.hst` file; theorems about it |
| 8 | `ApiWire` | the connections between the extension and the server |
| 9 | `Extension`, `Server` (extend 8) | the content script; the server, `wait()` and the destructor of `BinomoApi` |
| 10 | `Bridge` (composes both) | extension and server with the user, the network and the broker |
| 11 | `Bridge_proofs` | theorems about 10 |
| 12 | `Symbols`, `Settings` | names and tables; the settings file and the command line |
| 13 | `Download` (extends 12) | the bot's start, the request limit, the loop of the history |
| 14 | `Bot` (extends 13) | the pipe, news of the connection, orders, hot keys |
| 15 | `Bot_proofs` | theorems about 13 and 14 |

Where modules meet: 10 is the bridge that `Deals` has for its environment, in
full.  `Deals` takes a simpler one, with one broker socket that opens, closes and
forwards; this is an assumption and not a refinement, for after a cut of the
connection to the library the script of 10 may have two live broker sockets, and
each message then arrives twice.  `Deals` is what `open_bo` of 14 starts; 7 and 13 are
the two halves of `init_candles_stream_mt4`, the bars and the requests, which
share nothing but the list of bars an answer adds.

## 3. The deal tracker: `Deals`, `BetLifecycle`

### State and actions

| Variable | Code |
|---|---|
| `pc`, `ref`, `bet_id`, `user_bet`, `bet`, `last_bet_status` | a call of `async_open_bo` and its thread: where it is, `current_ref`, `api_bet_id`, its copies of the bet |
| `reported` | the statuses given to the caller's callback |
| `array_bets`, `ref_to_bet_id`, `uuid_to_bet_id`, `broker_bet_id_to_bet_id` | the maps of the same names, `None` for a missing entry |
| `ref_counter`, `bets_id_counter` | the two counters |
| `since` | time since `bets_last_timestamp`, saturated at `bets_delay` |
| `is_connected`, `current_connection`, `is_shutdown` | the flags; `is_shutdown` stands for the two shutdown flags the destructor raises together |
| `handler` | the WebSocket thread between two of the critical sections of one message |
| `ping` | the ping thread between its look at `is_connected` and its request |
| `inbox`, `requests`, `broker_up`, `deal`, `end_rate` | messages and requests on their way, the extension's socket to the broker, and what the broker did |
| `now`, `used` | time, and how much of each bound is used |

One action is one critical section.  The caller: `CheckConnected`,
then `DrawNumber` and `TakeBetId` (the two counters of `TakeNumbers`).  The thread: `DelayOver`/`DelayStopped`, `Stamp` (writes
`bets_last_timestamp`, stores the bet), `MapRef`, `SendRequest`, then the poll
loop `PollRound`, `ReadSame`, `ReadChanged`, and the cleanup `EraseBroker`,
`EraseRef`, `EraseBet`.  The WebSocket thread: `ReceiveReply`, `StoreUuid`,
`MarkRefused` (`parse_phx_reply`), `ReceiveCreated`, `MapBrokerId`, `MarkCreated`
(`parse_deal_created`), `ReceiveClose` (`parse_close_deal_batch`), `ReceiveSocket`,
`SendJoin`, `SendFirstPing` (`parse_socket`), `ReceiveOther`.  The ping thread:
`CheckPing`, `SendPing`.  The owner: `ClearBetsArray`, `ShutDown`.  The
environment: the socket of the library opens and closes, the extension's socket
to the broker opens, is lost or cannot be opened, the broker accepts or refuses
a request, closes a market, and time passes.

Abstractions: a market is a symbol with a closing time; a price is a small
number; a deal's uuid and broker id are named after the task whose request
opened it; `convert_iso` is a choice of `IsoResults`.  `deal_created` overwrites
the closing time of the bet (API 536): `Reclosed` says which market a bet has then,
and may be any function in the proofs; the instances take the broker's
(`SameSymbol`).  Handlers look at no shutdown flag, so a message is handled during
the destructor as at any other time.  Balance messages and quotes
of opinion are `"other"` messages: like every message they make `is_connected`
true, which matters.  A good answer to `phx_join` or a ping has no uuid and
changes nothing.

### What the runs show

| Run | Question | Instance |
|---|---|---|
| `session` | every thread ends after the destructor raised its flags; a bet with a final status leaves its poll loop having told its caller that status, or `CHECK_ERROR` more than `Grace` after the closing time | 2 bets, one session, destructor at any time |
| `reconnect` | no request number is orphaned, deals are followed under the bet id of their own call, callbacks see a legal sequence (`Deals` implements `BetLifecycle`) | 2 bets, two broker sessions, one lost connection of either kind |
| `clear` | types; no bet in `array_bets` without a thread | 2 bets, one `clear_bets_array`, destructor |
| `results` | WIN and LOSS are what the prices say | 1 bet, 2 markets, BUY and SELL, prices below, at and above, refusals, unreadable timestamps |
| `refusals` (violation) | only a refused deal is marked refused | 1 bet, refused pings |
| `wait` (violation) | the poll loop ends | 1 bet, one lost connection |

Bounds.  Two bets are enough for every conflict over a map entry: an entry has
one owner before and one after.  `MaxRef` leaves room for the join, the ping and
the deals of two sessions; a step that would go beyond it is not taken, which
only cuts behaviours off after the interesting ones.  `MaxOpens` = 2 is what
makes request numbers start again under a waiting bet, `MaxDrops` = 1 loses the
messages in flight, `MaxClears` = 1 empties `array_bets` once under its threads.
`Horizon` lets every market close and a minute (`Grace`) pass.  Deadlock is not
checked in these runs: a program whose bets are over and whose bounds are used
up has stopped.  Symmetry is used in the safety runs only; the tasks are
interchangeable.

Fairness (`FairSpec`): each bet's thread and the WebSocket thread are weakly fair,
for they wait for nothing but short critical sections and sleeps; the broker
answers and closes its markets; time passes.  Callers, the owner, the network
and the ping thread owe nothing.  The run `session` assumes less (`ThreadSpec`):
only the bets' threads run.

### What the properties say, and what they do not

`FinalStatusReported` is what the code does and not what a caller may wish: the
poll loop looks at the stop time before it reports (API 358-362), so a `WIN` that it
sees later than a minute after the closing time is told as `CHECK_ERROR`.

`DealsFollowed` says that a deal is followed under the `api_bet_id` of the call whose
request opened it, and, until `clear_bets_array` restarts these ids (API 925), that
no other call has that id.  After a clear it says no more than the id: the bet
under it may be another call's.  It has a condition: no other bet drew the same request number.
Without it the property is false, because `parse_socket` sets `ref_counter` back
while bets of the old session are in `ref_to_bet_id`; the two findings
about request numbers (`refusals`) and the hazard list say where that bites.
`ResultsFollowPrices` says nothing about a bet settled before it had an opening
price beyond that its market has closed.  `WaitEnds` is violated, so a lost
message is paid for with a thread that runs until the object is destroyed; what
does hold is `FinalStatusReported` and `ShutDownEndsThreads`.

### What is proved

For any number of calls, markets, prices and any bounds:

* `TypeCorrect` : `Spec => []TypeOK`.  `TypeOK` is inductive.  Besides
  the types it says what a thread has at each point (`ThreadTypes`), what the
  WebSocket thread holds between two sections (`HandlerTypes`) and that requests
  under way belong to calls that have numbers (`ChannelTypes`); without these
  the steps that use `bet_id[t]` or `handler.bet_id` as a key leave the types.
* `RefsOwned` : `Spec => []RefsHaveThreads`, and `BetsOwned` :
  `Spec => []BetsHaveThreads`.  Both are inductive together with `TypeOK`; the
  step that carries the argument is that the cleanup erases an entry before the
  thread stops counting as its owner, and that handlers change bets but never
  add one (`UpdateBet`).
* `ResultsCorrect` : `Spec => []ResultsFollowPrices`, by the invariant
  `ResultsInv`: a message that closes a market carries the market's final price
  and is sent only after it closed (`ClosesFollowMarkets`), and the bets that
  calls carry but have not stored have no result yet (`CallsHaveNoResult`).
* `DealsFollowedAlways` : `Spec => []DealsFollowed` (in `DealsFollow_proofs`), by
  `TraceInv` together with `TypeOK` and `RefsHaveThreads`.  `TraceInv` follows a
  deal from the request that opened it to the bet that carries its id: the
  request and the reply have the caller's number (`RequestsTraced`,
  `MessagesTraced`), and whatever the handler holds between two sections, the two
  maps hold, or a bet carries, is traced to that caller (`HandlerTraced`,
  `IndexTraced`, `BetsTraced`), unless another call has the same number.
  `RefsHaveThreads` is needed where the handler looks the number up: what it
  finds belongs to a call that has that number.
* `ReportsFollowLifecycleAlways` : `Spec => ReportsFollowLifecycle`, under
  `MaxClears = 0`, by `ReportInv`: calls have bets of their own (`IdsDiffer`), the
  poll loop remembers what the callback heard last (`ToldByLoop`), and a bet whose
  deal the broker holds is not unknown again (`StatusGoesOn`).  The assumption is
  needed: `clear_bets_array` starts the numbers of the bets again (API 923), so a
  thread that polls a cleared bet may find the fresh bet of another call under
  its number, and its callback hears `UNKNOWN_STATE` once more.

The assumptions are the ones `Deals` names (`NoneAssumption`,
`MarketAssumption`, `RateAssumption`, `TimingAssumption`, `CounterAssumption`,
`BoundAssumption`, `NoBetAssumption`): counters are numbers, prices are
positive, absent values are not values.  Only model-checked: the two liveness
properties.

## 4. The price stream: `Candles`, `BarFeed`, `StreamClient`

### State and actions

| Variable | Code |
|---|---|
| `list_subscriptions` | the map of the same name: the periods of each symbol, in the order added |
| `candles` | the bars of each series (a symbol with a period) by timestamp; empty where the code has no entry yet |
| `is_open`, `is_websocket_init`, `volume_mode` | the members of the same names |
| `parser` | the quote that `parser` is at, the copy of the periods still to do, and whether it is between the two callbacks of a new bar |
| `subscribed`, `inbox`, `quotes` | the broker: symbols it sends, messages under way, all it ever quoted |
| `told`, `seen` | history: the last call of `on_candle` and the quotes handled, for each series |

`ReceiveOther` and `ReceiveQuote` take a message up to the copy of the periods
(WS 132-188).  For each period one of three things happens (WS 191-277): the bar
is there (`UpdateBar`), it is the first of its series (`OpenBar`), or the last
bar is closed and then a new one opened (`CloseBar`, `OpenBar`).  Each is one
action because each makes one call of `on_candle`, and the callback may read the
bars, add streams or subscribe.  `PeriodDone` goes on to the next period or ends
the message and sets `is_websocket_init`.  `Open` is `on_open` with the user's
`on_start` and one request for all symbols, `Close` is `on_close` or `on_error`;
they run in the parser's thread and never between its steps.
`AddCandlesStream`, `Subscribe` and `Unsubscribe` come from any thread at any
time.  `SendQuote` is the broker: a symbol's quotes carry times that never go
back, the network keeps their order, and what is quoted without a connection or
a subscription never arrives.

Abstractions: a message holds one quote (the code handles those of one message
one after another); a price counts units of the symbol's precision and a volume
halves of them, so that the `0.5` of the weighted mode is exact; quotes that the
code skips (unknown names, unreadable times) are messages without a symbol.
Names are the broker's own: `add_candles_stream` files a period under the name as
it is given, and a name that is not normalized would never be found.

`StreamClient` extends `Candles` with the thread of `start()` and the application.

| Variable | Code |
|---|---|
| `thread` | the thread of `client_future`: in its loop, with a client made but not started, connecting, connected, in `on_close` or `on_error`, told to stop, returned from `start()`, done |
| `is_error`, `is_close_connection` | the members of the same names |
| `app`, `answer` | the application: in `wait()` (WS 356-368), in the destructor (WS 323-342), and what `wait()` returned |

`Loop`, `Connect`, `Returned` and `MakeFails` are the loop (WS 773-867): a client is
made and started until the destructor raises its flag, and an exception of the
client's constructor is an error like a lost connection.  `OnOpen` and `OnClose`
are `Open` and `Close` of `Candles` in that thread; `RaiseError` is the last flag
of `on_close` and `on_error`, a step of its own because `wait()` reads the two
flags one after the other.  `OnMessage` runs the parser while the client is
connected; after `stop()` a message that is handled ends and no other begins.
`DestroyStops` has an effect on a client that was started only.

Not modelled: `init_array_candles`, `on_tick`, the clock offset, and callbacks that
throw (an exception of `on_start` would leave `is_open` set; no program here sets
`on_start`).

### What the runs show

| Run | Question | Instance |
|---|---|---|
| `candles` | bars are the summary of their quotes; `on_candle` and the getters agree while the getters return bars at all; `Candles` implements `BarFeed` | 1 symbol, periods 1 and 2, prices 1 and 2, 3 quotes over 3 times, one added period, one lost connection; or 1 quote and 3 of: `wait()`, `clear_error`, a failure, the destructor |
| `candles` | `StreamClient` implements `Candles`; the thread connects again, the destructor ends, `wait()` fails only on an error | the same |

Bounds.  Periods 1 and 2 give a quote that ends a bar of one series and not of
the other; three times reach a second bar of period 2, and a period may be
listed twice.  Three quotes fill one bar with an open, a spread and a close, or
make three bars of period 1.  `MaxLag` = 1 is enough because the parser is itself a
place between the broker and the bars; one drop loses what is there.  The run
checks one symbol: the code shares nothing between symbols but the parser, and
the theorems hold for any set of them and any number of quotes.  An application
that does more than start the stream (`app` is not `away`) sees one quote, which
is enough to be in the middle of when `stop()` comes, so that the two questions
do not multiply.  Deadlock is not checked: when the quotes are used up the system
stops.

Fairness (`FairLifeSpec`): the thread runs; an attempt to connect ends, one way or
the other; `wait()` and the destructor run once they are called.  A loss, a
failure, a quote or a call need not come.  `StreamReconnects` rests on the bound
of failures (`MaxTroubles`): a broker that never answers is never connected to.

`ImplementsCandles` is the refinement `FairLifeSpec => Spec`, so everything that is
said of `Candles` holds of the stream as it is run.  `StreamDestructorEnds` leaves
out the one case in which the code does not end: `stop()` between the making of a
client and its start, which finds nothing to stop; then the destructor waits for
the broker to close.  `WaitFailsOnError` is what the comment of `wait()` says, up
to the moment in which `on_close` has cleared one flag and not yet set the other.

`ToldIsLast` is about what the callback reads.  The getters return `CANDLE()` while
`is_websocket_init` is down (`GetCandle`), and the parser raises that flag at the
end of a message only (WS 281).  So the property says of every step that what the
getter of a series returns is the bar told last, or the blank one if the flag is
not up; `on_candle` runs within a step, and the flag may be either of its two
values, so the property has both.  Within the first message of each connection
the callback is told a bar and reads blanks.

`ReportsFollowFeed` is the refinement: `BarFeed` is about `told` alone, and every
step of `Candles` must be a legal call of `on_candle` or leave it as it is.
`BarsFollowQuotes` compares `candles` with a definition of a bar that shares
nothing with the parser (`QuotesIn`: the quotes after the end of the last span up
to this one's).

### What is proved

* `StreamTypeCorrect` : `Spec => []TypeOK`.  `TypeOK` is inductive together with
  `HasLast`: a series with bars has a last one, which the weighted volume and the
  closing of a bar look for.
* `ToldIsLastAlways` : `Spec => ToldIsLast`, and `StreamFollowsFeed` :
  `Spec => ReportsFollowFeed`, both from the invariant `OrderInv` (the first by its
  part `LastIsTold`: the last bar of a series is the one told last).  The danger is
  a quote of an older bar, for which the code has no guard: it would close the
  last bar again and open one behind it.  `InboxInOrder` and `ParserInOrder` say
  that quotes on their way are in the order of time and not after the broker's
  last; `ToldOnward` says that none of them belongs to a bar before the one told
  last, by the arithmetic of `BarOf` (`BarOfMonotone`, from `FloorMonotone`);
  `ToldClosed` and `AtNewBar` say when a series was told a closed bar.  So a bar
  that is found is the last one, and one that is not found is a later one.

The assumption that carries this is the broker's: in `SendQuote` the times of a
symbol never go back.  The code relies on it and does not check it.  The others
are named in `Candles`: periods and prices are positive, an absent value is not a
value.

* `BarsFollowQuotesAlways` : `Spec => []BarsFollowQuotes` (in
  `CandlesFollow_proofs`), by `OrderInv` and `SummaryInv`.  `SummaryInv` says what
  holds in the middle of a message: a series whose period is still before the
  parser sums up all its quotes but the one at hand, or, where a period is listed
  twice, that one as well, because a quote handled twice changes nothing but the
  volume (`SumsAgain`).  The steps rest on lemmas about one bar: the first quote of a span
  opens it (`SumsFirst`), a further one spreads and closes it (`SumsMore`), a
  quote of another span leaves it alone (`OtherSpans`, by `BarOfIsEnd`: the bars
  of a period divide time).
* `FlagsFollowThread` : `LifeSpec => []LifeTypeOK`, and `ImplementsCandlesAlways` :
  `LifeSpec => ImplementsCandles`, both from `LifeInv`: a handler finds the flags
  down that `Candles` says it changes (`FlagsDown`), because they follow the thread.

* `WaitFailsOnErrorAlways` : `LifeSpec => WaitFailsOnError`, from `WaitHasCause`:
  once `wait()` has seen a connection or an error, one of the two is there until it
  looks again, or `on_close` is between lowering the one and noting the other.

Only model-checked: the two liveness properties, `StreamReconnects` and
`StreamDestructorEnds`.

## 5. The bot's price history: `BotHistory`

`BotHistory` extends `Candles` with the bot: `main` is the main thread in
`init_candles_stream_mt4`, `hst` the file of each series with what `MqlHst` keeps
(`offset`, `last_timestamp`, `last_candle`), `is_init_mql_history` and
`is_once_mql_history` the two flags, `now` the time of the broker and the bot;
`history` and `caught` remember the downloaded bars and how the catch-up went.

`StartDownload` chooses a series and computes the dates (BOT 338-349), `Fetch` is
one round of the loop of `get_historical_data` (HTTP 756-775), `FetchFails` its
early return, `StoreBar` writes one bar of the result (BOT 351-358), `SetInit`
raises the flag.  `CandleStep` is a call of `on_candle`: a step of the stream
joined with the callback (`OnCandleOf`), which leaves the file alone before the
flag, begins the catch-up at the first call after it (`StartCatchUp`), and writes
or adds a bar from then on (`WriteBar`).  The catch-up takes `mql_history_mutex`
anew for each bar, so it is steps of its own: `call` is the call of `on_candle`
that is catching up, `AddMissed` one round of its loop (BOT 285-290) and
`CatchUpEnds` what comes after the loop (`CaughtUp`).  The thread of the stream
does nothing else before `CatchUpEnds`; the main thread, which may be loading
another series, and the clock go on.  `AddNew`, `Update` and `Merged` are the
functions of `MqlHst`.

The broker's history is modelled from how the code uses it: an answer holds the
bars of one span, made of the same quotes and stamped with the end of the bar
like the stream's, with or without the bar that is not over (`Unfinished`), and
any of them may be missing, since `parse_history` leaves out what it cannot read
and reports nothing (HTTP 582-605).  The clock of the model starts at 0 and no
quote is older, so a history that would begin before begins there.  The
file always opens, volumes are off, the clock of the bot is the broker's, and a
series is listed once.  The binary layout and the time zone are left out.

| Run | Question | Instance |
|---|---|---|
| `files` | the file in order and complete, and in step with the stream after the catch-up | 1 series of period 2, 3 quotes over 5 times, one lost connection, downloads that fail at any point |
| `missed` (violation) | what the catch-up adds is a bar of the series | the same without a lost connection |

Five times with period 2 reach three bars: one downloaded, one that ends while
the download is stored, and a current one.  `FileInOrder` and `FileKeepsHistory`
have the condition `Fits`: the catch-up found the stream at or after the end of
the download (`"behind"` happens when the history already holds a bar whose first
call of `on_candle` is yet to come) and with every bar in between (`"blank"` is
what `missed` shows).  `FileFollowsStream` has no condition.  The run has one
series: that two of them do not meet in a file is what the theorems add.  When a
download ends is a question of its requests: section 7.

### What is proved (`BotHistory_proofs`)

* `BotRunsStream` : `BotSpec => Spec`.  The stream below the bot is the one of
  `Candles`, so what is proved of the stream holds under the bot.
* `HistoryTypeCorrect` and `FilesFollowStream`, for all values of the constants:
  by `HistInv`.  Its parts are the invariant `OrderInv` of the stream, whose
  `ToldOnward` says that a bar told after another is the same one or a later one;
  `MainInv` and `CallInv`, what the two threads hold; and, for each file,
  `FileInv`: the file is the main thread's before the flag and empty before the
  download ends; `offset` tells whether its last bar is finished, which it is
  while the main thread still has bars to store, and after the catch-up exactly
  if the bar told last was closed (`Follows`).  Then the next call either goes on
  with the last bar or writes a later one behind it (`WrittenFollows`).  The end
  of the catch-up needs no more than the call itself (`CaughtUpFollows`).
* `FilesInOrder` and `FilesKeepHistory`, for `Step >= Span` and all other values of
  the constants: by `FitInv` on top of `HistInv`.  `MainFits` says that the bars
  of the download are in order and none is after the next request's date;
  `FileFits` that the file is in order and keeps, index by index, what was
  downloaded; `CallFits` that the catch-up starts over the current bar of the
  file and then goes on behind it, period by period, below the bar of the call.

`Step >= Span` is what the code has for bars of one and of five minutes, where
`time_period` is the time one answer covers.  For longer bars `time_period` stays 0,
every request of a series is for the same date, and a download that is cut off
by an error may have stored a bar twice: TLC finds it with `Step` = 0 and `History` =
2.  The other assumptions are `DownloadAssumption` and those of `Candles`.

The dates of an answer are a set put in order (`Ordered`), the prices of a bar
the least, greatest, first and last of a set.  That such elements exist is
induction over data, which the proofs take from the least element of a set of
numbers (`LeastNatural`, `GreatestNatural`): the library states it without an
operator for a parameter.

## 6. The bridge: `ApiWire`, `Extension`, `Server`, `Bridge`

### State and actions

| Variable | Code |
|---|---|
| `link`, `wire` | each connection as the browser sees it, and the calls of `on_open`, `on_message`, `on_close` and `on_error` it still owes the server, in order |
| `port`, `url_port` | the script's `port`, and the one `api_socket` was made with |
| `is_socket`, `is_api_socket`, `socket`, `api_socket` | the variables of the same names |
| `broker` | every broker socket the script ever made and has not seen closed: its handlers run whatever `socket` holds by then |
| `thread` | the thread of `server_future`: in its loop, with a server made, serving, stopping, done |
| `handler` | `on_message` between two of its sections |
| `current_connection`, `is_open_connect`, `is_connected`, `is_error`, `is_shutdown` | the members of the same names |
| `ping`, `starting`, `blocked` | what is in `request_future`: the ping thread, the calls of `on_start` that have not returned, and whether one of them waits for a mutex |
| `app`, `answer` | the application's thread in `wait()` and `~BinomoApi`, and what `wait()` returned |
| `troubles`, `api_lost` | the bound, and history: whether a connection to the server was ever cut |

`Extension` has one action per event of the page, because a browser runs one
handler at a time to its end: `BrokerOpens`, `BrokerCloses`, `BrokerFails`
(`onerror` and the `onclose` that follows in the same task), `BrokerSays`,
`ApiOpens`, `ApiRefused`, `ApiCloses`, `LoadPage`, `ChangePort`, `UnloadPage`.
`Server` has one per critical section: `ServerLoop`, `ServerStart`, `ServerStops`
(the thread), `OnOpen`, `OnClose`, `OnError`, `ReceiveUnreadable` (a message
that is no JSON: the `catch` branches, which leave `is_connected` alone),
`ReceiveSocket`/`ReceiveOther` then `SetConnected` then `PushStart` or `ClearFutures` (one message), `WaitLoop`,
`WaitMinute`, `WaitTimeout`, `WaitReturns` (`wait`), `Destroy`, `DestroyStops`,
`DestroyLocks`, `DestroyFutures`, `DestroyServer`, `DestroyMembers` (the destructor, and the
members' destructors after it).  `stop()` cuts every connection without a call
of `on_close`, and does nothing to a server that has not been started.

There is one page: a second one open at the broker's site would run a second
script with sockets of its own, which the model does not have.

Details of the code the model keeps: the saved port is looked up under another
name than it is stored under, so a page always starts with 8082; a port change
with a connection at hand throws (`is_api_socket.close()`) and the new port is
used only at the next loss; a broker socket's `onerror` closes whatever `socket`
holds; any message makes `is_connected` true.

### What the run `bridge` shows

Instance: 3 connections, 3 broker sockets, two ports, two troubles (one if the
application waits), at most 2 messages ahead of the server.  A trouble is a
broker socket lost or failing, a message of the broker, a cut or refused
connection, a page loaded again, a new port, a minute without a message, or the
destructor.  Two troubles are enough for one to hit the recovery from the other,
which is where stale flags and late events matter; the third connection and
socket are for the one that is still closing.  What is proved does not depend on
these bounds.

* `OneApiConnection`, `OneBrokerSocket`, `SendsToNewest` (safety) and
  `BridgeRecovers` (liveness): after any sequence of losses there is one
  connection each way and both ends know it.  `OneBrokerSocket` has the condition
  that no connection to the server was cut: after one, the close event of the old
  broker socket does find `is_api_socket` true again, and a second socket is
  opened; `BridgeRecovers` then says that the second one is not the end of it.
* `AtMostOneOutlives`, `DestructorEnds`: the destructor ends in every case but two,
  which are conditions of the property because the code has no means against
  them.  A callback of `on_start` that wants `request_future_mutex` (to open a
  bet) while the destructor waits for it with that mutex held (`blocked`) never
  returns.  A `stop()` between the making of the server and its start is lost
  (`StopLost`).  Both can happen; the property does not catch them, it says that
  there is no third case.
* `WaitAnswered`: `wait()` returns, also when it stopped the server itself.

`Churning` is the condition of `BridgeRecovers`: a broker socket that is closed
while it connects fails, its `onerror` closes the one that replaced it, which is
connecting by then, and so on for as long as the events come in that order.

Fairness: the program's threads run, the callbacks of `on_start` return unless
they are blocked, the browser calls the handlers and answers each attempt to
connect.  Nothing that goes wrong has to happen, nor anything the user does.
Deadlock is not checked: after the destructor the system has stopped.

### What is proved (`Bridge_proofs`)

For any number of connections, broker sockets, ports, troubles and messages:

* `BridgeTypeCorrect`: `BridgeTypeOK` is inductive.
* `OneApiConnectionAlways`: `OneApiConnection` is inductive with the types.
* `OneBrokerSocketAlways`: by `BrokerInv`.  Until a connection is cut, the script's
  own one is connecting or open, and a live broker socket is the one in `socket`
  and has an open connection behind it: `ApiOpens` finds none alive, and `onclose`
  replaces the one that just closed.
* `SendsToNewestAlways`: by `NewestInv`.  At most one connection has an `"open"` still
  to be handled, for the server completes one handshake after the other; an open
  connection either is that one or is `current_connection`, and its end is not on
  the wire.  So the end of the old connection, handled after the start of the new
  one, finds another `current_connection` and leaves it.
* `DestructorLeavesOne`: by `DestroyInv`.  Once `DestroyFutures` has seen no call of
  `on_start`, only the handler that runs can push one, and `stop()` lets no other
  begin, unless it was lost, and then the destructor never gets that far.

The assumptions are `ConnAssumption`, `ExtensionAssumption` and
`BridgeAssumption`: identities are numbers, `None` is none of them, the bounds
are numbers.  The three liveness properties are only model-checked.

## 7. The bot: `Symbols`, `Settings`, `Download`, `Bot`

### State and actions

| Variable | Code |
|---|---|
| `args`, `settings` | the command line, and what `Settings` made of the file it names |
| `main` | the main thread: in `main`, in `init_candles_stream_mt4`, in `get_historical_data` and `check_request_limit`, in its loop, in `update_connection` |
| `minute`, `request_counter`, `request_timestamp` | the minute of the clock, the counters of `BinomoApiHttp` |
| `series`, `start_date`, `current_date`, `stop_date`, `candles`, `err` | the locals of the download |
| `lost` | history: the bars of the series that `parse_history` left out |
| `requests` | history: requests sent in this minute |
| `closing`, `whole` | the broker: when the market closes, and whether its answers hold the bar that is not over |
| `api_connected`, `is_last_connected` | `is_connected` of `BinomoApi`, and the bot's copy |
| `told` | what each expert on the pipe was told last |
| `news`, `overtaken` | what `update_connection` has read and not yet sent, and whether an expert came in between |
| `pressed` | hot keys of a pressed key still to be looked at |
| `bet` | the last bet opened, with who asked and for what |

`Settings` and `Symbols` are operators: a document is a function from its keys, a
value of a wrong JSON type is `Bad` and raises an exception where it is read, and
each parser does with it what its `catch` does.  Three of these differ: a bad
value in the sections of the account, the quotes, the bot and the hot keys ends
the program, `"symbols"` that is no array is ignored, and a hot key whose parser
gave up stays in the list with what was read.  `Cut` is what the pipe's handler
does to a symbol's name.

`Download` has `Starts` (up to the checks of symbols and periods), `NextSeries`,
the four ways through `check_request_limit` (`FirstRequest`, `SameMinute` that may
wait, `NewMinute`, `WaitOver`), `Request` and `RequestFails`, and `Tick`.  `Bot` has
`PipeOpens`, `PipeCloses`, `Order` (handlers of the pipe's thread, one critical
section each), `TestConnection`, `TakeConnection`, `ReadConnection`,
`SendConnection` (`update_connection`, which gives up one mutex before it takes
the other), `Press`, `OpenPressed`, `Exit`, `ApiConnects` and `ApiDisconnects` (the
handlers of `BinomoApi`).

`Request` is a request with what `parse_history` makes of its answer (HTTP 582-605):
all bars of `Answer`, or, at the positions of a member of `Misread`, some of them or
none.  A date that cannot be converted is skipped, an exception ends the answer
where it is thrown, an answer without success or that is no JSON gives nothing,
and the loop goes on without an error in each case.  What was left out is in
`lost`.

Details the model keeps: the first date is unsigned, the product of period and
candles modulo `Uint32` and the date modulo `Uint64` (BOT 341), so more history
than there is time starts in the far future, where no bar is; bars of 15 minutes and more leave `time_period` 0, so
every request of such a series is for the same date; `request_counter` is not set
back in a new minute and a request that has waited does not count itself; an
order with `"exp"` is dropped, because the test of the pointer is inverted; with
one unknown argument there is no default file.

### What the runs show

| Run | Question | Instance |
|---|---|---|
| `bot` | at most `Limit` requests a minute; a download complete, in order and finished; real money only if asked for; hot keys complete; closing times; experts informed | 7 command lines, 6 files, periods 1 and 2 (short) and 3 (long), days of 6 minutes, a limit of 3, a market that is closed or open, 2 experts, 7 orders, 3 keys, 6 times around a minute and a quarter of an hour, 5 events |
| `symbols` (violation) | a bet is on the symbol the expert named | the same |

Bounds.  Time is in minutes; a day of 6 and spans of one to three days keep the
alignment of `start_date` and the number of requests (up to four) while a whole
download fits into `MaxMinute`; a limit of 3 is reached by one series.  `MaxSlow`
is how many minutes pass while nobody waits for one: two put one before and one
after a check.  `Readable` has an answer of which nothing is read, one whose first date is
unreadable and one that is cut off; one answer of a series is misread (`MaxLost`),
of any request.  `Uint32` = 32 and `Uint64` = 64 are small enough for the file with 7
bars of period 3 to wrap and large enough for the others not to.  `LastStart`
leaves the series for which `DownloadEnds` is checked the minutes it may need.
Five events let two experts come, one go, and the connection
change around one call of `update_connection`.  Once the bot serves, the
variables of the download are set to zero, for nothing reads them again.

`HistoryComplete` says what a return without an error is worth: the bars are in
order and each there once, and the only ones missing are those that `parse_history`
left out without a word.  `DownloadEnds` says that the loop of
`get_historical_data` ends unless the bar that was to end it is lost (`EndMissed`):
then it asks for later and later dates, for as long as the answers are empty.  With a long period it asks for the same date
again instead, and stores the bars before the lost one twice; so there
`HistoryComplete` needs `lost = {}`.  Both have conditions for the long periods, and
`DownloadEnds` for a closed market and a wrapped date (`AnswersReach`): that is
where the loop repeats itself or never ends, in the code as in the model, and
these cases the property does not catch.  `ExpertsInformed` leaves out the one race
the code has: an expert that comes after `update_connection` has read the state
and before it sends it may be told of the older state last (`overtaken`).

Fairness: the main thread runs, and time passes for a request that waits.
Nothing else has to happen.  Deadlock is not checked: a bot that has ended with
an error has stopped.

### What is proved (`Bot_proofs`)

* `RequestsLimited`, for any `Limit` of at least 2: by `LimitInv`, which relates the
  counter, its minute and the requests sent in this minute at every place of the
  main thread.  The argument has to allow for a request that was checked in one
  minute and sent in the next, and for one that waited.
* `RealAccountAsked` and `HotkeysAreComplete`, for all files and command lines: by
  `SettingsInv` (the settings are those of the file, or the defaults, whose
  account is the demo one) and `BetInv` (a bet carries the account of the settings
  and, from a hot key, that hot key).  A hot key of which not all was read has
  direction 0, because the direction is read last, and `OpenBo` opens no such bet.
* `BetsCloseAhead`, for all times and durations: arithmetic of `ClosingTime`.
* `HistoriesComplete`, for all periods, spans, answers, misreadings, closings of the
  market and minutes at which the requests are sent: by `HistoryInv`.  With the short periods
  (`Short`) the bars so far are in order, none after the date of the next request,
  and all that were due up to it are there or lost; the request adds what lies up
  to the next date (`AnswerIs`), as far as it is read (`ReadingIs`), and the last bar
  says that nothing is due behind it.
  With the long ones (`Long`), whose requests are all for the same date, the
  argument is that the loop ends with the first answer or not at all: if the bars
  of a whole answer that was read in full stop short of `stop_date`, no bar of the span at or after it
  can come, because the one behind the last (`NextMultiple`) would have been in
  the answer.  An invariant that only spoke of complete answers would not be
  inductive, since bars do repeat in `candles`; they do so in downloads that never
  end without an error.

An answer is a closed formula (`Answer`: the multiples of the period from one
quotient to another), so that what it holds follows from lemmas about division
(`Division`, `MultipleIs`, `NextMultiple`) and needs no induction.

Assumptions: `SettingsAssumption`, `CommandsAssumption`, `DownloadAssumption`,
`MisreadAssumption` (positions in order),
`BotAssumption`; `DurationAssumption`, that durations are natural numbers, which
the code's `uint32_t` makes them; and `ListAssumption`, that the symbols of a file
are a list and its number of candles is a natural number, as the JSON array and
the unsigned field are.  Only model-checked: the two liveness properties.

## 8. What is not modelled

* The account's balances and tokens, which nothing else depends on; the clock
  offset, floating-point averages that the deal tracker never asks for.
* Of the price stream: `init_array_candles` (no program calls it), `on_tick`,
  callbacks that throw.
* Of the bot: `update_ping`, the names of the `.hst` files, the time filter (its
  parser is never called, so the filter is empty), what callbacks print.
* `get_classic_bo_closing_timestamp`'s relatives and the HTTP requests that no
  program here uses; `delay_bets_ms` and the other delays of the settings, which
  are read and never used.
* The MT4 expert itself, the other end of the pipe: it is run by MetaTrader.
* TLS, curl and gzip, the JSON parser, base36, the vendored libraries of the
  expert, binary layouts, printing.

True of the code, and left to the hazard list in `PROJECT.json`, because no text
of the repository promises otherwise: entries of `uuid_to_bet_id` are never
erased; two bets may pass the delay between deals together; a period added
twice counts each quote twice; a bar file whose download failed stays empty.

Every safety property that a passing run checks is also a theorem, and so are the
three refinements (`ReportsFollowLifecycle`, `ReportsFollowFeed`,
`ImplementsCandles`) without their fairness.  The nine liveness properties stay with
TLC: they rest on fairness and ENABLED, which the prover does not handle.  What the
four runs with a violation show is a counterexample, for which there is nothing to
prove.
