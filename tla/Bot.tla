--------------------------------- MODULE Bot ---------------------------------
(***************************************************************************)
(* The bot (code-blocks/binomo-bot/main.cpp, bot/binomo-bot.hpp): after    *)
(* its settings and its history (Settings, Download) it serves the experts *)
(* of MetaTrader on a named pipe, tells them whether the broker is         *)
(* connected, and opens the bets they and its hot keys ask for, with       *)
(* open_bo of BinomoApi.  Deals has what becomes of the bets.              *)
(*                                                                         *)
(* Atomicity: api_mutex and pipe_server_mutex make each handler of the     *)
(* pipe's thread one action; update_connection, in the main thread, gives  *)
(* up the first before it takes the second.                                *)
(***************************************************************************)
EXTENDS Download

CONSTANTS
    Expert,        \* connections of the pipe
    Contracts,     \* what the experts ask for
    Keys,          \* of the keyboard, but for the space bar
    Times,         \* of the clock, in seconds
    \* Bound of the model
    MaxEvents      \* changes of the connections, orders and keys

ASSUME BotAssumption == MaxEvents \in Nat /\ Times \subseteq Nat

VARIABLES
    api_connected,      \* is_connected of BinomoApi
    is_last_connected,
    told,               \* the last news each expert got, or that it is not there
    news,               \* what update_connection has read and not yet sent
    overtaken,          \* whether an expert came between, and others were told then
    pressed,            \* the hot keys still to be looked at for a key
    bet,                \* the last bet that was opened, and who asked for it
    events

newsVars == <<api_connected, is_last_connected, told, news, overtaken>>
botVars  == <<newsVars, pressed, bet, events>>
vars     == <<downloadVars, botVars>>

Init ==
    /\ DownloadInit
    /\ api_connected = FALSE
    /\ is_last_connected = FALSE
    /\ told = [e \in Expert |-> "closed"]
    /\ news = FALSE
    /\ overtaken = FALSE
    /\ pressed = {}
    /\ bet = [from |-> "nobody"]
    /\ events = 0

Serving == main \in {"loop", "differs", "changed", "sending"}

\* api_mutex, which update_connection holds between its two looks at the connection
ApiFree == main # "differs"

Event   == events < MaxEvents /\ events' = events + 1

-----------------------------------------------------------------------------
(* News of the broker's connection                                         *)

\* send_all
SendAll(listening, connected) ==
    [e \in Expert |-> IF e \in listening THEN connected ELSE "closed"]

Listening == {e \in Expert : told[e] # "closed"}
News(connected) == IF connected THEN "connected" ELSE "disconnected"

\* Mutant: only the new expert is told.
PipeOpensAlone(e) ==
    /\ Serving /\ ApiFree /\ Event
    /\ told[e] = "closed"
    /\ is_last_connected' = api_connected
    /\ told' = [told EXCEPT ![e] = News(api_connected)]
    /\ overtaken' = (main = "sending" /\ news # api_connected)
    /\ UNCHANGED <<downloadVars, api_connected, news, pressed, bet>>

\* on_open
PipeOpens(e) ==
    /\ Serving /\ ApiFree /\ Event
    /\ told[e] = "closed"
    /\ is_last_connected' = api_connected
    /\ told' = SendAll(Listening \cup {e}, News(api_connected))
    /\ overtaken' = (main = "sending" /\ news # api_connected)
    /\ UNCHANGED <<downloadVars, api_connected, news, pressed, bet>>

PipeCloses(e) ==
    /\ Serving /\ Event
    /\ told[e] # "closed"
    /\ told' = [told EXCEPT ![e] = "closed"]
    /\ UNCHANGED <<downloadVars, api_connected, is_last_connected, news, overtaken, pressed, bet>>

\* The thread of BinomoApi's server: on_message
ApiConnects ==
    /\ Serving /\ Event
    /\ ~ api_connected /\ api_connected' = TRUE
    /\ UNCHANGED <<downloadVars, is_last_connected, told, news, overtaken, pressed, bet>>

\* on_close and on_error
ApiDisconnects ==
    /\ Serving /\ Event
    /\ api_connected /\ api_connected' = FALSE
    /\ UNCHANGED <<downloadVars, is_last_connected, told, news, overtaken, pressed, bet>>

ReadFrame == UNCHANGED <<givenVars, minute, limitVars, loopVars, requests, brokerVars, slow,
                         api_connected, pressed, bet, events>>

\* update_connection asks for the connection under api_mutex, and asks again.
TestConnection ==
    /\ Goes("loop", "differs")
    /\ pressed = {}
    /\ is_last_connected # api_connected
    /\ UNCHANGED <<is_last_connected, told, news, overtaken>>
    /\ ReadFrame

TakeConnection ==
    /\ Goes("differs", "changed")
    /\ is_last_connected' = api_connected
    /\ UNCHANGED <<told, news, overtaken>>
    /\ ReadFrame

\* is_last_connected is read again, under no mutex
ReadConnection ==
    /\ Goes("changed", "sending")
    /\ news' = is_last_connected
    /\ overtaken' = FALSE
    /\ UNCHANGED <<is_last_connected, told>>
    /\ ReadFrame

SendConnection ==
    /\ Goes("sending", "loop")
    /\ told' = SendAll(Listening, News(news))
    /\ news' = FALSE
    /\ UNCHANGED <<is_last_connected, overtaken>>
    /\ ReadFrame

-----------------------------------------------------------------------------
(* Bets                                                                    *)

\* Mutant: the half minute is left out.
ClosingTimeNow(time, expiration) ==
    IF \/ expiration < 1 \/ expiration > 60
       \/ expiration > 5 /\ expiration % 15 # 0
    THEN 0
    ELSE LET future == IF expiration <= 5 THEN time + expiration * 60
                       ELSE time + (expiration + 5) * 60
         IN  future - (future % (IF expiration <= 5 THEN 60 ELSE 300))

\* get_classic_bo_closing_timestamp, 0 if there is no such expiration
ClosingTime(time, expiration) ==
    IF \/ expiration < 1 \/ expiration > 60
       \/ expiration > 5 /\ expiration % 15 # 0
    THEN 0
    ELSE LET future == IF expiration <= 5 THEN time + (expiration * 60 + 30)
                       ELSE time + (expiration + 5) * 60
         IN  future - (future % (IF expiration <= 5 THEN 60 ELSE 300))

\* open_bo of BinomoApi up to the thread of the bet
OpenBo(from, asked, symbol, amount, direction, duration) ==
    \E t \in Times :
       LET closing_time == ClosingTime(t, duration \div 60)
       IN  IF /\ api_connected
              /\ direction \in {-1, 1}
              /\ t # 0 /\ closing_time # 0
              /\ normalize_symbol_name(symbol) \in Known
           THEN bet' = [from |-> from, asked |-> asked,
                        symbol |-> normalize_symbol_name(symbol),
                        amount |-> amount, direction |-> direction,
                        expiration |-> duration \div 60,
                        is_demo |-> settings.is_demo_account,
                        time |-> t, closing |-> closing_time]
           ELSE UNCHANGED bet

\* The values of an order that are read as numbers or texts, whatever else is in it
Sound(c) == \A k \in {"s", "note", "a"} \cap DOMAIN c : c[k] # Bad

\* With "exp" in an order its "dur" is not read, and "exp" is only if there is no
\* BinomoApi (the test of the pointer is inverted).  The time filter is empty: its
\* parser is never called.
Duration(c) == IF "exp" \in DOMAIN c \/ Value(c, "dur", Bad) = Bad THEN 0 ELSE c.dur

Direction(c) ==
    CASE Value(c, "dir", Bad) = "BUY"  -> 1
      [] Value(c, "dir", Bad) = "SELL" -> -1
      [] OTHER                         -> 0

\* The code keeps a duration as an unsigned number.
ASSUME DurationAssumption ==
    /\ \A c \in Contracts : Duration(c) \in Nat
    /\ \A f \in DOMAIN Files :
          LET hotkey == Settings(Files[f]).hotkey
          IN  \A i \in DOMAIN hotkey : hotkey[i].duration \in Nat

\* on_message, with an order
Order(e, c) ==
    /\ Serving /\ ApiFree /\ Event
    /\ told[e] # "closed"
    /\ IF /\ Sound(c)
          /\ {"s", "a"} \subseteq DOMAIN c
          /\ c.a > 0
          /\ Duration(c) > 0
          /\ Direction(c) # 0
       THEN OpenBo("pipe", c.s, Cut(c.s), c.a, Direction(c), Duration(c))
       ELSE UNCHANGED bet
    /\ UNCHANGED <<downloadVars, newsVars, pressed>>

\* The loop of main, with the hot keys for a key in their order
Press(k) ==
    /\ main = "loop" /\ pressed = {} /\ Event
    /\ pressed' = {i \in DOMAIN settings.hotkey : k \in settings.hotkey[i].key}
    /\ UNCHANGED <<downloadVars, newsVars, bet>>

OpenPressed ==
    /\ \E i \in pressed :
          /\ \A j \in pressed : i <= j
          /\ pressed' = pressed \ {i}
          /\ LET h == settings.hotkey[i]
             IN  OpenBo("key", h.symbol, h.symbol, h.amount, h.direction, h.duration)
    /\ UNCHANGED <<downloadVars, newsVars, events>>

\* The space bar; the destructor of BinomoBot and of BinomoApi follow.
Exit ==
    /\ Goes("loop", "exited") /\ pressed = {} /\ Event
    /\ UNCHANGED <<givenVars, minute, limitVars, loopVars, requests, brokerVars, slow,
                   newsVars, pressed, bet>>

-----------------------------------------------------------------------------
MainStep ==
    \/ DownloadStep /\ UNCHANGED botVars
    \/ TestConnection \/ TakeConnection \/ ReadConnection \/ SendConnection
    \/ OpenPressed

Minutes == Tick /\ UNCHANGED botVars

Next ==
    \/ MainStep \/ Minutes
    \/ RequestFails /\ UNCHANGED botVars
    \/ \E e \in Expert : \/ PipeOpens(e) \/ PipeCloses(e)
                         \/ \E c \in Contracts : Order(e, c)
    \/ ApiConnects \/ ApiDisconnects
    \/ \E k \in Keys : Press(k)
    \/ Exit

Spec == Init /\ [][Next]_vars

\* The main thread runs, and time passes for a request that waits.
FairSpec ==
    /\ Spec
    /\ WF_vars(MainStep)
    /\ WF_vars(main = "wait" /\ Minutes)

-----------------------------------------------------------------------------
(* Properties                                                              *)

\* Real money is spent only if the file that the command line names, or the
\* default one if nothing is named, says so, in whichever of the two keys is the
\* one that counts (Settings, process_arguments, BinomoSettings).
RealOnlyIfAsked ==
    bet.from # "nobody" /\ ~ bet.is_demo =>
        \E f \in DOMAIN Files :
            LET s == Section(Files[f], "binomo")
            IN  /\ \/ \E i \in DOMAIN args : args[i].text = f
                   \/ f = "config.json" /\ Dashed(args) = {}
                /\ IF "demo_account" \in DOMAIN s THEN ~ s.demo_account
                   ELSE "demo" \in DOMAIN s /\ ~ s.demo

\* A bet of a hot key is one that the file defines in full: nothing is left of a
\* definition that was given up half-way, although its error is ignored
\* (HotkeySettings, HotkeysSettings).
HotkeysComplete ==
    bet.from = "key" =>
        \E i \in DOMAIN Section(open_json_file(FileName(args)), "hotkeys").keys :
            LET h == Section(open_json_file(FileName(args)), "hotkeys").keys[i]
            IN  /\ \A j \in 1 .. 5 : Value(h, HotkeyKeys[j], Bad) # Bad
                /\ h.symbol = bet.asked
                /\ h.amount = bet.amount
                /\ h.direction = bet.direction
                /\ h.duration \div 60 = bet.expiration

\* A bet closes at a full minute as far ahead as was asked for, give or take half
\* a minute, and from a quarter of an hour on at five full minutes, no sooner than
\* asked for: it is never closed when it is opened (get_classic_bo_closing_timestamp).
ClosesAhead ==
    bet.from # "nobody" =>
        LET ahead == bet.closing - bet.time
            asked == bet.expiration * 60
        IN  IF bet.expiration <= 5
            THEN /\ bet.closing % 60 = 0
                 /\ ahead > asked - 30 /\ ahead <= asked + 30
            ELSE /\ bet.closing % 300 = 0
                 /\ ahead > asked /\ ahead <= asked + 300

\* When the connection changes no more, every expert is told its state in the
\* end, unless another one came at the one moment when update_connection had read
\* the old state and not yet sent it (update_connection, on_open).
ExpertsInformed ==
    <>[](~ overtaken /\ Serving) =>
        \A e \in Expert : <>[](told[e] \in {"closed", News(api_connected)})

-----------------------------------------------------------------------------
(***************************************************************************)
(* What the documentation says and the code does not do                    *)
(***************************************************************************)
\* A bet is on the symbol the expert asked for: the user's manual lists pairs with
\* "(OTC)" as symbols of their own.
SymbolAsFor == bet.from = "pipe" => bet.symbol = normalize_symbol_name(bet.asked)
=============================================================================
