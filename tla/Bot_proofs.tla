------------------------------ MODULE Bot_proofs ------------------------------
(***************************************************************************)
(* Proofs about the bot for any settings files, command lines, periods,    *)
(* limits, orders, hot keys and times: the limit of requests, which        *)
(* account a bet is on, what a hot key needs and when a bet closes.        *)
(***************************************************************************)
EXTENDS Bot, TLAPS

-----------------------------------------------------------------------------
(* The limit of requests                                                   *)

DownloadMain == {"start", "series", "check", "wait", "request"}
MainStates   == DownloadMain \cup {"failed", "loop", "differs", "changed", "sending", "exited"}

\* The request that is checked and not yet sent
Checked(m) == IF m = "request" THEN 1 ELSE 0

\* In the minute that was counted last, what was sent and checked is counted but
\* for the request that waited; in a later minute there is at most the one request
\* that was checked before it began.
LimitInv ==
    /\ main \in MainStates
    /\ minute \in Nat /\ request_counter \in Nat /\ requests \in Nat
    /\ request_timestamp \in Nat /\ request_timestamp <= minute
    /\ main \in DownloadMain => minute > 0
    /\ request_timestamp = 0 => requests = 0 /\ main \notin {"wait", "request"}
    /\ request_timestamp = minute =>
          /\ requests + Checked(main) <= request_counter + 1
          /\ requests + Checked(main) <= Limit
    /\ request_timestamp # minute => requests + Checked(main) <= 1
    /\ request_timestamp # minute /\ main = "wait" => requests = 0

LEMMA LimitInvInit == Init => LimitInv
BY DownloadAssumption DEF Init, DownloadInit, LimitInv, MainStates, DownloadMain, Checked

LEMMA LimitInvDownload ==
    ASSUME LimitInv, DownloadStep \/ RequestFails \/ Tick
    PROVE  LimitInv'
<1>0. Limit \in Nat /\ Limit >= 2
  BY DownloadAssumption
<1> USE <1>0 DEF LimitInv, MainStates, DownloadMain, Checked, Goes, limitVars
<1>1. ASSUME Starts PROVE LimitInv'
  <2>1. main = "start" /\ main' \in {"failed", "series"}
    BY <1>1 DEF Starts
  <2>2. UNCHANGED <<minute, limitVars, requests>>
    BY <1>1 DEF Starts
  <2> QED BY <2>1, <2>2
<1>2. ASSUME NextSeries PROVE LimitInv'
  BY <1>2 DEF NextSeries
<1>3. ASSUME Downloaded PROVE LimitInv'
  BY <1>3 DEF Downloaded
<1> USE DEF CheckFrame
<1>4. ASSUME FirstRequest PROVE LimitInv'
  BY <1>4 DEF FirstRequest
<1>5. ASSUME SameMinute PROVE LimitInv'
  <2>1. /\ main = "check" /\ request_timestamp = minute
        /\ request_counter' = request_counter + 1
        /\ UNCHANGED <<minute, requests, request_timestamp>>
        /\ main' = IF request_counter + 1 >= Limit THEN "wait" ELSE "request"
    BY <1>5 DEF SameMinute
  <2>2. CASE request_counter + 1 >= Limit
    BY <2>1, <2>2
  <2>3. CASE request_counter + 1 < Limit
    BY <2>1, <2>3
  <2> QED BY <2>2, <2>3
<1>6. ASSUME NewMinute PROVE LimitInv'
  BY <1>6 DEF NewMinute
<1>7. ASSUME WaitOver PROVE LimitInv'
  BY <1>7 DEF WaitOver
<1>8. ASSUME Request PROVE LimitInv'
  <2>1. main = "request" /\ main' \in {"series", "check"} /\ requests' = requests + 1
    BY <1>8 DEF Request
  <2>2. UNCHANGED <<minute, limitVars>>
    BY <1>8 DEF Request
  <2> QED BY <2>1, <2>2
<1>9. ASSUME RequestFails PROVE LimitInv'
  BY <1>9 DEF RequestFails
<1>10. ASSUME Tick PROVE LimitInv'
  <2>1. main \in DownloadMain \ {"start"} /\ minute' = minute + 1 /\ requests' = 0
    BY <1>10 DEF Tick
  <2>2. UNCHANGED <<main, limitVars>>
    BY <1>10 DEF Tick
  <2> QED BY <2>1, <2>2
<1> QED
  BY <1>1, <1>2, <1>3, <1>4, <1>5, <1>6, <1>7, <1>8, <1>9, <1>10 DEF DownloadStep

\* What the bot does once it serves the experts
Serves == \/ TestConnection \/ TakeConnection \/ ReadConnection \/ SendConnection \/ OpenPressed
          \/ \E e \in Expert : PipeOpens(e) \/ PipeCloses(e) \/ \E c \in Contracts : Order(e, c)
          \/ ApiConnects \/ ApiDisconnects \/ Exit \/ \E k \in Keys : Press(k)

LEMMA BotSteps ==
    ASSUME Next
    PROVE  Serves \/ ((DownloadStep \/ RequestFails \/ Tick) /\ UNCHANGED botVars)
BY DEF Next, MainStep, Minutes, Serves

\* Serving leaves the settings and the limit of requests alone.
LEMMA ServesFrame ==
    ASSUME Serves
    PROVE  /\ UNCHANGED <<givenVars, minute, limitVars, requests>>
           /\ main' = main \/ {main, main'} \subseteq {"loop", "differs", "changed", "sending", "exited"}
BY DEF Serves, TestConnection, TakeConnection, ReadConnection, SendConnection, ReadFrame, OpenPressed,
       PipeOpens, PipeCloses, Order, ApiConnects, ApiDisconnects, Exit, Press, Goes, downloadVars

LEMMA LimitInvKept == LimitInv /\ [Next]_vars => LimitInv'
<1> SUFFICES ASSUME LimitInv, [Next]_vars PROVE LimitInv'
  OBVIOUS
<1>1. CASE UNCHANGED vars
  BY <1>1 DEF vars, downloadVars, limitVars, LimitInv
<1>2. CASE Serves
  BY <1>2, ServesFrame DEF limitVars, LimitInv, MainStates, DownloadMain, Checked
<1> QED BY <1>1, <1>2, BotSteps, LimitInvDownload

\* No minute sees more requests than the limit (check_request_limit).
THEOREM RequestsLimited == Spec => []RequestsWithinLimit
<1>1. Init => LimitInv BY LimitInvInit
<1>2. LimitInv /\ [Next]_vars => LimitInv' BY LimitInvKept
<1>3. LimitInv => RequestsWithinLimit
  BY DownloadAssumption DEF LimitInv, Checked, RequestsWithinLimit
<1> QED BY <1>1, <1>2, <1>3, PTL DEF Spec

-----------------------------------------------------------------------------
(* The settings                                                            *)

LEMMA DefaultSettings ==
    /\ Settings(<<>>).is_demo_account = TRUE
    /\ DOMAIN Settings(<<>>).hotkey = {}
<1>1. DOMAIN <<>> = {}
  OBVIOUS
<1>2. \A key, default : Value(<<>>, key, default) = default
  BY <1>1 DEF Value, Reads
<1>3. \A name : Section(<<>>, name) = <<>>
  BY <1>2 DEF Section
<1>4. IsDemoAccount(<<>>) = TRUE
  BY <1>2 DEF IsDemoAccount
<1>5. Value(<<>>, "use", FALSE) = FALSE
  BY <1>2
<1> QED BY <1>1, <1>3, <1>4, <1>5 DEF Settings

\* The settings are the defaults or those of the file that was named, and a hot
\* key that is pressed is one of theirs.
SettingsInv ==
    /\ args \in Commands
    /\ \/ settings = Settings(<<>>)
       \/ FileName(args) \in DOMAIN Files /\ settings = Settings(Files[FileName(args)])
    /\ pressed \subseteq DOMAIN settings.hotkey
    /\ main = "start" => settings = Settings(<<>>) /\ bet.from = "nobody"

LEMMA SettingsInvInit == Init => SettingsInv
BY DEF Init, DownloadInit, SettingsInv

\* The settings that the bot starts with
LEMMA SettingsRead ==
    ASSUME args \in Commands, Starts, settings = Settings(<<>>)
    PROVE  \/ settings' = Settings(<<>>)
           \/ /\ FileName(args) \in DOMAIN Files
              /\ settings' = Settings(Files[FileName(args)])
<1> DEFINE doc == open_json_file(FileName(args))
<1>1. settings' = IF SettingsError(doc) THEN settings ELSE Settings(doc)
  BY DEF Starts
<1>2. ~ SettingsError(doc) => FileName(args) \in DOMAIN Files /\ doc = Files[FileName(args)]
  BY DEF SettingsError, open_json_file
<1> HIDE DEF doc
<1> QED BY <1>1, <1>2

LEMMA SettingsInvKept == SettingsInv /\ [Next]_vars => SettingsInv'
<1> SUFFICES ASSUME SettingsInv, [Next]_vars PROVE SettingsInv'
  OBVIOUS
<1> USE DEF SettingsInv
<1>1. CASE UNCHANGED vars
  BY <1>1 DEF vars, downloadVars, givenVars, botVars
<1>2. ASSUME Serves PROVE SettingsInv'
  <2>1. UNCHANGED givenVars /\ (main' = "start" => main = "start")
    BY <1>2, ServesFrame
  <2>2. CASE OpenPressed
    <3>1. \E i \in pressed : pressed' = pressed \ {i}
      BY <2>2 DEF OpenPressed
    <3>2. main # "start"
      BY <3>1, DefaultSettings
    <3> QED BY <2>1, <3>1, <3>2 DEF givenVars
  <2>3. CASE \E k \in Keys : Press(k)
    <3>1. main' = "loop" /\ pressed' \subseteq DOMAIN settings.hotkey
      BY <2>3 DEF Press, downloadVars
    <3> QED BY <2>1, <3>1 DEF givenVars
  <2>4. CASE ApiConnects \/ ApiDisconnects \/ Exit \/ TestConnection \/ TakeConnection \/ ReadConnection \/ SendConnection
    BY <2>1, <2>4 DEF ApiConnects, ApiDisconnects, Exit, TestConnection, TakeConnection, ReadConnection, SendConnection, ReadFrame,
                      Goes, Serving, downloadVars, givenVars
  <2>5. ASSUME NEW e \in Expert, PipeOpens(e) \/ PipeCloses(e) PROVE SettingsInv'
    BY <2>1, <2>5 DEF PipeOpens, PipeCloses, givenVars
  <2>6. ASSUME NEW e \in Expert, NEW c \in Contracts, Order(e, c) PROVE SettingsInv'
    BY <2>1, <2>6 DEF Order, Serving, downloadVars, givenVars
  <2> QED BY <1>2, <2>2, <2>3, <2>4, <2>5, <2>6 DEF Serves
<1>3. ASSUME DownloadStep \/ RequestFails \/ Tick, UNCHANGED botVars PROVE SettingsInv'
  <2>1. CASE Starts
    <3>1. main = "start" /\ main' # "start" /\ args' = args
      BY <2>1 DEF Starts
    <3>2. pressed' = {} /\ pressed' = pressed
      BY <1>3, <3>1, DefaultSettings DEF botVars
    <3> QED BY <2>1, <3>1, <3>2, SettingsRead
  <2>2. CASE ~ Starts
    BY <1>3, <2>2
       DEF DownloadStep, NextSeries, Downloaded, FirstRequest, SameMinute, NewMinute, WaitOver,
           Request, RequestFails, Tick, CheckFrame, Goes, givenVars, botVars
  <2> QED BY <2>1, <2>2
<1> QED BY <1>1, <1>2, <1>3, BotSteps

-----------------------------------------------------------------------------
(* The bets                                                                *)

\* What a hot key and a bet have in common
OfHotkey(b, h) ==
    /\ h.symbol = b.asked
    /\ h.amount = b.amount
    /\ h.direction = b.direction
    /\ h.duration \div 60 = b.expiration

\* A bet has the account of the settings and the closing time of its expiration,
\* and a bet of a hot key is one of theirs.
BetOf(b, st) ==
    b.from # "nobody" =>
        /\ b.is_demo = st.is_demo_account
        /\ b.time \in Nat /\ b.expiration \in Nat
        /\ b.closing = ClosingTime(b.time, b.expiration) /\ b.closing # 0
        /\ b.from = "key" =>
              /\ b.direction \in {-1, 1}
              /\ \E i \in DOMAIN st.hotkey : OfHotkey(b, st.hotkey[i])

BetInv == BetOf(bet, settings)

LEMMA BetInvInit == Init => BetInv
BY DEF Init, BetInv, BetOf

\* The bet that open_bo makes
MadeBet(b, from, asked, amount, direction, duration, demo) ==
    \E symbol : \E t \in Times :
        /\ direction \in {-1, 1} /\ ClosingTime(t, duration \div 60) # 0
        /\ b = [from |-> from, asked |-> asked, symbol |-> symbol, amount |-> amount,
                direction |-> direction, expiration |-> duration \div 60, is_demo |-> demo,
                time |-> t, closing |-> ClosingTime(t, duration \div 60)]

LEMMA MadeBetIs ==
    ASSUME NEW b, NEW st, NEW from \in {"pipe", "key"}, NEW asked, NEW amount, NEW direction,
           NEW duration \in Nat,
           MadeBet(b, from, asked, amount, direction, duration, st.is_demo_account),
           from = "key" => \E i \in DOMAIN st.hotkey :
                              /\ st.hotkey[i].symbol = asked
                              /\ st.hotkey[i].amount = amount
                              /\ st.hotkey[i].direction = direction
                              /\ st.hotkey[i].duration = duration
    PROVE  BetOf(b, st)
<1>0. PICK symbol : \E t \in Times :
         /\ direction \in {-1, 1} /\ ClosingTime(t, duration \div 60) # 0
         /\ b = [from |-> from, asked |-> asked, symbol |-> symbol, amount |-> amount,
                 direction |-> direction, expiration |-> duration \div 60,
                 is_demo |-> st.is_demo_account,
                 time |-> t, closing |-> ClosingTime(t, duration \div 60)]
  BY DEF MadeBet
<1>1. PICK t \in Times :
         /\ direction \in {-1, 1} /\ ClosingTime(t, duration \div 60) # 0
         /\ b = [from |-> from, asked |-> asked, symbol |-> symbol, amount |-> amount,
                 direction |-> direction, expiration |-> duration \div 60,
                 is_demo |-> st.is_demo_account,
                 time |-> t, closing |-> ClosingTime(t, duration \div 60)]
  BY <1>0
<1>2. t \in Nat /\ duration \div 60 \in Nat
  BY BotAssumption
<1>3. /\ b.from = from /\ b.is_demo = st.is_demo_account /\ b.time = t
      /\ b.expiration = duration \div 60 /\ b.closing = ClosingTime(t, duration \div 60)
      /\ b.direction = direction /\ b.asked = asked /\ b.amount = amount
  BY <1>1
<1>4. from = "key" => \E i \in DOMAIN st.hotkey : OfHotkey(b, st.hotkey[i])
  BY <1>3 DEF OfHotkey
<1> QED BY <1>1, <1>2, <1>3, <1>4 DEF BetOf

\* The durations of the hot keys that are in use
LEMMA HotkeyDurations ==
    ASSUME SettingsInv, NEW i \in DOMAIN settings.hotkey
    PROVE  settings.hotkey[i].duration \in Nat
BY DefaultSettings, DurationAssumption DEF SettingsInv

LEMMA BetInvKept == SettingsInv /\ BetInv /\ [Next]_vars => BetInv'
<1> SUFFICES ASSUME SettingsInv, BetInv, [Next]_vars PROVE BetInv'
  OBVIOUS
<1>1. CASE UNCHANGED <<settings, bet>>
  BY <1>1 DEF BetInv
<1>2. CASE UNCHANGED vars
  BY <1>1, <1>2 DEF vars, downloadVars, givenVars, botVars
<1>3. ASSUME Serves PROVE BetInv'
  <2>1. settings' = settings
    BY <1>3, ServesFrame DEF givenVars
  <2>2. CASE OpenPressed
    <3>1. PICK i \in pressed :
             LET h == settings.hotkey[i]
             IN  OpenBo("key", h.symbol, h.symbol, h.amount, h.direction, h.duration)
      BY <2>2 DEF OpenPressed
    <3> DEFINE h == settings.hotkey[i]
    <3>2. \/ bet' = bet
          \/ MadeBet(bet', "key", h.symbol, h.amount, h.direction, h.duration,
                     settings.is_demo_account)
      BY <3>1 DEF OpenBo, MadeBet
    <3>3. i \in DOMAIN settings.hotkey /\ h.duration \in Nat
      BY HotkeyDurations DEF SettingsInv
    <3>4. MadeBet(bet', "key", h.symbol, h.amount, h.direction, h.duration,
                  settings.is_demo_account) => BetOf(bet', settings)
      BY <3>3, MadeBetIs
    <3> QED BY <1>1, <2>1, <3>2, <3>4 DEF BetInv
  <2>3. ASSUME NEW e \in Expert, NEW c \in Contracts, Order(e, c) PROVE BetInv'
    <3>1. \/ bet' = bet
          \/ OpenBo("pipe", c.s, Cut(c.s), c.a, Direction(c), Duration(c))
      BY <2>3 DEF Order
    <3>2. \/ bet' = bet
          \/ MadeBet(bet', "pipe", c.s, c.a, Direction(c), Duration(c),
                     settings.is_demo_account)
      BY <3>1 DEF OpenBo, MadeBet
    <3>3. Duration(c) \in Nat
      BY DurationAssumption
    <3>4. MadeBet(bet', "pipe", c.s, c.a, Direction(c), Duration(c),
                  settings.is_demo_account) => BetOf(bet', settings)
      BY <3>3, MadeBetIs
    <3> QED BY <1>1, <2>1, <3>2, <3>4 DEF BetInv
  <2>4. CASE TestConnection \/ TakeConnection \/ ReadConnection \/ SendConnection \/ ApiConnects \/ ApiDisconnects \/ Exit
             \/ (\E e \in Expert : PipeOpens(e) \/ PipeCloses(e)) \/ \E k \in Keys : Press(k)
    <3>1. bet' = bet
      BY <2>4 DEF TestConnection, TakeConnection, ReadConnection, SendConnection, ReadFrame, ApiConnects, ApiDisconnects, Exit,
                  PipeOpens, PipeCloses, Press
    <3> QED BY <1>1, <2>1, <3>1
  <2> QED BY <1>3, <2>2, <2>3, <2>4 DEF Serves
<1>4. ASSUME DownloadStep \/ RequestFails \/ Tick, UNCHANGED botVars PROVE BetInv'
  <2>1. CASE Starts
    <3>1. bet'.from = "nobody"
      BY <1>4, <2>1 DEF Starts, SettingsInv, botVars
    <3> QED BY <3>1 DEF BetInv, BetOf
  <2>2. CASE ~ Starts
    BY <1>1, <1>4, <2>2
       DEF DownloadStep, NextSeries, Downloaded, FirstRequest, SameMinute, NewMinute, WaitOver,
           Request, RequestFails, Tick, CheckFrame, givenVars, botVars
  <2> QED BY <2>1, <2>2
<1> QED BY <1>2, <1>3, <1>4, BotSteps

-----------------------------------------------------------------------------
(* The theorems about bets                                                 *)

\* Rounding down to full minutes or to five full minutes
LEMMA RoundedDown ==
    ASSUME NEW x \in Nat, NEW p \in {60, 300}
    PROVE  /\ (x - (x % p)) % p = 0
           /\ x - (x % p) > x - p /\ x - (x % p) <= x
<1>1. CASE p = 60
  BY <1>1
<1>2. CASE p = 300
  BY <1>2
<1> QED BY <1>1, <1>2

\* What the closing time of an expiration is, if there is one
LEMMA ClosingTimes ==
    ASSUME NEW t \in Nat, NEW e \in Nat, ClosingTime(t, e) # 0
    PROVE  IF e <= 5
           THEN /\ ClosingTime(t, e) % 60 = 0
                /\ ClosingTime(t, e) - t > e * 60 - 30
                /\ ClosingTime(t, e) - t <= e * 60 + 30
           ELSE /\ ClosingTime(t, e) % 300 = 0
                /\ ClosingTime(t, e) - t > e * 60
                /\ ClosingTime(t, e) - t <= e * 60 + 300
<1>1. CASE e <= 5
  <2> DEFINE x == t + (e * 60 + 30)
  <2>1. x \in Nat
    OBVIOUS
  <2>2. ClosingTime(t, e) = x - (x % 60)
    BY <1>1 DEF ClosingTime
  <2>3. (x - (x % 60)) % 60 = 0 /\ x - (x % 60) > x - 60 /\ x - (x % 60) <= x
    BY <2>1, RoundedDown
  <2>4. x - (x % 60) \in Int
    BY <2>1
  <2> QED BY <1>1, <2>2, <2>3, <2>4
<1>2. CASE e > 5
  <2> DEFINE x == t + (e + 5) * 60
  <2>1. x \in Nat
    OBVIOUS
  <2>2. ClosingTime(t, e) = x - (x % 300)
    BY <1>2 DEF ClosingTime
  <2>3. (x - (x % 300)) % 300 = 0 /\ x - (x % 300) > x - 300 /\ x - (x % 300) <= x
    BY <2>1, RoundedDown
  <2>4. x - (x % 300) \in Int
    BY <2>1
  <2> QED BY <1>2, <2>2, <2>3, <2>4
<1> QED BY <1>1, <1>2

LEMMA BotInvInit == Init => SettingsInv /\ BetInv
BY SettingsInvInit, BetInvInit

LEMMA BotInvKept == SettingsInv /\ BetInv /\ [Next]_vars => SettingsInv' /\ BetInv'
BY SettingsInvKept, BetInvKept

\* A bet closes as far ahead as was asked for, at a full minute or at five full
\* minutes (get_classic_bo_closing_timestamp), for every time and expiration.
THEOREM BetsCloseAhead == Spec => []ClosesAhead
<1>1. SettingsInv /\ BetInv => ClosesAhead
  <2> SUFFICES ASSUME BetInv, bet.from # "nobody" PROVE ClosesAhead
    BY DEF ClosesAhead
  <2>1. /\ bet.time \in Nat /\ bet.expiration \in Nat
        /\ bet.closing = ClosingTime(bet.time, bet.expiration) /\ bet.closing # 0
    BY DEF BetInv, BetOf
  <2> QED BY <2>1, ClosingTimes DEF ClosesAhead
<1> QED BY <1>1, BotInvInit, BotInvKept, PTL DEF Spec

\* No bet is on the real account unless the file that is named, or the default
\* file, asks for it (Settings, BinomoSettings).
THEOREM RealAccountAsked == Spec => []RealOnlyIfAsked
<1>1. SettingsInv /\ BetInv => RealOnlyIfAsked
  <2> SUFFICES ASSUME SettingsInv, BetInv, bet.from # "nobody", ~ bet.is_demo
               PROVE  RealOnlyIfAsked
    BY DEF RealOnlyIfAsked
  <2> DEFINE f == FileName(args)
             s == Section(Files[f], "binomo")
  <2>1. bet.is_demo = settings.is_demo_account
    BY DEF BetInv, BetOf
  <2>2. f \in DOMAIN Files /\ settings = Settings(Files[f])
    BY <2>1, DefaultSettings DEF SettingsInv
  <2>3. f # ""
    BY <2>2, SettingsAssumption
  <2>4. \/ \E i \in DOMAIN args : args[i].text = f
        \/ f = "config.json" /\ Dashed(args) = {}
    <3>1. CASE Dashed(args) = {}
      BY <3>1 DEF FileName
    <3>2. CASE Dashed(args) # {}
      <4>1. f \in Named(args)
        BY <2>3, <3>2 DEF FileName
      <4>2. args \in Seq([dashes : Nat, text : STRING])
        BY CommandsAssumption DEF SettingsInv
      <4>3. PICK i \in DOMAIN args : i < Len(args) /\ args[i + 1].text = f
        BY <4>1 DEF Named, FileArguments, Dashed
      <4>4. i + 1 \in DOMAIN args
        BY <4>2, <4>3
      <4> QED BY <4>3, <4>4
    <3> QED BY <3>1, <3>2
  <2>5. ~ IsDemoAccount(s)
    BY <2>1, <2>2 DEF Settings
  <2>6. IF "demo_account" \in DOMAIN s THEN ~ s.demo_account
        ELSE "demo" \in DOMAIN s /\ ~ s.demo
    BY <2>5 DEF IsDemoAccount, Value, Reads
  <2> QED BY <2>2, <2>4, <2>6 DEF RealOnlyIfAsked
<1> QED BY <1>1, BotInvInit, BotInvKept, PTL DEF Spec

\* A hot key whose definition has a direction was read to its end.
LEMMA HotkeyRead ==
    ASSUME NEW entry, Hotkey(entry).direction \in {-1, 1}
    PROVE  /\ \A j \in 1 .. 5 : Value(entry, HotkeyKeys[j], Bad) # Bad
           /\ Hotkey(entry).symbol = entry.symbol /\ Hotkey(entry).amount = entry.amount
           /\ Hotkey(entry).direction = entry.direction
           /\ Hotkey(entry).duration = entry.duration
<1> DEFINE keys == {HotkeyKeys[i] : i \in 1 .. 5}
           read(k) == \A i \in 1 .. 5 : HotkeyKeys[i] = k => ReadsUpTo(entry, i)
<1>1. /\ HotkeyKeys[1] = "key" /\ HotkeyKeys[2] = "symbol" /\ HotkeyKeys[3] = "amount"
      /\ HotkeyKeys[4] = "duration" /\ HotkeyKeys[5] = "direction"
  BY DEF HotkeyKeys
<1>2. {"symbol", "amount", "duration", "direction"} \subseteq keys
  <2>1. /\ HotkeyKeys[2] \in keys /\ HotkeyKeys[3] \in keys /\ HotkeyKeys[4] \in keys
        /\ HotkeyKeys[5] \in keys
    OBVIOUS
  <2> QED BY <1>1, <2>1
<1>3. Hotkey(entry) = [k \in keys |-> IF read(k) THEN entry[k] ELSE NoHotkey[k]]
  BY DEF Hotkey
<1> HIDE DEF keys
<1>4. read("direction")
  <2>1. Hotkey(entry).direction = IF read("direction") THEN entry["direction"]
                                  ELSE NoHotkey["direction"]
    BY <1>2, <1>3
  <2>2. NoHotkey["direction"] = 0
    BY DEF NoHotkey
  <2> QED BY <2>1, <2>2
<1>5. ReadsUpTo(entry, 5)
  BY <1>1, <1>4
<1>6. \A j \in 1 .. 5 : Value(entry, HotkeyKeys[j], Bad) # Bad
  BY <1>5 DEF ReadsUpTo
<1>7. \A i \in 1 .. 5 : ReadsUpTo(entry, i)
  BY <1>6 DEF ReadsUpTo
<1>8. \A k \in keys : read(k)
  BY <1>7
<1> QED BY <1>2, <1>3, <1>6, <1>8

\* No bet is made with a hot key that the file does not define in full
\* (HotkeySettings, HotkeysSettings).
THEOREM HotkeysAreComplete == Spec => []HotkeysComplete
<1>1. SettingsInv /\ BetInv => HotkeysComplete
  <2> SUFFICES ASSUME SettingsInv, BetInv, bet.from = "key" PROVE HotkeysComplete
    BY DEF HotkeysComplete
  <2> DEFINE f == FileName(args)
             s == Section(Files[f], "hotkeys")
  <2>1. /\ bet.direction \in {-1, 1}
        /\ \E i \in DOMAIN settings.hotkey : OfHotkey(bet, settings.hotkey[i])
    BY DEF BetInv, BetOf
  <2>2. PICK i \in DOMAIN settings.hotkey : OfHotkey(bet, settings.hotkey[i])
    BY <2>1
  <2>3. f \in DOMAIN Files /\ settings = Settings(Files[f])
    BY <2>2, DefaultSettings DEF SettingsInv
  <2>4. settings.hotkey = IF Value(s, "use", FALSE) THEN Hotkeys(s) ELSE <<>>
    BY <2>3 DEF Settings
  <2>5. settings.hotkey = Hotkeys(s)
    <3>1. settings.hotkey # <<>>
      BY <2>2
    <3> QED BY <2>4, <3>1, Zenon
  <2> DEFINE entries == Value(s, "keys", <<>>)
  <2>6. i \in DOMAIN entries /\ settings.hotkey[i] = Hotkey(entries[i])
    BY <2>2, <2>5 DEF Hotkeys
  <2>7. entries = s.keys
    BY <2>6 DEF Value, Reads
  <2>8. open_json_file(f) = Files[f]
    BY <2>3 DEF open_json_file
  <2>9. Hotkey(entries[i]).direction \in {-1, 1}
    BY <2>1, <2>2, <2>6 DEF OfHotkey
  <2>10. /\ \A j \in 1 .. 5 : Value(entries[i], HotkeyKeys[j], Bad) # Bad
         /\ OfHotkey(bet, entries[i])
    BY <2>2, <2>6, <2>9, HotkeyRead DEF OfHotkey
  <2> QED BY <2>6, <2>7, <2>8, <2>10 DEF HotkeysComplete, OfHotkey
<1> QED BY <1>1, BotInvInit, BotInvKept, PTL DEF Spec

-----------------------------------------------------------------------------
(* The history                                                             *)

LEMMA Monotone ==
    ASSUME NEW a \in Nat, NEW b \in Nat, NEW p \in Nat \ {0}, a =< b
    PROVE  p * a =< p * b
  BY SMT

LEMMA Division ==
    ASSUME NEW x \in Nat, NEW p \in Nat \ {0}
    PROVE  /\ x = p * (x \div p) + (x % p)
           /\ x % p \in 0 .. (p - 1)
           /\ x \div p \in Nat
  BY SMT

LEMMA MultipleIs ==
    ASSUME NEW k \in Nat, NEW p \in Nat \ {0}
    PROVE  k * p \in Nat /\ k * p = p * k /\ (k * p) % p = 0
<1> DEFINE x == k * p
           d == x \div p
           m == x % p
<1>1. x \in Nat /\ x = p * k
  BY SMT
<1>2. x = p * d + m /\ m \in 0 .. (p - 1) /\ d \in Nat
  BY <1>1, Division
<1> HIDE DEF x, d, m
<1>3. p * d \in Nat /\ p * k \in Nat
  BY <1>2, SMT
<1>4. CASE k < d
  <2>1. p * (k + 1) =< p * d
    BY <1>2, <1>4, Monotone
  <2>2. p * (k + 1) = p * k + p
    BY SMT
  <2> QED BY <1>1, <1>2, <1>3, <2>1, <2>2
<1>5. CASE d < k
  <2>1. p * (d + 1) =< p * k
    BY <1>2, <1>5, Monotone
  <2>2. p * (d + 1) = p * d + p
    BY <1>2, SMT
  <2> QED BY <1>1, <1>2, <1>3, <2>1, <2>2
<1>6. d = k => p * d = p * k
  OBVIOUS
<1>7. m = 0 \/ k < d \/ d < k
  BY <1>1, <1>2, <1>3, <1>6
<1>8. m = 0 => x % p = 0
  BY DEF m
<1>9. x \in Nat /\ x = p * k /\ x = k * p
  BY <1>1 DEF x
<1> QED BY <1>4, <1>5, <1>7, <1>8, <1>9 DEF x

\* Between a multiple and a later one there is room for a period.
LEMMA NextMultiple ==
    ASSUME NEW a \in Nat, NEW b \in Nat, NEW p \in Nat \ {0},
           a % p = 0, b % p = 0, a < b
    PROVE  a + p =< b /\ (a + p) % p = 0
<1> DEFINE c == a \div p
           d == b \div p
<1>1. a = p * c /\ b = p * d /\ c \in Nat /\ d \in Nat
  BY Division
<1> HIDE DEF c, d
<1>2. c < d
  <2>1. CASE d =< c
    <3>1. p * d =< p * c
      BY <1>1, <2>1, Monotone
    <3> QED BY <1>1, <3>1
  <2> QED BY <1>1, <2>1
<1>3. p * (c + 1) =< p * d
  BY <1>1, <1>2, Monotone
<1>4. p * (c + 1) = a + p /\ (c + 1) * p = p * (c + 1)
  BY <1>1, SMT
<1>5. ((c + 1) * p) % p = 0
  <2>1. c + 1 \in Nat
    BY <1>1
  <2> QED BY <2>1, MultipleIs
<1> QED BY <1>1, <1>3, <1>4, <1>5

LEMMA LowestOf ==
    ASSUME NEW a \in Nat, NEW b \in Nat, NEW c \in Nat
    PROVE  /\ Min({a, b, c}) \in {a, b, c}
           /\ Min({a, b, c}) =< a /\ Min({a, b, c}) =< b /\ Min({a, b, c}) =< c
<1>1. \E x \in {a, b, c} : \A y \in {a, b, c} : x =< y
  <2>1. CASE a =< b /\ a =< c
    BY <2>1
  <2>2. CASE b =< a /\ b =< c
    BY <2>2
  <2>3. CASE c =< a /\ c =< b
    BY <2>3
  <2> QED BY <2>1, <2>2, <2>3
<1>2. Min({a, b, c}) \in {a, b, c} /\ \A y \in {a, b, c} : Min({a, b, c}) =< y
  BY <1>1 DEF Min
<1> QED BY <1>2

LEMMA NotNegative ==
    ASSUME NEW n \in Int
    PROVE  Max({0, n}) = IF n > 0 THEN n ELSE 0
<1>1. \E x \in {0, n} : \A y \in {0, n} : x >= y
  OBVIOUS
<1>2. Max({0, n}) \in {0, n} /\ \A y \in {0, n} : Max({0, n}) >= y
  BY <1>1 DEF Max
<1> QED BY <1>2

Ascending(bars) == \A i, j \in DOMAIN bars : i < j => bars[i] < bars[j]

\* What the broker has by now of the period p, and may tell
Has(b, p) == b % p = 0 /\ b - p < closing /\ b - p =< minute /\ (whole \/ b =< minute)

\* An answer holds the bars there are after its date, as far as it reaches, in
\* order.
LEMMA AnswerIs ==
    ASSUME NEW p \in Nat \ {0}, NEW from \in Nat, Reach(p) \in Nat,
           minute \in Nat, closing \in Nat, whole \in BOOLEAN
    PROVE  LET a == Answer(from, p)
           IN  /\ a \in Seq(Nat)
               /\ Ascending(a)
               /\ \A i \in DOMAIN a : a[i] \in (from + 1) .. (from + Reach(p)) /\ Has(a[i], p)
               /\ \A b \in (from + 1) .. (from + Reach(p)) :
                     Has(b, p) => \E i \in DOMAIN a : a[i] = b
<1> DEFINE now == IF whole THEN minute + p ELSE minute
           top == Min({from + Reach(p), closing + p - 1, now})
           q == top \div p
           r == from \div p
           n == Max({0, q - r})
           a == Answer(from, p)
<1>1. now \in Nat /\ closing + p - 1 \in Nat /\ from + Reach(p) \in Nat
  OBVIOUS
<1>2. /\ top \in Nat /\ top =< from + Reach(p) /\ top =< closing + p - 1 /\ top =< now
      /\ top \in {from + Reach(p), closing + p - 1, now}
  <2> HIDE DEF now
  <2> QED BY <1>1, LowestOf
<1>3. a = [i \in 1 .. n |-> (r + i) * p]
  BY DEF Answer
<1> HIDE DEF top
<1>4. /\ q \in Nat /\ r \in Nat
      /\ top = p * q + (top % p) /\ top % p \in 0 .. (p - 1)
      /\ from = p * r + (from % p) /\ from % p \in 0 .. (p - 1)
  BY <1>2, Division
<1> HIDE DEF q, r
<1>5. n \in Nat /\ \A i \in 1 .. n : r + i \in Nat /\ r + i =< q
  BY <1>4, NotNegative
<1>6. \A i \in Nat : r < i /\ i =< q => i - r \in 1 .. n
  BY <1>4, NotNegative
<1> HIDE DEF n, a
<1>7. p * q \in Nat /\ p * r \in Nat /\ p * (r + 1) = p * r + p /\ p * (q + 1) = p * q + p
  BY <1>4, SMT
<1>8. \A b \in Nat : Has(b, p) <=> b % p = 0 /\ b =< closing + p - 1 /\ b =< now
  BY DEF Has
<1>9. DOMAIN a = 1 .. n /\ \A i \in 1 .. n : a[i] = (r + i) * p
  BY <1>3
<1>10. ASSUME NEW i \in 1 .. n
       PROVE  a[i] \in Nat /\ a[i] \in (from + 1) .. (from + Reach(p)) /\ Has(a[i], p)
  <2> DEFINE k == r + i
  <2>1. k \in Nat /\ r + 1 =< k /\ k =< q
    <3>1. i \in Nat /\ 1 =< i
      BY <1>5
    <3>2. r + i \in Nat /\ r + i =< q
      BY <1>5
    <3>3. r \in Nat
      BY <1>4
    <3> QED BY <3>1, <3>2, <3>3
  <2> HIDE DEF k
  <2>2. k * p \in Nat /\ k * p = p * k /\ (k * p) % p = 0
    BY <2>1, MultipleIs
  <2>3. p * (r + 1) =< p * k /\ p * k =< p * q
    BY <1>4, <2>1, Monotone
  <2>4. from < k * p /\ k * p =< top
    BY <1>2, <1>4, <1>7, <2>2, <2>3
  <2>5. a[i] = k * p
    BY <1>9 DEF k
  <2> HIDE DEF now
  <2> QED BY <1>1, <1>2, <1>8, <2>2, <2>4, <2>5
<1>11. a \in Seq(Nat)
  <2>1. a \in [1 .. n -> Nat]
    BY <1>3, <1>9, <1>10
  <2> QED BY <1>5, <2>1
<1>12. Ascending(a)
  <2> SUFFICES ASSUME NEW i \in 1 .. n, NEW j \in 1 .. n, i < j
               PROVE  a[i] < a[j]
    BY <1>9 DEF Ascending
  <2> DEFINE k == r + i
             l == r + j
  <2>1. k \in Nat /\ l \in Nat /\ k + 1 =< l
    BY <1>4, <1>5
  <2>2. a[i] = k * p /\ a[j] = l * p
    BY <1>9
  <2> HIDE DEF k, l
  <2>3. p * (k + 1) =< p * l /\ p * (k + 1) = p * k + p
    <3>1. p * (k + 1) =< p * l
      BY <2>1, Monotone
    <3>2. p * (k + 1) = p * k + p
      BY <2>1, SMT
    <3> QED BY <3>1, <3>2
  <2>4. k * p = p * k /\ l * p = p * l /\ k * p \in Nat /\ l * p \in Nat
    BY <2>1, MultipleIs
  <2> QED BY <2>2, <2>3, <2>4
<1>13. ASSUME NEW b \in (from + 1) .. (from + Reach(p)), Has(b, p)
       PROVE  \E i \in DOMAIN a : a[i] = b
  <2> DEFINE k == b \div p
  <2>1. b \in Nat /\ b =< top
    <3> HIDE DEF now
    <3> QED BY <1>1, <1>2, <1>8, <1>13
  <2>2. b = p * k /\ k \in Nat
    <3>1. b % p = 0
      BY <1>13 DEF Has
    <3>2. b = p * k + (b % p) /\ k \in Nat
      BY <2>1, Division
    <3>3. p * k \in Nat
      BY <3>2, SMT
    <3> QED BY <3>1, <3>2, <3>3
  <2> HIDE DEF k
  <2>3. r < k
    <3>1. CASE k =< r
      <4>1. p * k =< p * r
        BY <1>4, <2>2, <3>1, Monotone
      <4> QED BY <1>4, <1>7, <2>2, <4>1
    <3> QED BY <1>4, <2>2, <3>1
  <2>4. k =< q
    <3>1. CASE q + 1 =< k
      <4>1. p * (q + 1) =< p * k
        BY <1>4, <2>2, <3>1, Monotone
      <4> QED BY <1>2, <1>4, <1>7, <2>1, <2>2, <4>1
    <3> QED BY <1>4, <2>2, <3>1
  <2>5. k - r \in 1 .. n /\ r + (k - r) = k
    <3>1. k - r \in 1 .. n
      BY <1>6, <2>2, <2>3, <2>4
    <3> QED BY <1>4, <2>2, <3>1
  <2>6. a[k - r] = k * p
    BY <1>9, <2>5
  <2>7. k * p = p * k
    BY <2>2, MultipleIs
  <2> QED BY <1>9, <2>2, <2>5, <2>6, <2>7
<1> QED BY <1>9, <1>10, <1>11, <1>12, <1>13 DEF a

\* The bars of one answer after those of another
LEMMA Joined ==
    ASSUME NEW s \in Seq(Nat), NEW t \in Seq(Nat)
    PROVE  /\ s \o t \in Seq(Nat)
           /\ DOMAIN (s \o t) = 1 .. (Len(s) + Len(t))
           /\ Len(s \o t) = Len(s) + Len(t)
           /\ \A i \in DOMAIN s : i \in DOMAIN (s \o t) /\ (s \o t)[i] = s[i]
           /\ \A i \in DOMAIN t : Len(s) + i \in DOMAIN (s \o t) /\ (s \o t)[Len(s) + i] = t[i]
           /\ \A i \in DOMAIN (s \o t) :
                 \/ i \in DOMAIN s /\ (s \o t)[i] = s[i]
                 \/ i - Len(s) \in DOMAIN t /\ i > Len(s) /\ (s \o t)[i] = t[i - Len(s)]
<1> DEFINE u == s \o t
<1>1. u \in Seq(Nat) /\ Len(u) = Len(s) + Len(t)
  OBVIOUS
<1>2. /\ DOMAIN u = 1 .. (Len(s) + Len(t))
      /\ DOMAIN s = 1 .. Len(s) /\ DOMAIN t = 1 .. Len(t)
      /\ Len(s) \in Nat /\ Len(t) \in Nat
  BY <1>1
<1>3. \A i \in 1 .. Len(s) : u[i] = s[i]
  OBVIOUS
<1>4. \A i \in 1 .. Len(t) : u[Len(s) + i] = t[i]
  OBVIOUS
<1> HIDE DEF u
<1>5. ASSUME NEW i \in DOMAIN t PROVE Len(s) + i \in DOMAIN u /\ u[Len(s) + i] = t[i]
  BY <1>2, <1>4
<1>6. ASSUME NEW i \in DOMAIN u
      PROVE  \/ i \in DOMAIN s /\ u[i] = s[i]
             \/ i - Len(s) \in DOMAIN t /\ i > Len(s) /\ u[i] = t[i - Len(s)]
  <2>1. CASE i =< Len(s)
    BY <1>2, <1>3, <2>1
  <2>2. CASE i > Len(s)
    <3>1. i - Len(s) \in 1 .. Len(t) /\ Len(s) + (i - Len(s)) = i
      BY <1>2, <2>2
    <3> QED BY <1>2, <1>4, <2>2, <3>1
  <2> QED BY <1>2, <2>1, <2>2
<1>7. \A i \in DOMAIN s : i \in DOMAIN u /\ u[i] = s[i]
  BY <1>2, <1>3
<1> QED BY <1>1, <1>2, <1>5, <1>6, <1>7 DEF u

LEMMA JoinedAscending ==
    ASSUME NEW s \in Seq(Nat), NEW t \in Seq(Nat), NEW m \in Nat,
           Ascending(s), Ascending(t),
           \A i \in DOMAIN s : s[i] =< m, \A i \in DOMAIN t : m < t[i]
    PROVE  Ascending(s \o t)
<1> DEFINE u == s \o t
<1> SUFFICES ASSUME NEW i \in DOMAIN u, NEW j \in DOMAIN u, i < j
             PROVE  u[i] < u[j]
  BY DEF Ascending
<1>1. \A k \in DOMAIN u : \/ k \in DOMAIN s /\ u[k] = s[k]
                          \/ k - Len(s) \in DOMAIN t /\ k > Len(s) /\ u[k] = t[k - Len(s)]
  BY Joined
<1>2. /\ \A k \in DOMAIN s : k =< Len(s) /\ s[k] \in Nat
      /\ \A k \in DOMAIN t : t[k] \in Nat
      /\ Len(s) \in Nat /\ i \in Nat /\ j \in Nat
  BY Joined
<1> HIDE DEF u
<1>3. CASE i \in DOMAIN s /\ u[i] = s[i] /\ j \in DOMAIN s /\ u[j] = s[j]
  BY <1>3 DEF Ascending
<1>4. CASE i \in DOMAIN s /\ u[i] = s[i] /\ j - Len(s) \in DOMAIN t /\ u[j] = t[j - Len(s)]
  BY <1>2, <1>4
<1>5. CASE /\ i - Len(s) \in DOMAIN t /\ u[i] = t[i - Len(s)]
           /\ j - Len(s) \in DOMAIN t /\ u[j] = t[j - Len(s)]
  <2>1. i - Len(s) < j - Len(s)
    BY <1>2
  <2> QED BY <1>5, <2>1 DEF Ascending
<1>6. CASE i > Len(s) /\ j \in DOMAIN s
  BY <1>2, <1>6
<1> QED BY <1>1, <1>3, <1>4, <1>5, <1>6

\* The main thread is between two requests of a series, or has ended one.
Fetching == main \in {"check", "wait", "request"}
AtSeries == Fetching \/ (main = "series" /\ series > 0)

\* The symbols the download goes through, and where it is
SeriesInv ==
    /\ closing \in Nat /\ whole \in BOOLEAN
    /\ minute \in Nat
    /\ main \in DownloadMain => minute =< MaxMinute
    /\ main = "start" => series = 0
    /\ main \in DownloadMain \ {"start"} =>
          /\ settings.candles \in Nat
          /\ Len(settings.symbols) \in Nat
          /\ DOMAIN settings.symbols = 1 .. Len(settings.symbols)
          /\ \A i \in DOMAIN settings.symbols : settings.symbols[i].period \in Period
          /\ series \in 0 .. Len(settings.symbols)
    /\ Fetching => series > 0

\* The bars that the download of a series is to bring up to a time
Due(to) == {b \in start_date + 1 .. to : b % Current.period = 0 /\ b - Current.period < closing}

Holds(bars, b) == \E i \in DOMAIN bars : bars[i] = b

\* With the short periods the requests go on where the last one ended.
Short ==
    /\ start_date =< current_date
    /\ Ascending(candles)
    /\ \A i \in DOMAIN candles : candles[i] =< current_date
    /\ \A b \in Due(stop_date) : b =< current_date => Holds(candles, b) \/ b \in lost

\* With the long ones, which ask for the same date again, the loop cannot end any
\* more once an answer that was read in full fell short: a bar twice is never in a
\* complete history.
Long ==
    /\ current_date = start_date
    /\ candles # <<>> =>
          /\ \A i \in DOMAIN candles : candles[i] < stop_date
          /\ \A b \in Due(start_date + Reach(Current.period)) : b < stop_date

DatesInv ==
    AtSeries =>
        /\ start_date \in Nat /\ current_date \in Nat /\ stop_date \in Nat
        /\ stop_date =< minute
        /\ candles \in Seq(Nat)
        /\ IF main = "series" THEN HistoryComplete
           ELSE IF Current.period \in ShortPeriod THEN Short
           ELSE whole /\ lost = {} => Long

HistoryInv == SeriesInv /\ DatesInv

LEMMA HistoryInvInit == Init => HistoryInv
BY DownloadAssumption
   DEF Init, DownloadInit, HistoryInv, SeriesInv, DatesInv, AtSeries, Fetching, DownloadMain

LEMMA HistoryStarts ==
    ASSUME HistoryInv, Starts
    PROVE  HistoryInv'
<1> DEFINE doc == open_json_file(FileName(args))
<1>1. /\ main = "start" /\ main' \in {"failed", "series"}
      /\ settings' = IF SettingsError(doc) THEN settings ELSE Settings(doc)
      /\ main' = "series" => ~ SettingsError(doc) /\ ~ SymbolsFail(settings'.symbols)
      /\ UNCHANGED <<minute, series, closing, whole>>
  BY DEF Starts, loopVars, brokerVars
<1>2. ~ SettingsError(doc) => \E f \in DOMAIN Files : doc = Files[f]
  BY DEF SettingsError, open_json_file
<1> HIDE DEF doc
<1>3. ASSUME main' = "series"
      PROVE  /\ settings'.candles \in Nat
             /\ Len(settings'.symbols) \in Nat
             /\ DOMAIN settings'.symbols = 1 .. Len(settings'.symbols)
             /\ \A i \in DOMAIN settings'.symbols : settings'.symbols[i].period \in Period
  BY <1>1, <1>2, <1>3, ListAssumption DEF SymbolsFail
<1>4. SeriesInv'
  BY <1>1, <1>3 DEF HistoryInv, SeriesInv, DownloadMain, Fetching
<1>5. ~ AtSeries'
  BY <1>1 DEF HistoryInv, SeriesInv, AtSeries, Fetching
<1> QED BY <1>4, <1>5 DEF HistoryInv, DatesInv

LEMMA AlignedIs ==
    ASSUME NEW date \in Nat, NEW p \in Nat \ {0}, Reach(p) \in Nat \ {0}
    PROVE  Aligned(date, p) \in Nat
<1>1. \A x \in Nat, d \in Nat \ {0} : x - (x % d) \in Nat
  <2> TAKE x \in Nat, d \in Nat \ {0}
  <2>1. x = d * (x \div d) + (x % d) /\ x % d \in 0 .. (d - 1) /\ x \div d \in Nat
    BY Division
  <2>2. d * (x \div d) \in Nat
    BY <2>1, SMT
  <2> QED BY <2>1, <2>2
<1>2. date - (date % Day) \in Nat
  BY <1>1, DownloadAssumption
<1> QED BY <1>1, <1>2 DEF Aligned

LEMMA PeriodIs ==
    ASSUME NEW p \in Period
    PROVE  p \in Nat \ {0} /\ Reach(p) \in Nat \ {0}
<1>1. p \in Nat \ {0} /\ Span[p] \in Nat \ {0} /\ Day \in Nat \ {0}
  BY DownloadAssumption
<1> QED BY <1>1, SMT DEF Reach

LEMMA HistoryNextSeries ==
    ASSUME HistoryInv, NextSeries
    PROVE  HistoryInv'
<1> DEFINE s == settings.symbols[series + 1]
           h == (s.period * settings.candles) % Uint32
           date == (minute - h) % Uint64
<1>1. /\ main = "series" /\ main' = "check" /\ series < Len(settings.symbols)
      /\ series' = series + 1 /\ stop_date' = minute /\ current_date' = start_date'
      /\ start_date' = Aligned(date, s.period)
      /\ candles' = <<>>
      /\ UNCHANGED <<settings, minute, closing, whole>>
  BY DEF NextSeries, Goes, givenVars, brokerVars
<1>2. SeriesInv' /\ s.period \in Period /\ Current' = s /\ settings.candles \in Nat
      /\ minute \in Nat
  BY <1>1 DEF HistoryInv, SeriesInv, DownloadMain, Fetching, Current
<1>3. start_date' \in Nat
  <2>1. s.period \in Nat \ {0} /\ Reach(s.period) \in Nat \ {0}
    BY <1>2, PeriodIs
  <2> HIDE DEF s
  <2> DEFINE product == s.period * settings.candles
  <2>2. product \in Nat
    BY <1>2, <2>1, SMT
  <2> HIDE DEF product
  <2>3. product % Uint32 \in Nat
    BY <2>2, DownloadAssumption
  <2>4. h \in Nat
    BY <2>3 DEF product
  <2> HIDE DEF h
  <2>5. minute - h \in Int
    BY <1>2, <2>4
  <2>6. date \in Nat
    BY <2>5, DownloadAssumption
  <2> QED BY <1>1, <2>1, <2>6, AlignedIs
<1> HIDE DEF s
<1>4. Short'
  BY <1>1, <1>3 DEF Short, Ascending, Due
<1>5. Long'
  BY <1>1 DEF Long
<1> QED BY <1>1, <1>2, <1>3, <1>4, <1>5 DEF HistoryInv, DatesInv, SeriesInv

\* Neither the limit of requests nor a minute that passes changes what was asked.
LEMMA HistoryWaits ==
    ASSUME HistoryInv, FirstRequest \/ SameMinute \/ NewMinute \/ WaitOver \/ Tick
    PROVE  HistoryInv'
<1>1. /\ main' = main \/ {main, main'} \subseteq {"check", "wait", "request"}
      /\ main \in DownloadMain \ {"start"}
      /\ UNCHANGED <<settings, loopVars, closing, whole>>
      /\ minute' = minute \/ (minute' = minute + 1 /\ minute < MaxMinute)
  BY DEF FirstRequest, SameMinute, NewMinute, WaitOver, Tick, CheckFrame, Goes, givenVars, brokerVars,
         DownloadMain
<1>2. SeriesInv' /\ minute \in Nat /\ minute =< minute'
  BY <1>1, DownloadAssumption DEF HistoryInv, SeriesInv, DownloadMain, Fetching, loopVars
<1>3. Current' = Current
  BY <1>1 DEF Current, loopVars
<1>4. HistoryComplete' = HistoryComplete \/ main' # "series"
  BY <1>1, <1>3 DEF HistoryComplete, loopVars
<1>5. Short' = Short /\ Long' = Long
  BY <1>1, <1>3 DEF Short, Long, Due, loopVars
<1>6. AtSeries' = AtSeries /\ (main' = "series") = (main = "series")
  BY <1>1 DEF AtSeries, Fetching, loopVars
<1>7. DatesInv'
  BY <1>1, <1>2, <1>3, <1>4, <1>5, <1>6 DEF HistoryInv, SeriesInv, DatesInv, loopVars
<1> QED BY <1>2, <1>7 DEF HistoryInv

LEMMA HistoryFails ==
    ASSUME HistoryInv, RequestFails
    PROVE  HistoryInv'
<1>1. /\ main = "request" /\ main' = "series" /\ err' = TRUE
      /\ UNCHANGED <<settings, minute, series, start_date, current_date, stop_date, candles, lost,
                     closing, whole>>
  BY DEF RequestFails, Goes, givenVars, brokerVars
<1>2. SeriesInv' /\ AtSeries
  BY <1>1 DEF HistoryInv, SeriesInv, DownloadMain, Fetching, AtSeries
<1>3. HistoryComplete'
  BY <1>1 DEF HistoryComplete
<1> QED BY <1>1, <1>2, <1>3 DEF HistoryInv, DatesInv

\* What is read of an answer is in order too.
LEMMA ReadingIs ==
    ASSUME NEW s \in Seq(Nat), Ascending(s), NEW r \in Readings(Len(s))
    PROVE  LET a == [i \in DOMAIN r |-> s[r[i]]]
           IN  /\ a \in Seq(Nat) /\ Ascending(a)
               /\ \A i \in DOMAIN a : a[i] \in {s[k] : k \in DOMAIN s}
<1> DEFINE a == [i \in DOMAIN r |-> s[r[i]]]
<1>1. /\ r \in Seq(Nat \ {0})
      /\ \A i \in DOMAIN r : r[i] =< Len(s)
      /\ \A i, j \in DOMAIN r : i < j => r[i] < r[j]
  <2>1. CASE r = [i \in 1 .. Len(s) |-> i]
    <3>1. r \in [1 .. Len(s) -> Nat \ {0}] /\ Len(s) \in Nat
      BY <2>1
    <3> QED BY <2>1, <3>1
  <2>2. CASE r \in Misread /\ \A i \in DOMAIN r : r[i] <= Len(s)
    BY <2>2, MisreadAssumption
  <2> QED BY <2>1, <2>2 DEF Readings
<1>2. \A i \in DOMAIN r : r[i] \in DOMAIN s /\ s[r[i]] \in Nat
  BY <1>1
<1>3. DOMAIN a = DOMAIN r /\ \A i \in DOMAIN r : a[i] = s[r[i]]
  OBVIOUS
<1>4. a \in Seq(Nat)
  <2>1. DOMAIN r = 1 .. Len(r) /\ Len(r) \in Nat
    BY <1>1
  <2>2. a \in [1 .. Len(r) -> Nat]
    BY <1>2, <2>1
  <2> QED BY <2>1, <2>2
<1> HIDE DEF a
<1> QED BY <1>1, <1>2, <1>3, <1>4 DEF Ascending, a

LEMMA HistoryRequest ==
    ASSUME HistoryInv, Request
    PROVE  HistoryInv'
<1> DEFINE p == Current.period
           reach == Reach(p)
           answer == Answer(current_date, p)
<1>r. PICK r \in Readings(Len(answer)) :
         /\ candles' = candles \o [i \in DOMAIN r |-> answer[r[i]]]
         /\ lost' = lost \cup {answer[k] : k \in DOMAIN answer \ {r[i] : i \in DOMAIN r}}
  BY DEF Request
<1> DEFINE a == [i \in DOMAIN r |-> answer[r[i]]]
           bars == candles \o a
<1>1. /\ main = "request" /\ main' = (IF Ends(bars) THEN "series" ELSE "check")
      /\ candles' = bars
      /\ current_date' = IF Ends(bars) \/ current_date > MaxMinute + p THEN current_date
                         ELSE current_date + TimePeriod(p)
      /\ UNCHANGED <<settings, minute, series, start_date, stop_date, err, closing, whole>>
  <2>1. candles' = bars
    BY <1>r
  <2> HIDE DEF a, bars
  <2> QED BY <2>1 DEF Request, givenVars, brokerVars
<1>2. /\ p \in Period /\ minute \in Nat /\ closing \in Nat /\ whole \in BOOLEAN
      /\ minute =< MaxMinute /\ SeriesInv' /\ series > 0
  BY <1>1 DEF HistoryInv, SeriesInv, DownloadMain, Fetching, Current
<1>3. /\ start_date \in Nat /\ current_date \in Nat /\ stop_date \in Nat
      /\ stop_date =< minute /\ candles \in Seq(Nat)
      /\ IF p \in ShortPeriod THEN Short ELSE whole /\ lost = {} => Long
  BY <1>1 DEF HistoryInv, DatesInv, AtSeries, Fetching
<1>4. Current' = Current
  BY <1>1 DEF Current
<1>5. p \in Nat \ {0} /\ reach \in Nat \ {0}
  BY <1>2, PeriodIs
<1>6. /\ a \in Seq(Nat) /\ Ascending(a)
      /\ \A i \in DOMAIN a : a[i] \in (current_date + 1) .. (current_date + reach) /\ Has(a[i], p)
      /\ \A b \in (current_date + 1) .. (current_date + reach) :
            Has(b, p) => Holds(a, b) \/ b \in lost'
      /\ lost \subseteq lost'
  <2>1. /\ answer \in Seq(Nat) /\ Ascending(answer)
        /\ \A i \in DOMAIN answer :
              answer[i] \in (current_date + 1) .. (current_date + reach) /\ Has(answer[i], p)
        /\ \A b \in (current_date + 1) .. (current_date + reach) :
              Has(b, p) => \E i \in DOMAIN answer : answer[i] = b
    BY <1>2, <1>3, <1>5, AnswerIs
  <2> HIDE DEF answer, p, reach
  <2>2. /\ \A i \in DOMAIN a : a[i] \in {answer[k] : k \in DOMAIN answer}
        /\ a \in Seq(Nat) /\ Ascending(a)
    BY <2>1, ReadingIs
  <2>3. \A k \in DOMAIN answer : Holds(a, answer[k]) \/ answer[k] \in lost'
    BY <1>r DEF Holds
  <2> HIDE DEF a
  <2> QED BY <1>r, <2>1, <2>2, <2>3
<1>7. TimePeriod(p) = IF p \in ShortPeriod THEN reach ELSE 0
  BY DEF TimePeriod
<1>8. \A to : Due(to) = {b \in start_date + 1 .. to : b % p = 0 /\ b - p < closing}
  BY DEF Due
<1>9. HistoryComplete' =
        (main' = "series" /\ series > 0 /\ ~ err /\ (p \in ShortPeriod \/ (whole /\ lost' = {})) =>
            Ascending(bars) /\ \A b \in Due(stop_date) : Holds(bars, b) \/ b \in lost')
  <2> DEFINE held == {bars[i] : i \in DOMAIN bars}
  <2>1. Due(stop_date) \subseteq held \cup lost'
           <=> \A b \in Due(stop_date) : Holds(bars, b) \/ b \in lost'
    BY DEF Holds
  <2> HIDE DEF a, bars
  <2> QED BY <1>1, <1>4, <1>8, <2>1 DEF HistoryComplete, Ascending
<1>10. Short' = /\ start_date =< current_date'
                /\ Ascending(bars)
                /\ \A i \in DOMAIN bars : bars[i] =< current_date'
                /\ \A b \in Due(stop_date) :
                      b =< current_date' => Holds(bars, b) \/ b \in lost'
  <2>1. Due(stop_date)' = Due(stop_date)
    BY <1>1, <1>4 DEF Due
  <2> HIDE DEF a, bars
  <2> QED BY <1>1, <2>1 DEF Short, Ascending, Holds
<1>11. Long' = /\ current_date' = start_date
               /\ bars # <<>> => /\ \A i \in DOMAIN bars : bars[i] < stop_date
                                 /\ \A b \in Due(start_date + reach) : b < stop_date
  <2>1. Due(start_date + Reach(Current.period))' = Due(start_date + reach)
    BY <1>1, <1>4 DEF Due
  <2> HIDE DEF a, bars
  <2> QED BY <1>1, <2>1 DEF Long
<1> HIDE DEF p, a, reach, answer
<1>12. /\ bars \in Seq(Nat) /\ Len(bars) = Len(candles) + Len(a)
       /\ \A b : Holds(bars, b) <=> Holds(candles, b) \/ Holds(a, b)
       /\ \A i \in DOMAIN bars : Holds(candles, bars[i]) \/ Holds(a, bars[i])
  <2>1. candles \in Seq(Nat) /\ a \in Seq(Nat)
    BY <1>3, <1>6
  <2>2. bars \in Seq(Nat) /\ Len(bars) = Len(candles) + Len(a)
    BY <2>1, Joined
  <2>3. ASSUME NEW i \in DOMAIN bars PROVE Holds(candles, bars[i]) \/ Holds(a, bars[i])
    BY <2>1, <2>3, Joined DEF Holds
  <2>4. ASSUME NEW b, Holds(bars, b) PROVE Holds(candles, b) \/ Holds(a, b)
    BY <2>3, <2>4 DEF Holds
  <2>5. ASSUME NEW b, Holds(candles, b) \/ Holds(a, b) PROVE Holds(bars, b)
    <3>1. CASE Holds(candles, b)
      BY <2>1, <3>1, Joined DEF Holds
    <3>2. CASE Holds(a, b)
      <4>1. PICK i \in DOMAIN a : a[i] = b
        BY <3>2 DEF Holds
      <4>2. Len(candles) + i \in DOMAIN bars /\ bars[Len(candles) + i] = a[i]
        BY <2>1, Joined
      <4> QED BY <4>1, <4>2 DEF Holds
    <3> QED BY <2>5, <3>1, <3>2
  <2> QED BY <2>2, <2>3, <2>4, <2>5
<1>13. a # <<>> => /\ Len(a) \in DOMAIN a /\ bars # <<>> /\ bars[Len(bars)] = a[Len(a)]
                   /\ \A i \in DOMAIN a : a[i] =< a[Len(a)]
  <2> SUFFICES ASSUME a # <<>>
               PROVE  /\ Len(a) \in DOMAIN a /\ bars # <<>> /\ bars[Len(bars)] = a[Len(a)]
                      /\ \A i \in DOMAIN a : a[i] =< a[Len(a)]
    OBVIOUS
  <2>1. Len(a) \in DOMAIN a /\ DOMAIN a = 1 .. Len(a) /\ Len(a) \in Nat
    BY <1>6
  <2>2. Len(candles) + Len(a) \in DOMAIN bars /\ bars[Len(candles) + Len(a)] = a[Len(a)]
    BY <1>3, <1>6, <2>1, Joined
  <2>3. bars # <<>>
    BY <2>2
  <2>4. ASSUME NEW i \in DOMAIN a PROVE a[i] =< a[Len(a)]
    <3>1. i = Len(a) \/ i < Len(a)
      BY <2>1
    <3>2. a[i] \in Nat /\ a[Len(a)] \in Nat
      BY <1>6, <2>1
    <3> QED BY <1>6, <2>1, <3>1, <3>2 DEF Ascending
  <2> QED BY <1>12, <2>1, <2>2, <2>3, <2>4
<1>14. a = <<>> => bars = candles
  BY <1>3
<1>15. candles # <<>> => Len(candles) \in DOMAIN candles
  BY <1>3
<1> HIDE DEF bars
\* A bar that is due and not yet asked for is in an answer that reaches it.
<1>16. ASSUME NEW b \in Due(stop_date), current_date < b, b =< current_date + reach
       PROVE  Holds(a, b) \/ b \in lost'
  <2>1. b \in Nat /\ b =< minute /\ b % p = 0 /\ b - p < closing
    BY <1>3, <1>2, <1>8, <1>16
  <2>2. Has(b, p)
    BY <1>2, <1>5, <2>1 DEF Has
  <2> QED BY <1>3, <1>5, <1>6, <1>16, <2>1, <2>2
<1>17. CASE p \in ShortPeriod
  <2>1. Short
    BY <1>3, <1>17
  <2>2. Ascending(bars)
    <3>1. \A i \in DOMAIN a : current_date < a[i]
      BY <1>3, <1>5, <1>6
    <3> QED BY <1>3, <1>6, <2>1, <3>1, JoinedAscending DEF Short, bars
  <2>3. ASSUME Ends(bars), NEW b \in Due(stop_date) PROVE Holds(bars, b) \/ b \in lost'
    <3>1. b \in Nat /\ b =< stop_date
      BY <1>3, <1>8
    <3>2. CASE b =< current_date
      BY <1>6, <1>12, <2>1, <3>2 DEF Short
    <3>3. CASE current_date < b
      <4>1. a # <<>>
        <5> SUFFICES ASSUME a = <<>> PROVE FALSE
          OBVIOUS
        <5>1. candles # <<>> /\ candles[Len(candles)] >= stop_date
          BY <1>14, <2>3 DEF Ends
        <5>2. candles[Len(candles)] =< current_date /\ candles[Len(candles)] \in Nat
          BY <1>3, <1>15, <2>1, <5>1 DEF Short
        <5> QED BY <1>3, <3>1, <3>3, <5>1, <5>2
      <4>2. a[Len(a)] >= stop_date /\ a[Len(a)] \in Nat /\ a[Len(a)] =< current_date + reach
        BY <1>3, <1>5, <1>6, <1>13, <2>3, <4>1 DEF Ends
      <4>3. b =< current_date + reach
        BY <1>3, <1>5, <3>1, <4>2
      <4> QED BY <1>12, <1>16, <3>3, <4>3
    <3> QED BY <1>3, <3>1, <3>2, <3>3
  <2>4. ASSUME ~ Ends(bars) PROVE Short'
    <3>1. current_date > MaxMinute + p => a = <<>>
      <4> SUFFICES ASSUME current_date > MaxMinute + p, a # <<>> PROVE FALSE
        OBVIOUS
      <4>1. a[Len(a)] \in Nat /\ a[Len(a)] > current_date /\ a[Len(a)] - p =< minute
        BY <1>3, <1>5, <1>6, <1>13 DEF Has
      <4>2. MaxMinute \in Nat
        BY DownloadAssumption
      <4> QED BY <1>2, <1>3, <1>5, <4>1, <4>2
    <3>2. current_date' = IF current_date > MaxMinute + p THEN current_date ELSE current_date + reach
      BY <1>1, <1>7, <1>17, <2>4
    <3>3. current_date' \in Nat /\ current_date =< current_date'
      BY <1>3, <1>5, <3>2
    <3>4. ASSUME NEW i \in DOMAIN bars PROVE bars[i] =< current_date'
      <4>1. CASE Holds(candles, bars[i])
        <5>1. bars[i] =< current_date /\ bars[i] \in Nat
          BY <1>3, <2>1, <4>1 DEF Short, Holds
        <5> QED BY <1>3, <3>3, <5>1
      <4>2. CASE Holds(a, bars[i])
        <5>1. a # <<>> /\ bars[i] =< current_date + reach
          BY <1>3, <1>5, <1>6, <4>2 DEF Holds
        <5> QED BY <3>1, <3>2, <5>1
      <4> QED BY <1>12, <4>1, <4>2
    <3>5. ASSUME NEW b \in Due(stop_date), b =< current_date' PROVE Holds(bars, b) \/ b \in lost'
      <4>1. b \in Nat
        BY <1>3, <1>8
      <4>2. CASE b =< current_date
        BY <1>6, <1>12, <2>1, <4>2 DEF Short
      <4>3. CASE current_date < b
        <5>1. b =< current_date + reach
          BY <1>3, <3>2, <3>5, <4>1, <4>3
        <5> QED BY <1>12, <1>16, <4>3, <5>1
      <4> QED BY <1>3, <4>1, <4>2, <4>3
    <3>6. start_date =< current_date'
      BY <1>3, <2>1, <3>3 DEF Short
    <3> QED BY <1>10, <2>2, <3>4, <3>5, <3>6
  <2>5. current_date' \in Nat
    BY <1>1, <1>3, <1>5, <1>7, <1>17
  <2>6. Ends(bars) => HistoryComplete'
    BY <1>9, <2>2, <2>3
  <2>7. Current.period' \in ShortPeriod
    BY <1>4, <1>17 DEF p
  <2> QED BY <1>1, <1>2, <1>3, <1>12, <2>4, <2>5, <2>6, <2>7 DEF HistoryInv, DatesInv
<1>18. CASE p \notin ShortPeriod
  <2>1. current_date' = current_date
    BY <1>1, <1>3, <1>7, <1>18
  <2>2. ASSUME whole, lost' = {} PROVE IF Ends(bars) THEN HistoryComplete' ELSE Long'
    <3>1. Long
      BY <1>3, <1>6, <1>18, <2>2
    <3>2. \A i \in DOMAIN a : a[i] \in Due(start_date + reach) /\ a[i] \in Nat
      <4> TAKE i \in DOMAIN a
      <4>1. a[i] \in (start_date + 1) .. (start_date + reach) /\ Has(a[i], p)
        BY <1>6, <3>1 DEF Long
      <4> QED BY <1>3, <1>8, <4>1 DEF Has
    <3>3. CASE Ends(bars)
      <4>1. candles = <<>>
        <5> SUFFICES ASSUME candles # <<>> PROVE FALSE
          OBVIOUS
        <5>1. \A b \in Due(start_date + reach) : b < stop_date
          BY <3>1 DEF Long, reach, p
        <5>2. CASE a # <<>>
          BY <1>3, <1>13, <3>2, <3>3, <5>1, <5>2 DEF Ends
        <5>3. CASE a = <<>>
          BY <1>3, <1>14, <1>15, <3>1, <3>3, <5>3 DEF Ends, Long
        <5> QED BY <5>2, <5>3
      <4>2. bars = a /\ a # <<>>
        BY <1>6, <3>3, <4>1 DEF bars, Ends
      <4>3. a[Len(a)] >= stop_date /\ a[Len(a)] \in Nat /\ a[Len(a)] =< current_date + reach
        BY <1>3, <1>5, <1>6, <1>13, <3>3, <4>2 DEF Ends
      <4>4. ASSUME NEW b \in Due(stop_date) PROVE Holds(a, b)
        <5>1. b \in Nat /\ b =< stop_date /\ current_date < b
          BY <1>3, <1>8, <3>1 DEF Long
        <5>2. b =< current_date + reach
          BY <1>3, <1>5, <4>3, <5>1
        <5> QED BY <1>16, <2>2, <5>1, <5>2
      <4> QED BY <1>6, <1>9, <3>3, <4>2, <4>4
    <3>4. CASE ~ Ends(bars)
      <4>1. ASSUME NEW i \in DOMAIN bars PROVE bars[i] < stop_date
        <5>1. CASE Holds(candles, bars[i])
          <6>1. candles # <<>>
            BY <5>1 DEF Holds
          <6> QED BY <3>1, <5>1, <6>1 DEF Holds, Long
        <5>2. CASE Holds(a, bars[i])
          <6>1. a # <<>> /\ bars[i] =< a[Len(a)] /\ bars[i] \in Nat /\ a[Len(a)] \in Nat
            BY <1>13, <3>2, <5>2 DEF Holds
          <6>2. a[Len(a)] < stop_date
            BY <1>3, <1>13, <3>4, <6>1 DEF Ends
          <6> QED BY <1>3, <6>1, <6>2
        <5> QED BY <1>12, <4>1, <5>1, <5>2
      <4>2. ASSUME bars # <<>>, NEW b \in Due(start_date + reach) PROVE b < stop_date
        <5>1. CASE candles # <<>>
          BY <3>1, <4>2, <5>1 DEF Long, reach, p
        <5>2. CASE candles = <<>>
          <6>1. a # <<>>
            BY <1>14, <4>2, <5>2
          <6> DEFINE l == a[Len(a)]
          <6>2. l \in Nat /\ l < stop_date /\ Has(l, p)
            BY <1>3, <1>6, <1>13, <3>2, <3>4, <6>1 DEF Ends
          <6>3. b \in Nat /\ b % p = 0 /\ b - p < closing /\ b =< start_date + reach
            BY <1>3, <1>5, <1>8
          <6> SUFFICES ASSUME stop_date =< b PROVE FALSE
            BY <1>3, <6>3
          <6> HIDE DEF l
          <6>4. l < b /\ l % p = 0
            BY <1>3, <6>2, <6>3 DEF Has
          <6>5. l + p =< b /\ (l + p) % p = 0
            BY <1>5, <6>2, <6>3, <6>4, NextMultiple
          <6>6. Has(l + p, p)
            BY <1>2, <1>3, <1>5, <2>2, <6>2, <6>3, <6>5 DEF Has
          <6>7. l + p \in (current_date + 1) .. (current_date + reach)
            <7>1. l > current_date
              BY <1>3, <1>5, <1>6, <1>13, <6>1 DEF l
            <7>2. current_date = start_date
              BY <3>1 DEF Long
            <7>3. current_date + 1 =< l + p
              BY <1>3, <1>5, <6>2, <7>1
            <7>4. l + p =< current_date + reach
              BY <1>3, <1>5, <6>2, <6>3, <6>5, <7>2
            <7> QED BY <1>3, <1>5, <6>2, <7>3, <7>4
          <6>8. \E i \in DOMAIN a : a[i] = l + p
            BY <1>6, <2>2, <6>6, <6>7 DEF Holds
          <6> QED BY <1>5, <1>13, <6>1, <6>2, <6>8 DEF l
        <5> QED BY <5>1, <5>2
      <4> QED BY <1>11, <2>1, <3>1, <3>4, <4>1, <4>2 DEF Long
    <3> QED BY <3>3, <3>4
  <2>3. ~ (whole /\ lost' = {}) => HistoryComplete'
    BY <1>9, <1>18
  <2> QED BY <1>1, <1>2, <1>3, <1>4, <1>12, <1>18, <2>1, <2>2, <2>3 DEF HistoryInv, DatesInv, p
<1> QED BY <1>17, <1>18

LEMMA HistoryInvKept == HistoryInv /\ [Next]_vars => HistoryInv'
<1> SUFFICES ASSUME HistoryInv, [Next]_vars PROVE HistoryInv'
  OBVIOUS
<1>1. CASE UNCHANGED downloadVars
  BY <1>1
     DEF downloadVars, givenVars, limitVars, loopVars, brokerVars, HistoryInv, SeriesInv, DatesInv,
         AtSeries, Fetching, HistoryComplete, Short, Long, Due, Current
<1>2. CASE Serves
  <2>1. \/ UNCHANGED downloadVars
        \/ /\ {main, main'} \subseteq {"loop", "differs", "changed", "sending", "exited"}
           /\ UNCHANGED <<minute, brokerVars>>
    BY <1>2 DEF Serves, TestConnection, TakeConnection, ReadConnection, SendConnection, ReadFrame, OpenPressed,
                PipeOpens, PipeCloses, Order, ApiConnects, ApiDisconnects, Exit, Press, Goes
  <2> QED BY <1>1, <2>1
          DEF HistoryInv, SeriesInv, DatesInv, AtSeries, Fetching, DownloadMain, brokerVars
<1>3. CASE Downloaded
  BY <1>3, DownloadAssumption
     DEF Downloaded, Goes, brokerVars, HistoryInv, SeriesInv, DatesInv, AtSeries, Fetching, DownloadMain
<1> QED BY <1>1, <1>2, <1>3, BotSteps, HistoryStarts, HistoryNextSeries, HistoryWaits, HistoryFails,
           HistoryRequest DEF DownloadStep, vars

\* A download that ends without an error has every bar of the asked time that
\* parse_history could read, in order and each once, when the requests go on where
\* the last answer ended, and with the long periods when the answers hold the bar
\* that is not over and none was misread (get_historical_data, parse_history).
THEOREM HistoriesComplete == Spec => []HistoryComplete
<1>1. HistoryInv => HistoryComplete
  BY DEF HistoryInv, DatesInv, AtSeries, Fetching, HistoryComplete
<1> QED BY <1>1, HistoryInvInit, HistoryInvKept, PTL DEF Spec
===============================================================================
