------------------------------- MODULE MCBot -------------------------------
(***************************************************************************)
(* Constants for model-checking Bot: settings files, command lines, orders *)
(* and minutes.                                                            *)
(***************************************************************************)
EXTENDS Bot

Eur      == SymbolName("EURUSD", FALSE)
EurOtc   == SymbolName("EURUSD", TRUE)
EurSlash == [Eur EXCEPT !.separator = "/"]
Crypto   == SymbolName("ZCRYIDX", FALSE)

FullKey == [key |-> {"f", "g"}, symbol |-> Crypto, amount |-> 1, duration |-> 900,
            direction |-> -1]
NoDuration  == [key |-> {"f"}, symbol |-> Eur, amount |-> 2, direction |-> 1]
NoDirection == [key |-> {"f"}, symbol |-> Eur, amount |-> 4, duration |-> 60]
BadDuration == [FullKey EXCEPT !.duration = Bad, !.amount = 3]

Stream(symbols) == [use |-> TRUE, path |-> "history", candles |-> 5, symbols |-> symbols]
Longer(stream)  == [stream EXCEPT !.candles = 7]
Of(symbol, period) == [symbol |-> symbol, period |-> period]

\* The default file trades for real.
SettingsFiles ==
    [f \in {"config.json", "demo.json", "keys.json", "long.json", "slash.json",
            "bad.json"} |->
        CASE f = "config.json" ->
                 [binomo |-> [demo |-> FALSE],
                  hotkeys |-> [use |-> TRUE, keys |-> <<FullKey>>]]
          [] f = "demo.json" ->
                 [binomo |-> [demo |-> FALSE, demo_account |-> TRUE],
                  quotes |-> Stream(<<Of(Eur, 1), Of(Crypto, 2)>>)]
          [] f = "keys.json" ->
                 [hotkeys |-> [use |-> TRUE,
                               keys |-> <<NoDuration, NoDirection, BadDuration, FullKey,
                                        FullKey>>]]
          [] f = "long.json"  -> [quotes |-> Longer(Stream(<<Of(EurOtc, 3)>>))]
          [] f = "slash.json" -> [quotes |-> Stream(<<Of(EurSlash, 1)>>)]
          [] f = "bad.json"   -> [binomo |-> [demo |-> Bad]]]

Word(dashes, text) == [dashes |-> dashes, text |-> text]
File(f) == <<Word(1, "jf"), Word(0, f)>>

CommandLines ==
    {<<>>, File("demo.json"), File("keys.json") \o <<Word(1, "v")>>, File("long.json"),
     File("slash.json"), File("bad.json") \o File("none.json"),
     <<Word(2, "jsf"), Word(0, "demo.json")>>}

Orders ==
    {[s |-> EurSlash, note |-> "", dir |-> "BUY", a |-> 5, dur |-> 60],
     [s |-> EurOtc, note |-> "", dir |-> "SELL", a |-> 5, dur |-> 330],
     [s |-> Crypto, dir |-> "BUY", a |-> 5, dur |-> 60],
     [s |-> Eur, dir |-> "BUY", a |-> 5, dur |-> 60, exp |-> 60],
     [s |-> Eur, dir |-> Bad, a |-> 5, dur |-> 300],
     [s |-> Bad, dir |-> "BUY", a |-> 5, dur |-> 300],
     [s |-> Eur, dir |-> "BUY", a |-> 0, dur |-> 3600]}

\* Nothing is read, the first bar is not, or none from a bar on.
Readable == {<<>>, <<2>>, <<2, 3, 4, 5, 6>>, <<1>>, <<1, 2>>}

Spans == [p \in {1, 2, 3} |-> p]
=============================================================================
