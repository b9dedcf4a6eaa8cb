------------------------------ MODULE Settings ------------------------------
(***************************************************************************)
(* The settings of the bot (include/bot/binomo-bot-settings.hpp), read     *)
(* from the JSON file the command line names.                              *)
(*                                                                         *)
(* A document is a function from the sections it has; a section is a       *)
(* function from its keys, and so is an entry of a list.  Bad stands for a *)
(* value of a wrong JSON type, which raises type_error where it is read; a *)
(* file that cannot be read is Bad.  A word of the command line is its     *)
(* text behind the dashes (or one slash) it starts with.                   *)
(***************************************************************************)
EXTENDS Symbols

CONSTANTS
    Bad,
    Files          \* the files at hand, as a function from their names

ASSUME SettingsAssumption == "" \notin DOMAIN Files

Reads(section, key)  == key \in DOMAIN section
Value(section, key, default) == IF Reads(section, key) THEN section[key] ELSE default

Section(doc, name) == Value(doc, name, <<>>)

\* A parser gives up at the first bad value among the keys it reads.
Fails(section, keys) ==
    \/ section = Bad
    \/ \E k \in keys \cap DOMAIN section : section[k] = Bad

-----------------------------------------------------------------------------
(* The sections                                                            *)

BinomoFails(s) == Fails(s, {"port", "cookie_file", "sert_file", "demo", "demo_account"})

IsDemoAccount(s) == Value(s, "demo_account", Value(s, "demo", TRUE))

\* "symbols" is left out without a word if it is not an array.
Series(s) == IF Value(s, "symbols", Bad) = Bad THEN <<>> ELSE s.symbols

QuotesFails(s) ==
    \/ Fails(s, {"volume_mode", "symbol_hst_suffix", "candles", "max_precisions",
                 "timezone", "path", "use"})
    \/ \E i \in DOMAIN Series(s) :
          \E k \in {"symbol", "period"} : Value(Series(s)[i], k, Bad) = Bad
    \/ /\ Value(s, "use", FALSE)
       /\ Value(s, "path", "") = "" \/ Series(s) = <<>>

BotFails(s) ==
    Fails(s, {"named_pipe", "delay_bets_ms", "repeated_bet_attempts_delay_ms",
              "repeated_bet_attempts_delay", "bet_attempts_delay",
              "bet_attempts_delay_ms", "repeated_bet_delay_ms", "repeated_bet_delay"})

\* The keys of a hot key, all of them required, in the order they are read
HotkeyKeys == <<"key", "symbol", "amount", "duration", "direction">>

\* Mutant: a hot key buys if nothing else is said.
NoHotkeyBuys == [key |-> {}, symbol |-> SymbolName("", FALSE), amount |-> 0,
                 duration |-> 1, direction |-> 1]

NoHotkey == [key |-> {}, symbol |-> SymbolName("", FALSE), amount |-> 0,
             duration |-> 1, direction |-> 0]

\* Whether the parser gets as far as the i-th key
ReadsUpTo(entry, i) == \A j \in 1 .. i : Value(entry, HotkeyKeys[j], Bad) # Bad

\* A hot key whose parser failed keeps what was read by then: nobody asks.
Hotkey(entry) ==
    [k \in {HotkeyKeys[i] : i \in 1 .. 5} |->
        IF \A i \in 1 .. 5 : HotkeyKeys[i] = k => ReadsUpTo(entry, i)
        THEN entry[k]
        ELSE NoHotkey[k]]

HotkeysFails(s) == Fails(s, {"keys", "use"})

Hotkeys(s) == LET entries == Value(s, "keys", <<>>)
              IN  [i \in DOMAIN entries |-> Hotkey(entries[i])]

-----------------------------------------------------------------------------
(* The command line and the whole                                          *)

Dashed(args) == {i \in DOMAIN args : args[i].dashes > 0}

\* One dash is taken off; with two the name is not one of these.
FileArguments(args) ==
    {i \in Dashed(args) : /\ args[i].dashes = 1
                          /\ args[i].text \in {"json_settings_file", "jsf", "jf"}}

\* The word behind the last file argument; no file begins with a dash.
Named(args) ==
    {args[i + 1].text : i \in {j \in FileArguments(args) :
                                 /\ \A k \in FileArguments(args) : k <= j
                                 /\ j < Len(args) /\ args[j + 1].dashes = 0}}

\* Mutant: arguments that are not known leave the default in place.
FileNameOrDefault(args) ==
    IF FileArguments(args) = {} THEN "config.json"
    ELSE IF Named(args) = {} THEN "" ELSE CHOOSE name \in Named(args) : TRUE

\* Any dashed word keeps the bot from its default.
FileName(args) ==
    IF Dashed(args) = {} THEN "config.json"
    ELSE IF Named(args) = {} THEN "" ELSE CHOOSE name \in Named(args) : TRUE

open_json_file(name) == IF name \in DOMAIN Files THEN Files[name] ELSE Bad

\* Whether the bot ends with "settings error!"
SettingsError(doc) ==
    \/ doc = Bad
    \/ BinomoFails(Section(doc, "binomo"))
    \/ QuotesFails(Section(doc, "quotes"))
    \/ BotFails(Section(doc, "bot"))
    \/ HotkeysFails(Section(doc, "hotkeys"))

Settings(doc) ==
    LET quotes  == Section(doc, "quotes")
        hotkeys == Section(doc, "hotkeys")
    IN  [is_demo_account |-> IsDemoAccount(Section(doc, "binomo")),
         symbols         |-> IF Value(quotes, "use", FALSE) THEN Series(quotes) ELSE <<>>,
         candles         |-> Value(quotes, "candles", 1440),
         hotkey          |-> IF Value(hotkeys, "use", FALSE) THEN Hotkeys(hotkeys) ELSE <<>>]
=============================================================================
