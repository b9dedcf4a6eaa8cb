------------------------------- MODULE Symbols -------------------------------
(***************************************************************************)
(* The names of symbols (include/binomo-cpp-api-common.hpp): the keys of   *)
(* the tables, and what the conversions do to a name.  A name is the word  *)
(* that is left without its separators, the separators between its halves, *)
(* whether it is in capitals, and whether "(OTC)" follows.                 *)
(***************************************************************************)
EXTENDS Integers, Sequences

Plain == {"AUDNZD", "GBPNZD", "EURNZD", "EURMXN", "EURIDX", "JPYIDX", "EURUSD",
          "CRYIDX", "BTCLTC", "AUDUSD", "AUDCAD", "EURJPY", "AUDJPY", "USDJPY",
          "USDCAD", "NZDUSD", "GBPUSD", "XAUUSD", "USDCHF", "BTCUSD", "CHFJPY",
          "NZDJPY", "ZCRYIDX"}

Otc == {"EURCAD", "USDJPY", "GBPUSD", "EURUSD", "AUDCAD", "GBPJPY"}

SymbolName(word, otc) == [word |-> word, separator |-> "", capitals |-> TRUE, otc |-> otc]

\* The keys of normalize_name_to_ric, and no others of normalize_name_to_name,
\* normalize_name_to_id and normalize_name_to_precision
Known == {SymbolName(w, FALSE) : w \in Plain} \cup {SymbolName(w, TRUE) : w \in Otc}

normalize_symbol_name(n) ==
    [n EXCEPT !.separator = IF @ \in {"/", "-", " "} THEN "" ELSE @,
              !.capitals = TRUE]

\* What on_message of the pipe does to a name before anyone looks it up: six
\* letters of it are left.  A separator that is not removed takes a letter's place,
\* so that the name is one the tables do not have.
Cut(n) ==
    LET kept == n.separator \notin {"", "/", "\\"}
    IN  [n EXCEPT !.separator = IF kept THEN @ ELSE "",
                  !.word = IF @ = "ZCRYIDX" THEN "ZCRYID"
                           ELSE IF kept THEN "cut" ELSE @,
                  !.otc = FALSE]
=============================================================================
