-------------------------- MODULE BotHistory_proofs --------------------------
(***************************************************************************)
(* The files of the bot: what the two threads write fits together.         *)
(*                                                                         *)
(* The stream calls on_candle as BarFeed says, and a file follows it bar   *)
(* by bar once the catch-up is over: a bar that is told closed is finished *)
(* in the file, so the next one is written behind it and the same one over *)
(* it.  Up to the flag of the history the file belongs to the main thread. *)
(***************************************************************************)
EXTENDS BotHistory, Candles_proofs, WellFoundedInduction, FiniteSetTheorems

\* A bar of the stream or of the download; a file may also hold an absent one.
Bar == {c \in Candle : c.timestamp # 0}

FileRecord == [bars : Seq(Bar \cup {Blank}), offset : Nat, last_timestamp : Nat,
               last_candle : Bar \cup {Blank}]

\* What MqlHst keeps of a file
FileShape(h) ==
    /\ h \in FileRecord
    /\ h.offset \in {Len(h.bars), Len(h.bars) - 1}
    /\ IF h.bars = <<>>
       THEN h = EmptyFile
       ELSE h.last_candle = Last(h.bars) /\ h.last_timestamp = h.last_candle.timestamp

\* The file after call e of on_candle
Follows(h, e) ==
    /\ e # None
    /\ h.bars # <<>>
    /\ h.last_timestamp = e.candle.timestamp
    /\ Covers(h.last_candle, e.candle)
    /\ h.last_candle.close = e.candle.close
    /\ h.offset = IF e.closed THEN Len(h.bars) ELSE Len(h.bars) - 1

Loading(s) == main.at = "fetched" /\ main.series = s
Storing(s) == Loading(s) /\ main.bars # <<>>

FileInv(s) ==
    /\ FileShape(hst[s])
    /\ caught[s] \in {"no", "clean", "behind", "blank"}
    /\ caught[s] # "no" <=> is_once_mql_history[s] \/ call.series = s
    /\ caught[s] # "no" => is_init_mql_history[s] /\ hst[s].bars # <<>>
    /\ caught[s] = "no" /\ hst[s].bars # <<>> =>
          hst[s].offset = IF Storing(s) THEN Len(hst[s].bars) ELSE Len(hst[s].bars) - 1
    /\ ~ is_init_mql_history[s] /\ ~ Loading(s) => hst[s] = EmptyFile
    /\ is_once_mql_history[s] => Follows(hst[s], told[s])

MainInv ==
    \/ main = Waiting
    \/ /\ main \in [at : {"fetching", "fetched"}, series : Series, current_date : Nat,
                    stop_date : Nat, bars : Seq(Bar)]
       /\ ~ is_init_mql_history[main.series]

CallInv ==
    \/ call = NoCall
    \/ /\ call \in [series : Series, candle : Bar, closed : BOOLEAN, ready : BOOLEAN,
                    date : Nat]
       /\ ~ is_once_mql_history[call.series]
       /\ told[call.series] = [candle |-> call.candle, closed |-> call.closed]

Domains ==
    /\ now \in Time
    /\ DOMAIN hst = Series /\ DOMAIN history = Series /\ DOMAIN caught = Series
    /\ is_init_mql_history \in [Series -> BOOLEAN]
    /\ is_once_mql_history \in [Series -> BOOLEAN]

PositiveBars == \A s \in Series : 0 \notin DOMAIN candles[s]

HistInv ==
    /\ OrderInv
    /\ PositiveBars
    /\ Domains
    /\ MainInv
    /\ CallInv
    /\ \A s \in Series : FileInv(s)

-----------------------------------------------------------------------------
Increasing(bars) ==
    \A i, j \in DOMAIN bars : i < j => bars[i].timestamp < bars[j].timestamp

\* All bars are still there, spread at most.
Kept(old, bars) ==
    /\ Len(old) =< Len(bars)
    /\ \A i \in DOMAIN old : Covers(bars[i], old[i]) /\ bars[i].open = old[i].open

\* The catch-up starts over the current bar of the file and goes on behind it.
CallFits ==
    LET h == hst[call.series]
    IN  /\ h.last_timestamp =< call.candle.timestamp
        /\ \/ call.date = h.last_timestamp /\ h.offset = Len(h.bars) - 1
           \/ /\ call.date = h.last_timestamp + call.series.period
              /\ h.offset = Len(h.bars)
              /\ h.last_timestamp < call.candle.timestamp

FileFits(s) ==
    /\ history[s] \in Seq(Bar)
    /\ caught[s] = "no" => hst[s].bars = history[s]
    /\ Fits(s) => /\ hst[s].bars \in Seq(Bar)
                  /\ Increasing(hst[s].bars)
                  /\ Kept(history[s], hst[s].bars)
    /\ call.series = s /\ caught[s] = "clean" => CallFits

MainFits ==
    main # Waiting =>
        /\ Increasing(main.bars)
        /\ main.at = "fetching" =>
              \A i \in DOMAIN main.bars : main.bars[i].timestamp =< main.current_date
        /\ main.at = "fetched" /\ hst[main.series].bars # <<>> =>
              \A i \in DOMAIN main.bars :
                  main.bars[i].timestamp > hst[main.series].last_timestamp

FitInv == MainFits /\ \A s \in Series : FileFits(s)

-----------------------------------------------------------------------------
(***************************************************************************)
(* Numbers.  A set of them has a least one, and a greatest one if it is    *)
(* bounded; what a finite sequence holds is bounded.                       *)
(***************************************************************************)
LEMMA LeastNatural ==
    ASSUME NEW S, S \subseteq Nat, S # {}
    PROVE  \E m \in S : \A x \in S : m =< x
<1>1. PICK m \in S : \A y \in S : ~ (<<y, m>> \in OpToRel(<, Nat))
  BY NatLessThanWellFounded, WFMin
<1>2. \A y \in S : ~ (y < m)
  BY <1>1 DEF OpToRel
<1> QED BY <1>2

LEMMA GreatestNatural ==
    ASSUME NEW S, S \subseteq Nat, S # {}, NEW n \in Nat, \A x \in S : x =< n
    PROVE  \E m \in S : \A x \in S : x =< m
<1> DEFINE T == {n - x : x \in S}
<1>1. T \subseteq Nat /\ T # {}
  <2>1. \A x \in S : n - x \in Nat
    OBVIOUS
  <2> QED BY <2>1
<1>2. PICK t \in T : \A y \in T : t =< y
  <2> HIDE DEF T
  <2> QED BY <1>1, LeastNatural
<1>3. PICK m \in S : t = n - m
  BY <1>2
<1>4. \A x \in S : n - m =< n - x
  BY <1>2, <1>3
<1> QED BY <1>4

LEMMA Remainder ==
    ASSUME NEW x \in Nat, NEW p \in Nat \ {0}
    PROVE  x - (x % p) \in Nat
<1>1. x % p =< x /\ x % p \in Nat
  <2>1. x = p * (x \div p) + (x % p) /\ x % p \in Nat /\ x \div p \in Nat
    BY Division
  <2>2. p * (x \div p) \in Nat
    BY <2>1
  <2> QED BY <2>1, <2>2
<1> QED BY <1>1

LEMMA MinOf ==
    ASSUME NEW S, S \subseteq Nat, S # {}
    PROVE  Min(S) \in S /\ \A x \in S : Min(S) =< x
  BY LeastNatural DEF Min

LEMMA MaxOf ==
    ASSUME NEW S, S \subseteq Nat, S # {}, NEW n \in Nat, \A x \in S : x =< n
    PROVE  Max(S) \in S /\ \A x \in S : x =< Max(S)
  BY GreatestNatural DEF Max

LEMMA BoundedValues ==
    ASSUME NEW n \in Nat, NEW f, \A i \in 1 .. n : f[i] \in Nat
    PROVE  \E m \in Nat : \A i \in 1 .. n : f[i] =< m
<1> DEFINE Ok(k) == \E m \in Nat : \A i \in 1 .. k : i =< n => f[i] =< m
           Bad   == {k \in Nat : ~ Ok(k)}
<1>1. SUFFICES Bad = {}
  <2>1. Ok(n)
    BY <1>1
  <2> QED BY <2>1
<1>2. SUFFICES ASSUME Bad # {} PROVE FALSE
  OBVIOUS
<1>3. PICK k \in Bad : \A x \in Bad : k =< x
  <2>1. Bad \subseteq Nat
    OBVIOUS
  <2> HIDE DEF Bad
  <2> QED BY <1>2, <2>1, LeastNatural
<1>4. Ok(0)
  <2>1. \A i \in 1 .. 0 : i =< n => f[i] =< 0
    OBVIOUS
  <2> QED BY <2>1
<1>5. k \in Nat /\ k # 0 /\ ~ Ok(k)
  BY <1>4
<1>6. Ok(k - 1)
  <2>1. k - 1 \in Nat /\ ~ (k =< k - 1)
    BY <1>5
  <2>2. k - 1 \notin Bad
    <3> HIDE DEF Bad
    <3> QED BY <1>3, <2>1
  <2> HIDE DEF Ok
  <2> QED BY <2>1, <2>2
<1>7. PICK m \in Nat : \A i \in 1 .. (k - 1) : i =< n => f[i] =< m
  BY <1>6
<1>8. CASE k =< n
  <2>1. f[k] \in Nat
    BY <1>5, <1>8
  <2>2. \A i \in 1 .. k : i =< n => f[i] =< m + f[k]
    <3> SUFFICES ASSUME NEW i \in 1 .. k, i =< n PROVE f[i] =< m + f[k]
      OBVIOUS
    <3>1. CASE i = k
      BY <2>1, <3>1
    <3>2. CASE i # k
      <4>1. f[i] =< m /\ f[i] \in Nat
        BY <1>5, <1>7, <3>2
      <4> QED BY <2>1, <4>1
    <3> QED BY <3>1, <3>2
  <2>3. m + f[k] \in Nat
    BY <2>1
  <2> QED BY <1>5, <2>2, <2>3
<1>9. CASE ~ (k =< n)
  <2>1. \A i \in 1 .. k : i =< n => f[i] =< m
    BY <1>5, <1>7, <1>9
  <2> QED BY <1>5, <2>1
<1> QED BY <1>8, <1>9

-----------------------------------------------------------------------------
(***************************************************************************)
(* The broker's answers hold bars, in the order of time.                   *)
(***************************************************************************)
LEMMA BrokerBarType ==
    ASSUME TypeInv, NEW s \in Series, NEW b \in Nat \ {0}, SentIn(s, b) # {}
    PROVE  BrokerBar(s, b) \in Bar /\ BrokerBar(s, b).timestamp = b
<1> DEFINE Q == quotes[s.symbol]
           I == SentIn(s, b)
           P == {Q[i].price : i \in I}
<1>1. s.symbol \in Symbol
  BY DEF Series
<1>2. Q \in Seq(Quote)
  BY <1>1 DEF TypeInv, TypeOK
<1>3. I \subseteq 1 .. Len(Q) /\ Len(Q) \in Nat /\ I # {}
  BY <1>2 DEF SentIn
<1>4. \A i \in 1 .. Len(Q) : Q[i].price \in Price
  <2> HIDE DEF Q
  <2>1. \A i \in 1 .. Len(Q) : Q[i] \in Quote
    BY <1>2, ElementOfSeq
  <2> QED BY <2>1 DEF Quote
<1>5. Min(I) \in I /\ Max(I) \in I
  <2> HIDE DEF I
  <2>1. I \subseteq Nat /\ \A x \in I : x =< Len(Q)
    BY <1>3
  <2> QED BY <1>3, <2>1, MinOf, MaxOf
<1>6. P \subseteq Price /\ P # {}
  BY <1>3, <1>4
<1>7. PICK n \in Nat : \A x \in P : x =< n
  <2> DEFINE f == [i \in 1 .. Len(Q) |-> Q[i].price]
  <2>1. \A i \in 1 .. Len(Q) : f[i] \in Nat
    BY <1>4, PriceAssumption
  <2>2. PICK n \in Nat : \A i \in 1 .. Len(Q) : f[i] =< n
    <3> HIDE DEF f
    <3> QED BY <1>3, <2>1, BoundedValues
  <2> QED BY <1>3, <2>2
<1>8. Min(P) \in P /\ Max(P) \in P
  <2> HIDE DEF P
  <2>1. P \subseteq Nat
    BY <1>6, PriceAssumption
  <2> QED BY <1>6, <1>7, <2>1, MinOf, MaxOf
<1>9. /\ Q[Min(I)].price \in Price /\ Q[Max(I)].price \in Price
      /\ Min(P) \in Price /\ Max(P) \in Price
  BY <1>3, <1>4, <1>5, <1>6, <1>8
<1>10. BrokerBar(s, b) = [timestamp |-> b, open |-> Q[Min(I)].price, high |-> Max(P),
                          low |-> Min(P), close |-> Q[Max(I)].price, volume |-> 0]
  BY DEF BrokerBar
<1> HIDE DEF I, P, Q
<1> QED BY <1>9, <1>10 DEF Bar, Candle

LEMMA AnswerType ==
    ASSUME TypeInv, NEW s \in Series, NEW from \in Nat, NEW whole,
           NEW answer \in Answer(s, from, whole)
    PROVE  /\ answer \in Seq(Bar)
           /\ Increasing(answer)
           /\ \A i \in DOMAIN answer : answer[i].timestamp \in (from + 1) .. (from + Span)
<1>0. PICK B \in SUBSET {b \in BarsSentBy(s, from, from + Span) : whole \/ b < now} :
         \E o \in Ordered(B) : answer = [i \in DOMAIN o |-> BrokerBar(s, o[i])]
  BY DEF Answer
<1> DEFINE I == 1 .. Cardinality(B)
<1>1. PICK o \in Ordered(B) : answer = [i \in DOMAIN o |-> BrokerBar(s, o[i])]
  BY <1>0
<1>2. Span \in Nat
  BY DownloadAssumption
<1>3. \A b \in B : b \in (from + 1) .. (from + Span) /\ SentIn(s, b) # {}
  BY DEF BarsSentBy
<1>4. Cardinality(B) \in Nat
  <2>1. IsFiniteSet((from + 1) .. (from + Span)) /\ B \subseteq (from + 1) .. (from + Span)
    BY <1>2, <1>3, FS_Interval
  <2>2. IsFiniteSet(B)
    BY <2>1, FS_Subset
  <2> QED BY <2>2, FS_CardinalityType
<1>5. o \in [I -> B] /\ \A i, j \in I : i < j => o[i] < o[j]
  BY <1>1 DEF Ordered
<1>6. \A i \in I : BrokerBar(s, o[i]) \in Bar /\ BrokerBar(s, o[i]).timestamp = o[i]
  <2> SUFFICES ASSUME NEW i \in I
               PROVE  BrokerBar(s, o[i]) \in Bar /\ BrokerBar(s, o[i]).timestamp = o[i]
    OBVIOUS
  <2>1. o[i] \in B
    BY <1>5
  <2>2. o[i] \in Nat \ {0} /\ SentIn(s, o[i]) # {}
    BY <1>2, <1>3, <2>1
  <2> QED BY <2>2, BrokerBarType
<1>7. DOMAIN answer = I /\ \A i \in I : answer[i] = BrokerBar(s, o[i])
  BY <1>1, <1>5
<1>8. answer \in Seq(Bar)
  <2>1. answer \in [1 .. Cardinality(B) -> Bar]
    BY <1>1, <1>5, <1>6
  <2> QED BY <1>4, <2>1
<1>9. Increasing(answer)
  BY <1>5, <1>6, <1>7 DEF Increasing
<1>10. \A i \in DOMAIN answer : answer[i].timestamp \in (from + 1) .. (from + Span)
  BY <1>3, <1>5, <1>6, <1>7
<1> QED BY <1>8, <1>9, <1>10

-----------------------------------------------------------------------------
(***************************************************************************)
(* MqlHst.  A bar goes behind the finished ones, as the last of the file.  *)
(***************************************************************************)
BarRecord == [timestamp : Nat, open : Nat, high : Nat, low : Nat, close : Nat,
              volume : Nat]

LEMMA BarIsRecord ==
    /\ Bar \subseteq BarRecord
    /\ Blank \in BarRecord
    /\ Blank \notin Bar
    /\ \A c \in Bar \cup {Blank} : c.timestamp = 0 => c = Blank
  BY PriceAssumption DEF Bar, Candle, BarRecord, Blank

LEMMA MergedBar ==
    ASSUME NEW h, FileShape(h), NEW c \in Bar
    PROVE  /\ Merged(h, c) \in Bar
           /\ Merged(h, c).timestamp = c.timestamp
           /\ Covers(Merged(h, c), c)
           /\ Merged(h, c).close = c.close
           /\ h.last_timestamp # c.timestamp => Merged(h, c) = c
           /\ h.last_timestamp = c.timestamp =>
                 /\ h.bars # <<>>
                 /\ Covers(Merged(h, c), h.last_candle)
                 /\ Merged(h, c).open = h.last_candle.open
<1> DEFINE d == h.last_candle
<1>1. c \in BarRecord /\ c.timestamp # 0
  BY BarIsRecord DEF Bar
<1>2. CASE h.last_timestamp # c.timestamp
  <2>1. Merged(h, c) = c
    BY <1>2 DEF Merged
  <2> QED BY <1>1, <1>2, <2>1 DEF Covers, BarRecord
<1>3. CASE h.last_timestamp = c.timestamp
  <2>1. h.bars # <<>>
    BY <1>1, <1>3 DEF FileShape, EmptyFile
  <2>2. d \in Bar \cup {Blank} /\ d.timestamp = c.timestamp
    BY <1>3, <2>1 DEF FileShape, FileRecord
  <2>3. d \in Bar /\ d \in BarRecord
    BY <1>1, <2>2, BarIsRecord DEF Blank
  <2>4. Merged(h, c) = [d EXCEPT !.high = IF c.high > @ THEN c.high ELSE @,
                                 !.low = IF c.low < @ THEN c.low ELSE @,
                                 !.close = c.close, !.volume = c.volume]
    BY <1>3 DEF Merged
  <2>5. d \in Candle /\ c \in Candle
    BY <2>3 DEF Bar
  <2> HIDE DEF d
  <2>6. Merged(h, c) \in Candle
    BY <2>4, <2>5 DEF Candle
  <2>7. /\ Merged(h, c).timestamp = c.timestamp /\ Merged(h, c).close = c.close
        /\ Merged(h, c).open = d.open
    BY <2>2, <2>3, <2>4 DEF BarRecord
  <2>8. Covers(Merged(h, c), c) /\ Covers(Merged(h, c), d)
    BY <1>1, <2>2, <2>3, <2>4 DEF BarRecord, Covers
  <2> QED BY <1>1, <1>3, <2>1, <2>6, <2>7, <2>8 DEF Bar, d
<1> QED BY <1>2, <1>3

LEMMA MergedBlank ==
    ASSUME NEW h, FileShape(h)
    PROVE  Merged(h, Blank) = Blank
<1>1. CASE h.last_timestamp # 0
  BY <1>1 DEF Merged, Blank
<1>2. CASE h.last_timestamp = 0
  <2>1. h.last_candle \in Bar \cup {Blank} /\ h.last_candle.timestamp = 0
    BY <1>2 DEF FileShape, FileRecord, EmptyFile, Blank
  <2>2. h.last_candle = Blank
    BY <2>1, BarIsRecord
  <2> QED BY <1>2, <2>2 DEF Merged, Blank
<1> QED BY <1>1, <1>2

LEMMA MergedType ==
    ASSUME NEW h, FileShape(h), NEW c \in Bar \cup {Blank}
    PROVE  Merged(h, c) \in Bar \cup {Blank} /\ Merged(h, c).timestamp = c.timestamp
  BY MergedBar, MergedBlank

\* File g is file h with bar c behind the finished bars.
Wrote(h, c, g) ==
    /\ FileShape(g)
    /\ g.bars # <<>>
    /\ Len(g.bars) = h.offset + 1
    /\ \A i \in 1 .. h.offset : g.bars[i] = h.bars[i]
    /\ g.bars[h.offset + 1] = Merged(h, c)
    /\ g.last_candle = Merged(h, c)
    /\ g.last_timestamp = c.timestamp

LEMMA UpdateWrites ==
    ASSUME NEW h, FileShape(h), NEW c \in Bar \cup {Blank}
    PROVE  /\ Wrote(h, c, Update(h, c)) /\ Update(h, c).offset = h.offset
           /\ Wrote(h, c, AddNew(h, c)) /\ AddNew(h, c).offset = h.offset + 1
<1> DEFINE m == Merged(h, c)
           pre == SubSeq(h.bars, 1, h.offset)
           bars == Append(pre, m)
           T == Bar \cup {Blank}
<1>1. m \in T /\ m.timestamp = c.timestamp
  BY MergedType
<1>2. h \in FileRecord /\ h.bars \in Seq(T) /\ h.offset \in Nat /\ h.offset =< Len(h.bars)
  BY DEF FileShape, FileRecord
<1>3. c.timestamp \in Nat
  BY BarIsRecord DEF BarRecord
<1>4. [m EXCEPT !.timestamp = c.timestamp] = m
  BY <1>1, BarIsRecord DEF BarRecord
<1>5. Update(h, c) = [h EXCEPT !.bars = bars, !.last_timestamp = c.timestamp, !.last_candle = m]
  BY <1>4 DEF Update
<1> HIDE DEF m
<1>6. pre \in Seq(T) /\ Len(pre) = h.offset /\ \A i \in 1 .. h.offset : pre[i] = h.bars[i]
  <2> HIDE DEF T
  <2> QED BY <1>2
<1>7. /\ bars \in Seq(T) /\ bars # <<>> /\ Len(bars) = h.offset + 1
      /\ \A i \in 1 .. h.offset : bars[i] = h.bars[i]
      /\ bars[h.offset + 1] = m
  <2> HIDE DEF T, pre
  <2> QED BY <1>1, <1>2, <1>6, AppendProperties
<1> HIDE DEF bars
<1>8. Last(bars) = m
  BY <1>7 DEF Last
<1> DEFINE g == Update(h, c)
           k == AddNew(h, c)
<1>9. /\ g.bars = bars /\ g.last_timestamp = c.timestamp /\ g.last_candle = m
      /\ g.offset = h.offset /\ g \in FileRecord
  BY <1>1, <1>2, <1>3, <1>5, <1>7 DEF FileRecord
<1>10. /\ k.bars = bars /\ k.last_timestamp = c.timestamp /\ k.last_candle = m
       /\ k.offset = h.offset + 1 /\ k \in FileRecord
  <2> HIDE DEF g
  <2>1. k = [g EXCEPT !.offset = @ + 1]
    BY DEF AddNew, g
  <2> QED BY <1>2, <1>9, <2>1 DEF FileRecord
<1> HIDE DEF g, k
<1>11. FileShape(g)
  BY <1>1, <1>2, <1>7, <1>8, <1>9 DEF FileShape
<1>12. FileShape(k)
  BY <1>1, <1>2, <1>7, <1>8, <1>10 DEF FileShape
<1>13. Wrote(h, c, g)
  BY <1>7, <1>9, <1>11 DEF Wrote, m
<1>14. Wrote(h, c, k)
  BY <1>7, <1>10, <1>12 DEF Wrote, m
<1> QED BY <1>9, <1>10, <1>13, <1>14 DEF g, k

-----------------------------------------------------------------------------
(***************************************************************************)
(* The stream.  A step of the bot is a step of the stream or leaves it     *)
(* alone, and on_candle is called with a bar, as BarFeed says.             *)
(***************************************************************************)
LEMMA StreamOfBot == ASSUME [BotNext]_<<vars, botVars>> PROVE [Next]_vars
<1>1. CASE CandleStep \/ StreamStep
  BY <1>1 DEF CandleStep, StreamStep, Next, Parser
<1>2. CASE \E s \in Symbol : QuoteNow(s)
  BY <1>2 DEF QuoteNow, Next
<1>3. CASE \/ AddMissed \/ CatchUpEnds \/ Fetch \/ FetchFails \/ StoreBar \/ SetInit \/ Tick
           \/ \E s \in Series : StartDownload(s)
  BY <1>3 DEF AddMissed, CatchUpEnds, Fetch, FetchFails, StoreBar, SetInit, Tick,
              StartDownload
<1>4. CASE UNCHANGED <<vars, botVars>>
  BY <1>4
<1> QED BY <1>1, <1>2, <1>3, <1>4 DEF BotNext

LEMMA PositiveStep ==
    ASSUME OrderInv, PositiveBars, [Next]_vars
    PROVE  PositiveBars'
<1>1. CASE UNCHANGED candles
  BY <1>1 DEF PositiveBars
<1>2. CASE OpenBar \/ UpdateBar
  <2>1. parser.at \in {"period", "new_bar"}
    BY <1>2 DEF OpenBar, UpdateBar
  <2>2. /\ Current \in Series /\ Current.period \in Nat \ {0}
        /\ parser.quote.time \in Nat \ {0}
    BY <2>1, ParserAtWork DEF OrderInv
  <2>3. CurrentBar # 0
    BY <2>2, BarOfBounds DEF CurrentBar
  <2>4. PICK c : candles' = [candles EXCEPT ![Current] = Put(Bars, CurrentBar, c)]
    BY <1>2 DEF OpenBar, UpdateBar
  <2>5. DOMAIN candles = Series
    BY DEF OrderInv, TypeInv, TypeOK
  <2> QED BY <2>2, <2>3, <2>4, <2>5 DEF PositiveBars, Put, Bars
<1>3. CASE CloseBar \/ ReceiveOther \/ ReceiveQuote
  BY <1>1, <1>3 DEF CloseBar, ReceiveOther, ReceiveQuote
<1>4. CASE ~Parser
  BY <1>1, <1>4 DEF Next, Open, Close, AddCandlesStream, Subscribe, Unsubscribe,
                    SendQuote, vars, streamVars
<1> QED BY <1>2, <1>3, <1>4 DEF Parser

LEMMA CallTells ==
    ASSUME OrderInv, PositiveBars, CloseBar \/ OpenBar \/ UpdateBar
    PROVE  /\ Current \in Series
           /\ Feed!Tell(Current)
           /\ told'[Current].candle \in Bar
           /\ told'[Current].closed \in BOOLEAN
           /\ told' = [told EXCEPT ![Current] = told'[Current]]
<1> DEFINE s == Current
           e == told'[s]
<1>1. s \in Series /\ Feed!Tell(s)
  BY CloseBarTells, OpenBarTells, UpdateBarTells
<1>2. [Next]_vars
  BY DEF Next, Parser
<1>3. OrderInv' /\ PositiveBars'
  BY <1>2, OrderStep, PositiveStep
<1>4. e # None /\ told' = [told EXCEPT ![s] = e]
  BY <1>1 DEF Feed!Tell
<1> HIDE DEF s
<1>5. e \in Call
  BY <1>1, <1>3, <1>4 DEF OrderInv, TypeInv, TypeOK
<1>6. /\ DOMAIN candles'[s] # {}
      /\ e.candle = candles'[s][LastBar(candles'[s])]
  BY <1>1, <1>3, <1>4 DEF OrderInv, LastIsTold
<1>7. LastBar(candles'[s]) \in DOMAIN candles'[s]
  BY <1>1, <1>3, <1>6, LastBarIsLast DEF OrderInv, TypeInv, HasLast, IsLast
<1>8. e.candle \in Candle /\ e.candle.timestamp # 0
  BY <1>1, <1>3, <1>6, <1>7 DEF OrderInv, TypeInv, TypeOK, BarTypes, PositiveBars
<1> QED BY <1>1, <1>4, <1>5, <1>8 DEF Bar, Call, s

\* A file that follows the calls so far follows the next one.
LEMMA WrittenFollows ==
    ASSUME NEW h, FileShape(h), NEW d, Follows(h, d), NEW e, e # None,
           e.candle \in Bar, e.closed \in BOOLEAN,
           Feed!Opens(d, e) \/ Feed!Updates(d, e) \/ Feed!Closes(d, e)
    PROVE  LET g == Written(h, e.candle, e.closed)
           IN  FileShape(g) /\ Follows(g, e)
<1> DEFINE c == e.candle
           g == Written(h, c, e.closed)
<1>1. /\ Wrote(h, c, g)
      /\ g.offset = IF e.closed THEN h.offset + 1 ELSE h.offset
  BY UpdateWrites DEF Written
<1>2. Covers(Merged(h, c), c) /\ Merged(h, c).close = c.close
  BY MergedBar
<1>3. h.offset \in Nat
  BY DEF FileShape, FileRecord
<1> HIDE DEF g, c
<1>4. FileShape(g) /\ Len(g.bars) = h.offset + 1 /\ g.bars # <<>>
      /\ g.last_timestamp = c.timestamp /\ g.last_candle = Merged(h, c)
  BY <1>1 DEF Wrote
<1>5. g.offset = IF e.closed THEN Len(g.bars) ELSE Len(g.bars) - 1
  BY <1>1, <1>3, <1>4
<1> QED BY <1>2, <1>4, <1>5 DEF Follows, g, c

-----------------------------------------------------------------------------
(***************************************************************************)
(* HistInv, action by action                                               *)
(***************************************************************************)
LEMMA FileAside ==
    ASSUME NEW s, FileInv(s),
           hst'[s] = hst[s], caught'[s] = caught[s],
           is_init_mql_history'[s] = is_init_mql_history[s],
           is_once_mql_history'[s] = is_once_mql_history[s], told'[s] = told[s],
           call'.series = s <=> call.series = s,
           Loading(s)' <=> Loading(s), Storing(s)' <=> Storing(s)
    PROVE  FileInv(s)'
  BY DEF FileInv

LEMMA HistInit == ASSUME BotInit PROVE HistInv
<1>1. OrderInv
  BY OrderInit DEF BotInit
<1>2. PositiveBars
  BY DEF BotInit, Init, PositiveBars
<1>3. Domains
  BY BoundAssumption, DownloadAssumption DEF BotInit, Domains, Time
<1>4. MainInv /\ CallInv
  BY DEF BotInit, MainInv, CallInv
<1>5. FileShape(EmptyFile)
  BY DEF FileShape, EmptyFile, FileRecord
<1>6. ASSUME NEW s \in Series PROVE FileInv(s)
  <2>1. /\ hst[s] = EmptyFile /\ caught[s] = "no" /\ ~is_init_mql_history[s]
        /\ ~is_once_mql_history[s] /\ call.series = None
    BY DEF BotInit, NoCall
  <2>2. s # None /\ EmptyFile.bars = <<>>
    BY NoneAssumption DEF EmptyFile
  <2> QED BY <1>5, <2>1, <2>2 DEF FileInv
<1> QED BY <1>1, <1>2, <1>3, <1>4, <1>6 DEF HistInv

\* Steps that leave the files and the calls alone.
LEMMA HistAside ==
    ASSUME HistInv, OrderInv', PositiveBars', now' \in Time,
           UNCHANGED <<told, hst, is_init_mql_history, is_once_mql_history, call,
                       history, caught>>,
           MainInv',
           \A s \in Series : (Loading(s)' <=> Loading(s)) /\ (Storing(s)' <=> Storing(s))
    PROVE  HistInv'
<1>1. \A s \in Series : FileInv(s)'
  BY FileAside DEF HistInv
<1>2. Domains' /\ CallInv'
  BY DEF HistInv, Domains, CallInv
<1> QED BY <1>1, <1>2 DEF HistInv

LEMMA HistQuiet ==
    ASSUME HistInv, OrderInv', PositiveBars',
           \/ StreamStep \/ Tick \/ UNCHANGED <<vars, botVars>>
           \/ \E s \in Symbol : QuoteNow(s)
    PROVE  HistInv'
<1>1. UNCHANGED <<told, hst, is_init_mql_history, is_once_mql_history, call, history,
                  caught, main>>
  BY DEF StreamStep, ReceiveOther, ReceiveQuote, Open, Close, QuoteNow, SendQuote, Tick,
         vars, streamVars, botVars
<1>2. now' \in Time
  BY BoundAssumption DEF StreamStep, QuoteNow, Tick, botVars, HistInv, Domains, Time
<1>3. MainInv' /\ \A s \in Series : (Loading(s)' <=> Loading(s)) /\ (Storing(s)' <=> Storing(s))
  BY <1>1 DEF HistInv, MainInv, Loading, Storing
<1> QED BY <1>1, <1>2, <1>3, HistAside

\* The download has the series for itself.
LEMMA MainAtWork ==
    ASSUME HistInv, main.at \in {"fetching", "fetched"}
    PROVE  /\ main.series \in Series /\ main.current_date \in Nat
           /\ main.stop_date \in Nat /\ main.bars \in Seq(Bar)
           /\ main = [at |-> main.at, series |-> main.series,
                      current_date |-> main.current_date,
                      stop_date |-> main.stop_date, bars |-> main.bars]
           /\ ~ is_init_mql_history[main.series]
           /\ caught[main.series] = "no"
           /\ call.series # main.series
           /\ FileInv(main.series)
<1>1. /\ main \in [at : {"fetching", "fetched"}, series : Series, current_date : Nat,
                   stop_date : Nat, bars : Seq(Bar)]
      /\ ~ is_init_mql_history[main.series]
  BY DEF HistInv, MainInv, Waiting
<1>2. FileInv(main.series)
  BY <1>1 DEF HistInv
<1> QED BY <1>1, <1>2 DEF FileInv

LEMMA HistStart ==
    ASSUME HistInv, OrderInv', PositiveBars', NEW s \in Series, StartDownload(s)
    PROVE  HistInv'
<1>1. /\ main.at = "waiting" /\ main'.at = "fetching"
      /\ UNCHANGED <<told, hst, is_init_mql_history, is_once_mql_history, call,
                     history, caught, now>>
  BY DEF StartDownload, vars, streamVars
<1> DEFINE stop == now - (now % Minute)
           start == IF stop > History * s.period THEN stop - History * s.period ELSE 0
<1>2. now \in Nat /\ now' \in Time
  BY <1>1, BoundAssumption DEF HistInv, Domains, Time
<1>3. stop \in Nat /\ start \in Nat /\ start - (start % Span) \in Nat
  <2>1. Minute \in Nat \ {0} /\ Span \in Nat \ {0} /\ History \in Nat /\ s.period \in Nat
    BY DownloadAssumption, PeriodAssumption DEF Series
  <2>2. stop \in Nat
    BY <1>2, <2>1, Remainder
  <2>3. History * s.period \in Nat
    BY <2>1
  <2> HIDE DEF stop
  <2>4. start \in Nat
    BY <2>2, <2>3
  <2> HIDE DEF start
  <2> QED BY <2>1, <2>2, <2>4, Remainder
<1>4. MainInv'
  <2>1. main' = [at |-> "fetching", series |-> s, bars |-> <<>>,
                 current_date |-> start - (start % Span), stop_date |-> stop]
    BY DEF StartDownload
  <2>2. ~ is_init_mql_history'[s]
    BY DEF StartDownload
  <2> HIDE DEF stop, start
  <2>3. main'.series = s
    BY <2>1
  <2>4. main' \in [at : {"fetching", "fetched"}, series : Series, current_date : Nat,
                   stop_date : Nat, bars : Seq(Bar)]
    BY <1>3, <2>1
  <2> QED BY <2>2, <2>3, <2>4 DEF MainInv
<1>5. \A r \in Series : (Loading(r)' <=> Loading(r)) /\ (Storing(r)' <=> Storing(r))
  BY <1>1 DEF Loading, Storing
<1> QED BY <1>1, <1>2, <1>4, <1>5, HistAside

LEMMA FetchAnswers ==
    ASSUME Fetch
    PROVE  \E whole \in Unfinished :
           \E answer \in Answer(main.series, main.current_date, whole) :
           \E ended \in BOOLEAN :
               main' = [main EXCEPT
                           !.at = IF ended THEN "fetched" ELSE "fetching",
                           !.bars = main.bars \o answer,
                           !.current_date = IF ended THEN @ ELSE @ + Step]
<1> DEFINE Ended(bars) == bars # <<>> /\ Last(bars).timestamp >= main.stop_date
<1>1. PICK whole \in Unfinished :
      \E answer \in Answer(main.series, main.current_date, whole) :
          main' = [main EXCEPT
                      !.at = IF Ended(main.bars \o answer) THEN "fetched" ELSE "fetching",
                      !.bars = main.bars \o answer,
                      !.current_date = IF Ended(main.bars \o answer) THEN @ ELSE @ + Step]
  BY DEF Fetch
<1> HIDE DEF Ended
<1>2. PICK answer \in Answer(main.series, main.current_date, whole) :
          main' = [main EXCEPT
                      !.at = IF Ended(main.bars \o answer) THEN "fetched" ELSE "fetching",
                      !.bars = main.bars \o answer,
                      !.current_date = IF Ended(main.bars \o answer) THEN @ ELSE @ + Step]
  BY <1>1
<1>3. CASE Ended(main.bars \o answer)
  BY <1>2, <1>3
<1>4. CASE ~ Ended(main.bars \o answer)
  BY <1>2, <1>4
<1> QED BY <1>3, <1>4

\* A request: the file is still empty, also when it was the last one.
LEMMA HistFetch ==
    ASSUME HistInv, OrderInv', PositiveBars', Fetch \/ FetchFails
    PROVE  HistInv'
<1> DEFINE s == main.series
<1>1. /\ main.at = "fetching"
      /\ UNCHANGED <<told, hst, is_init_mql_history, is_once_mql_history, call,
                     history, caught, now>>
  BY DEF Fetch, FetchFails, vars, streamVars
<1>2. main'.series = s /\ main'.at \in {"fetching", "fetched"} /\ MainInv'
  <2>1. CASE FetchFails
    <3>1. main' = [main EXCEPT !.at = "fetched"]
      BY <2>1 DEF FetchFails
    <3> QED BY <1>1, <3>1, MainAtWork DEF MainInv
  <2>2. CASE Fetch
    <3>1. PICK whole \in Unfinished :
          \E answer \in Answer(main.series, main.current_date, whole) :
          \E ended \in BOOLEAN :
              main' = [main EXCEPT
                          !.at = IF ended THEN "fetched" ELSE "fetching",
                          !.bars = main.bars \o answer,
                          !.current_date = IF ended THEN @ ELSE @ + Step]
      BY <2>2, FetchAnswers
    <3>2. PICK answer \in Answer(main.series, main.current_date, whole), ended \in BOOLEAN :
              main' = [main EXCEPT
                          !.at = IF ended THEN "fetched" ELSE "fetching",
                          !.bars = main.bars \o answer,
                          !.current_date = IF ended THEN @ ELSE @ + Step]
      BY <3>1
    <3>3. answer \in Seq(Bar)
      BY <1>1, MainAtWork, AnswerType DEF HistInv, OrderInv
    <3>4. main.bars \o answer \in Seq(Bar) /\ main.current_date + Step \in Nat
      BY <1>1, <3>3, MainAtWork, DownloadAssumption
    <3> HIDE DEF s
    <3>5. main'.series = main.series /\ main'.at \in {"fetching", "fetched"}
      BY <1>1, <3>2, MainAtWork
    <3>6. main' \in [at : {"fetching", "fetched"}, series : Series, current_date : Nat,
                     stop_date : Nat, bars : Seq(Bar)]
      BY <1>1, <3>2, <3>4, MainAtWork
    <3>7. ~ is_init_mql_history'[main'.series]
      BY <1>1, <3>5, MainAtWork
    <3> QED BY <3>5, <3>6, <3>7 DEF MainInv, s
  <2> QED BY <2>1, <2>2
<1>3. ASSUME NEW r \in Series, r = s PROVE FileInv(r)'
  <2>1. FileInv(r) /\ caught[r] = "no" /\ hst[r] = EmptyFile
    BY <1>1, <1>3, MainAtWork DEF FileInv, Loading
  <2>2. hst'[r].bars = <<>>
    BY <1>1, <2>1 DEF EmptyFile
  <2> HIDE DEF s
  <2> QED BY <1>1, <2>1, <2>2 DEF FileInv
<1>4. ASSUME NEW r \in Series, r # s PROVE FileInv(r)'
  <2>1. FileInv(r)
    BY DEF HistInv
  <2>2. ~Loading(r) /\ ~Loading(r)' /\ ~Storing(r) /\ ~Storing(r)'
    BY <1>2, <1>4 DEF Loading, Storing
  <2> QED BY <1>1, <2>1, <2>2, FileAside
<1>5. Domains' /\ CallInv'
  BY <1>1 DEF HistInv, Domains, CallInv
<1> QED BY <1>2, <1>3, <1>4, <1>5 DEF HistInv

LEMMA HistStore ==
    ASSUME HistInv, OrderInv', PositiveBars', StoreBar
    PROVE  HistInv'
<1>1. PICK s \in Series : s = main.series
  BY MainAtWork DEF StoreBar
<1> DEFINE c == Head(main.bars)
           h == hst[s]
           g == IF Len(main.bars) > 1 THEN AddNew(h, c) ELSE Update(h, c)
<1>2. /\ main.at = "fetched" /\ main.bars # <<>> /\ main.bars \in Seq(Bar)
      /\ UNCHANGED <<told, is_init_mql_history, is_once_mql_history, call, caught, now>>
      /\ main' = [main EXCEPT !.bars = Tail(@)]
      /\ DOMAIN history' = DOMAIN history
  BY MainAtWork DEF StoreBar, vars, streamVars
<1>3. hst' = [hst EXCEPT ![s] = g]
  BY <1>1 DEF StoreBar
<1>4. /\ c \in Bar /\ Tail(main.bars) \in Seq(Bar)
      /\ Tail(main.bars) = <<>> <=> ~ (Len(main.bars) > 1)
  <2>1. /\ c \in Bar /\ Tail(main.bars) \in Seq(Bar)
        /\ Len(Tail(main.bars)) = Len(main.bars) - 1
    BY <1>2, HeadTailProperties
  <2>2. Tail(main.bars) = <<>> <=> Len(Tail(main.bars)) = 0
    BY <2>1, EmptySeq
  <2>3. Len(main.bars) \in Nat \ {0}
    BY <1>2, EmptySeq
  <2>4. \A n \in Nat \ {0} : n - 1 = 0 <=> ~ (n > 1)
    OBVIOUS
  <2> HIDE DEF c
  <2> QED BY <2>1, <2>2, <2>3, <2>4
<1>5. /\ FileInv(s) /\ FileShape(h) /\ caught[s] = "no" /\ ~ is_init_mql_history[s]
      /\ ~ is_once_mql_history[s] /\ call.series # s
  BY <1>1, <1>2, MainAtWork DEF FileInv
<1>6. /\ FileShape(g) /\ g.bars # <<>>
      /\ g.offset = IF Len(main.bars) > 1 THEN Len(g.bars) ELSE Len(g.bars) - 1
  <2>1. h.offset \in Nat
    BY <1>5 DEF FileShape, FileRecord
  <2> HIDE DEF h, c
  <2>2. /\ Wrote(h, c, Update(h, c)) /\ Update(h, c).offset = h.offset
        /\ Wrote(h, c, AddNew(h, c)) /\ AddNew(h, c).offset = h.offset + 1
    BY <1>4, <1>5, UpdateWrites
  <2>3. CASE Len(main.bars) > 1
    BY <2>1, <2>2, <2>3 DEF Wrote
  <2>4. CASE ~ (Len(main.bars) > 1)
    BY <2>1, <2>2, <2>4 DEF Wrote
  <2> QED BY <2>3, <2>4
<1> HIDE DEF g
<1>7. main'.at = "fetched" /\ main'.series = s /\ main'.bars = Tail(main.bars) /\ MainInv'
  <2>1. main'.at = "fetched" /\ main'.series = s /\ main'.bars = Tail(main.bars)
    BY <1>1, <1>2, MainAtWork
  <2>2. main' \in [at : {"fetching", "fetched"}, series : Series, current_date : Nat,
                   stop_date : Nat, bars : Seq(Bar)]
    BY <1>2, <1>4, MainAtWork
  <2> QED BY <1>2, <1>5, <2>1, <2>2 DEF MainInv
<1>8. hst'[s] = g /\ \A r \in Series : r # s => hst'[r] = hst[r]
  BY <1>3 DEF HistInv, Domains
<1>9. FileInv(s)'
  <2>1. Loading(s)' /\ (Storing(s)' <=> Len(main.bars) > 1)
    BY <1>4, <1>7 DEF Loading, Storing
  <2> HIDE DEF h
  <2> QED BY <1>2, <1>5, <1>6, <1>8, <2>1 DEF FileInv
<1>10. ASSUME NEW r \in Series, r # s PROVE FileInv(r)'
  <2>1. FileInv(r)
    BY DEF HistInv
  <2>2. ~Loading(r) /\ ~Loading(r)' /\ ~Storing(r) /\ ~Storing(r)'
    BY <1>1, <1>7, <1>10 DEF Loading, Storing
  <2> QED BY <1>2, <1>8, <1>10, <2>1, <2>2, FileAside
<1>11. Domains' /\ CallInv'
  BY <1>2, <1>3 DEF HistInv, Domains, CallInv
<1> QED BY <1>7, <1>9, <1>10, <1>11 DEF HistInv

\* The flag gives the file to the stream.
LEMMA HistFlag ==
    ASSUME HistInv, OrderInv', PositiveBars', SetInit
    PROVE  HistInv'
<1>1. PICK s \in Series : s = main.series
  BY MainAtWork DEF SetInit
<1>2. /\ main.at = "fetched" /\ main.bars = <<>> /\ main' = Waiting
      /\ UNCHANGED <<told, hst, is_once_mql_history, call, history, caught, now>>
      /\ is_init_mql_history' = [is_init_mql_history EXCEPT ![s] = TRUE]
  BY <1>1 DEF SetInit, vars, streamVars
<1>3. \A r \in Series : /\ ~Storing(r) /\ ~Storing(r)' /\ ~Loading(r)'
                        /\ r # s => ~Loading(r)
  BY <1>1, <1>2 DEF Storing, Loading, Waiting
<1>4. /\ is_init_mql_history'[s]
      /\ \A r \in Series : r # s => is_init_mql_history'[r] = is_init_mql_history[r]
      /\ is_init_mql_history' \in [Series -> BOOLEAN]
  BY <1>2 DEF HistInv, Domains
<1>5. FileInv(s)'
  <2>1. FileInv(s)
    BY DEF HistInv
  <2> QED BY <1>2, <1>3, <1>4, <2>1 DEF FileInv
<1>6. ASSUME NEW r \in Series, r # s PROVE FileInv(r)'
  <2>1. FileInv(r)
    BY DEF HistInv
  <2> QED BY <1>2, <1>3, <1>4, <1>6, <2>1, FileAside
<1>7. Domains' /\ CallInv' /\ MainInv'
  BY <1>2, <1>4 DEF HistInv, Domains, CallInv, MainInv
<1> QED BY <1>5, <1>6, <1>7 DEF HistInv

LEMMA ToldBar ==
    ASSUME OrderInv, PositiveBars, NEW s \in Series, told[s] # None
    PROVE  told[s].candle \in Bar
<1>1. told[s].candle = candles[s][LastBar(candles[s])] /\ DOMAIN candles[s] # {}
  BY DEF OrderInv, LastIsTold
<1>2. LastBar(candles[s]) \in DOMAIN candles[s]
  BY <1>1, LastBarIsLast DEF OrderInv, TypeInv, HasLast, IsLast
<1> QED BY <1>1, <1>2 DEF OrderInv, TypeInv, TypeOK, BarTypes, PositiveBars, Bar

\* A call of on_candle for series s, by the three things it may do
LEMMA HistCandle ==
    ASSUME HistInv, OrderInv', PositiveBars', CandleStep
    PROVE  HistInv'
<1>1. PICK s \in Series : s = Current
  BY CallTells DEF CandleStep, HistInv
<1>2. PICK e : e = told'[s]
  OBVIOUS
<1>3. /\ e # None /\ e.candle \in Bar /\ e.closed \in BOOLEAN
      /\ e = [candle |-> e.candle, closed |-> e.closed]
      /\ told' = [told EXCEPT ![s] = e]
      /\ Feed!Opens(told[s], e) \/ Feed!Updates(told[s], e) \/ Feed!Closes(told[s], e)
  <2>1. Feed!Tell(s) /\ e.candle \in Bar /\ e.closed \in BOOLEAN
        /\ told' = [told EXCEPT ![s] = e]
    BY <1>1, <1>2, CallTells DEF CandleStep, HistInv
  <2>2. e # None /\ (Feed!Opens(told[s], e) \/ Feed!Updates(told[s], e) \/ Feed!Closes(told[s], e))
    BY <1>2, <2>1 DEF Feed!Tell
  <2>3. e \in Call
    BY <1>2, <2>2 DEF OrderInv, TypeInv, TypeOK
  <2> QED BY <2>1, <2>2, <2>3 DEF Call
<1>4. /\ call = NoCall /\ call.series = None /\ s # None
      /\ UNCHANGED <<now, main, is_init_mql_history, is_once_mql_history, history>>
      /\ OnCandleOf(s, e.candle, e.closed)
  BY <1>1, <1>2, NoneAssumption DEF CandleStep, NoCall
<1>5. told'[s] = e /\ \A r \in Series : r # s => told'[r] = told[r]
  BY <1>3 DEF HistInv, OrderInv, TypeInv, TypeOK
<1>6. FileInv(s) /\ FileShape(hst[s])
  BY DEF HistInv, FileInv
<1>7. MainInv' /\ \A r \in Series : (Loading(r)' <=> Loading(r)) /\ (Storing(r)' <=> Storing(r))
  BY <1>4 DEF HistInv, MainInv, Loading, Storing
<1>8. Domains' \/ hst' # hst \/ caught' # caught
  BY <1>4 DEF HistInv, Domains
\* What does not concern s
<1>9. ASSUME NEW r \in Series, r # s,
             hst'[r] = hst[r], caught'[r] = caught[r], call'.series # r
      PROVE  FileInv(r)'
  <2>1. FileInv(r) /\ call.series # r
    BY <1>4, NoneAssumption DEF HistInv
  <2> QED BY <1>4, <1>5, <1>7, <1>9, <2>1, FileAside
<1>10. CASE ~is_init_mql_history[s] \/ hst[s].last_timestamp = 0
  <2>1. UNCHANGED <<hst, call, caught>>
    BY <1>4, <1>10 DEF OnCandleOf
  <2>2. ~ is_once_mql_history[s]
    <3> SUFFICES ASSUME is_once_mql_history[s] PROVE FALSE
      OBVIOUS
    <3>1. is_init_mql_history[s] /\ Follows(hst[s], told[s])
      BY <1>6 DEF FileInv
    <3>2. told[s].candle \in Bar
      BY <3>1, ToldBar DEF Follows, HistInv
    <3> QED BY <1>10, <3>1, <3>2 DEF Follows, Bar
  <2>3. FileInv(s)'
    BY <1>4, <1>6, <1>7, <2>1, <2>2 DEF FileInv
  <2>4. \A r \in Series : FileInv(r)'
    BY <1>4, <1>9, <2>1, <2>3, NoneAssumption
  <2>5. Domains' /\ CallInv'
    BY <1>4, <1>8, <2>1 DEF CallInv
  <2> QED BY <1>7, <2>4, <2>5 DEF HistInv
<1>11. CASE /\ is_init_mql_history[s] /\ hst[s].last_timestamp # 0
            /\ ~is_once_mql_history[s]
  <2>1. StartCatchUp(s, e.candle, e.closed)
    BY <1>4, <1>11 DEF OnCandleOf
  <2>2. /\ call' = [series |-> s, candle |-> e.candle, closed |-> e.closed,
                    ready |-> is_websocket_init, date |-> hst[s].last_timestamp]
        /\ UNCHANGED hst
        /\ DOMAIN caught' = Series
        /\ caught'[s] \in {"behind", "clean"}
        /\ \A r \in Series : r # s => caught'[r] = caught[r]
    BY <2>1 DEF StartCatchUp, FirstMissed, HistInv, Domains
  <2>3. hst[s].bars # <<>> /\ hst[s].last_timestamp \in Nat
    BY <1>6, <1>11 DEF FileShape, EmptyFile, FileRecord
  <2>4. FileInv(s)'
    BY <1>4, <1>6, <1>7, <1>11, <2>2, <2>3 DEF FileInv
  <2>5. \A r \in Series : FileInv(r)'
    BY <1>9, <2>2, <2>4
  <2>6. Domains'
    BY <1>4, <2>2 DEF HistInv, Domains
  <2>7. CallInv'
    <3>1. is_websocket_init \in BOOLEAN
      BY DEF HistInv, OrderInv, TypeInv, TypeOK
    <3>2. call' \in [series : Series, candle : Bar, closed : BOOLEAN, ready : BOOLEAN,
                     date : Nat]
      BY <1>3, <2>2, <2>3, <3>1
    <3> QED BY <1>3, <1>4, <1>5, <1>11, <2>2, <3>2 DEF CallInv
  <2> QED BY <1>7, <2>5, <2>6, <2>7 DEF HistInv
<1>12. CASE is_once_mql_history[s] /\ is_init_mql_history[s] /\ hst[s].last_timestamp # 0
  <2> DEFINE g == Written(hst[s], e.candle, e.closed)
  <2>1. hst' = [hst EXCEPT ![s] = g] /\ UNCHANGED <<call, caught>>
    BY <1>4, <1>12 DEF OnCandleOf, WriteBar
  <2>2. FileShape(g) /\ Follows(g, e) /\ g.bars # <<>>
    <3>1. Follows(hst[s], told[s])
      BY <1>6, <1>12 DEF FileInv
    <3> QED BY <1>3, <1>6, <3>1, WrittenFollows DEF Follows
  <2> HIDE DEF g
  <2>3. /\ hst'[s] = g /\ \A r \in Series : r # s => hst'[r] = hst[r]
        /\ DOMAIN hst' = Series
    BY <2>1 DEF HistInv, Domains
  <2>4. caught[s] # "no"
    BY <1>6, <1>12 DEF FileInv
  <2>5. FileInv(s)'
    BY <1>4, <1>5, <1>6, <1>12, <2>1, <2>2, <2>3, <2>4 DEF FileInv
  <2>6. \A r \in Series : FileInv(r)'
    BY <1>4, <1>9, <2>1, <2>3, <2>5, NoneAssumption
  <2>7. Domains' /\ CallInv'
    BY <1>4, <2>1, <2>3 DEF HistInv, Domains, CallInv
  <2> QED BY <1>7, <2>6, <2>7 DEF HistInv
<1> QED BY <1>10, <1>11, <1>12

\* The series whose catch-up is going on
LEMMA CallAtWork ==
    ASSUME HistInv, call # NoCall
    PROVE  /\ call.series \in Series /\ call.candle \in Bar /\ call.closed \in BOOLEAN
           /\ call.ready \in BOOLEAN /\ call.date \in Nat
           /\ call = [series |-> call.series, candle |-> call.candle,
                      closed |-> call.closed, ready |-> call.ready, date |-> call.date]
           /\ told[call.series] = [candle |-> call.candle, closed |-> call.closed]
           /\ ~ is_once_mql_history[call.series]
           /\ is_init_mql_history[call.series]
           /\ FileInv(call.series)
           /\ caught[call.series] \in {"clean", "behind", "blank"}
           /\ call.series.period \in Nat \ {0}
<1>1. /\ call \in [series : Series, candle : Bar, closed : BOOLEAN, ready : BOOLEAN,
                   date : Nat]
      /\ ~ is_once_mql_history[call.series]
      /\ told[call.series] = [candle |-> call.candle, closed |-> call.closed]
  BY DEF HistInv, CallInv
<1>2. FileInv(call.series)
  BY <1>1 DEF HistInv
<1>3. call.series.period \in Nat \ {0}
  BY <1>1, PeriodAssumption DEF Series
<1> QED BY <1>1, <1>2, <1>3 DEF FileInv

LEMMA MissedBar ==
    ASSUME HistInv, call # NoCall
    PROVE  LET c == GetTimestampCandle(call.series, call.date)
           IN  c = Blank \/ (c \in Bar /\ c.timestamp = call.date)
<1>1. call.series \in Series
  BY CallAtWork
<1>2. CASE call.ready /\ call.date \in DOMAIN candles[call.series]
  <2>1. /\ candles[call.series][call.date] \in Candle
        /\ candles[call.series][call.date].timestamp = call.date
        /\ call.date # 0
    BY <1>1, <1>2 DEF HistInv, PositiveBars, OrderInv, TypeInv, TypeOK, BarTypes
  <2> QED BY <1>2, <2>1 DEF GetTimestampCandle, Bar
<1>3. CASE ~ (call.ready /\ call.date \in DOMAIN candles[call.series])
  BY <1>3 DEF GetTimestampCandle
<1> QED BY <1>2, <1>3

LEMMA HistAdd ==
    ASSUME HistInv, OrderInv', PositiveBars', AddMissed
    PROVE  HistInv'
<1>1. PICK s \in Series : s = call.series
  BY CallAtWork DEF AddMissed
<1>2. PICK c : c = GetTimestampCandle(s, call.date)
  OBVIOUS
<1> DEFINE g == AddNew(hst[s], c)
<1>3. /\ call # NoCall
      /\ hst' = [hst EXCEPT ![s] = g]
      /\ caught' = [caught EXCEPT ![s] = IF c = Blank THEN "blank" ELSE @]
      /\ call' = [call EXCEPT !.date = @ + s.period]
      /\ UNCHANGED <<told, now, main, is_init_mql_history, is_once_mql_history, history>>
  BY <1>1, <1>2 DEF AddMissed, vars, streamVars
<1>4. /\ ~ is_once_mql_history[s] /\ is_init_mql_history[s] /\ FileInv(s)
      /\ caught[s] \in {"clean", "behind", "blank"}
  BY <1>1, <1>3, CallAtWork
<1>5. FileShape(g) /\ g.bars # <<>>
  <2>1. c \in Bar \cup {Blank}
    BY <1>1, <1>2, <1>3, MissedBar
  <2>2. FileShape(hst[s])
    BY <1>4 DEF FileInv
  <2> QED BY <2>1, <2>2, UpdateWrites DEF Wrote
<1> HIDE DEF g
<1>6. /\ hst'[s] = g /\ \A r \in Series : r # s => hst'[r] = hst[r]
      /\ \A r \in Series : r # s => caught'[r] = caught[r]
      /\ caught'[s] \in {"clean", "behind", "blank"}
  BY <1>3, <1>4 DEF HistInv, Domains
<1>7. /\ call'.series = s
      /\ call' \in [series : Series, candle : Bar, closed : BOOLEAN, ready : BOOLEAN,
                    date : Nat]
      /\ call'.candle = call.candle /\ call'.closed = call.closed
  BY <1>1, <1>3, CallAtWork
<1>8. MainInv' /\ \A r \in Series : (Loading(r)' <=> Loading(r)) /\ (Storing(r)' <=> Storing(r))
  BY <1>3 DEF HistInv, MainInv, Loading, Storing
<1>9. FileInv(s)'
  BY <1>3, <1>4, <1>5, <1>6, <1>7 DEF FileInv
<1>10. ASSUME NEW r \in Series, r # s PROVE FileInv(r)'
  <2>1. FileInv(r)
    BY DEF HistInv
  <2> QED BY <1>1, <1>3, <1>6, <1>7, <1>8, <1>10, <2>1, FileAside
<1>11. CallInv'
  BY <1>1, <1>3, <1>4, <1>7, CallAtWork DEF CallInv
<1>12. Domains'
  BY <1>3 DEF HistInv, Domains
<1> QED BY <1>8, <1>9, <1>10, <1>11, <1>12 DEF HistInv

\* Whatever the catch-up has added, the file ends with the bar of the call.
LEMMA CaughtUpFollows ==
    ASSUME NEW h, FileShape(h), NEW c \in Bar, NEW closed \in BOOLEAN
    PROVE  LET g == CaughtUp(h, c, closed)
           IN  FileShape(g) /\ Follows(g, [candle |-> c, closed |-> closed])
<1> DEFINE u == Update(h, c)
           k == AddNew(u, c)
<1>1. h.offset \in Nat
  BY DEF FileShape, FileRecord
<1>2. FileShape(u) /\ u.bars # <<>> /\ Len(u.bars) = h.offset + 1 /\ u.offset = h.offset
      /\ u.last_candle = Merged(h, c) /\ u.last_timestamp = c.timestamp
  BY UpdateWrites DEF Wrote
<1> HIDE DEF u
<1>3. FileShape(k) /\ k.bars # <<>> /\ Len(k.bars) = u.offset + 1 /\ k.offset = u.offset + 1
      /\ k.last_candle = Merged(u, c) /\ k.last_timestamp = c.timestamp
  <2>1. Wrote(u, c, k) /\ k.offset = u.offset + 1
    BY <1>2, UpdateWrites
  <2> HIDE DEF k
  <2> QED BY <2>1 DEF Wrote
<1> HIDE DEF k
<1>4. /\ Covers(Merged(h, c), c) /\ Merged(h, c).close = c.close
      /\ Covers(Merged(u, c), c) /\ Merged(u, c).close = c.close
  BY <1>2, MergedBar
<1>5. [candle |-> c, closed |-> closed] # None
  BY NoneAssumption DEF Bar
<1>6. CASE closed
  <2>1. CaughtUp(h, c, closed) = k
    BY <1>6 DEF CaughtUp, u, k
  <2> QED BY <1>1, <1>2, <1>3, <1>4, <1>5, <1>6, <2>1 DEF Follows
<1>7. CASE ~closed
  <2>1. CaughtUp(h, c, closed) = u
    BY <1>7 DEF CaughtUp, u
  <2> QED BY <1>1, <1>2, <1>4, <1>5, <1>7, <2>1 DEF Follows
<1> QED BY <1>6, <1>7

LEMMA HistCaughtUp ==
    ASSUME HistInv, OrderInv', PositiveBars', CatchUpEnds
    PROVE  HistInv'
<1>1. PICK s \in Series : s = call.series
  BY CallAtWork DEF CatchUpEnds
<1> DEFINE g == CaughtUp(hst[s], call.candle, call.closed)
<1>2. /\ call # NoCall /\ call' = NoCall
      /\ hst' = [hst EXCEPT ![s] = g]
      /\ is_once_mql_history' = [is_once_mql_history EXCEPT ![s] = TRUE]
      /\ UNCHANGED <<told, now, main, is_init_mql_history, history, caught>>
  BY <1>1 DEF CatchUpEnds, vars, streamVars
<1>3. /\ is_init_mql_history[s] /\ FileInv(s) /\ FileShape(hst[s])
      /\ caught[s] \in {"clean", "behind", "blank"}
      /\ told[s] = [candle |-> call.candle, closed |-> call.closed]
  BY <1>1, <1>2, CallAtWork DEF FileInv
<1>4. FileShape(g) /\ Follows(g, told[s]) /\ g.bars # <<>>
  <2>1. call.candle \in Bar /\ call.closed \in BOOLEAN
    BY <1>2, CallAtWork
  <2> QED BY <1>3, <2>1, CaughtUpFollows DEF Follows
<1> HIDE DEF g
<1>5. /\ hst'[s] = g /\ \A r \in Series : r # s => hst'[r] = hst[r]
      /\ is_once_mql_history'[s]
      /\ \A r \in Series : r # s => is_once_mql_history'[r] = is_once_mql_history[r]
  BY <1>2 DEF HistInv, Domains
<1>6. call'.series = None
  BY <1>2 DEF NoCall
<1>7. MainInv' /\ \A r \in Series : (Loading(r)' <=> Loading(r)) /\ (Storing(r)' <=> Storing(r))
  BY <1>2 DEF HistInv, MainInv, Loading, Storing
<1>8. FileInv(s)'
  BY <1>2, <1>3, <1>4, <1>5 DEF FileInv
<1>9. ASSUME NEW r \in Series, r # s PROVE FileInv(r)'
  <2>1. FileInv(r) /\ call.series # r /\ call'.series # r
    BY <1>1, <1>6, <1>9, NoneAssumption DEF HistInv
  <2> QED BY <1>2, <1>5, <1>7, <1>9, <2>1, FileAside
<1>10. Domains' /\ CallInv'
  BY <1>2 DEF HistInv, Domains, CallInv
<1> QED BY <1>7, <1>8, <1>9, <1>10 DEF HistInv

LEMMA HistStep ==
    ASSUME HistInv, [BotNext]_<<vars, botVars>>
    PROVE  HistInv'
<1>1. OrderInv' /\ PositiveBars'
  BY StreamOfBot, OrderStep, PositiveStep DEF HistInv
<1>2. CASE CandleStep
  BY <1>1, <1>2, HistCandle
<1>3. CASE AddMissed \/ CatchUpEnds
  BY <1>1, <1>3, HistAdd, HistCaughtUp
<1>4. CASE \E s \in Series : StartDownload(s)
  BY <1>1, <1>4, HistStart
<1>5. CASE Fetch \/ FetchFails
  BY <1>1, <1>5, HistFetch
<1>6. CASE StoreBar \/ SetInit
  BY <1>1, <1>6, HistStore, HistFlag
<1>7. CASE \/ StreamStep \/ Tick \/ UNCHANGED <<vars, botVars>>
           \/ \E s \in Symbol : QuoteNow(s)
  BY <1>1, <1>7, HistQuiet
<1> QED BY <1>2, <1>3, <1>4, <1>5, <1>6, <1>7 DEF BotNext

LEMMA HistInvariant == BotSpec => []HistInv
  BY HistInit, HistStep, PTL DEF BotSpec

\* The stream below the bot is the one of Candles: what is proved of that one holds
\* under the bot, whatever on_candle does (candlestick_streams of the bot).
THEOREM BotRunsStream == BotSpec => Spec
<1>1. BotInit => Init
  BY DEF BotInit
<1>2. [BotNext]_<<vars, botVars>> => [Next]_vars
  BY StreamOfBot
<1> QED BY <1>1, <1>2, PTL DEF BotSpec, Spec

LEMMA TypesOfHist == HistInv => BotTypeOK
<1> SUFFICES ASSUME HistInv PROVE BotTypeOK
  OBVIOUS
<1>1. main.at \in {"waiting", "fetching", "fetched"} /\ now \in Time
  BY DEF HistInv, MainInv, Domains, Waiting
<1>2. ASSUME NEW s \in Series
      PROVE  /\ hst[s].offset \in {Len(hst[s].bars), Len(hst[s].bars) - 1}
             /\ \A i \in DOMAIN hst[s].bars : hst[s].bars[i] \in FileBar
             /\ hst[s].bars # <<>> => hst[s].last_timestamp = Last(hst[s].bars).timestamp
             /\ caught[s] # "no" <=> is_once_mql_history[s] \/ call.series = s
             /\ caught[s] # "no" => is_init_mql_history[s]
  <2>1. FileInv(s) /\ FileShape(hst[s])
    BY DEF HistInv, FileInv
  <2>2. hst[s].bars \in Seq(Bar \cup {Blank})
    BY <2>1 DEF FileShape, FileRecord
  <2>3. \A i \in DOMAIN hst[s].bars : hst[s].bars[i] \in FileBar
    BY <2>2, ElementOfSeq, LenProperties DEF FileBar, Bar
  <2> QED BY <2>1, <2>3 DEF FileInv, FileShape
<1> QED BY <1>1, <1>2 DEF BotTypeOK

\* At every moment a file holds bars, at most one of them behind the finished
\* ones, and knows the timestamp of its last one; the catch-up waits for the flag
\* of the download.
THEOREM HistoryTypeCorrect == BotSpec => []BotTypeOK
  BY TypesOfHist, HistInvariant, PTL

LEMMA FollowsOfHist == HistInv => FileFollowsStream
<1> SUFFICES ASSUME HistInv, NEW s \in Series, is_once_mql_history[s]
             PROVE  /\ Covers(Last(hst[s].bars), told[s].candle)
                    /\ Last(hst[s].bars).close = told[s].candle.close
  BY DEF FileFollowsStream
<1>1. Follows(hst[s], told[s]) /\ FileShape(hst[s])
  BY DEF HistInv, FileInv
<1> QED BY <1>1 DEF Follows, FileShape

\* Once a file has been caught up, its last bar is the one on_candle was told
\* last, with its closing price and all of its spread, whatever the download
\* brought and whatever the catch-up had to leave out.
THEOREM FilesFollowStream == BotSpec => []FileFollowsStream
  BY FollowsOfHist, HistInvariant, PTL

-----------------------------------------------------------------------------
(***************************************************************************)
(* FitInv.  A bar fits a file that it extends: it is behind the finished   *)
(* ones, or it is the current one.                                         *)
(***************************************************************************)
Extends(c, h) ==
    \/ h.offset = Len(h.bars) /\ h.last_timestamp < c.timestamp
    \/ h.offset = Len(h.bars) - 1 /\ h.last_timestamp = c.timestamp

LEMMA CoversMore ==
    ASSUME NEW e \in BarRecord, NEW f \in BarRecord, NEW g \in BarRecord,
           Covers(e, f), Covers(f, g)
    PROVE  Covers(e, g)
  BY DEF Covers, BarRecord

LEMMA ExtendedFits ==
    ASSUME NEW h, FileShape(h), h.bars \in Seq(Bar), Increasing(h.bars),
           NEW old \in Seq(Bar), Kept(old, h.bars),
           NEW c \in Bar, Extends(c, h), NEW g, Wrote(h, c, g)
    PROVE  g.bars \in Seq(Bar) /\ Increasing(g.bars) /\ Kept(old, g.bars)
<1> DEFINE n == Len(h.bars)
           k == h.offset + 1
           m == Merged(h, c)
<1>1. /\ n \in Nat /\ h.offset \in Nat /\ h.offset \in {n, n - 1}
      /\ \A i \in 1 .. n : h.bars[i] \in Bar
      /\ DOMAIN h.bars = 1 .. n
  BY DEF FileShape, FileRecord
<1>2. /\ m \in Bar /\ m.timestamp = c.timestamp
      /\ h.last_timestamp = c.timestamp =>
            h.bars # <<>> /\ Covers(m, h.last_candle) /\ m.open = h.last_candle.open
  BY MergedBar
<1> HIDE DEF m
<1>3. /\ Len(g.bars) = k /\ g.bars[k] = m
      /\ \A i \in 1 .. h.offset : g.bars[i] = h.bars[i]
      /\ g.bars \in Seq(Bar \cup {Blank}) /\ DOMAIN g.bars = 1 .. k
  BY DEF Wrote, FileShape, FileRecord, m
<1>4. n # 0 => h.last_candle = h.bars[n] /\ h.last_timestamp = h.bars[n].timestamp
  BY EmptySeq DEF FileShape, Last
<1>5. \A i \in 1 .. k : g.bars[i] \in Bar
  <2> SUFFICES ASSUME NEW i \in 1 .. k PROVE g.bars[i] \in Bar
    OBVIOUS
  <2>1. CASE i = k
    BY <1>2, <1>3, <2>1
  <2>2. CASE i # k
    <3>1. i \in 1 .. h.offset /\ i \in 1 .. n
      BY <1>1, <2>2
    <3> QED BY <1>1, <1>3, <3>1
  <2> QED BY <2>1, <2>2
<1>6. g.bars \in Seq(Bar)
  <2>1. g.bars \in [1 .. k -> Bar] /\ k \in Nat
    BY <1>1, <1>3, <1>5
  <2> QED BY <2>1
<1>7. \A i \in 1 .. n : h.bars[i].timestamp \in Nat
  BY <1>1, BarIsRecord DEF BarRecord
<1>8. c.timestamp \in Nat
  BY BarIsRecord DEF BarRecord
\* The bars before the last one are older than the last one.
<1>9. ASSUME NEW i \in 1 .. h.offset PROVE h.bars[i].timestamp < c.timestamp
  <2>1. i \in 1 .. n /\ n \in 1 .. n
    BY <1>1
  <2>2. CASE h.offset = n /\ h.last_timestamp < c.timestamp
    <3>1. h.bars[i].timestamp =< h.bars[n].timestamp
      <4>1. CASE i = n
        BY <1>7, <2>1, <4>1
      <4>2. CASE i < n
        <5>1. h.bars[i].timestamp < h.bars[n].timestamp
          BY <1>1, <2>1, <4>2 DEF Increasing
        <5>2. h.bars[i].timestamp \in Nat /\ h.bars[n].timestamp \in Nat
          BY <1>7, <2>1
        <5> QED BY <5>1, <5>2
      <4> QED BY <1>1, <4>1, <4>2
    <3> QED BY <1>4, <1>7, <1>8, <2>1, <2>2, <3>1
  <2>3. CASE h.offset = n - 1 /\ h.last_timestamp = c.timestamp
    <3>1. i < n
      BY <1>1, <2>3
    <3>2. h.bars[i].timestamp < h.bars[n].timestamp
      BY <1>1, <2>1, <3>1 DEF Increasing
    <3> QED BY <1>4, <2>1, <2>3, <3>2
  <2> QED BY <2>2, <2>3 DEF Extends
<1>10. Increasing(g.bars)
  <2> SUFFICES ASSUME NEW i \in 1 .. k, NEW j \in 1 .. k, i < j
               PROVE  g.bars[i].timestamp < g.bars[j].timestamp
    BY <1>3 DEF Increasing
  <2>1. i \in 1 .. h.offset /\ g.bars[i] = h.bars[i] /\ i \in 1 .. n
    BY <1>1, <1>3
  <2>2. CASE j = k
    BY <1>2, <1>3, <1>9, <2>1, <2>2
  <2>3. CASE j # k
    <3>1. j \in 1 .. h.offset /\ g.bars[j] = h.bars[j] /\ j \in 1 .. n
      BY <1>1, <1>3, <2>3
    <3> QED BY <1>1, <2>1, <3>1 DEF Increasing
  <2> QED BY <2>2, <2>3
<1>11. Kept(old, g.bars)
  <2>1. Len(old) \in Nat /\ DOMAIN old = 1 .. Len(old) /\ Len(old) =< n
    BY DEF Kept
  <2>2. n =< k
    BY <1>1
  <2>3. ASSUME NEW i \in 1 .. Len(old)
        PROVE  Covers(g.bars[i], old[i]) /\ g.bars[i].open = old[i].open
    <3>1. Covers(h.bars[i], old[i]) /\ h.bars[i].open = old[i].open
      BY <2>1 DEF Kept
    <3>2. CASE i \in 1 .. h.offset
      BY <1>3, <3>1, <3>2
    <3>3. CASE i \notin 1 .. h.offset
      <4>1. i = n /\ i = k /\ n # 0 /\ n \in 1 .. n /\ h.offset # n
        BY <1>1, <2>1, <3>3
      <4>2. h.last_timestamp = c.timestamp
        BY <4>1 DEF Extends
      <4>3. Covers(m, h.bars[n]) /\ m.open = h.bars[n].open
        BY <1>2, <1>4, <4>1, <4>2
      <4>4. m \in BarRecord /\ h.bars[n] \in BarRecord /\ old[n] \in BarRecord
        <5>1. old[n] \in Bar
          BY <4>1, ElementOfSeq
        <5> QED BY <1>1, <1>2, <4>1, <5>1, BarIsRecord
      <4>5. Covers(m, old[n]) /\ m.open = old[n].open
        <5>1. Covers(h.bars[n], old[n]) /\ h.bars[n].open = old[n].open
          BY <3>1, <4>1
        <5> HIDE DEF n
        <5> QED BY <4>3, <4>4, <5>1, CoversMore
      <4> QED BY <1>3, <4>1, <4>5
    <3> QED BY <3>2, <3>3
  <2> HIDE DEF k
  <2> QED BY <1>1, <1>3, <2>1, <2>2, <2>3 DEF Kept, k
<1> QED BY <1>6, <1>10, <1>11

LEMMA KeptItself ==
    ASSUME NEW bars \in Seq(Bar)
    PROVE  Kept(bars, bars)
<1>1. \A i \in DOMAIN bars : bars[i] \in BarRecord
  BY ElementOfSeq, LenProperties, BarIsRecord
<1> QED BY <1>1 DEF Kept, Covers, BarRecord

\* A later bar behind finished ones is appended as it is.
LEMMA AppendedAsIs ==
    ASSUME NEW h, FileShape(h), h.bars \in Seq(Bar), h.offset = Len(h.bars),
           NEW c \in Bar, h.last_timestamp # c.timestamp, NEW g, Wrote(h, c, g)
    PROVE  g.bars = Append(h.bars, c)
<1>1. Merged(h, c) = c
  BY MergedBar
<1>2. g.bars \in Seq(Bar \cup {Blank}) /\ h.bars \in Seq(Bar \cup {Blank})
  BY DEF Wrote, FileShape, FileRecord
<1>3. /\ Append(h.bars, c) \in Seq(Bar \cup {Blank})
      /\ Len(Append(h.bars, c)) = Len(h.bars) + 1
      /\ \A i \in 1 .. Len(h.bars) : Append(h.bars, c)[i] = h.bars[i]
      /\ Append(h.bars, c)[Len(h.bars) + 1] = c
  BY <1>2, AppendProperties
<1>4. Len(h.bars) \in Nat
  OBVIOUS
<1>5. \A i \in 1 .. Len(g.bars) : g.bars[i] = Append(h.bars, c)[i]
  BY <1>1, <1>3, <1>4 DEF Wrote
<1> QED BY <1>2, <1>3, <1>5, SeqEqual DEF Wrote

LEMMA FitAside ==
    ASSUME NEW s, FileFits(s),
           hst'[s] = hst[s], caught'[s] = caught[s], history'[s] = history[s],
           call'.series = s => call' = call
    PROVE  FileFits(s)'
  BY DEF FileFits, Fits, CallFits

LEMMA FitInit == ASSUME BotInit PROVE FitInv
<1>1. MainFits
  BY DEF BotInit, MainFits
<1>2. ASSUME NEW s \in Series PROVE FileFits(s)
  <2>1. /\ hst[s].bars = <<>> /\ history[s] = <<>> /\ caught[s] = "no"
        /\ call.series # s
    BY NoneAssumption DEF BotInit, NoCall, EmptyFile
  <2>2. /\ <<>> \in Seq(Bar) /\ Increasing(<<>>) /\ Kept(<<>>, <<>>)
    BY DEF Increasing, Kept
  <2> QED BY <2>1, <2>2 DEF FileFits
<1> QED BY <1>1, <1>2 DEF FitInv

\* Steps of others
LEMMA FitQuiet ==
    ASSUME FitInv, UNCHANGED <<main, hst, history, caught, call>>
    PROVE  FitInv'
<1>1. \A s \in Series : FileFits(s)'
  BY FitAside DEF FitInv
<1>2. MainFits'
  BY DEF FitInv, MainFits
<1> QED BY <1>1, <1>2 DEF FitInv

\* The windows of two requests do not overlap, so the answers are in order.
LEMMA FitFetch ==
    ASSUME Step >= Span, HistInv, FitInv, Fetch
    PROVE  MainFits'
<1>1. PICK whole \in Unfinished :
      \E answer \in Answer(main.series, main.current_date, whole) :
      \E ended \in BOOLEAN :
          main' = [main EXCEPT
                      !.at = IF ended THEN "fetched" ELSE "fetching",
                      !.bars = main.bars \o answer,
                      !.current_date = IF ended THEN @ ELSE @ + Step]
  BY FetchAnswers
<1>2. PICK answer \in Answer(main.series, main.current_date, whole), ended \in BOOLEAN :
          main' = [main EXCEPT
                      !.at = IF ended THEN "fetched" ELSE "fetching",
                      !.bars = main.bars \o answer,
                      !.current_date = IF ended THEN @ ELSE @ + Step]
  BY <1>1
<1> DEFINE bars == main.bars \o answer
           n == Len(main.bars)
           date == main.current_date
<1>3. main.at = "fetching" /\ hst' = hst
  BY DEF Fetch
<1>4. /\ main.series \in Series /\ date \in Nat /\ main.bars \in Seq(Bar)
      /\ hst[main.series].bars = <<>>
  BY <1>3, MainAtWork DEF FileInv, Loading, EmptyFile
<1>5. /\ answer \in Seq(Bar) /\ Increasing(answer)
      /\ \A i \in DOMAIN answer : answer[i].timestamp \in (date + 1) .. (date + Span)
  BY <1>4, AnswerType DEF HistInv, OrderInv
<1>6. Increasing(main.bars) /\ \A i \in DOMAIN main.bars : main.bars[i].timestamp =< date
  BY <1>3 DEF FitInv, MainFits, Waiting
<1>7. /\ n \in Nat /\ Len(answer) \in Nat
      /\ DOMAIN main.bars = 1 .. n /\ DOMAIN answer = 1 .. Len(answer)
      /\ DOMAIN bars = 1 .. (n + Len(answer))
      /\ \A i \in 1 .. n : bars[i] = main.bars[i]
      /\ \A i \in DOMAIN bars : i > n => i - n \in DOMAIN answer /\ bars[i] = answer[i - n]
  BY <1>4, <1>5
<1>8. Span \in Nat /\ Step \in Nat
  BY DownloadAssumption
<1>9. \A i \in 1 .. n : main.bars[i].timestamp \in Nat
  <2>1. \A i \in 1 .. n : main.bars[i] \in BarRecord
    BY <1>4, ElementOfSeq, BarIsRecord
  <2> QED BY <2>1 DEF BarRecord
<1> HIDE DEF n, bars, date
<1>10. Increasing(bars)
  <2> SUFFICES ASSUME NEW i \in DOMAIN bars, NEW j \in DOMAIN bars, i < j
               PROVE  bars[i].timestamp < bars[j].timestamp
    BY DEF Increasing
  <2>1. CASE j =< n
    BY <1>6, <1>7, <2>1 DEF Increasing
  <2>2. CASE i > n
    <3>1. i - n \in DOMAIN answer /\ j - n \in DOMAIN answer /\ i - n < j - n
      BY <1>7, <2>2
    <3> QED BY <1>5, <1>7, <2>2, <3>1 DEF Increasing
  <2>3. CASE i =< n /\ j > n
    <3>1. bars[i].timestamp =< date /\ bars[i].timestamp \in Nat
      BY <1>6, <1>7, <1>9, <2>3
    <3>2. bars[j].timestamp \in (date + 1) .. (date + Span)
      BY <1>5, <1>7, <2>3
    <3> QED BY <1>4, <1>8, <3>1, <3>2
  <2> QED BY <1>7, <2>1, <2>2, <2>3
<1>11. \A i \in DOMAIN bars : bars[i].timestamp =< date + Step
  <2> SUFFICES ASSUME NEW i \in DOMAIN bars PROVE bars[i].timestamp =< date + Step
    OBVIOUS
  <2>1. CASE i =< n
    <3>1. bars[i].timestamp =< date /\ bars[i].timestamp \in Nat
      BY <1>6, <1>7, <1>9, <2>1
    <3> QED BY <1>4, <1>8, <3>1
  <2>2. CASE i > n
    <3>1. bars[i].timestamp \in (date + 1) .. (date + Span)
      BY <1>5, <1>7, <2>2
    <3> QED BY <1>4, <1>8, <3>1
  <2> QED BY <1>7, <2>1, <2>2
<1>12. /\ main'.bars = bars /\ main'.series = main.series
       /\ main'.at = IF ended THEN "fetched" ELSE "fetching"
       /\ ~ended => main'.current_date = date + Step
  BY <1>2, <1>3, MainAtWork DEF bars, date
<1>13. hst'[main'.series].bars = <<>>
  BY <1>3, <1>4, <1>12
<1> QED BY <1>10, <1>11, <1>12, <1>13 DEF MainFits

\* The main thread, as long as it does not write
LEMMA FitMain ==
    ASSUME Step >= Span, HistInv, FitInv,
           \/ Fetch \/ FetchFails \/ SetInit
           \/ \E s \in Series : StartDownload(s)
    PROVE  FitInv'
<1>1. UNCHANGED <<hst, history, caught, call>>
  BY DEF Fetch, FetchFails, SetInit, StartDownload
<1>2. \A s \in Series : FileFits(s)'
  BY <1>1, FitAside DEF FitInv
<1>3. MainFits'
  <2>1. CASE Fetch
    BY <2>1, FitFetch
  <2>2. CASE FetchFails
    <3>1. main.at = "fetching" /\ main' = [main EXCEPT !.at = "fetched"]
      BY <2>2 DEF FetchFails
    <3>2. main'.bars = main.bars /\ main'.series = main.series /\ main'.at = "fetched"
      BY <3>1, MainAtWork
    <3>3. hst'[main'.series].bars = <<>>
      BY <1>1, <3>1, <3>2, MainAtWork DEF FileInv, Loading, EmptyFile
    <3> QED BY <3>1, <3>2, <3>3 DEF FitInv, MainFits, Waiting
  <2>3. CASE SetInit
    BY <2>3 DEF SetInit, MainFits
  <2>4. CASE \E s \in Series : StartDownload(s)
    <3>1. main'.bars = <<>> /\ main'.at = "fetching"
      BY <2>4 DEF StartDownload
    <3> QED BY <3>1 DEF MainFits, Increasing
  <2> QED BY <2>1, <2>2, <2>3, <2>4
<1> QED BY <1>2, <1>3 DEF FitInv

LEMMA FitStore ==
    ASSUME HistInv, FitInv, StoreBar
    PROVE  FitInv'
<1>1. PICK s \in Series : s = main.series
  BY MainAtWork DEF StoreBar
<1> DEFINE c == Head(main.bars)
           h == hst[s]
           g == IF Len(main.bars) > 1 THEN AddNew(h, c) ELSE Update(h, c)
<1>2. /\ main.at = "fetched" /\ main.bars # <<>> /\ main.bars \in Seq(Bar)
      /\ UNCHANGED <<call, caught>>
      /\ main' = [main EXCEPT !.bars = Tail(@)]
      /\ history' = [history EXCEPT ![s] = Append(@, c)]
  BY <1>1, MainAtWork DEF StoreBar
<1>3. hst' = [hst EXCEPT ![s] = g]
  BY <1>1 DEF StoreBar
<1>4. /\ c \in Bar /\ Tail(main.bars) \in Seq(Bar)
      /\ c = main.bars[1] /\ 1 \in DOMAIN main.bars
      /\ \A i \in DOMAIN Tail(main.bars) :
            i \in Nat \ {0} /\ i + 1 \in DOMAIN main.bars
               /\ Tail(main.bars)[i] = main.bars[i + 1]
  BY <1>2, HeadTailProperties, EmptySeq
<1>5. /\ FileInv(s) /\ FileShape(h) /\ caught[s] = "no" /\ call.series # s /\ Loading(s)
  BY <1>1, <1>2, MainAtWork DEF FileInv, Loading
<1>6. FileFits(s) /\ h.bars = history[s] /\ h.bars \in Seq(Bar) /\ Increasing(h.bars)
  BY <1>5 DEF FitInv, FileFits, Fits
<1>7. h.offset = Len(h.bars)
  <2>1. CASE h.bars = <<>>
    BY <1>5, <2>1 DEF FileShape, EmptyFile
  <2>2. CASE h.bars # <<>>
    BY <1>2, <1>5, <2>2 DEF FileInv, Storing
  <2> QED BY <2>1, <2>2
<1>8. h.last_timestamp < c.timestamp
  <2>1. CASE h.bars = <<>>
    <3>1. h.last_timestamp = 0
      BY <1>5, <2>1 DEF FileShape, EmptyFile
    <3>2. c.timestamp \in Nat /\ c.timestamp # 0
      <4>1. c \in Bar
        BY <1>4
      <4>2. c.timestamp \in Nat
        BY <4>1, BarIsRecord DEF BarRecord
      <4> QED BY <4>1, <4>2 DEF Bar
    <3> QED BY <3>1, <3>2
  <2>2. CASE h.bars # <<>>
    <3>1. main.bars[1].timestamp > h.last_timestamp
      BY <1>1, <1>2, <1>4, <2>2 DEF FitInv, MainFits, Waiting
    <3> HIDE DEF c
    <3> QED BY <1>4, <1>5, <3>1, BarIsRecord DEF BarRecord, FileShape, FileRecord
  <2> QED BY <2>1, <2>2
<1>9. h.last_timestamp \in Nat /\ c.timestamp \in Nat
  BY <1>4, <1>5, BarIsRecord DEF BarRecord, FileShape, FileRecord
<1> HIDE DEF c, h
<1>10. Wrote(h, c, g)
  BY <1>4, <1>5, UpdateWrites
<1> HIDE DEF g
<1>11. g.bars = Append(h.bars, c)
  BY <1>4, <1>5, <1>6, <1>7, <1>8, <1>9, <1>10, AppendedAsIs
<1>12. g.bars \in Seq(Bar) /\ Increasing(g.bars) /\ Kept(g.bars, g.bars)
  <2>1. Extends(c, h)
    BY <1>7, <1>8 DEF Extends
  <2> QED BY <1>4, <1>5, <1>6, <1>10, <2>1, KeptItself, ExtendedFits
<1>13. /\ hst'[s] = g /\ \A r \in Series : r # s => hst'[r] = hst[r]
       /\ history'[s] = g.bars /\ \A r \in Series : r # s => history'[r] = history[r]
  BY <1>2, <1>3, <1>6, <1>11 DEF HistInv, Domains
<1>14. FileFits(s)'
  BY <1>2, <1>5, <1>12, <1>13 DEF FileFits, Fits
<1>15. \A r \in Series : FileFits(r)'
  BY <1>2, <1>13, <1>14, FitAside DEF FitInv
<1>16. MainFits'
  <2>1. main'.bars = Tail(main.bars) /\ main'.at = "fetched" /\ main'.series = s
    BY <1>1, <1>2, MainAtWork
  <2>2. Increasing(main.bars)
    BY <1>2 DEF FitInv, MainFits, Waiting
  <2>3. Increasing(Tail(main.bars))
    <3> SUFFICES ASSUME NEW i \in DOMAIN Tail(main.bars), NEW j \in DOMAIN Tail(main.bars),
                        i < j
                 PROVE  Tail(main.bars)[i].timestamp < Tail(main.bars)[j].timestamp
      BY DEF Increasing
    <3>1. /\ i + 1 \in DOMAIN main.bars /\ Tail(main.bars)[i] = main.bars[i + 1]
          /\ j + 1 \in DOMAIN main.bars /\ Tail(main.bars)[j] = main.bars[j + 1]
          /\ i + 1 < j + 1
      BY <1>4
    <3> QED BY <2>2, <3>1 DEF Increasing
  <2>4. g.last_timestamp = main.bars[1].timestamp
    BY <1>4, <1>10 DEF Wrote
  <2>5. \A i \in DOMAIN Tail(main.bars) :
            Tail(main.bars)[i].timestamp > main.bars[1].timestamp
    <3> SUFFICES ASSUME NEW i \in DOMAIN Tail(main.bars)
                 PROVE  Tail(main.bars)[i].timestamp > main.bars[1].timestamp
      OBVIOUS
    <3>1. 1 < i + 1 /\ i + 1 \in DOMAIN main.bars /\ Tail(main.bars)[i] = main.bars[i + 1]
      BY <1>4
    <3>2. main.bars[1].timestamp < main.bars[i + 1].timestamp
      BY <1>4, <2>2, <3>1 DEF Increasing
    <3>3. main.bars[1] \in BarRecord /\ main.bars[i + 1] \in BarRecord
      BY <1>2, <1>4, <3>1, ElementOfSeq, LenProperties, BarIsRecord
    <3> QED BY <3>1, <3>2, <3>3 DEF BarRecord
  <2> QED BY <1>13, <2>1, <2>3, <2>4, <2>5 DEF MainFits
<1> QED BY <1>15, <1>16 DEF FitInv

\* A file that fits and follows the calls so far is extended by the next one.
LEMMA NextCallExtends ==
    ASSUME NEW h, FileShape(h), NEW d, Follows(h, d), NEW e, e.candle \in Bar,
           Feed!Opens(d, e) \/ Feed!Updates(d, e) \/ Feed!Closes(d, e)
    PROVE  Extends(e.candle, h)
<1>1. h.last_timestamp = d.candle.timestamp /\ d # None
      /\ h.offset = IF d.closed THEN Len(h.bars) ELSE Len(h.bars) - 1
  BY DEF Follows
<1>2. h.last_timestamp \in Nat /\ e.candle.timestamp \in Nat
  BY BarIsRecord DEF BarRecord, FileShape, FileRecord
<1>3. CASE Feed!Opens(d, e)
  BY <1>1, <1>2, <1>3 DEF Feed!Opens, Extends
<1>4. CASE Feed!Updates(d, e) \/ Feed!Closes(d, e)
  BY <1>1, <1>4 DEF Feed!Updates, Feed!Closes, Extends
<1> QED BY <1>3, <1>4

LEMMA FitCandle ==
    ASSUME HistInv, FitInv, CandleStep
    PROVE  FitInv'
<1>1. PICK s \in Series : s = Current
  BY CallTells DEF CandleStep, HistInv
<1>2. PICK e : e = told'[s]
  OBVIOUS
<1>3. /\ e # None /\ e.candle \in Bar /\ e.closed \in BOOLEAN
      /\ Feed!Opens(told[s], e) \/ Feed!Updates(told[s], e) \/ Feed!Closes(told[s], e)
  <2>1. Feed!Tell(s) /\ e.candle \in Bar /\ e.closed \in BOOLEAN
    BY <1>1, <1>2, CallTells DEF CandleStep, HistInv
  <2> QED BY <1>2, <2>1 DEF Feed!Tell
<1>4. /\ call.series # s
      /\ \A r \in Series : call.series # r
      /\ UNCHANGED <<main, history>>
      /\ OnCandleOf(s, e.candle, e.closed)
  BY <1>1, <1>2, NoneAssumption DEF CandleStep, NoCall
<1>5. FileInv(s) /\ FileShape(hst[s]) /\ FileFits(s)
  BY DEF HistInv, FileInv, FitInv
<1>6. CASE ~is_init_mql_history[s] \/ hst[s].last_timestamp = 0
  <2>1. UNCHANGED <<hst, call, caught>>
    BY <1>4, <1>6 DEF OnCandleOf
  <2> QED BY <1>4, <2>1, FitQuiet
<1>7. is_init_mql_history[s] => main.series # s
  BY NoneAssumption DEF HistInv, MainInv, Waiting
<1>8. CASE /\ is_init_mql_history[s] /\ hst[s].last_timestamp # 0
           /\ ~is_once_mql_history[s]
  <2>1. StartCatchUp(s, e.candle, e.closed)
    BY <1>4, <1>8 DEF OnCandleOf
  <2>2. /\ call' = [series |-> s, candle |-> e.candle, closed |-> e.closed,
                    ready |-> is_websocket_init, date |-> hst[s].last_timestamp]
        /\ UNCHANGED hst
        /\ caught'[s] = IF e.candle.timestamp < hst[s].last_timestamp
                        THEN "behind" ELSE "clean"
        /\ \A r \in Series : r # s => caught'[r] = caught[r]
    BY <2>1 DEF StartCatchUp, FirstMissed, HistInv, Domains
  <2>3. caught[s] = "no" /\ hst[s].bars # <<>> /\ ~Storing(s)
    BY <1>4, <1>5, <1>7, <1>8 DEF FileInv, FileShape, EmptyFile, Storing, Loading
  <2>4. hst[s].offset = Len(hst[s].bars) - 1
    BY <1>5, <2>3 DEF FileInv
  <2>5. hst[s].last_timestamp \in Nat /\ e.candle.timestamp \in Nat
    BY <1>3, <1>5, BarIsRecord DEF BarRecord, FileShape, FileRecord
  <2>6. caught'[s] = "clean" => CallFits'
    BY <2>2, <2>4, <2>5 DEF CallFits
  <2>7. FileFits(s)'
    BY <1>4, <1>5, <2>2, <2>3, <2>6 DEF FileFits, Fits
  <2>8. \A r \in Series : FileFits(r)'
    BY <1>4, <2>2, <2>7, FitAside DEF FitInv
  <2>9. MainFits'
    BY <1>4, <2>2 DEF FitInv, MainFits
  <2> QED BY <2>8, <2>9 DEF FitInv
<1>9. CASE is_once_mql_history[s] /\ is_init_mql_history[s] /\ hst[s].last_timestamp # 0
  <2> DEFINE g == Written(hst[s], e.candle, e.closed)
  <2>1. hst' = [hst EXCEPT ![s] = g] /\ UNCHANGED <<call, caught>>
    BY <1>4, <1>9 DEF OnCandleOf, WriteBar
  <2>2. Wrote(hst[s], e.candle, g)
    BY <1>3, <1>5, UpdateWrites DEF Written
  <2> HIDE DEF g
  <2>3. hst'[s] = g /\ \A r \in Series : r # s => hst'[r] = hst[r]
    BY <2>1 DEF HistInv, Domains
  <2>4. caught[s] # "no" /\ Extends(e.candle, hst[s])
    <3>1. Follows(hst[s], told[s])
      BY <1>5, <1>9 DEF FileInv
    <3> QED BY <1>3, <1>5, <1>9, <3>1, NextCallExtends DEF FileInv
  <2>5. Fits(s) => /\ g.bars \in Seq(Bar) /\ Increasing(g.bars)
                   /\ Kept(history[s], g.bars)
    BY <1>3, <1>5, <2>2, <2>4, ExtendedFits DEF FileFits
  <2>6. FileFits(s)'
    BY <1>4, <1>5, <2>1, <2>3, <2>4, <2>5 DEF FileFits, Fits
  <2>7. \A r \in Series : FileFits(r)'
    BY <1>4, <2>1, <2>3, <2>6, FitAside DEF FitInv
  <2>8. MainFits'
    <3>1. main # Waiting => main.series # s
      BY <1>7, <1>9
    <3>2. main # Waiting => main.series \in Series
      BY DEF HistInv, MainInv
    <3> QED BY <1>4, <2>3, <3>1, <3>2 DEF FitInv, MainFits
  <2> QED BY <2>7, <2>8 DEF FitInv
<1> QED BY <1>6, <1>8, <1>9

LEMMA FitAdd ==
    ASSUME HistInv, FitInv, AddMissed
    PROVE  FitInv'
<1>1. PICK s \in Series : s = call.series
  BY CallAtWork DEF AddMissed
<1>2. PICK c : c = GetTimestampCandle(s, call.date)
  OBVIOUS
<1> DEFINE h == hst[s]
           g == AddNew(h, c)
<1>3. /\ call # NoCall /\ call.date < call.candle.timestamp
      /\ hst' = [hst EXCEPT ![s] = g]
      /\ caught' = [caught EXCEPT ![s] = IF c = Blank THEN "blank" ELSE @]
      /\ call' = [call EXCEPT !.date = @ + s.period]
      /\ UNCHANGED <<main, history>>
  BY <1>1, <1>2 DEF AddMissed
<1>4. /\ FileInv(s) /\ FileShape(h) /\ FileFits(s) /\ s.period \in Nat \ {0}
      /\ is_init_mql_history[s]
      /\ caught[s] \in {"clean", "behind", "blank"}
      /\ call.date \in Nat /\ call.candle \in Bar
  BY <1>1, <1>3, CallAtWork DEF FileInv, FitInv
<1>5. c = Blank \/ (c \in Bar /\ c.timestamp = call.date)
  BY <1>1, <1>2, <1>3, MissedBar
<1>6. h.offset \in Nat /\ h.last_timestamp \in Nat /\ call.candle.timestamp \in Nat
  BY <1>4, BarIsRecord DEF BarRecord, FileShape, FileRecord
<1> HIDE DEF h
<1>7. Wrote(h, c, g) /\ g.offset = h.offset + 1
  BY <1>4, <1>5, UpdateWrites
<1> HIDE DEF g
<1>8. /\ hst'[s] = g /\ \A r \in Series : r # s => hst'[r] = hst[r]
      /\ caught'[s] = (IF c = Blank THEN "blank" ELSE caught[s])
      /\ \A r \in Series : r # s => caught'[r] = caught[r]
  BY <1>3 DEF HistInv, Domains
<1>9. /\ call'.series = s /\ call'.date = call.date + s.period
      /\ call'.candle = call.candle
  BY <1>1, <1>3, CallAtWork
<1>10. ASSUME c # Blank, caught[s] = "clean"
       PROVE  /\ g.bars \in Seq(Bar) /\ Increasing(g.bars) /\ Kept(history[s], g.bars)
              /\ CallFits'
  <2>1. /\ h.last_timestamp =< call.candle.timestamp
        /\ \/ call.date = h.last_timestamp /\ h.offset = Len(h.bars) - 1
           \/ /\ call.date = h.last_timestamp + s.period
              /\ h.offset = Len(h.bars)
              /\ h.last_timestamp < call.candle.timestamp
    BY <1>1, <1>4, <1>10 DEF FileFits, CallFits, h
  <2>2. Extends(c, h)
    BY <1>4, <1>5, <1>6, <1>10, <2>1 DEF Extends
  <2>3. /\ h.bars \in Seq(Bar) /\ Increasing(h.bars) /\ Kept(history[s], h.bars)
        /\ history[s] \in Seq(Bar)
    BY <1>4, <1>10 DEF FileFits, Fits, h
  <2>4. g.bars \in Seq(Bar) /\ Increasing(g.bars) /\ Kept(history[s], g.bars)
    BY <1>4, <1>5, <1>7, <1>10, <2>2, <2>3, ExtendedFits
  <2>5. g.last_timestamp = call.date /\ g.offset = Len(g.bars)
    BY <1>5, <1>7, <1>10 DEF Wrote
  <2>6. CallFits'
    BY <1>3, <1>4, <1>6, <1>8, <1>9, <2>5 DEF CallFits
  <2> QED BY <2>4, <2>6
<1>11. FileFits(s)'
  BY <1>3, <1>4, <1>8, <1>10 DEF FileFits, Fits
<1>12. \A r \in Series : FileFits(r)'
  BY <1>3, <1>8, <1>9, <1>11, FitAside DEF FitInv
<1>13. MainFits'
  <2>1. main # Waiting => main.series # s /\ main.series \in Series
    BY <1>4 DEF HistInv, MainInv
  <2> QED BY <1>3, <1>8, <2>1 DEF FitInv, MainFits
<1> QED BY <1>12, <1>13 DEF FitInv

LEMMA FitCaughtUp ==
    ASSUME HistInv, FitInv, CatchUpEnds
    PROVE  FitInv'
<1>1. PICK s \in Series : s = call.series
  BY CallAtWork DEF CatchUpEnds
<1> DEFINE h == hst[s]
           c == call.candle
           u == Update(h, c)
           k == AddNew(u, c)
           g == CaughtUp(h, c, call.closed)
<1>2. /\ call # NoCall /\ call.date >= c.timestamp /\ call' = NoCall
      /\ hst' = [hst EXCEPT ![s] = g]
      /\ UNCHANGED <<main, history, caught>>
  BY <1>1 DEF CatchUpEnds
<1>3. /\ FileInv(s) /\ FileShape(h) /\ FileFits(s) /\ s.period \in Nat \ {0}
      /\ is_init_mql_history[s]
      /\ caught[s] \in {"clean", "behind", "blank"}
      /\ call.date \in Nat /\ c \in Bar
  BY <1>1, <1>2, CallAtWork DEF FileInv, FitInv
<1>4. h.offset \in Nat /\ h.last_timestamp \in Nat /\ c.timestamp \in Nat
  BY <1>3, BarIsRecord DEF BarRecord, FileShape, FileRecord
<1>5. g = IF call.closed THEN k ELSE u
  BY DEF CaughtUp
<1> HIDE DEF h, c, g
<1>6. Wrote(h, c, u) /\ u.offset = h.offset
  BY <1>3, UpdateWrites
<1> HIDE DEF u
<1>7. FileShape(u) /\ Wrote(u, c, k)
  <2>1. FileShape(u)
    BY <1>6 DEF Wrote
  <2>2. Wrote(u, c, k)
    BY <1>3, <2>1, UpdateWrites
  <2> QED BY <2>1, <2>2
<1> HIDE DEF k
<1>8. hst'[s] = g /\ \A r \in Series : r # s => hst'[r] = hst[r]
  BY <1>2 DEF HistInv, Domains
<1>9. ASSUME caught[s] = "clean"
      PROVE  g.bars \in Seq(Bar) /\ Increasing(g.bars) /\ Kept(history[s], g.bars)
  <2>1. /\ h.last_timestamp =< c.timestamp
        /\ \/ call.date = h.last_timestamp /\ h.offset = Len(h.bars) - 1
           \/ /\ h.offset = Len(h.bars)
              /\ h.last_timestamp < c.timestamp
    BY <1>1, <1>3, <1>9 DEF FileFits, CallFits, h, c
  <2>2. Extends(c, h)
    BY <1>2, <1>3, <1>4, <2>1 DEF Extends
  <2>3. /\ h.bars \in Seq(Bar) /\ Increasing(h.bars) /\ Kept(history[s], h.bars)
        /\ history[s] \in Seq(Bar)
    BY <1>3, <1>9 DEF FileFits, Fits, h
  <2>4. u.bars \in Seq(Bar) /\ Increasing(u.bars) /\ Kept(history[s], u.bars)
    BY <1>3, <1>6, <2>2, <2>3, ExtendedFits
  <2>5. Extends(c, u)
    BY <1>4, <1>6 DEF Extends, Wrote
  <2>6. k.bars \in Seq(Bar) /\ Increasing(k.bars) /\ Kept(history[s], k.bars)
    BY <1>3, <1>7, <2>3, <2>4, <2>5, ExtendedFits
  <2> QED BY <1>5, <2>4, <2>6
<1>10. s # None /\ call'.series = None
  BY <1>2, NoneAssumption DEF NoCall
<1>11. FileFits(s)'
  BY <1>2, <1>3, <1>8, <1>9, <1>10 DEF FileFits, Fits
<1>12. ASSUME NEW r \in Series, r # s PROVE FileFits(r)'
  <2>1. FileFits(r) /\ call'.series # r
    BY <1>10, NoneAssumption DEF FitInv
  <2> QED BY <1>2, <1>8, <1>12, <2>1, FitAside
<1>13. MainFits'
  <2>1. main # Waiting => main.series # s /\ main.series \in Series
    BY <1>3 DEF HistInv, MainInv
  <2> QED BY <1>2, <1>8, <2>1 DEF FitInv, MainFits
<1> QED BY <1>11, <1>12, <1>13 DEF FitInv

LEMMA FitStep ==
    ASSUME Step >= Span, HistInv, FitInv, [BotNext]_<<vars, botVars>>
    PROVE  FitInv'
<1>1. CASE CandleStep
  BY <1>1, FitCandle
<1>2. CASE AddMissed \/ CatchUpEnds
  BY <1>2, FitAdd, FitCaughtUp
<1>3. CASE StoreBar
  BY <1>3, FitStore
<1>4. CASE Fetch \/ FetchFails \/ SetInit \/ \E s \in Series : StartDownload(s)
  BY <1>4, FitMain
<1>5. CASE \/ StreamStep \/ Tick \/ UNCHANGED <<vars, botVars>>
           \/ \E s \in Symbol : QuoteNow(s)
  BY <1>5, FitQuiet DEF StreamStep, Tick, QuoteNow, botVars
<1> QED BY <1>1, <1>2, <1>3, <1>4, <1>5 DEF BotNext

LEMMA FitInvariant == ASSUME Step >= Span PROVE BotSpec => []FitInv
<1>1. BotInit => FitInv
  BY FitInit
<1>2. HistInv /\ FitInv /\ [BotNext]_<<vars, botVars>> => FitInv'
  BY FitStep
<1> QED BY <1>1, <1>2, HistInvariant, PTL DEF BotSpec

\* If no two requests of a download overlap, as those for the bars of one and of
\* five minutes, a file that was caught up over a stream at or after its end,
\* with no bar missing, holds its bars in order and each of them once.
THEOREM FilesInOrder ==
    ASSUME Step >= Span
    PROVE  BotSpec => []FileInOrder
<1>1. FitInv => FileInOrder
  BY DEF FitInv, FileFits, Increasing, FileInOrder
<1> QED BY <1>1, FitInvariant, PTL

\* Under the same conditions nothing of the download is lost: each of its bars
\* stays in the file with its opening price, spread at most.
THEOREM FilesKeepHistory ==
    ASSUME Step >= Span
    PROVE  BotSpec => []FileKeepsHistory
<1>1. ASSUME FitInv, NEW s \in Series, Fits(s), NEW i \in DOMAIN history[s]
      PROVE  \E j \in DOMAIN hst[s].bars :
                 /\ Covers(hst[s].bars[j], history[s][i])
                 /\ hst[s].bars[j].open = history[s][i].open
  <2>1. /\ history[s] \in Seq(Bar) /\ hst[s].bars \in Seq(Bar)
        /\ Kept(history[s], hst[s].bars)
    BY <1>1 DEF FitInv, FileFits
  <2>2. i \in DOMAIN hst[s].bars
    BY <2>1 DEF Kept
  <2> QED BY <2>1, <2>2 DEF Kept
<1>2. FitInv => FileKeepsHistory
  BY <1>1 DEF FileKeepsHistory
<1> QED BY <1>2, FitInvariant, PTL
=============================================================================
