------------------------- MODULE CandlesFollow_proofs -------------------------
(***************************************************************************)
(* The bars of a series are the summary of the quotes that reached it, for *)
(* every value of the constants of Candles, and the stream of StreamClient *)
(* moves as Candles says, so that this holds of it too.                    *)
(*                                                                         *)
(* A step of the parser handles one quote for one series, so while it      *)
(* works the series that are left are behind by that quote; a period the   *)
(* user added twice has handled it already when its second turn comes, and *)
(* a quote handled twice changes nothing but the volume.                   *)
(***************************************************************************)
EXTENDS Candles_proofs, StreamClient

\* The quotes of qs in the bar of period p that ends at b, and what a bar c that
\* sums them up looks like.
In(qs, b, p) == {i \in DOMAIN qs : qs[i].time \in (b - p + 1) .. b}

SumsUp(c, qs, b, p) ==
    /\ \E i \in In(qs, b, p) : c.open = qs[i].price /\ \A j \in In(qs, b, p) : i =< j
    /\ \E i \in In(qs, b, p) : c.close = qs[i].price /\ \A j \in In(qs, b, p) : j =< i
    /\ \E i \in In(qs, b, p) : c.high = qs[i].price
    /\ \E i \in In(qs, b, p) : c.low = qs[i].price
    /\ \A i \in In(qs, b, p) : qs[i].price \in c.low .. c.high

\* b is the end of a bar: of the bar of each time in it.
IsEnd(b, p) ==
    b \in Nat /\ \A t \in Nat \ {0} : t \in (b - p + 1) .. b <=> BarOf(t, p) = b

Summary(bars, qs, p) ==
    /\ \A i \in DOMAIN qs : \E b \in DOMAIN bars : i \in In(qs, b, p)
    /\ \A b \in DOMAIN bars : IsEnd(b, p) /\ SumsUp(bars[b], qs, b, p)

\* The parser has the period of s before it.
Pending(s) ==
    /\ parser # Idle
    /\ s.symbol = parser.symbol
    /\ \E i \in DOMAIN parser.periods : parser.periods[i] = s.period

SummaryInv ==
    \A s \in Series :
        IF Pending(s)
        THEN \E qs \in Seq(Quote) :
                /\ seen[s] = Append(qs, parser.quote)
                /\ \/ Summary(candles[s], qs, s.period)
                   \/ Summary(candles[s], seen[s], s.period)
        ELSE Summary(candles[s], seen[s], s.period)

-----------------------------------------------------------------------------
(***************************************************************************)
(* Bars and quotes                                                         *)
(***************************************************************************)
\* The bar of a time is one of the spans time is divided into.
LEMMA BarOfIsEnd ==
    ASSUME NEW u \in Nat \ {0}, NEW p \in Nat \ {0}
    PROVE  IsEnd(BarOf(u, p), p)
<1> SUFFICES ASSUME NEW t \in Nat \ {0}
             PROVE  t \in (BarOf(u, p) - p + 1) .. BarOf(u, p) <=> BarOf(t, p) = BarOf(u, p)
  BY BarOfType DEF IsEnd
<1> DEFINE a == (t - 1) \div p
           b == (u - 1) \div p
           r == (t - 1) % p
           q == (u - 1) % p
<1>1. t - 1 = p * a + r /\ r \in 0 .. (p - 1) /\ a \in Nat
  <2>1. t - 1 \in Nat
    OBVIOUS
  <2> QED BY <2>1, Division
<1>2. u - 1 = p * b + q /\ q \in 0 .. (p - 1) /\ b \in Nat
  <2>1. u - 1 \in Nat
    OBVIOUS
  <2> QED BY <2>1, Division
<1>3. BarOf(t, p) = (t - 1) - r + p /\ BarOf(u, p) = (u - 1) - q + p
  BY DEF BarOf
<1> HIDE DEF a, b, r, q
<1>4. p * a \in Nat /\ p * b \in Nat
  BY <1>1, <1>2
<1>5. BarOf(t, p) = p * a + p /\ BarOf(u, p) = p * b + p
  BY <1>1, <1>2, <1>3, <1>4
<1>6. a >= b + 1 => p * a >= p * b + p
  <2> SUFFICES ASSUME a >= b + 1 PROVE p * a >= p * b + p
    OBVIOUS
  <2>1. p * (b + 1) =< p * a
    BY <1>1, <1>2, Times
  <2>2. p * (b + 1) = p * b + p
    BY <1>2
  <2> QED BY <2>1, <2>2, <1>4
<1>7. b >= a + 1 => p * b >= p * a + p
  <2> SUFFICES ASSUME b >= a + 1 PROVE p * b >= p * a + p
    OBVIOUS
  <2>1. p * (a + 1) =< p * b
    BY <1>1, <1>2, Times
  <2>2. p * (a + 1) = p * a + p
    BY <1>1
  <2> QED BY <2>1, <2>2, <1>4
<1>8. a = b \/ a >= b + 1 \/ b >= a + 1
  BY <1>1, <1>2
<1>9. CASE a = b
  BY <1>1, <1>4, <1>5, <1>9
<1>10. CASE a # b
  <2> DEFINE x == p * a
             y == p * b
  <2>1. x \in Nat /\ y \in Nat /\ (x >= y + p \/ y >= x + p)
    BY <1>4, <1>6, <1>7, <1>8, <1>10
  <2>2. t - 1 = x + r /\ BarOf(t, p) = x + p /\ BarOf(u, p) = y + p
    BY <1>1, <1>5
  <2> HIDE DEF x, y
  <2> QED BY <1>1, <2>1, <2>2
<1> QED BY <1>9, <1>10

LEMMA QuotesKept ==
    ASSUME NEW qs \in Seq(Quote), NEW q \in Quote
    PROVE  /\ \A i \in DOMAIN qs : Append(qs, q)[i] = qs[i] /\ i < Len(qs) + 1 /\ i \in Nat
           /\ Append(qs, q)[Len(qs) + 1] = q
           /\ DOMAIN Append(qs, q) = DOMAIN qs \cup {Len(qs) + 1}
           /\ Len(qs) + 1 \in Nat
  OBVIOUS

\* What a further quote adds to a bar.
LEMMA InMore ==
    ASSUME NEW qs \in Seq(Quote), NEW q \in Quote, NEW b, NEW p
    PROVE  /\ q.time \in (b - p + 1) .. b =>
                 In(Append(qs, q), b, p) = In(qs, b, p) \cup {Len(qs) + 1}
           /\ q.time \notin (b - p + 1) .. b => In(Append(qs, q), b, p) = In(qs, b, p)
<1> DEFINE more == Append(qs, q)
           n == Len(qs) + 1
<1>1. /\ \A i \in DOMAIN qs : more[i] = qs[i] /\ i # n
      /\ more[n] = q /\ DOMAIN more = DOMAIN qs \cup {n}
  BY QuotesKept
<1> HIDE DEF more, n
<1>2. /\ q.time \in (b - p + 1) .. b => In(more, b, p) = In(qs, b, p) \cup {n}
      /\ q.time \notin (b - p + 1) .. b => In(more, b, p) = In(qs, b, p)
  BY <1>1 DEF In
<1> QED BY <1>2 DEF more, n

LEMMA QuoteFields ==
    ASSUME NEW q \in Quote
    PROVE  q.price \in Price /\ q.price \in Nat /\ q.time \in Nat \ {0}
<1>1. MaxTime \in Nat
  BY BoundAssumption
<1>2. q.time \in 1 .. MaxTime /\ q.price \in Price
  BY DEF Quote, Time
<1>3. q.time \in Nat \ {0}
  BY <1>1, <1>2
<1>4. q.price \in Nat
  BY <1>2, PriceAssumption
<1> QED BY <1>2, <1>3, <1>4

-----------------------------------------------------------------------------
(***************************************************************************)
(* What a quote does to the bar it belongs to, and to the others           *)
(***************************************************************************)
LEMMA SumsOther ==
    ASSUME NEW qs \in Seq(Quote), NEW q \in Quote, NEW b, NEW p, NEW c,
           q.time \notin (b - p + 1) .. b
    PROVE  SumsUp(c, Append(qs, q), b, p) <=> SumsUp(c, qs, b, p)
<1> DEFINE more == Append(qs, q)
<1>1. In(more, b, p) = In(qs, b, p)
  BY InMore
<1>2. \A i \in In(qs, b, p) : more[i] = qs[i]
  BY QuotesKept DEF In
<1> HIDE DEF more
<1>3. SumsUp(c, more, b, p) <=> SumsUp(c, qs, b, p)
  BY <1>1, <1>2 DEF SumsUp
<1> QED BY <1>3 DEF more

\* The first quote of a bar
LEMMA SumsFirst ==
    ASSUME NEW qs \in Seq(Quote), NEW q \in Quote, NEW b, NEW p, NEW c,
           q.time \in (b - p + 1) .. b, In(qs, b, p) = {},
           c.open = q.price, c.close = q.price, c.high = q.price, c.low = q.price
    PROVE  SumsUp(c, Append(qs, q), b, p)
<1> DEFINE more == Append(qs, q)
           n == Len(qs) + 1
<1>1. In(more, b, p) = {n}
  BY InMore
<1>2. more[n] = q /\ n \in Nat /\ q.price \in Nat
  BY QuotesKept, QuoteFields
<1> HIDE DEF more, n
<1>3. SumsUp(c, more, b, p)
  BY <1>1, <1>2 DEF SumsUp
<1> QED BY <1>3 DEF more

\* A further one spreads the bar and closes it.
Spread(c, d, x) ==
    /\ d.open = c.open /\ d.close = x
    /\ d.high = IF x > c.high THEN x ELSE c.high
    /\ d.low = IF x < c.low THEN x ELSE c.low

LEMMA SumsMore ==
    ASSUME NEW qs \in Seq(Quote), NEW q \in Quote, NEW b, NEW p, NEW c \in Candle, NEW d,
           q.time \in (b - p + 1) .. b, SumsUp(c, qs, b, p), Spread(c, d, q.price)
    PROVE  SumsUp(d, Append(qs, q), b, p)
<1> DEFINE more == Append(qs, q)
           n == Len(qs) + 1
           I == In(qs, b, p)
<1>1. In(more, b, p) = I \cup {n}
  BY InMore
<1>2. /\ more[n] = q /\ n \in Nat
      /\ \A i \in I : more[i] = qs[i] /\ i < n /\ i \in Nat
  BY QuotesKept DEF In
<1>3. q.price \in Nat /\ c.high \in Nat /\ c.low \in Nat
  BY QuoteFields, PriceAssumption DEF Candle
<1>4. \A i \in I : qs[i].price \in Nat
  <2>1. \A i \in I : qs[i] \in Quote
    BY DEF In
  <2> QED BY <2>1, QuoteFields
<1> HIDE DEF more, n, I
<1>5. /\ \E i \in I : c.open = qs[i].price /\ \A j \in I : i =< j
      /\ \E i \in I : c.high = qs[i].price
      /\ \E i \in I : c.low = qs[i].price
      /\ \A i \in I : qs[i].price \in c.low .. c.high
  BY DEF SumsUp, I
<1>6. \E i \in I \cup {n} : d.open = more[i].price /\ \A j \in I \cup {n} : i =< j
  BY <1>2, <1>5 DEF Spread
<1>7. \E i \in I \cup {n} : d.close = more[i].price /\ \A j \in I \cup {n} : j =< i
  BY <1>2 DEF Spread
<1>8. /\ \E i \in I \cup {n} : d.high = more[i].price
      /\ \E i \in I \cup {n} : d.low = more[i].price
  BY <1>2, <1>5 DEF Spread
<1>9. \A i \in I \cup {n} : more[i].price \in d.low .. d.high
  <2> DEFINE x == q.price
  <2>1. /\ d.high = IF x > c.high THEN x ELSE c.high
        /\ d.low = IF x < c.low THEN x ELSE c.low
    BY DEF Spread
  <2>2. /\ d.low \in Nat /\ d.high \in Nat /\ d.low =< c.low /\ c.high =< d.high
        /\ d.low =< x /\ x =< d.high
    BY <1>3, <2>1
  <2>3. more[n].price \in d.low .. d.high
    BY <1>2, <1>3, <2>2
  <2>4. ASSUME NEW i \in I PROVE more[i].price \in d.low .. d.high
    <3>1. more[i] = qs[i] /\ qs[i].price \in Nat
      BY <1>2, <1>4
    <3>2. qs[i].price \in c.low .. c.high
      BY <1>5
    <3> HIDE DEF x
    <3> QED BY <1>3, <2>2, <3>1, <3>2
  <2> QED BY <2>3, <2>4
<1>10. SumsUp(d, more, b, p)
  BY <1>1, <1>6, <1>7, <1>8, <1>9 DEF SumsUp
<1> QED BY <1>10 DEF more

\* The same quote once more changes none of its prices.
LEMMA SumsAgain ==
    ASSUME NEW qs \in Seq(Quote), NEW q \in Quote, NEW b, NEW p, NEW c \in Candle, NEW d,
           q.time \in (b - p + 1) .. b, SumsUp(c, Append(qs, q), b, p),
           Spread(c, d, q.price)
    PROVE  SumsUp(d, Append(qs, q), b, p)
<1> DEFINE more == Append(qs, q)
           n == Len(qs) + 1
           I == In(more, b, p)
<1>1. n \in I /\ more[n] = q
  BY InMore, QuotesKept
<1>2. \A i \in I : i =< n
  BY InMore, QuotesKept DEF In
<1>3. q.price \in Nat /\ c.high \in Nat /\ c.low \in Nat
  BY QuoteFields, PriceAssumption DEF Candle
<1> HIDE DEF more, n, I
<1>4. SumsUp(c, more, b, p)
  BY DEF more
<1>5. q.price \in c.low .. c.high
  BY <1>1, <1>4 DEF SumsUp, I
<1>6. d.high = c.high /\ d.low = c.low /\ d.open = c.open /\ d.close = more[n].price
  BY <1>1, <1>3, <1>5 DEF Spread
<1>7. SumsUp(d, more, b, p)
  BY <1>1, <1>2, <1>4, <1>6 DEF SumsUp, I
<1> QED BY <1>7 DEF more

\* A quote and the bars of other spans
LEMMA OtherSpans ==
    ASSUME NEW p \in Nat \ {0}, NEW q \in Quote, NEW b, IsEnd(b, p), b # BarOf(q.time, p)
    PROVE  q.time \notin (b - p + 1) .. b
  BY QuoteFields DEF IsEnd

LEMMA OwnSpan ==
    ASSUME NEW p \in Nat \ {0}, NEW q \in Quote
    PROVE  /\ IsEnd(BarOf(q.time, p), p)
           /\ q.time \in (BarOf(q.time, p) - p + 1) .. BarOf(q.time, p)
  BY QuoteFields, BarOfIsEnd DEF IsEnd

\* Bars that sum up all quotes have the bar of each.
LEMMA BarIsThere ==
    ASSUME NEW p \in Nat \ {0}, NEW qs \in Seq(Quote), NEW bars, Summary(bars, qs, p),
           NEW i \in DOMAIN qs
    PROVE  BarOf(qs[i].time, p) \in DOMAIN bars
<1>1. PICK b \in DOMAIN bars : i \in In(qs, b, p) /\ IsEnd(b, p)
  BY DEF Summary
<1>2. qs[i] \in Quote
  OBVIOUS
<1>3. BarOf(qs[i].time, p) = b
  BY <1>1, <1>2, QuoteFields DEF In, IsEnd
<1> QED BY <1>1, <1>3

\* The bar of a quote is put among the others: they have seen it, or it is none
\* of theirs.
LEMMA SummaryPut ==
    ASSUME NEW p \in Nat \ {0}, NEW qs \in Seq(Quote), NEW q \in Quote, NEW bars, NEW d,
           NEW old \in {qs, Append(qs, q)}, Summary(bars, old, p),
           SumsUp(d, Append(qs, q), BarOf(q.time, p), p)
    PROVE  Summary(Put(bars, BarOf(q.time, p), d), Append(qs, q), p)
<1> DEFINE k == BarOf(q.time, p)
           new == Put(bars, k, d)
           more == Append(qs, q)
           n == Len(qs) + 1
<1>1. /\ \A i \in DOMAIN qs : more[i] = qs[i]
      /\ more[n] = q /\ DOMAIN more = DOMAIN qs \cup {n}
  BY QuotesKept
<1>2. IsEnd(k, p) /\ q.time \in (k - p + 1) .. k
  BY OwnSpan
<1>3. /\ DOMAIN new = DOMAIN bars \cup {k}
      /\ \A b \in DOMAIN new : new[b] = IF b = k THEN d ELSE bars[b]
  BY DEF Put
<1>4. \A i \in DOMAIN more : \E b \in DOMAIN new : i \in In(more, b, p)
  <2> SUFFICES ASSUME NEW i \in DOMAIN more
               PROVE  \E b \in DOMAIN new : i \in In(more, b, p)
    OBVIOUS
  <2>1. CASE i = n
    <3>1. n \in In(more, k, p)
      BY <1>1, <1>2 DEF In
    <3> QED BY <1>3, <2>1, <3>1
  <2>2. CASE i # n
    <3>1. i \in DOMAIN qs /\ i \in DOMAIN old
      BY <1>1, <2>2
    <3>2. PICK b \in DOMAIN bars : i \in In(old, b, p)
      BY <3>1 DEF Summary
    <3>3. old[i] = qs[i] /\ more[i] = qs[i]
      BY <1>1, <3>1
    <3> HIDE DEF new, more
    <3>4. i \in In(more, b, p)
      BY <3>2, <3>3 DEF In
    <3> QED BY <1>3, <3>4
  <2> QED BY <2>1, <2>2
<1>5. ASSUME NEW b \in DOMAIN new
      PROVE  IsEnd(b, p) /\ SumsUp(new[b], more, b, p)
  <2>1. CASE b = k
    BY <1>2, <1>3, <2>1
  <2>2. CASE b # k
    <3>1. b \in DOMAIN bars /\ new[b] = bars[b]
      BY <1>3, <2>2
    <3>2. IsEnd(b, p) /\ SumsUp(bars[b], old, b, p)
      BY <3>1 DEF Summary
    <3>3. q.time \notin (b - p + 1) .. b
      BY <2>2, <3>2, OtherSpans
    <3>4. SumsUp(bars[b], more, b, p)
      BY <3>2, <3>3, SumsOther
    <3> QED BY <3>1, <3>2, <3>4
  <2> QED BY <2>1, <2>2
<1> HIDE DEF new, more
<1>6. Summary(new, more, p)
  BY <1>4, <1>5 DEF Summary
<1> QED BY <1>6 DEF new, more

\* A quote opens a bar where there was none, and updates the one there is.
LEMMA SummaryOpen ==
    ASSUME NEW p \in Nat \ {0}, NEW qs \in Seq(Quote), NEW q \in Quote, NEW bars, NEW d,
           Summary(bars, qs, p), BarOf(q.time, p) \notin DOMAIN bars,
           d.open = q.price, d.close = q.price, d.high = q.price, d.low = q.price
    PROVE  Summary(Put(bars, BarOf(q.time, p), d), Append(qs, q), p)
<1> DEFINE k == BarOf(q.time, p)
<1>1. IsEnd(k, p) /\ q.time \in (k - p + 1) .. k
  BY OwnSpan
<1>2. In(qs, k, p) = {}
  <2> SUFFICES ASSUME NEW i \in In(qs, k, p) PROVE FALSE
    OBVIOUS
  <2>1. i \in DOMAIN qs /\ qs[i] \in Quote /\ qs[i].time \in (k - p + 1) .. k
    BY DEF In
  <2>2. BarOf(qs[i].time, p) = k
    BY <1>1, <2>1, QuoteFields DEF IsEnd
  <2> QED BY <2>1, <2>2, BarIsThere
<1>3. SumsUp(d, Append(qs, q), k, p)
  BY <1>1, <1>2, SumsFirst
<1> QED BY <1>3, SummaryPut

LEMMA SummaryUpdate ==
    ASSUME NEW p \in Nat \ {0}, NEW qs \in Seq(Quote), NEW q \in Quote, NEW bars, NEW d,
           NEW old \in {qs, Append(qs, q)}, Summary(bars, old, p),
           BarOf(q.time, p) \in DOMAIN bars, bars[BarOf(q.time, p)] \in Candle,
           Spread(bars[BarOf(q.time, p)], d, q.price)
    PROVE  Summary(Put(bars, BarOf(q.time, p), d), Append(qs, q), p)
<1> DEFINE k == BarOf(q.time, p)
<1>1. q.time \in (k - p + 1) .. k
  BY OwnSpan
<1>2. SumsUp(bars[k], old, k, p)
  BY DEF Summary
<1>3. SumsUp(d, Append(qs, q), k, p)
  BY <1>1, <1>2, SumsMore, SumsAgain
<1> QED BY <1>3, SummaryPut

-----------------------------------------------------------------------------
(***************************************************************************)
(* The parser                                                              *)
(***************************************************************************)
LEMMA CurrentPending ==
    ASSUME TypeInv, parser.at \in {"period", "new_bar"}
    PROVE  Pending(Current) /\ parser # Idle
<1>1. parser \in WorkingParser
  BY ParserAtWork
<1>2. parser # Idle
  BY DEF Idle
<1>3. parser.periods \in Seq(Period) /\ parser.periods # <<>>
  BY <1>1 DEF WorkingParser
<1>4. 1 \in DOMAIN parser.periods /\ parser.periods[1] = Head(parser.periods)
  <2>1. Len(parser.periods) \in Nat /\ Len(parser.periods) # 0
    BY <1>3, EmptySeq
  <2> QED BY <1>3, <2>1
<1> QED BY <1>2, <1>4 DEF Pending, Current

\* A series other than the current one is left as it was, before or behind it.
LEMMA PeriodDonePending ==
    ASSUME TypeInv, parser.at \in {"period", "new_bar"}, PeriodDone, NEW s \in Series
    PROVE  /\ s # Current => (Pending(s)' <=> Pending(s))
           /\ Pending(s)' => parser'.quote = parser.quote
<1>1. /\ parser.periods \in Seq(Period) /\ parser.periods # <<>>
      /\ parser \in WorkingParser /\ parser # Idle
  BY ParserAtWork, CurrentPending DEF WorkingParser
<1>2. Len(parser.periods) \in Nat /\ Len(parser.periods) # 0
  BY <1>1, EmptySeq
<1>3. /\ parser.periods[1] = Head(parser.periods)
      /\ DOMAIN parser.periods = 1 .. Len(parser.periods)
  BY <1>1
<1>4. s # Current /\ s.symbol = parser.symbol => s.period # Head(parser.periods)
  BY DEF Current, Series
<1>5. CASE Len(parser.periods) = 1
  <2>1. parser' = Idle
    BY <1>5 DEF PeriodDone
  <2>2. s # Current => ~Pending(s)
    BY <1>3, <1>4, <1>5 DEF Pending
  <2> QED BY <2>1, <2>2 DEF Pending
<1>6. CASE Len(parser.periods) # 1
  <2> DEFINE rest == Tail(parser.periods)
  <2>1. parser' = [parser EXCEPT !.at = "period", !.periods = rest]
    BY <1>6 DEF PeriodDone
  <2>2. /\ parser'.quote = parser.quote /\ parser'.symbol = parser.symbol
        /\ parser'.periods = rest /\ parser'.at = "period"
    BY <1>1, <2>1 DEF WorkingParser
  <2>3. parser' # Idle
    BY <2>2 DEF Idle
  <2>4. /\ DOMAIN rest = 1 .. (Len(parser.periods) - 1)
        /\ \A i \in DOMAIN rest : rest[i] = parser.periods[i + 1]
    BY <1>1
  <2> HIDE DEF rest
  <2>5. ASSUME s # Current, s.symbol = parser.symbol,
               NEW i \in DOMAIN parser.periods, parser.periods[i] = s.period
        PROVE  \E j \in DOMAIN rest : rest[j] = s.period
    <3>1. i # 1
      BY <1>3, <1>4, <2>5
    <3>2. i - 1 \in DOMAIN rest /\ rest[i - 1] = parser.periods[i]
      BY <1>2, <1>3, <2>4, <3>1
    <3> QED BY <2>5, <3>2
  <2>6. ASSUME NEW j \in DOMAIN rest, rest[j] = s.period
        PROVE  \E i \in DOMAIN parser.periods : parser.periods[i] = s.period
    <3>1. j + 1 \in DOMAIN parser.periods
      BY <1>2, <1>3, <2>4
    <3> QED BY <2>4, <2>6, <3>1
  <2>7. s # Current => (Pending(s)' <=> Pending(s))
    BY <1>1, <2>2, <2>3, <2>5, <2>6 DEF Pending
  <2> QED BY <2>2, <2>7
<1> QED BY <1>5, <1>6

\* The parser has handled its quote for the current series.
LEMMA HandledSummary ==
    ASSUME TypeInv, SummaryInv, parser.at \in {"period", "new_bar"}, PeriodDone,
           seen' = seen, NEW bars, candles' = [candles EXCEPT ![Current] = bars],
           Summary(bars, seen[Current], Current.period)
    PROVE  SummaryInv'
<1>1. Current \in Series /\ DOMAIN candles = Series
  BY ParserAtWork DEF TypeInv, TypeOK
<1> SUFFICES ASSUME NEW s \in Series
             PROVE  IF Pending(s)'
                    THEN \E qs \in Seq(Quote) :
                            /\ seen'[s] = Append(qs, parser'.quote)
                            /\ \/ Summary(candles'[s], qs, s.period)
                               \/ Summary(candles'[s], seen'[s], s.period)
                    ELSE Summary(candles'[s], seen'[s], s.period)
  BY DEF SummaryInv
<1>2. Pending(s)' => parser'.quote = parser.quote
  BY PeriodDonePending
<1>3. CASE s = Current
  <2>1. candles'[s] = bars /\ Summary(candles'[s], seen'[s], s.period)
    BY <1>1, <1>3
  <2>2. Pending(Current)
    BY CurrentPending
  <2>3. \E qs \in Seq(Quote) : seen[s] = Append(qs, parser.quote)
    BY <1>3, <2>2 DEF SummaryInv
  <2> QED BY <1>2, <2>1, <2>3
<1>4. CASE s # Current
  <2>1. candles'[s] = candles[s]
    BY <1>1, <1>4
  <2>2. Pending(s)' <=> Pending(s)
    BY <1>4, PeriodDonePending
  <2> QED BY <1>2, <2>1, <2>2 DEF SummaryInv
<1> QED BY <1>3, <1>4

\* What is known of the current series before its turn
LEMMA CurrentSummary ==
    ASSUME TypeInv, SummaryInv, parser.at \in {"period", "new_bar"}
    PROVE  \E qs \in Seq(Quote) :
              /\ seen[Current] = Append(qs, parser.quote)
              /\ \/ Summary(Bars, qs, Current.period)
                 \/ Summary(Bars, Append(qs, parser.quote), Current.period)
<1>1. Pending(Current) /\ Current \in Series
  BY CurrentPending, ParserAtWork
<1> QED BY <1>1 DEF SummaryInv, Bars

LEMMA OpenBarSummary == ASSUME OrderInv, SummaryInv, OpenBar PROVE SummaryInv'
<1> DEFINE c == NewCandle(volume_mode, parser.quote.price, CurrentBar)
           p == Current.period
           q == parser.quote
<1>1. TypeInv /\ parser.at \in {"period", "new_bar"} /\ seen' = seen
  BY DEF OrderInv, OpenBar, ParserFrame
<1>2. CurrentBar \notin DOMAIN Bars
  BY DEF OpenBar, OrderInv, AtNewBar
<1>3. PICK qs \in Seq(Quote) :
          /\ seen[Current] = Append(qs, q)
          /\ Summary(Bars, qs, p) \/ Summary(Bars, Append(qs, q), p)
  BY <1>1, CurrentSummary
<1>4. p \in Nat \ {0} /\ q \in Quote /\ CurrentBar = BarOf(q.time, p)
  BY <1>1, ParserAtWork DEF WorkingParser, CurrentBar
<1>5. ~Summary(Bars, Append(qs, q), p)
  <2> DEFINE more == Append(qs, q)
             n == Len(qs) + 1
  <2>1. n \in DOMAIN more /\ more[n] = q /\ more \in Seq(Quote)
    BY <1>4, QuotesKept
  <2> HIDE DEF more, n, p, q
  <2>2. Summary(Bars, more, p) => BarOf(q.time, p) \in DOMAIN Bars
    BY <1>4, <2>1, BarIsThere
  <2> QED BY <1>2, <1>4, <2>2 DEF more
<1>6. c.open = q.price /\ c.close = q.price /\ c.high = q.price /\ c.low = q.price
  BY DEF NewCandle
<1> HIDE DEF c, p, q
<1>7. Summary(Put(Bars, CurrentBar, c), Append(qs, q), p)
  BY <1>2, <1>3, <1>4, <1>5, <1>6, SummaryOpen
<1>8. candles' = [candles EXCEPT ![Current] = Put(Bars, CurrentBar, c)] /\ PeriodDone
  BY DEF OpenBar, c
<1> QED BY <1>1, <1>3, <1>7, <1>8, HandledSummary DEF p

LEMMA UpdatedSpreads ==
    ASSUME NEW m, NEW bars, NEW c \in Candle, NEW x
    PROVE  Spread(c, Updated(m, bars, c, x), x)
<1> DEFINE v == AddedVolume(m, bars, c, x)
<1>1. c = [timestamp |-> c.timestamp, open |-> c.open, high |-> c.high,
            low |-> c.low, close |-> c.close, volume |-> c.volume]
  BY DEF Candle
<1>2. Updated(m, bars, c, x) =
        [c EXCEPT !.volume = @ + v, !.close = x,
                  !.high = IF x > @ THEN x ELSE @, !.low = IF x < @ THEN x ELSE @]
  BY DEF Updated
<1> HIDE DEF v
<1>3. Updated(m, bars, c, x) =
        [timestamp |-> c.timestamp, open |-> c.open,
         high |-> IF x > c.high THEN x ELSE c.high,
         low |-> IF x < c.low THEN x ELSE c.low, close |-> x,
         volume |-> c.volume + v]
  BY <1>1, <1>2
<1> QED BY <1>3 DEF Spread

LEMMA UpdateBarSummary == ASSUME OrderInv, SummaryInv, UpdateBar PROVE SummaryInv'
<1> DEFINE c == Bars[CurrentBar]
           d == Updated(volume_mode, Bars, c, parser.quote.price)
           p == Current.period
           q == parser.quote
<1>1. TypeInv /\ parser.at \in {"period", "new_bar"} /\ seen' = seen
  BY DEF OrderInv, UpdateBar, ParserFrame
<1>2. CurrentBar \in DOMAIN Bars /\ c \in Candle
  BY <1>1, ParserAtWork DEF UpdateBar
<1>3. PICK qs \in Seq(Quote) :
          /\ seen[Current] = Append(qs, q)
          /\ Summary(Bars, qs, p) \/ Summary(Bars, Append(qs, q), p)
  BY <1>1, CurrentSummary
<1>4. p \in Nat \ {0} /\ q \in Quote /\ CurrentBar = BarOf(q.time, p)
  BY <1>1, ParserAtWork DEF WorkingParser, CurrentBar
<1>5. Spread(c, d, q.price)
  BY <1>2, UpdatedSpreads
<1>6. candles' = [candles EXCEPT ![Current] = Put(Bars, CurrentBar, d)] /\ PeriodDone
  BY DEF UpdateBar
<1> HIDE DEF d, p, q
<1>7. \E old \in {qs, Append(qs, q)} : Summary(Bars, old, p)
  BY <1>3
<1>8. Summary(Put(Bars, CurrentBar, d), Append(qs, q), p)
  BY <1>2, <1>4, <1>5, <1>7, SummaryUpdate
<1> QED BY <1>1, <1>3, <1>6, <1>8, HandledSummary DEF p

LEMMA CloseBarSummary == ASSUME OrderInv, SummaryInv, CloseBar PROVE SummaryInv'
<1>1. /\ parser' = [parser EXCEPT !.at = "new_bar"] /\ parser.at \in {"period", "new_bar"}
      /\ UNCHANGED <<candles, seen>>
  BY DEF CloseBar, ParserFrame
<1>2. parser \in WorkingParser /\ parser # Idle
  BY <1>1, ParserAtWork, CurrentPending DEF OrderInv
<1>3. /\ parser'.symbol = parser.symbol /\ parser'.quote = parser.quote
      /\ parser'.periods = parser.periods /\ parser' # Idle
  BY <1>1, <1>2 DEF WorkingParser, Idle
<1>4. \A s \in Series : Pending(s)' <=> Pending(s)
  BY <1>2, <1>3 DEF Pending
<1> QED BY <1>1, <1>3, <1>4 DEF SummaryInv

\* The quote reaches the series of its symbol.
LEMMA ReceiveQuoteSummary == ASSUME OrderInv, SummaryInv, ReceiveQuote PROVE SummaryInv'
<1> DEFINE m == Head(inbox)
           periods == list_subscriptions[m.symbol]
           series == {[symbol |-> m.symbol, period |-> periods[i]] : i \in DOMAIN periods}
<1>1. /\ parser = Idle /\ UNCHANGED candles
      /\ seen' = [s \in Series |-> IF s \in series THEN Append(seen[s], m.quote) ELSE seen[s]]
      /\ IF periods = <<>>
         THEN UNCHANGED parser
         ELSE parser' = [at |-> "period", symbol |-> m.symbol,
                         quote |-> m.quote, periods |-> periods]
  BY DEF ReceiveQuote, Arrived
<1>2. seen \in [Series -> Seq(Quote)]
  BY DEF OrderInv, TypeInv, TypeOK
<1> HIDE DEF m
<1>3. \A s \in Series : Summary(candles[s], seen[s], s.period)
  BY <1>1 DEF SummaryInv, Pending
<1>4. \A s \in Series : Pending(s)' <=> s \in series
  <2>1. CASE periods = <<>>
    <3>1. series = {} /\ parser' = Idle
      BY <1>1, <2>1
    <3> QED BY <3>1 DEF Pending
  <2>2. CASE periods # <<>>
    <3>1. /\ parser'.symbol = m.symbol /\ parser'.periods = periods
          /\ parser'.at = "period"
      BY <1>1, <2>2
    <3>2. parser' # Idle
      BY <3>1 DEF Idle
    <3> HIDE DEF periods
    <3>3. \A s \in Series : s \in series <=>
             s.symbol = m.symbol /\ \E i \in DOMAIN periods : periods[i] = s.period
      BY DEF Series
    <3> QED BY <3>1, <3>2, <3>3 DEF Pending
  <2> QED BY <2>1, <2>2
<1>5. \A s \in Series : s \in series => parser'.quote = m.quote
  <2>1. periods = <<>> => series = {}
    OBVIOUS
  <2> QED BY <1>1, <2>1
<1> HIDE DEF periods, series
<1>6. \A s \in Series : s \in series =>
          seen[s] \in Seq(Quote) /\ seen'[s] = Append(seen[s], parser'.quote)
  BY <1>1, <1>2, <1>5
<1>7. \A s \in Series : s \notin series => seen'[s] = seen[s]
  BY <1>1
<1> QED BY <1>1, <1>3, <1>4, <1>6, <1>7 DEF SummaryInv

\* All other steps leave the parser, the bars and what was seen alone.
LEMMA SummaryStep == ASSUME OrderInv, SummaryInv, [Next]_vars PROVE SummaryInv'
<1>1. CASE OpenBar
  BY <1>1, OpenBarSummary
<1>2. CASE UpdateBar
  BY <1>2, UpdateBarSummary
<1>3. CASE CloseBar
  BY <1>3, CloseBarSummary
<1>4. CASE ReceiveQuote
  BY <1>4, ReceiveQuoteSummary
<1>5. CASE UNCHANGED <<candles, seen, parser>>
  BY <1>5 DEF SummaryInv, Pending
<1>6. ReceiveOther => UNCHANGED <<candles, seen, parser>>
  BY DEF ReceiveOther
<1>7. Open \/ Close => UNCHANGED <<candles, seen, parser>>
  BY DEF Open, Close, streamVars
<1>8. \A s \in Series : AddCandlesStream(s) => UNCHANGED <<candles, seen, parser>>
  BY DEF AddCandlesStream, streamVars
<1>9. \A s \in Symbol : Subscribe(s) \/ Unsubscribe(s) \/ SendQuote(s)
                           => UNCHANGED <<candles, seen, parser>>
  BY DEF Subscribe, Unsubscribe, SendQuote, streamVars
<1>10. UNCHANGED vars => UNCHANGED <<candles, seen, parser>>
  BY DEF vars, streamVars
<1> QED BY <1>1, <1>2, <1>3, <1>4, <1>5, <1>6, <1>7, <1>8, <1>9, <1>10 DEF Next, Parser

LEMMA SummaryInit == ASSUME Init PROVE SummaryInv
<1>1. /\ parser = Idle
      /\ \A s \in Series : candles[s] = <<>> /\ seen[s] = <<>>
  BY DEF Init
<1>2. \A s \in Series : ~Pending(s)
  BY <1>1 DEF Pending
<1>3. \A s \in Series : DOMAIN candles[s] = {} /\ DOMAIN seen[s] = {}
  BY <1>1
<1> QED BY <1>2, <1>3 DEF SummaryInv, Summary

LEMMA SummaryImplies == ASSUME SummaryInv PROVE BarsFollowQuotes
<1> SUFFICES ASSUME parser = Idle, NEW s \in Series
             PROVE  /\ \A i \in DOMAIN seen[s] :
                          \E b \in DOMAIN candles[s] : i \in QuotesIn(s, b)
                    /\ \A b \in DOMAIN candles[s] :
                          LET c == candles[s][b]
                              I == QuotesIn(s, b)
                          IN  /\ \E i \in I : c.open = PriceOf(s, i) /\ \A j \in I : i =< j
                              /\ \E i \in I : c.close = PriceOf(s, i) /\ \A j \in I : j =< i
                              /\ \E i \in I : c.high = PriceOf(s, i)
                              /\ \E i \in I : c.low = PriceOf(s, i)
                              /\ \A i \in I : PriceOf(s, i) \in c.low .. c.high
  BY DEF BarsFollowQuotes
<1>1. Summary(candles[s], seen[s], s.period)
  BY DEF SummaryInv, Pending
<1>2. \A b : QuotesIn(s, b) = In(seen[s], b, s.period)
  BY DEF QuotesIn, In
<1> QED BY <1>1, <1>2 DEF Summary, SumsUp, PriceOf

\* Whenever no message is being handled, the bars of every series are the
\* summary of the quotes that reached it: each quote lies in one bar, which opens
\* with the first of its quotes, closes with the last and spans them all, however
\* often a period was added, and over lost connections.
THEOREM BarsFollowQuotesAlways == Spec => []BarsFollowQuotes
<1>1. Init => SummaryInv
  BY SummaryInit
<1>2. OrderInv /\ SummaryInv /\ [Next]_vars => SummaryInv'
  BY SummaryStep
<1>3. SummaryInv => BarsFollowQuotes
  BY SummaryImplies
<1> QED BY <1>1, <1>2, <1>3, OrderInvariant, PTL DEF Spec

-----------------------------------------------------------------------------
(***************************************************************************)
(* The thread and the application around Candles.  A handler that starts   *)
(* or ends a connection, or fails to, finds the flags as Candles expects   *)
(* them, because they follow the thread.                                   *)
(***************************************************************************)
LifeInv ==
    /\ TypeInv
    /\ LifeTypeOK
    /\ app \in {"stop", "join", "done"} => is_close_connection

LEMMA LifeInitInv == ASSUME LifeInit PROVE LifeInv
<1>1. TypeInv
  BY TypeInit DEF LifeInit
<1> QED BY <1>1 DEF LifeInit, LifeInv, LifeTypeOK, Init

\* While there is no connection the flags are down.
LEMMA FlagsDown ==
    ASSUME LifeInv,
           thread \in {"none", "loop", "made", "connecting", "closing"}
    PROVE  is_open = FALSE /\ is_websocket_init = FALSE
  BY DEF LifeInv, TypeInv, TypeOK, LifeTypeOK

\* wait() has seen a connection or an error, and neither goes without a trace.
WaitHasCause == app = "answer" => is_open \/ is_error \/ thread = "closing"

LEMMA LifeStepIsStep == ASSUME LifeInv, [LifeNext]_allVars PROVE [Next]_vars
<1>1. CASE MakeFails \/ ConnectFails
  <2>1. UNCHANGED <<is_open, is_websocket_init>>
    BY <1>1, FlagsDown DEF MakeFails, ConnectFails, Goes, connVars
  <2> QED BY <1>1, <2>1 DEF MakeFails, ConnectFails, vars, streamVars, connVars, worldVars
<1>2. CASE OnMessage
  BY <1>2 DEF OnMessage, Next, Parser
<1>3. CASE OnOpen \/ OnClose \/ Subscriptions \/ BrokerQuotes
  BY <1>3 DEF OnOpen, OnClose, Subscriptions, BrokerQuotes, Next
<1>4. CASE Loop \/ Connect \/ RaiseError \/ ClientStops \/ Returned
  BY <1>4 DEF Loop, Connect, RaiseError, ClientStops, Returned
<1>5. CASE Waiting \/ Destroying \/ Start \/ Wait \/ ClearError \/ Destroy
  BY <1>5 DEF Waiting, WaitLoop, WaitSleep, WaitTimeout, WaitReturns, Destroying,
     DestroyStops, DestroyJoins, Start, Wait, ClearError, Destroy
<1>6. CASE UNCHANGED allVars
  BY <1>6 DEF allVars
<1> QED BY <1>1, <1>2, <1>3, <1>4, <1>5, <1>6 DEF LifeNext, ClientThread, Network

LEMMA LifeStepInv == ASSUME LifeInv, [LifeNext]_allVars PROVE LifeInv'
<1> USE DEF LifeInv, LifeTypeOK
<1>1. TypeInv'
  BY LifeStepIsStep, TypeStep
<1>2. {is_open', is_websocket_init'} \subseteq BOOLEAN
  BY <1>1 DEF TypeInv, TypeOK
<1>3. CASE MakeFails \/ ConnectFails
  <2>1. is_open' = FALSE /\ is_websocket_init' = FALSE
    BY <1>3, FlagsDown DEF MakeFails, ConnectFails, Goes, connVars
  <2>2. troubles' \in Nat
    BY <1>3 DEF MakeFails, ConnectFails, Trouble
  <2>3. /\ thread' \in {"returned", "closing"}
        /\ is_error' \in BOOLEAN
        /\ UNCHANGED <<is_close_connection, app, answer>>
    BY <1>3 DEF MakeFails, ConnectFails, Goes, appVars, flagVars
  <2> QED BY <1>1, <2>1, <2>2, <2>3
<1>4. CASE OnMessage
  <2>1. UNCHANGED is_open
    BY <1>4 DEF OnMessage, ReceiveOther, ReceiveQuote, CloseBar, OpenBar, UpdateBar,
       ParserFrame, connVars
  <2> QED BY <1>1, <1>4, <2>1 DEF OnMessage, lifeVars, flagVars, appVars
<1>5. CASE OnOpen \/ OnClose
  <2>1. OnOpen => is_open' = TRUE
    BY DEF OnOpen, Open
  <2>2. OnClose => is_open' = FALSE /\ is_websocket_init' = FALSE
    BY DEF OnClose, Close
  <2> QED BY <1>1, <1>5, <2>1, <2>2 DEF OnOpen, OnClose, Goes, appVars, flagVars
<1>6. CASE Subscriptions \/ BrokerQuotes
  <2>1. UNCHANGED <<is_open, is_websocket_init>>
    BY <1>6 DEF Subscriptions, BrokerQuotes, AddCandlesStream, Subscribe, Unsubscribe,
       SendQuote, connVars, streamVars
  <2> QED BY <1>1, <1>6, <2>1 DEF Subscriptions, BrokerQuotes, lifeVars, flagVars, appVars
<1>7. CASE Loop \/ Connect \/ RaiseError \/ ClientStops \/ Returned \/ Start
  <2>1. UNCHANGED <<is_open, is_websocket_init, is_close_connection, app, answer, troubles>>
    BY <1>7 DEF Loop, Connect, RaiseError, ClientStops, Returned, Start, vars, streamVars,
       connVars, flagVars, appVars
  <2> QED BY <1>1, <1>7, <2>1 DEF Loop, Connect, RaiseError, ClientStops, Returned, Start,
          Goes, flagVars
<1>8. CASE Waiting \/ Destroying \/ Wait \/ ClearError \/ Destroy
  <2>1. UNCHANGED <<is_open, is_websocket_init>>
    BY <1>8 DEF Waiting, WaitLoop, WaitSleep, WaitTimeout, WaitReturns, Destroying,
       DestroyStops, DestroyJoins, Wait, ClearError, Destroy, vars, streamVars, connVars
  <2>2. CASE Waiting
    BY <1>1, <2>1, <2>2 DEF Waiting, WaitLoop, WaitSleep, WaitTimeout, WaitReturns, App,
       flagVars
  <2>3. CASE Destroying
    BY <1>1, <2>1, <2>3 DEF Destroying, DestroyStops, DestroyJoins, App, flagVars
  <2>4. CASE Wait \/ ClearError \/ Destroy
    <3>1. troubles' \in Nat
      BY <2>4 DEF Wait, ClearError, Destroy, Trouble
    <3>2. /\ UNCHANGED <<thread, answer>> /\ is_error' \in BOOLEAN
          /\ is_close_connection' \in BOOLEAN
          /\ is_close_connection => is_close_connection'
          /\ app' \in {"idle", "wait", "stop"}
          /\ app' = "stop" => is_close_connection'
      <4>1. CASE Wait
        <5>1. app' = "wait" /\ UNCHANGED <<thread, answer, is_error, is_close_connection>>
          BY <4>1 DEF Wait, App, flagVars
        <5> QED BY <5>1
      <4>2. CASE ClearError
        <5>1. is_error' = TRUE \/ is_error' = FALSE
          BY <4>2 DEF ClearError
        <5>2. app' = "idle" /\ UNCHANGED <<thread, answer, is_close_connection>>
          BY <4>2 DEF ClearError, appVars
        <5> QED BY <5>1, <5>2
      <4>3. CASE Destroy
        BY <4>3 DEF Destroy, App
      <4> QED BY <2>4, <4>1, <4>2, <4>3
    <3> QED BY <1>1, <2>1, <3>1, <3>2
  <2> QED BY <1>8, <2>2, <2>3, <2>4
<1>9. CASE UNCHANGED allVars
  BY <1>1, <1>9 DEF allVars, vars, lifeVars, streamVars, connVars, flagVars, appVars
<1> QED BY <1>3, <1>4, <1>5, <1>6, <1>7, <1>8, <1>9 DEF LifeNext, ClientThread, Network

LEMMA LifeInvariant == LifeSpec => []LifeInv
  BY LifeInitInv, LifeStepInv, PTL DEF LifeSpec

\* The flags that connected(), wait() and the getters read follow the thread, for
\* every value of the constants.
THEOREM FlagsFollowThread == LifeSpec => []LifeTypeOK
<1>1. LifeInv => LifeTypeOK
  BY DEF LifeInv
<1> QED BY <1>1, LifeInvariant, PTL

\* The stream with its thread and its application implements Candles: every
\* theorem about Spec is one about LifeSpec.
THEOREM ImplementsCandlesAlways == LifeSpec => ImplementsCandles
<1>1. LifeInit => Init
  BY DEF LifeInit
<1>2. LifeInv /\ [LifeNext]_allVars => [Next]_vars
  BY LifeStepIsStep
<1> QED BY <1>1, <1>2, LifeInvariant, PTL DEF LifeSpec, ImplementsCandles, Spec
LEMMA WaitCauseStep ==
    ASSUME LifeInv, WaitHasCause, [LifeNext]_allVars
    PROVE  WaitHasCause'
<1> SUFFICES ASSUME app' = "answer"
             PROVE  is_open' = TRUE \/ is_error' = TRUE \/ thread' = "closing"
  BY DEF WaitHasCause
<1>1. is_open \in BOOLEAN /\ is_error \in BOOLEAN
  BY DEF LifeInv, LifeTypeOK, TypeInv, TypeOK
<1>2. app # "answer" => is_error' = TRUE \/ (is_open' = is_open /\ is_open)
                        \/ (is_error' = is_error /\ is_error)
  <2> SUFFICES ASSUME app # "answer"
               PROVE  is_error' = TRUE \/ (is_open' = is_open /\ is_open)
                      \/ (is_error' = is_error /\ is_error)
    OBVIOUS
  <2>1. WaitLoop \/ WaitTimeout
    BY DEF LifeNext, ClientThread, Network, Waiting, Destroying, Loop, MakeFails, Connect,
       RaiseError, ClientStops, Returned, OnMessage, OnOpen, ConnectFails, OnClose,
       WaitLoop, WaitSleep, WaitTimeout, WaitReturns, DestroyStops, DestroyJoins, Start,
       Wait, ClearError, Destroy, Subscriptions, BrokerQuotes, App, lifeVars, allVars,
       appVars
  <2>2. CASE WaitLoop
    BY <2>2 DEF WaitLoop, vars, connVars, flagVars
  <2>3. CASE WaitTimeout
    BY <2>3 DEF WaitTimeout
  <2> QED BY <2>1, <2>2, <2>3
<1>3. CASE app # "answer"
  BY <1>1, <1>2, <1>3
<1>4. CASE app = "answer"
  <2>1. is_open = TRUE \/ is_error = TRUE \/ thread = "closing"
    BY <1>1, <1>4 DEF WaitHasCause
  <2>2. CASE MakeFails \/ RaiseError
    BY <2>2 DEF MakeFails, RaiseError
  <2>3. CASE ConnectFails \/ OnClose
    BY <2>3 DEF ConnectFails, OnClose, Goes
  <2>4. CASE OnOpen
    BY <2>4 DEF OnOpen, Open
  <2>5. CASE OnMessage \/ Subscriptions \/ BrokerQuotes
    <3>1. UNCHANGED <<is_open, is_error, thread>>
      BY <2>5 DEF OnMessage, Subscriptions, BrokerQuotes, ReceiveOther, ReceiveQuote,
         CloseBar, OpenBar, UpdateBar, ParserFrame, AddCandlesStream, Subscribe,
         Unsubscribe, SendQuote, connVars, lifeVars, flagVars
    <3> QED BY <2>1, <3>1
  <2>6. CASE Loop \/ Connect \/ ClientStops \/ Returned \/ Start
    <3>1. UNCHANGED <<is_open, is_error>> /\ thread # "closing"
      BY <2>6 DEF Loop, Connect, ClientStops, Returned, Start, Goes, vars, connVars, flagVars
    <3> QED BY <2>1, <3>1
  <2>7. CASE Waiting \/ Destroying \/ Wait \/ ClearError \/ Destroy
    BY <1>4, <2>7 DEF Waiting, WaitLoop, WaitSleep, WaitTimeout, WaitReturns, Destroying,
       DestroyStops, DestroyJoins, Wait, ClearError, Destroy, App
  <2>8. CASE UNCHANGED allVars
    BY <2>1, <2>8 DEF allVars, vars, lifeVars, connVars, flagVars
  <2> QED BY <2>2, <2>3, <2>4, <2>5, <2>6, <2>7, <2>8 DEF LifeNext, ClientThread, Network
<1> QED BY <1>3, <1>4

\* wait() answers false only when there was an error, or when on_close is about to
\* note one, whatever the thread does between its two looks at the flags.
THEOREM WaitFailsOnErrorAlways == LifeSpec => WaitFailsOnError
<1>1. LifeInit => WaitHasCause
  BY DEF LifeInit, WaitHasCause
<1>2. LifeInv /\ WaitHasCause /\ [LifeNext]_allVars => WaitHasCause'
  BY WaitCauseStep
<1>3. WaitHasCause /\ [LifeNext]_allVars
        => [app = "answer" /\ answer' = "failed" /\ app' # app
              => is_error \/ thread = "closing"]_allVars
  <2> SUFFICES ASSUME WaitHasCause, LifeNext, app = "answer", answer' = "failed", app' # app
               PROVE  is_error \/ thread = "closing"
    OBVIOUS
  <2>1. WaitReturns
    BY DEF LifeNext, ClientThread, Network, Waiting, Destroying, Loop, MakeFails, Connect,
       RaiseError, ClientStops, Returned, OnMessage, OnOpen, ConnectFails, OnClose,
       WaitLoop, WaitSleep, WaitTimeout, WaitReturns, DestroyStops, DestroyJoins, Start,
       Wait, ClearError, Destroy, Subscriptions, BrokerQuotes, App, lifeVars, appVars
  <2> QED BY <2>1 DEF WaitReturns, WaitHasCause
<1> QED BY <1>1, <1>2, <1>3, LifeInvariant, PTL DEF LifeSpec, WaitFailsOnError
=============================================================================
