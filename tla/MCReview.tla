------------------------------ MODULE MCReview ------------------------------
(***************************************************************************)
(* ReviewParts for TLC: fills of two symbols; candles of a symbol the      *)
(* exchange has and of one only a file has; three loads to replay; a board *)
(* of two bubbles and three trades on a candle; seven candles with         *)
(* markers; a day of two items and one of one; three days; two summaries;  *)
(* a venue or two, and a portfolio of which one venue has trades.          *)
(***************************************************************************)
EXTENDS ReviewParts, Sequences, FiniteSets

CONSTANTS
    btc, eth, aapl, csv, binance, upbit, q1, q2, partial, every, closed, none

BtcAndEth == {btc, eth}
BtcAndAapl == {btc, aapl}
OnlyBtc == {btc}
DayAndHour == {"1d", "1h"}

\* The replay: the candles a chart may load.
Range(a, b) == [from |-> a, to |-> b]
ThreeLoads == {Range(2, 5), Range(1, 5), Range(3, 8)}
NoCandles == Range(5, 4)
OneOrTwo == {1, 2}

\* The board: two bubbles and two trades of one market on a candle, one of the trades
\* spelled otherwise, and a trade of another market.
TwoMarkets == {"KRW-BTC", "ETHUSDT"}
OneCandle == {1}
Bubble(i, a) == [id |-> i, symbol |-> "KRW-BTC", candle |-> 1, action |-> a]
TwoBubbles == {Bubble(1, "BUY"), Bubble(2, "SELL")}
Trade(i, s, w) == [id |-> i, symbol |-> s, spelling |-> w, candle |-> 1]
ThreeTrades ==
    {Trade(1, "KRW-BTC", "KRW-BTC"), Trade(2, "KRW-BTC", "BTCKRW"), Trade(3, "ETHUSDT", "ETHUSDT")}
OnePosition == {[id |-> 1, symbol |-> "KRW-BTC", candle |-> 1]}
BuyAndSell == {"BUY", "SELL"}

\* The markers: the width of one by mode.
Pixels ==
    [m \in {"smart", "recent", "daily", "weekly", "monthly", "all"} |->
        CASE m = "all" -> 10 [] m = "recent" -> 12 [] OTHER -> 14]

\* The guided review: the items of its two days; and the requests over the days.
TwoThenOne == <<2, 1>>
TwoRequests == {q1, q2}

\* The statistics.
OneVenue == {binance}
TwoVenues == {binance, upbit}

\* The portfolio: one venue has trades, both have events once they are made, and the
\* narrower status leaves no positions of either.
Held == {every, upbit}
EveryAndClosed == {every, closed}
FiltersHeld == [venue : Held, status : EveryAndClosed, trades : BOOLEAN]
PositionsHeld ==
    [f \in FiltersHeld |-> IF ~ f.trades \/ f.status = closed THEN 0 ELSE IF f.venue = every THEN 2 ELSE 1]
PagesHeld == [f \in FiltersHeld |-> IF ~ f.trades THEN 0 ELSE IF f.venue = every THEN 2 ELSE 1]
TradesHeld == [v \in Held |-> IF v = every THEN 3 ELSE 0]
FillsHeld == [f \in FiltersHeld |-> IF f.venue = every /\ f.status = every THEN 2 ELSE 0]

\* Bounds.
Bounded ==
    /\ part = "labels" =>      \* one word of the exchange, on the first fill
         \A i \in 2 .. Len(fills) : fills[i].word = Labels!NoWord
    /\ part = "board" => Cardinality(fetches) <= 2    \* requests for trades
    /\ part = "fetches" => Cardinality(wire) <= 6     \* requests of the store
=============================================================================
