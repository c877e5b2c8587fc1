------------------------------- MODULE ChartBoard -------------------------------
(***************************************************************************)
(* Bubbles, trades and positions on the chart screen                       *)
(* (components-old/Chart.tsx): the screen gathers what belongs to the      *)
(* selected symbol, places it on the candles after a short timer, and      *)
(* lists it in a panel with a summary and the details of a marker.         *)
(*                                                                         *)
(* A bubble, trade or position is a record with the symbol and candle it   *)
(* belongs to; a trade also has the spelling its exchange uses (BTCKRW and *)
(* KRW-BTC are one market).  The bubbles are the store's (BubbleStore):    *)
(* here they change by themselves.  MaxEvents bounds what changes the data *)
(* or the symbol; PageSize is the panel's twelve.                          *)
(***************************************************************************)
EXTENDS Naturals, FiniteSets

CONSTANTS
    Symbols, Candles,
    Bubbles,        \* [id, symbol, candle, action]
    Trades,         \* [id, symbol, spelling, candle]
    Positions,      \* [id, symbol, candle]
    Actions, All,   \* the filter of the summary
    Nothing,
    PageSize, MaxEvents

DataAssumption ==
    /\ \A b \in Bubbles : b.symbol \in Symbols /\ b.candle \in Candles /\ b.action \in Actions
    /\ \A t \in Trades : t.symbol \in Symbols /\ t.candle \in Candles
    /\ \A p \in Positions : p.symbol \in Symbols
    /\ All \notin Actions
    /\ IsFiniteSet(Bubbles) /\ IsFiniteSet(Trades)
BoundAssumption == PageSize \in Nat \ {0} /\ MaxEvents \in Nat

VARIABLES
    served, positions,      \* the server's trades and open positions
    symbol, stored, local,  \* selectedSymbol; the store's bubbles and uploaded trades
    trades, fetches, failed, \* serverTrades, requests for them, did the last one fail
    open,                   \* manualPositions
    candles,                \* has the chart candles
    overlay, due,           \* overlayPositions; a timer that will place them anew
    showBubbles, showTrades,
    tab, filter, summaryPage,
    group, position, bubblePage, tradePage,
    events

data == <<served, positions, stored, local, trades, fetches, failed, open>>
chart == <<candles, overlay, due, showBubbles, showTrades>>
panel == <<tab, filter, summaryPage, group, position, bubblePage, tradePage>>
vars == <<data, symbol, chart, panel, events>>

Group == [candle : Candles, bubbles : SUBSET Bubbles, trades : SUBSET Trades]

TypeOK ==
    /\ served \subseteq Trades /\ positions \subseteq Positions
    /\ symbol \in Symbols /\ stored \subseteq Bubbles /\ local \subseteq Trades
    /\ trades \subseteq Trades /\ failed \in BOOLEAN /\ open \subseteq Positions
    /\ \A f \in fetches : f.symbol \in Symbols /\ f.live \in BOOLEAN
    /\ candles \in BOOLEAN /\ due \in BOOLEAN /\ overlay \subseteq Group
    /\ showBubbles \in BOOLEAN /\ showTrades \in BOOLEAN
    /\ tab \in {"summary", "detail"} /\ filter \in Actions \cup {All}
    /\ group \in Group \cup {Nothing} /\ position \in Positions \cup {Nothing}
    /\ {summaryPage, bubblePage, tradePage} \subseteq Nat \ {0}
    /\ events \in 0 .. MaxEvents

-----------------------------------------------------------------------------
(* What the screen derives *)

\* activeBubbles, activeTrades: under any spelling of the symbol.
Active(items, s) == {i \in items : i.symbol = s}

\* updatePositions: one entry for every candle with something on it.
Placed(bs, ts) ==
    {[candle |-> c, bubbles |-> {b \in bs : b.candle = c}, trades |-> {t \in ts : t.candle = c}] :
        c \in {i.candle : i \in bs \cup ts}}

Filtered(bs, f) == {b \in bs : f \in {All, b.action}}

PagesOf(items) == IF items = {} THEN 1 ELSE (Cardinality(items) + PageSize - 1) \div PageSize

VisibleBubbles(g) == IF showBubbles THEN g.bubbles ELSE {}
VisibleTrades(g) == IF showTrades THEN g.trades ELSE {}

\* The markers that are drawn.
Markers == {g \in overlay : VisibleBubbles(g) # {} \/ VisibleTrades(g) # {}}

\* The positions listed beside the chart.
PositionsShown == {p \in open : p.symbol = symbol}

\* The panel's details.
DetailBubbles == IF group = Nothing THEN {} ELSE group.bubbles
DetailTrades == IF group = Nothing THEN {} ELSE group.trades

-----------------------------------------------------------------------------
(* Effects *)

\* GET /v1/trades for the symbol, spelled like it; for all symbols if there are none.
Sent(s) ==
    LET exact == {t \in served : t.spelling = s} IN IF exact # {} THEN exact ELSE served

\* Trades are asked for anew: the request under way is cancelled.
Fetch(s) == fetches' = {[f EXCEPT !.live = FALSE] : f \in fetches} \cup {[symbol |-> s, live |-> TRUE]}

\* What is active has become bs and ts, the filter f: the summary begins at its first page
\* if its length has changed, and the timer is set if anything has.
Refresh(bs, ts, f) ==
    /\ summaryPage' = IF Cardinality(Filtered(bs, f)) # Cardinality(Filtered(Active(stored, symbol), filter))
                      THEN 1 ELSE summaryPage
    /\ due' = (due \/ <<bs, ts>> # <<Active(stored, symbol), Active(trades \cup local, symbol)>>)

Init ==
    /\ served \in SUBSET Trades /\ positions \in SUBSET Positions
    /\ symbol \in Symbols /\ stored \in SUBSET Bubbles /\ local = {}
    /\ trades = {} /\ failed = FALSE /\ open = {}
    /\ fetches = {[symbol |-> symbol, live |-> TRUE]}
    /\ candles = FALSE /\ overlay = {} /\ due = TRUE
    /\ showBubbles = TRUE /\ showTrades = TRUE
    /\ tab = "summary" /\ filter = All /\ summaryPage = 1
    /\ group = Nothing /\ position = Nothing /\ bubblePage = 1 /\ tradePage = 1
    /\ events = 0

-----------------------------------------------------------------------------
(* Data *)

Event == events < MaxEvents /\ events' = events + 1

SelectSymbol(s) ==
    /\ Event /\ s # symbol /\ symbol' = s
    /\ Fetch(s)
    /\ Refresh(Active(stored, s), Active(trades \cup local, s), filter)
    /\ UNCHANGED <<served, positions, stored, local, trades, failed, open, candles, overlay,
                   showBubbles, showTrades, tab, filter, group, position, bubblePage, tradePage>>

\* The bubbles of the store change; a session that ends empties them and the uploads.
StoreChanges(bs, ts) ==
    /\ Event /\ stored' = bs /\ local' = ts
    /\ Refresh(Active(bs, symbol), Active(trades \cup ts, symbol), filter)
    /\ UNCHANGED <<served, positions, trades, fetches, failed, open, symbol, candles, overlay,
                   showBubbles, showTrades, tab, filter, group, position, bubblePage, tradePage>>

BubblesChange == \E bs \in SUBSET Bubbles : bs # stored /\ StoreChanges(bs, local)
ImportTrades == \E t \in Trades \ local : StoreChanges(stored, local \cup {t})
ResetSessionData == <<stored, local>> # <<{}, {}>> /\ StoreChanges({}, {})

\* A sync or a closed position elsewhere, announced by kifu-portfolio-refresh: trades and
\* positions are asked for again.
PortfolioRefresh ==
    /\ Event
    /\ \E ts \in SUBSET Trades : served \subseteq ts /\ served' = ts
    /\ \E ps \in SUBSET Positions : positions' = ps /\ open' \in {ps, {}}
    /\ Fetch(symbol)
    /\ UNCHANGED <<stored, local, trades, failed, symbol, chart, panel>>

Take(ts) ==
    /\ trades' = ts
    /\ Refresh(Active(stored, symbol), Active(ts \cup local, symbol), filter)

\* Mutant: the answer is taken whether or not its effect was cancelled.
TradesAnsweredAlways(f) ==
    /\ fetches' = fetches \ {f}
    /\ Take(Sent(f.symbol)) /\ failed' = FALSE
    /\ UNCHANGED <<served, positions, stored, local, open, symbol, candles, overlay, showBubbles,
                   showTrades, tab, filter, group, position, bubblePage, tradePage, events>>

TradesAnswered(f) ==
    /\ fetches' = fetches \ {f}
    /\ IF f.live THEN Take(Sent(f.symbol)) /\ failed' = FALSE
                 ELSE UNCHANGED <<trades, failed, due, summaryPage>>
    /\ UNCHANGED <<served, positions, stored, local, open, symbol, candles, overlay, showBubbles,
                   showTrades, tab, filter, group, position, bubblePage, tradePage, events>>

TradesFail(f) ==
    /\ fetches' = fetches \ {f}
    /\ IF f.live THEN Take({}) /\ failed' = TRUE
                 ELSE UNCHANGED <<trades, failed, due, summaryPage>>
    /\ UNCHANGED <<served, positions, stored, local, open, symbol, candles, overlay, showBubbles,
                   showTrades, tab, filter, group, position, bubblePage, tradePage, events>>

\* The chart gets candles, or has none (ChartCandles): the other timer.
CandlesChange ==
    /\ Event /\ candles' = ~ candles /\ due' = TRUE
    /\ UNCHANGED <<data, symbol, overlay, showBubbles, showTrades, panel>>

-----------------------------------------------------------------------------
(* Chart and panel *)

\* updatePositions does nothing on a chart without candles.
UpdatePositions ==
    overlay' = IF candles THEN Placed(Active(stored, symbol), Active(trades \cup local, symbol))
                          ELSE overlay

\* The timer, which every scroll anticipates.
TimerFires ==
    /\ due /\ due' = FALSE /\ UpdatePositions
    /\ UNCHANGED <<data, symbol, candles, showBubbles, showTrades, panel, events>>

ToggleShown(b, t) ==
    /\ showBubbles' = b /\ showTrades' = t
    /\ UNCHANGED <<data, symbol, candles, overlay, due, panel, events>>

ToggleBubbles == ToggleShown(~ showBubbles, showTrades)
ToggleTrades == ToggleShown(showBubbles, ~ showTrades)
TradeFocus == (showBubbles \/ ~ showTrades) /\ ToggleShown(FALSE, TRUE)

\* A marker's group is on the panel: its details, from their first pages.
SelectGroup(g) ==
    /\ group' = g
    /\ tab' = IF g = Nothing THEN tab ELSE "detail"
    /\ bubblePage' = 1 /\ tradePage' = 1
    /\ UNCHANGED <<data, symbol, chart, filter, summaryPage, position, events>>

\* The marker of the group that is selected deselects it.
ClickMarker(g) ==
    IF group # Nothing /\ group.candle = g.candle
    THEN SelectGroup(Nothing)
    ELSE SelectGroup([candle |-> g.candle, bubbles |-> VisibleBubbles(g), trades |-> VisibleTrades(g)])

CloseGroup == tab = "detail" /\ group # Nothing /\ SelectGroup(Nothing)

SelectPosition(p) ==
    /\ position' = p
    /\ tab' = IF p = Nothing THEN tab ELSE "detail"
    /\ UNCHANGED <<data, symbol, chart, filter, summaryPage, group, bubblePage, tradePage, events>>

ClosePosition == tab = "detail" /\ position # Nothing /\ SelectPosition(Nothing)

PickTab(t) ==
    /\ t # tab /\ tab' = t
    /\ UNCHANGED <<data, symbol, chart, filter, summaryPage, group, position, bubblePage,
                   tradePage, events>>

SetFilter(f) ==
    /\ tab = "summary" /\ f # filter /\ filter' = f
    /\ Refresh(Active(stored, symbol), Active(trades \cup local, symbol), f)
    /\ UNCHANGED <<data, symbol, candles, overlay, showBubbles, showTrades, tab, group, position,
                   bubblePage, tradePage, events>>

\* The pagers of the three lists go to any page there is.
TurnSummary ==
    /\ tab = "summary"
    /\ summaryPage' \in 1 .. PagesOf(Filtered(Active(stored, symbol), filter))
    /\ UNCHANGED <<data, symbol, chart, tab, filter, group, position, bubblePage, tradePage, events>>

TurnBubbles ==
    /\ tab = "detail" /\ DetailBubbles # {}
    /\ bubblePage' \in 1 .. PagesOf(DetailBubbles)
    /\ UNCHANGED <<data, symbol, chart, tab, filter, summaryPage, group, position, tradePage, events>>

\* Mutant: the page before the first.
TurnTradesBack ==
    /\ tab = "detail" /\ DetailTrades # {}
    /\ tradePage' \in 0 .. PagesOf(DetailTrades)
    /\ UNCHANGED <<data, symbol, chart, tab, filter, summaryPage, group, position, bubblePage, events>>

TurnTrades ==
    /\ tab = "detail" /\ DetailTrades # {}
    /\ tradePage' \in 1 .. PagesOf(DetailTrades)
    /\ UNCHANGED <<data, symbol, chart, tab, filter, summaryPage, group, position, bubblePage, events>>

Next ==
    \/ \E s \in Symbols : SelectSymbol(s)
    \/ BubblesChange \/ ImportTrades \/ ResetSessionData \/ PortfolioRefresh \/ CandlesChange
    \/ \E f \in fetches : TradesAnswered(f) \/ TradesFail(f)
    \/ TimerFires
    \/ ToggleBubbles \/ ToggleTrades \/ TradeFocus
    \/ \E g \in Markers : ClickMarker(g)
    \/ \E p \in PositionsShown : SelectPosition(p)
    \/ CloseGroup \/ ClosePosition
    \/ \E t \in {"summary", "detail"} : PickTab(t)
    \/ \E f \in Actions \cup {All} : SetFilter(f)
    \/ TurnSummary \/ TurnBubbles \/ TurnTrades

Spec == Init /\ [][Next]_vars

-----------------------------------------------------------------------------
(* Properties *)

\* Whatever changes under the panel, each of its three pagers is on a page there is.
PagesExist ==
    /\ summaryPage \in 1 .. PagesOf(Filtered(Active(stored, symbol), filter))
    /\ bubblePage \in 1 .. PagesOf(DetailBubbles)
    /\ tradePage \in 1 .. PagesOf(DetailTrades)

\* With no timer set, the markers on a chart with candles are exactly those of the symbol's
\* bubbles and trades.
MarkersFit ==
    ~ due /\ candles => overlay = Placed(Active(stored, symbol), Active(trades \cup local, symbol))

\* With no request under way, none of the symbol's trades on the server is missing, unless
\* the last request failed or some of them are spelled like the symbol and some are not.
TradesComplete ==
    (\A f \in fetches : ~ f.live) /\ ~ failed
      => \A t \in Active(served, symbol) :
            \/ t \in trades
            \/ t.spelling # symbol /\ \E u \in served : u.spelling = symbol

\* The panel's pages, the markers and the trades are those of the symbol.
BoardIsSound == PagesExist /\ MarkersFit /\ TradesComplete

=============================================================================
